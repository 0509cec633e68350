SPECIFICATION Spec
CONSTANTS
    owner = owner
    ann = ann
    bob = bob
    c1 = c1
    c2 = c2
    c3 = c3
    c4 = c4
    Users = {owner, ann, bob}
    Owner = owner
    Channels = {c1, c2, c3, c4}
    Nothing = Nothing
    Scenarios <- MCScenarios
CHECK_DEADLOCK FALSE
INVARIANTS
    OnlyTheWilling
    AgentKeepsChannel
PROPERTIES
    EveryAgentBound

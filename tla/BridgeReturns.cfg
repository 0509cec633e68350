SPECIFICATION Spec
CONSTANTS
    Calls = {c1, c2}
    None = None
    ClientOf <- MCClientOf
    ConversationOf <- MCConversationOf
    FaultSets <- MCAll
    MaxLosses = 1
CHECK_DEADLOCK FALSE
PROPERTIES
    EveryAskReturns

SPECIFICATION Spec
CONSTANTS
    r1 = r1
    r2 = r2
    r3 = r3
    r4 = r4
    a1 = a1
    ann = ann
    bob = bob
    Rooms = {r1, r2, r3, r4}
    Aliases = {a1}
    People = {ann, bob}
    Trusted = {ann}
    Nobody = Nobody
    MaxLosses = 1
    Scenarios <- MCScenarios
CHECK_DEADLOCK FALSE
INVARIANTS
    TypeOK
    OnceOrLost
    WordsAsPosted
    
PROPERTIES
    WordsLeave

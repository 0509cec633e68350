SPECIFICATION Spec
CONSTANTS
    Calls = {c1, c2, c3}
    None = None
    ClientOf <- MCClientOf
    ConversationOf <- MCConversationOf
    FaultSets <- MCOrdinary
    MaxLosses = 1
SYMMETRY MCSymmetry
CHECK_DEADLOCK FALSE
INVARIANTS
    TypeOK
    
    

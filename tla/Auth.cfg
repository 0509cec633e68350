SPECIFICATION Spec
CONSTANTS
    Clients = {k1, k2, k3}
    Txns = {x1, x2, x3}
    MaxClients = 2
    MaxPending = 2
    MaxFailures = 2
    PendingTtl = 1
    CodeTtl = 1
    CompletedTtl = 1
    AccessTtl = 1
    RefreshTtl = 2
    ClientTtl = 1
    Lockout = 2
    Limits <- MCLimits
    MaxTime = 4
SYMMETRY MCSymmetry
CHECK_DEADLOCK FALSE
INVARIANTS
    StoreConsistent
    LoginGivesOneSession
    SpentStaysSpent
    GuessesBounded
PROPERTIES
    ParkedSurvives

SPECIFICATION Spec
CONSTANTS
    c1 = c1
    c2 = c2
    c3 = c3
    NoChannel = NoChannel
    None = None
    Request <- MCRequest
    NoKey = NoChannel
    WorkLoads <- MCWorkLoads
SYMMETRY MCSymmetry
CHECK_DEADLOCK FALSE
INVARIANTS
    TypeOK
    AtMostOnce
    ChannelsApart
    AnswersHold
    StartedTainted

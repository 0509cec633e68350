SPECIFICATION Spec
CONSTANTS
    c1 = c1
    c2 = c2
    c3 = c3
    Calls = {c1, c2, c3}
    Scenarios <- MCScenarios
    ShortPatience = 1
    GitHubPatience = 2
    BcpPatience = 3
    ApprovalPatience = 2
    MaxSubmissions = 2
CHECK_DEADLOCK FALSE
INVARIANTS
    TypeOK
    OwnAnswer
    VotesCount
    BcpOutlastsApproval
    SubmissionsKnown
PROPERTIES
    InTimeDecisionCounts
    EveryCallReturns

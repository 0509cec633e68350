SPECIFICATION Spec
CONSTANTS
    Tools <- MCTools
    ToolLabel <- MCToolLabel
    InitLabels <- MCInitLabels
    PromptLabels <- MCInitLabels
    Modes = {"normal", "reflection"}
    CanWrite = TRUE
    Capability = 2
    Ceiling = 1
    InputRisk = 0
    Blanks = {FALSE, TRUE}
    IdleTimeout = TRUE
    MaxPrompts = 1
    MaxBcp = 0
CHECK_DEADLOCK FALSE
INVARIANTS
    IdleSessionExpires
PROPERTIES
    DueEndsCome
    OrphanExits
    FollowsLife

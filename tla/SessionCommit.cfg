SPECIFICATION Spec
CONSTANTS
    Tools <- MCTools
    ToolLabel <- MCToolLabel
    InitLabels <- MCInitLabels
    PromptLabels <- MCInitLabels
    Modes = {"normal"}
    CanWrite = TRUE
    Capability = 1
    Ceiling = 1
    InputRisk = 0
    Blanks = {FALSE}
    IdleTimeout = FALSE
    MaxPrompts = 1
    MaxBcp = 0
CHECK_DEADLOCK FALSE
PROPERTIES
    CommitCoversWrites

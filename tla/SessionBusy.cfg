SPECIFICATION Spec
CONSTANTS
    Tools <- MCTools
    ToolLabel <- MCToolLabel
    InitLabels <- MCInitLabels
    PromptLabels <- MCPromptLabels
    Modes = {"normal"}
    CanWrite = FALSE
    Capability = 1
    Ceiling = 1
    InputRisk = 0
    Blanks = {FALSE}
    IdleTimeout = FALSE
    MaxPrompts = 2
    MaxBcp = 1
CHECK_DEADLOCK FALSE
INVARIANTS
    TypeOK
    
    FifoHandoff
    ContextIsTracked
    RunningIsOwedAnswer

    

SPECIFICATION Spec
CONSTANTS
    c1 = c1
    c2 = c2
    c3 = c3
    NoChannel = NoChannel
    None = None
    Request <- MCTwo
    NoKey = NoChannel
    WorkLoads <- MCPairs
CHECK_DEADLOCK FALSE
PROPERTIES
    AllReturn

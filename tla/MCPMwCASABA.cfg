CONSTANTS
    Threads <- MCThreads3
    Addrs = {1, 2}
    Desc = {1, 2, 3}
    Part <- MCPart3
    Ops <- MCOpsABA
    Reads <- MCNoReads3
    InitVal = 0
    MaxCrashes = 0
    PMEM = TRUE
    RTM = FALSE
SPECIFICATION Spec
PROPERTY Linearizable
CHECK_DEADLOCK FALSE

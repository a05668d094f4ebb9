CONSTANTS
    Threads <- MCThreads3
    Addrs = {1, 2, 3}
    Desc = {1, 2, 3}
    Part <- MCPart3V
    Ops <- MCOpsVolatile
    Reads <- MCNoReads3
    InitVal = 0
    MaxCrashes = 0
    PMEM = FALSE
    RTM = TRUE
SPECIFICATION Spec
INVARIANT NoHelpCycle NoDanglingDescriptor
PROPERTY Linearizable AllOpsComplete
CHECK_DEADLOCK FALSE

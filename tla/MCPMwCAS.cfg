CONSTANTS
    Threads <- MCThreads
    Addrs = {1, 2, 3}
    Desc = {1, 3}
    Part <- MCPart
    Ops <- MCOpsRace
    Reads <- MCReads
    InitVal = 0
    MaxCrashes = 1
    PMEM = TRUE
    RTM = TRUE
SPECIFICATION Spec
INVARIANT TypeOK NoHelpCycle NoDanglingDescriptor RecoverableImage RecoveredClean CleanIsPersistent
PROPERTY Linearizable AllOpsComplete
CHECK_DEADLOCK FALSE

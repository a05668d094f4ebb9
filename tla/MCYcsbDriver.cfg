CONSTANTS
    N = 2
    Load = TRUE
    Ramp = TRUE
    Run = TRUE
    RecordCount = 2
    InsertStart = 0
    RequestDist = "uniform"
    NewKeys = 0
    OpChoices = {"READ"}
    MaxOps = 1
    RampSec = 1
    Seconds = 1
SPECIFICATION Spec
INVARIANT ClientAliveWhenUsed

CONSTANTS
    N = 2
    Load = TRUE
    Ramp = FALSE
    Run = TRUE
    RecordCount = 4
    InsertStart = 0
    RequestDist = "zipfian"
    NewKeys = 1
    OpChoices = {"READ", "INSERT"}
    MaxOps = 2
    RampSec = 1
    Seconds = 1
SPECIFICATION Spec
INVARIANT TransactionKeyInserted

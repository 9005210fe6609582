SPECIFICATION Spec
CONSTANTS
    NoTx = "none"
    ForeignTag = "foreign"
    Parties = {"a", "b"}
    External = "x"
    Request <- OverlapRequests
    Discipline = "sequential"
    MaxInputs = 2
    BalanceLimit = 3
    MaxBatch = 2
    MaxAttempts = 1
    MaxForeign = 0
INVARIANT
    SpentIffNullified
CHECK_DEADLOCK FALSE

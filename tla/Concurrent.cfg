SPECIFICATION Spec
CONSTANTS
    NoTx = "none"
    ForeignTag = "foreign"
    Parties = {"a", "b"}
    External = "x"
    Request <- RaceRequests
    Discipline = "concurrent"
    MaxInputs = 2
    BalanceLimit = 3
    MaxBatch = 2
    MaxAttempts = 1
    MaxForeign = 1
INVARIANTS
    SubmittedIsAccepted
    LoadedRootIsKnown
CHECK_DEADLOCK FALSE

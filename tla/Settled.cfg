SPECIFICATION FairSpec
CONSTANTS
    NoTx = "none"
    ForeignTag = "foreign"
    Parties = {"a", "b"}
    External = "x"
    Request <- ParadeRequests
    Discipline = "settled"
    MaxInputs = 2
    BalanceLimit = 3
    MaxBatch = 2
    MaxAttempts = 2
    MaxForeign = 1
INVARIANTS
    TypeOK
    LeafIndexIsPosition
    AssembledIsProvable
    SpentIffNullified
    BalanceIsHoldings
PROPERTIES
    OwnersAreReached
    RequestsAreAnswered
CHECK_DEADLOCK FALSE

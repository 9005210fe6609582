SPECIFICATION Spec
CONSTANTS
    NoTx = NoTx
    ForeignTag = ForeignTag
    TxIds = {t1}
    Commitments = {c1, c2}
    Nullifiers = {n1}
    TreeCapacity = 4
    ShieldDecoding = {"ok"}
    MaxBatch = 3
    MaxRestarts = 0
INVARIANT
    EveryEventAttributed
CHECK_DEADLOCK FALSE

SPECIFICATION FairSpec
CONSTANTS
    NoTx = NoTx
    ForeignTag = ForeignTag
    TxIds = {t1, t2}
    Commitments = {c1, c2, c3}
    Nullifiers = {n1}
    TreeCapacity = 2
    ShieldDecoding = {"ok", "unhashable"}
    MaxBatch = 3
    MaxRestarts = 1
INVARIANTS
    TypeOK
    LoadedTreeIsContractTree
    CompletionFollowsEffects
    NeverAttributedToAnother
PROPERTIES
    MinedCompletes
    ViewIsReplica
CHECK_DEADLOCK FALSE

SPECIFICATION Spec
CONSTANTS
    MerkleDepth = 3
    Commitments = {c1, c2}
    ZeroValue = zero
INVARIANTS
    RootIsCompleteTree
    ProvesExactlyTheLeafThere
CHECK_DEADLOCK FALSE

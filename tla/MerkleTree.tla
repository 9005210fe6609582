----------------------------- MODULE MerkleTree -----------------------------
(***************************************************************************)
(* The commitment tree as the domain computes it (railgunnote/merkle.go):  *)
(* only the nodes above a leaf are computed, all others are the zero value *)
(* of their level. The other modules take a tree for the sequence of its   *)
(* leaves, its root for the tree and a proof for the leaf being at its     *)
(* position: the properties here are what allows that.                     *)
(*                                                                         *)
(* Poseidon is free: the hash of two nodes is the pair of them.            *)
(***************************************************************************)
EXTENDS Integers, Sequences

CONSTANTS
    MerkleDepth,    \* 16 in the code
    Commitments,    \* what may be inserted
    ZeroValue       \* the leaf of an empty position

ASSUME MerkleTreeAssumption ==
    /\ MerkleDepth \in Nat \ {0}
    /\ ZeroValue \notin Commitments

VARIABLE leaves

Hash(left, right) == <<left, right>>

(* The zero value of each level.                                           *)
Zeros ==
    LET zeros[lvl \in 0 .. MerkleDepth] ==
            IF lvl = 0 THEN ZeroValue ELSE Hash(zeros[lvl - 1], zeros[lvl - 1])
    IN  zeros

NodeFrom_BottomZero(level, lvl, idx) ==      \* bug: the zero value of the leaves
    IF idx \in DOMAIN level THEN level[idx] ELSE Zeros[0]
NodeFrom(level, lvl, idx) ==
    IF idx \in DOMAIN level THEN level[idx] ELSE Zeros[lvl]

(* The occupied nodes, level by level: a function from their indexes.      *)
Build(tree) ==
    LET levels[lvl \in 0 .. MerkleDepth] ==
            IF lvl = 0
            THEN [i \in 0 .. Len(tree) - 1 |-> tree[i + 1]]
            ELSE [p \in {i \div 2 : i \in DOMAIN levels[lvl - 1]} |->
                    Hash(NodeFrom(levels[lvl - 1], lvl - 1, 2 * p),
                         NodeFrom(levels[lvl - 1], lvl - 1, 2 * p + 1))]
    IN  levels

Root(tree) ==
    IF tree = <<>> THEN Zeros[MerkleDepth]
    ELSE NodeFrom(Build(tree)[MerkleDepth], MerkleDepth, 0)

(* The index, on each level, of the node above a position.                 *)
IndexAbove(leafIndex) ==
    LET idx[lvl \in 0 .. MerkleDepth] == IF lvl = 0 THEN leafIndex ELSE idx[lvl - 1] \div 2
    IN  idx

Sibling_Next(idx) == idx + 1                 \* bug: always the right neighbour
Sibling(idx) == IF idx % 2 = 0 THEN idx + 1 ELSE idx - 1

(* The siblings on the way from a position to the root, lowest first. The  *)
(* position need not be occupied: a note's index is only a prediction.     *)
Proof(tree, leafIndex) ==
    [k \in 1 .. MerkleDepth |->
        NodeFrom(Build(tree)[k - 1], k - 1, Sibling(IndexAbove(leafIndex)[k - 1]))]

(* The nodes above a leaf at a position, if these are its siblings; the    *)
(* last one is what the circuit compares with the root.                    *)
PathNodes(leaf, leafIndex, path) ==
    LET cur[k \in 0 .. MerkleDepth] ==
            IF k = 0 THEN leaf
            ELSE IF IndexAbove(leafIndex)[k - 1] % 2 = 0
                 THEN Hash(cur[k - 1], path[k]) ELSE Hash(path[k], cur[k - 1])
    IN  cur

VerifyProof(leaf, leafIndex, path) == PathNodes(leaf, leafIndex, path)[MerkleDepth]

-----------------------------------------------------------------------------
(* 2 ^ n, as a recursive function because the provers do not know ^.       *)
PowersOfTwo ==
    LET power[n \in 0 .. MerkleDepth] == IF n = 0 THEN 1 ELSE 2 * power[n - 1]
    IN  power
Capacity == PowersOfTwo[MerkleDepth]

(* loadTree inserts one leaf after the other. The contract begins another  *)
(* tree when this one is full.                                             *)
Insert(commitment) ==
    /\ Len(leaves) < Capacity
    /\ leaves' = Append(leaves, commitment)

Init == leaves = <<>>
Next == \E c \in Commitments : Insert(c)
Spec == Init /\ [][Next]_leaves

-----------------------------------------------------------------------------
(* Properties *)

Positions == 0 .. Capacity - 1
LeafAt(tree, i) == IF i < Len(tree) THEN tree[i + 1] ELSE ZeroValue

(* The reference: every position of the complete tree, empty or not.       *)
CompleteLevels(tree) ==
    LET node[lvl \in 0 .. MerkleDepth] ==
            IF lvl = 0
            THEN [i \in Positions |-> LeafAt(tree, i)]
            ELSE [i \in 0 .. PowersOfTwo[MerkleDepth - lvl] - 1 |->
                    Hash(node[lvl - 1][2 * i], node[lvl - 1][2 * i + 1])]
    IN  node
CompleteTree(tree) == CompleteLevels(tree)[MerkleDepth][0]

(* merkle.go: the tree mirrors the contract's accumulator, where empty     *)
(* positions count with the zero value: leaving them out of the            *)
(* computation does not change the root. The hash being free, a root is of *)
(* one filling of the positions only: a contract that knows the root of a  *)
(* transaction once had all the leaves its node had.                       *)
RootIsCompleteTree == Root(leaves) = CompleteTree(leaves)

(* The siblings of a position lead a leaf to the root exactly when it is   *)
(* the leaf there: an input whose predicted index was wrong cannot be      *)
(* proved, and one whose index is right always can.                        *)
ProvesExactlyTheLeafThere ==
    \A i \in Positions, leaf \in Commitments \cup {ZeroValue} :
        VerifyProof(leaf, i, Proof(leaves, i)) = Root(leaves) <=> leaf = LeafAt(leaves, i)

=============================================================================

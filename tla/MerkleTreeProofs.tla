--------------------------- MODULE MerkleTreeProofs ---------------------------
(***************************************************************************)
(* Theorems about MerkleTree, for every depth, any commitments and any     *)
(* number of leaves a tree has room for.                                   *)
(***************************************************************************)
EXTENDS MerkleTree, DomainLemmas

-----------------------------------------------------------------------------
(* The recursions define functions: one exists up to level m + 1 if one    *)
(* exists up to level m.                                                   *)

LEMMA ZerosRecursion ==
    /\ Zeros[0] = ZeroValue
    /\ \A k \in 1 .. MerkleDepth :
          Zeros[k] = Hash(Zeros[k - 1], Zeros[k - 1])
<1> DEFINE First == ZeroValue
           Step(prev, k) == Hash(prev, prev)
           Rec(f, m) == f = [k \in 0 .. m |-> IF k = 0 THEN First ELSE Step(f[k - 1], k)]
           D == {m \in 0 .. MerkleDepth : \E f : Rec(f, m)}
<1>0. MerkleDepth \in Nat
    BY MerkleTreeAssumption
<1> HIDE DEF First, Step
<1>1. 0 \in D
    <2> DEFINE f == [k \in 0 .. 0 |-> First]
    <2>1. Rec(f, 0)
        OBVIOUS
    <2> HIDE DEF Rec, f
    <2> QED
        BY <1>0, <2>1
<1>2. ASSUME NEW m \in 0 .. MerkleDepth - 1, m \in D
      PROVE  m + 1 \in D
    <2>1. PICK f : Rec(f, m)
        BY <1>2
    <2> DEFINE g == [k \in 0 .. m + 1 |-> IF k = m + 1 THEN Step(f[m], m + 1) ELSE f[k]]
    <2>2. m \in Nat /\ (m + 1) - 1 = m /\ m + 1 # 0 /\ m + 1 \in 0 .. MerkleDepth
        BY <1>0
    <2>3. ASSUME NEW k \in 0 .. m + 1
          PROVE  g[k] = IF k = 0 THEN First ELSE Step(g[k - 1], k)
        <3>1. CASE k = m + 1
            <4>1. g[m] = f[m]
                BY <2>2
            <4> QED
                BY <2>2, <3>1, <4>1
        <3>2. CASE k # m + 1
            <4>1. k \in 0 .. m /\ (k # 0 => k - 1 \in 0 .. m + 1 /\ k - 1 # m + 1)
                BY <2>2, <3>2
            <4>2. g[k] = f[k] /\ (k # 0 => g[k - 1] = f[k - 1])
                BY <3>2, <4>1
            <4>3. f[k] = IF k = 0 THEN First ELSE Step(f[k - 1], k)
                BY <2>1, <4>1
            <4> QED
                BY <4>2, <4>3
        <3> QED
            BY <3>1, <3>2
    <2>4. Rec(g, m + 1)
        BY <2>3
    <2> HIDE DEF Rec, g
    <2> QED
        BY <2>2, <2>4
<1>3. MerkleDepth \in D
    <2> HIDE DEF D
    <2>1. \A k \in 0 .. MerkleDepth : k \in D
        BY <1>0, <1>1, <1>2, UpTo
    <2> QED
        BY <1>0, <2>1
<1>4. PICK f : Rec(f, MerkleDepth)
    BY <1>3
<1>5. Rec(Zeros, MerkleDepth)
    BY <1>4 DEF Zeros, First, Step
<1> HIDE DEF Rec
<1>6. ASSUME NEW F, Rec(F, MerkleDepth)
      PROVE  F[0] = First /\ \A k \in 1 .. MerkleDepth : F[k] = Step(F[k - 1], k)
    <2>1. \A k \in 0 .. MerkleDepth : F[k] = IF k = 0 THEN First ELSE Step(F[k - 1], k)
        BY <1>6 DEF Rec
    <2> QED
        BY <1>0, <2>1
<1>7. Zeros[0] = First /\ \A k \in 1 .. MerkleDepth : Zeros[k] = Step(Zeros[k - 1], k)
    BY <1>5, <1>6
<1> QED
    BY <1>7 DEF First, Step

LEMMA PowersOfTwoRecursion ==
    /\ PowersOfTwo[0] = 1
    /\ \A k \in 1 .. MerkleDepth :
          PowersOfTwo[k] = 2 * PowersOfTwo[k - 1]
<1> DEFINE First == 1
           Step(prev, k) == 2 * prev
           Rec(f, m) == f = [k \in 0 .. m |-> IF k = 0 THEN First ELSE Step(f[k - 1], k)]
           D == {m \in 0 .. MerkleDepth : \E f : Rec(f, m)}
<1>0. MerkleDepth \in Nat
    BY MerkleTreeAssumption
<1> HIDE DEF First, Step
<1>1. 0 \in D
    <2> DEFINE f == [k \in 0 .. 0 |-> First]
    <2>1. Rec(f, 0)
        OBVIOUS
    <2> HIDE DEF Rec, f
    <2> QED
        BY <1>0, <2>1
<1>2. ASSUME NEW m \in 0 .. MerkleDepth - 1, m \in D
      PROVE  m + 1 \in D
    <2>1. PICK f : Rec(f, m)
        BY <1>2
    <2> DEFINE g == [k \in 0 .. m + 1 |-> IF k = m + 1 THEN Step(f[m], m + 1) ELSE f[k]]
    <2>2. m \in Nat /\ (m + 1) - 1 = m /\ m + 1 # 0 /\ m + 1 \in 0 .. MerkleDepth
        BY <1>0
    <2>3. ASSUME NEW k \in 0 .. m + 1
          PROVE  g[k] = IF k = 0 THEN First ELSE Step(g[k - 1], k)
        <3>1. CASE k = m + 1
            <4>1. g[m] = f[m]
                BY <2>2
            <4> QED
                BY <2>2, <3>1, <4>1
        <3>2. CASE k # m + 1
            <4>1. k \in 0 .. m /\ (k # 0 => k - 1 \in 0 .. m + 1 /\ k - 1 # m + 1)
                BY <2>2, <3>2
            <4>2. g[k] = f[k] /\ (k # 0 => g[k - 1] = f[k - 1])
                BY <3>2, <4>1
            <4>3. f[k] = IF k = 0 THEN First ELSE Step(f[k - 1], k)
                BY <2>1, <4>1
            <4> QED
                BY <4>2, <4>3
        <3> QED
            BY <3>1, <3>2
    <2>4. Rec(g, m + 1)
        BY <2>3
    <2> HIDE DEF Rec, g
    <2> QED
        BY <2>2, <2>4
<1>3. MerkleDepth \in D
    <2> HIDE DEF D
    <2>1. \A k \in 0 .. MerkleDepth : k \in D
        BY <1>0, <1>1, <1>2, UpTo
    <2> QED
        BY <1>0, <2>1
<1>4. PICK f : Rec(f, MerkleDepth)
    BY <1>3
<1>5. Rec(PowersOfTwo, MerkleDepth)
    BY <1>4 DEF PowersOfTwo, First, Step
<1> HIDE DEF Rec
<1>6. ASSUME NEW F, Rec(F, MerkleDepth)
      PROVE  F[0] = First /\ \A k \in 1 .. MerkleDepth : F[k] = Step(F[k - 1], k)
    <2>1. \A k \in 0 .. MerkleDepth : F[k] = IF k = 0 THEN First ELSE Step(F[k - 1], k)
        BY <1>6 DEF Rec
    <2> QED
        BY <1>0, <2>1
<1>7. PowersOfTwo[0] = First /\ \A k \in 1 .. MerkleDepth : PowersOfTwo[k] = Step(PowersOfTwo[k - 1], k)
    BY <1>5, <1>6
<1> QED
    BY <1>7 DEF First, Step

LEMMA IndexAboveRecursion ==
    ASSUME NEW leafIndex
    PROVE  /\ IndexAbove(leafIndex)[0] = leafIndex
           /\ \A k \in 1 .. MerkleDepth :
                 IndexAbove(leafIndex)[k] = IndexAbove(leafIndex)[k - 1] \div 2
<1> DEFINE First == leafIndex
           Step(prev, k) == prev \div 2
           Rec(f, m) == f = [k \in 0 .. m |-> IF k = 0 THEN First ELSE Step(f[k - 1], k)]
           D == {m \in 0 .. MerkleDepth : \E f : Rec(f, m)}
<1>0. MerkleDepth \in Nat
    BY MerkleTreeAssumption
<1> HIDE DEF First, Step
<1>1. 0 \in D
    <2> DEFINE f == [k \in 0 .. 0 |-> First]
    <2>1. Rec(f, 0)
        OBVIOUS
    <2> HIDE DEF Rec, f
    <2> QED
        BY <1>0, <2>1
<1>2. ASSUME NEW m \in 0 .. MerkleDepth - 1, m \in D
      PROVE  m + 1 \in D
    <2>1. PICK f : Rec(f, m)
        BY <1>2
    <2> DEFINE g == [k \in 0 .. m + 1 |-> IF k = m + 1 THEN Step(f[m], m + 1) ELSE f[k]]
    <2>2. m \in Nat /\ (m + 1) - 1 = m /\ m + 1 # 0 /\ m + 1 \in 0 .. MerkleDepth
        BY <1>0
    <2>3. ASSUME NEW k \in 0 .. m + 1
          PROVE  g[k] = IF k = 0 THEN First ELSE Step(g[k - 1], k)
        <3>1. CASE k = m + 1
            <4>1. g[m] = f[m]
                BY <2>2
            <4> QED
                BY <2>2, <3>1, <4>1
        <3>2. CASE k # m + 1
            <4>1. k \in 0 .. m /\ (k # 0 => k - 1 \in 0 .. m + 1 /\ k - 1 # m + 1)
                BY <2>2, <3>2
            <4>2. g[k] = f[k] /\ (k # 0 => g[k - 1] = f[k - 1])
                BY <3>2, <4>1
            <4>3. f[k] = IF k = 0 THEN First ELSE Step(f[k - 1], k)
                BY <2>1, <4>1
            <4> QED
                BY <4>2, <4>3
        <3> QED
            BY <3>1, <3>2
    <2>4. Rec(g, m + 1)
        BY <2>3
    <2> HIDE DEF Rec, g
    <2> QED
        BY <2>2, <2>4
<1>3. MerkleDepth \in D
    <2> HIDE DEF D
    <2>1. \A k \in 0 .. MerkleDepth : k \in D
        BY <1>0, <1>1, <1>2, UpTo
    <2> QED
        BY <1>0, <2>1
<1>4. PICK f : Rec(f, MerkleDepth)
    BY <1>3
<1>5. Rec(IndexAbove(leafIndex), MerkleDepth)
    BY <1>4 DEF IndexAbove, First, Step
<1> HIDE DEF Rec
<1>6. ASSUME NEW F, Rec(F, MerkleDepth)
      PROVE  F[0] = First /\ \A k \in 1 .. MerkleDepth : F[k] = Step(F[k - 1], k)
    <2>1. \A k \in 0 .. MerkleDepth : F[k] = IF k = 0 THEN First ELSE Step(F[k - 1], k)
        BY <1>6 DEF Rec
    <2> QED
        BY <1>0, <2>1
<1>7. IndexAbove(leafIndex)[0] = First /\ \A k \in 1 .. MerkleDepth : IndexAbove(leafIndex)[k] = Step(IndexAbove(leafIndex)[k - 1], k)
    BY <1>5, <1>6
<1> QED
    BY <1>7 DEF First, Step

LEMMA BuildRecursion ==
    ASSUME NEW tree
    PROVE  /\ Build(tree)[0] = [i \in 0 .. Len(tree) - 1 |-> tree[i + 1]]
           /\ \A k \in 1 .. MerkleDepth :
                 Build(tree)[k] = [p \in {i \div 2 : i \in DOMAIN Build(tree)[k - 1]} |->
                                         Hash(NodeFrom(Build(tree)[k - 1], k - 1, 2 * p),
                                              NodeFrom(Build(tree)[k - 1], k - 1, 2 * p + 1))]
<1> DEFINE First == [i \in 0 .. Len(tree) - 1 |-> tree[i + 1]]
           Step(prev, k) == [p \in {i \div 2 : i \in DOMAIN prev} |->
                                  Hash(NodeFrom(prev, k - 1, 2 * p),
                                       NodeFrom(prev, k - 1, 2 * p + 1))]
           Rec(f, m) == f = [k \in 0 .. m |-> IF k = 0 THEN First ELSE Step(f[k - 1], k)]
           D == {m \in 0 .. MerkleDepth : \E f : Rec(f, m)}
<1>0. MerkleDepth \in Nat
    BY MerkleTreeAssumption
<1> HIDE DEF First, Step
<1>1. 0 \in D
    <2> DEFINE f == [k \in 0 .. 0 |-> First]
    <2>1. Rec(f, 0)
        OBVIOUS
    <2> HIDE DEF Rec, f
    <2> QED
        BY <1>0, <2>1
<1>2. ASSUME NEW m \in 0 .. MerkleDepth - 1, m \in D
      PROVE  m + 1 \in D
    <2>1. PICK f : Rec(f, m)
        BY <1>2
    <2> DEFINE g == [k \in 0 .. m + 1 |-> IF k = m + 1 THEN Step(f[m], m + 1) ELSE f[k]]
    <2>2. m \in Nat /\ (m + 1) - 1 = m /\ m + 1 # 0 /\ m + 1 \in 0 .. MerkleDepth
        BY <1>0
    <2>3. ASSUME NEW k \in 0 .. m + 1
          PROVE  g[k] = IF k = 0 THEN First ELSE Step(g[k - 1], k)
        <3>1. CASE k = m + 1
            <4>1. g[m] = f[m]
                BY <2>2
            <4> QED
                BY <2>2, <3>1, <4>1
        <3>2. CASE k # m + 1
            <4>1. k \in 0 .. m /\ (k # 0 => k - 1 \in 0 .. m + 1 /\ k - 1 # m + 1)
                BY <2>2, <3>2
            <4>2. g[k] = f[k] /\ (k # 0 => g[k - 1] = f[k - 1])
                BY <3>2, <4>1
            <4>3. f[k] = IF k = 0 THEN First ELSE Step(f[k - 1], k)
                BY <2>1, <4>1
            <4> QED
                BY <4>2, <4>3
        <3> QED
            BY <3>1, <3>2
    <2>4. Rec(g, m + 1)
        BY <2>3
    <2> HIDE DEF Rec, g
    <2> QED
        BY <2>2, <2>4
<1>3. MerkleDepth \in D
    <2> HIDE DEF D
    <2>1. \A k \in 0 .. MerkleDepth : k \in D
        BY <1>0, <1>1, <1>2, UpTo
    <2> QED
        BY <1>0, <2>1
<1>4. PICK f : Rec(f, MerkleDepth)
    BY <1>3
<1>5. Rec(Build(tree), MerkleDepth)
    BY <1>4 DEF Build, First, Step
<1> HIDE DEF Rec
<1>6. ASSUME NEW F, Rec(F, MerkleDepth)
      PROVE  F[0] = First /\ \A k \in 1 .. MerkleDepth : F[k] = Step(F[k - 1], k)
    <2>1. \A k \in 0 .. MerkleDepth : F[k] = IF k = 0 THEN First ELSE Step(F[k - 1], k)
        BY <1>6 DEF Rec
    <2> QED
        BY <1>0, <2>1
<1>7. Build(tree)[0] = First /\ \A k \in 1 .. MerkleDepth : Build(tree)[k] = Step(Build(tree)[k - 1], k)
    BY <1>5, <1>6
<1> QED
    BY <1>7 DEF First, Step

LEMMA PathNodesRecursion ==
    ASSUME NEW leaf, NEW leafIndex, NEW path
    PROVE  /\ PathNodes(leaf, leafIndex, path)[0] = leaf
           /\ \A k \in 1 .. MerkleDepth :
                 PathNodes(leaf, leafIndex, path)[k] = IF IndexAbove(leafIndex)[k - 1] % 2 = 0
                                                          THEN Hash(PathNodes(leaf, leafIndex, path)[k - 1], path[k])
                                                          ELSE Hash(path[k], PathNodes(leaf, leafIndex, path)[k - 1])
<1> DEFINE First == leaf
           Step(prev, k) == IF IndexAbove(leafIndex)[k - 1] % 2 = 0
                            THEN Hash(prev, path[k]) ELSE Hash(path[k], prev)
           Rec(f, m) == f = [k \in 0 .. m |-> IF k = 0 THEN First ELSE Step(f[k - 1], k)]
           D == {m \in 0 .. MerkleDepth : \E f : Rec(f, m)}
<1>0. MerkleDepth \in Nat
    BY MerkleTreeAssumption
<1> HIDE DEF First, Step
<1>1. 0 \in D
    <2> DEFINE f == [k \in 0 .. 0 |-> First]
    <2>1. Rec(f, 0)
        OBVIOUS
    <2> HIDE DEF Rec, f
    <2> QED
        BY <1>0, <2>1
<1>2. ASSUME NEW m \in 0 .. MerkleDepth - 1, m \in D
      PROVE  m + 1 \in D
    <2>1. PICK f : Rec(f, m)
        BY <1>2
    <2> DEFINE g == [k \in 0 .. m + 1 |-> IF k = m + 1 THEN Step(f[m], m + 1) ELSE f[k]]
    <2>2. m \in Nat /\ (m + 1) - 1 = m /\ m + 1 # 0 /\ m + 1 \in 0 .. MerkleDepth
        BY <1>0
    <2>3. ASSUME NEW k \in 0 .. m + 1
          PROVE  g[k] = IF k = 0 THEN First ELSE Step(g[k - 1], k)
        <3>1. CASE k = m + 1
            <4>1. g[m] = f[m]
                BY <2>2
            <4> QED
                BY <2>2, <3>1, <4>1
        <3>2. CASE k # m + 1
            <4>1. k \in 0 .. m /\ (k # 0 => k - 1 \in 0 .. m + 1 /\ k - 1 # m + 1)
                BY <2>2, <3>2
            <4>2. g[k] = f[k] /\ (k # 0 => g[k - 1] = f[k - 1])
                BY <3>2, <4>1
            <4>3. f[k] = IF k = 0 THEN First ELSE Step(f[k - 1], k)
                BY <2>1, <4>1
            <4> QED
                BY <4>2, <4>3
        <3> QED
            BY <3>1, <3>2
    <2>4. Rec(g, m + 1)
        BY <2>3
    <2> HIDE DEF Rec, g
    <2> QED
        BY <2>2, <2>4
<1>3. MerkleDepth \in D
    <2> HIDE DEF D
    <2>1. \A k \in 0 .. MerkleDepth : k \in D
        BY <1>0, <1>1, <1>2, UpTo
    <2> QED
        BY <1>0, <2>1
<1>4. PICK f : Rec(f, MerkleDepth)
    BY <1>3
<1>5. Rec(PathNodes(leaf, leafIndex, path), MerkleDepth)
    BY <1>4 DEF PathNodes, First, Step
<1> HIDE DEF Rec
<1>6. ASSUME NEW F, Rec(F, MerkleDepth)
      PROVE  F[0] = First /\ \A k \in 1 .. MerkleDepth : F[k] = Step(F[k - 1], k)
    <2>1. \A k \in 0 .. MerkleDepth : F[k] = IF k = 0 THEN First ELSE Step(F[k - 1], k)
        BY <1>6 DEF Rec
    <2> QED
        BY <1>0, <2>1
<1>7. PathNodes(leaf, leafIndex, path)[0] = First /\ \A k \in 1 .. MerkleDepth : PathNodes(leaf, leafIndex, path)[k] = Step(PathNodes(leaf, leafIndex, path)[k - 1], k)
    BY <1>5, <1>6
<1> QED
    BY <1>7 DEF First, Step

LEMMA CompleteLevelsRecursion ==
    ASSUME NEW tree
    PROVE  /\ CompleteLevels(tree)[0] = [i \in Positions |-> LeafAt(tree, i)]
           /\ \A k \in 1 .. MerkleDepth :
                 CompleteLevels(tree)[k] = [i \in 0 .. PowersOfTwo[MerkleDepth - k] - 1 |->
                                                  Hash(CompleteLevels(tree)[k - 1][2 * i], CompleteLevels(tree)[k - 1][2 * i + 1])]
<1> DEFINE First == [i \in Positions |-> LeafAt(tree, i)]
           Step(prev, k) == [i \in 0 .. PowersOfTwo[MerkleDepth - k] - 1 |->
                                Hash(prev[2 * i], prev[2 * i + 1])]
           Rec(f, m) == f = [k \in 0 .. m |-> IF k = 0 THEN First ELSE Step(f[k - 1], k)]
           D == {m \in 0 .. MerkleDepth : \E f : Rec(f, m)}
<1>0. MerkleDepth \in Nat
    BY MerkleTreeAssumption
<1> HIDE DEF First, Step
<1>1. 0 \in D
    <2> DEFINE f == [k \in 0 .. 0 |-> First]
    <2>1. Rec(f, 0)
        OBVIOUS
    <2> HIDE DEF Rec, f
    <2> QED
        BY <1>0, <2>1
<1>2. ASSUME NEW m \in 0 .. MerkleDepth - 1, m \in D
      PROVE  m + 1 \in D
    <2>1. PICK f : Rec(f, m)
        BY <1>2
    <2> DEFINE g == [k \in 0 .. m + 1 |-> IF k = m + 1 THEN Step(f[m], m + 1) ELSE f[k]]
    <2>2. m \in Nat /\ (m + 1) - 1 = m /\ m + 1 # 0 /\ m + 1 \in 0 .. MerkleDepth
        BY <1>0
    <2>3. ASSUME NEW k \in 0 .. m + 1
          PROVE  g[k] = IF k = 0 THEN First ELSE Step(g[k - 1], k)
        <3>1. CASE k = m + 1
            <4>1. g[m] = f[m]
                BY <2>2
            <4> QED
                BY <2>2, <3>1, <4>1
        <3>2. CASE k # m + 1
            <4>1. k \in 0 .. m /\ (k # 0 => k - 1 \in 0 .. m + 1 /\ k - 1 # m + 1)
                BY <2>2, <3>2
            <4>2. g[k] = f[k] /\ (k # 0 => g[k - 1] = f[k - 1])
                BY <3>2, <4>1
            <4>3. f[k] = IF k = 0 THEN First ELSE Step(f[k - 1], k)
                BY <2>1, <4>1
            <4> QED
                BY <4>2, <4>3
        <3> QED
            BY <3>1, <3>2
    <2>4. Rec(g, m + 1)
        BY <2>3
    <2> HIDE DEF Rec, g
    <2> QED
        BY <2>2, <2>4
<1>3. MerkleDepth \in D
    <2> HIDE DEF D
    <2>1. \A k \in 0 .. MerkleDepth : k \in D
        BY <1>0, <1>1, <1>2, UpTo
    <2> QED
        BY <1>0, <2>1
<1>4. PICK f : Rec(f, MerkleDepth)
    BY <1>3
<1>5. Rec(CompleteLevels(tree), MerkleDepth)
    BY <1>4 DEF CompleteLevels, First, Step
<1> HIDE DEF Rec
<1>6. ASSUME NEW F, Rec(F, MerkleDepth)
      PROVE  F[0] = First /\ \A k \in 1 .. MerkleDepth : F[k] = Step(F[k - 1], k)
    <2>1. \A k \in 0 .. MerkleDepth : F[k] = IF k = 0 THEN First ELSE Step(F[k - 1], k)
        BY <1>6 DEF Rec
    <2> QED
        BY <1>0, <2>1
<1>7. CompleteLevels(tree)[0] = First /\ \A k \in 1 .. MerkleDepth : CompleteLevels(tree)[k] = Step(CompleteLevels(tree)[k - 1], k)
    BY <1>5, <1>6
<1> QED
    BY <1>7 DEF First, Step

-----------------------------------------------------------------------------
(* The nodes of the sparse tree                                            *)

Node(tree, lvl, i) == NodeFrom(Build(tree)[lvl], lvl, i)

(* How many nodes a level of the complete tree has.                        *)
Width(lvl) == PowersOfTwo[MerkleDepth - lvl]

LEMMA WidthFacts ==
    /\ \A lvl \in 0 .. MerkleDepth : Width(lvl) \in Nat \ {0}
    /\ \A lvl \in 1 .. MerkleDepth : Width(lvl - 1) = 2 * Width(lvl)
    /\ Width(MerkleDepth) = 1
    /\ Positions = 0 .. Width(0) - 1 /\ Capacity = Width(0)
<1> DEFINE S == {n \in 0 .. MerkleDepth : PowersOfTwo[n] \in Nat \ {0}}
<1>0. MerkleDepth \in Nat \ {0}
    BY MerkleTreeAssumption
<1>1. /\ PowersOfTwo[0] = 1
      /\ \A k \in 1 .. MerkleDepth : PowersOfTwo[k] = 2 * PowersOfTwo[k - 1]
    BY PowersOfTwoRecursion
<1>2. \A n \in 0 .. MerkleDepth - 1 : n \in S => n + 1 \in S
    <2> SUFFICES ASSUME NEW n \in 0 .. MerkleDepth - 1, PowersOfTwo[n] \in Nat \ {0}
                 PROVE  n + 1 \in 0 .. MerkleDepth /\ PowersOfTwo[n + 1] \in Nat \ {0}
        OBVIOUS
    <2>1. n + 1 \in 1 .. MerkleDepth /\ (n + 1) - 1 = n
        BY <1>0
    <2>2. PowersOfTwo[n + 1] = 2 * PowersOfTwo[n]
        BY <1>1, <2>1
    <2> QED
        BY <2>1, <2>2
<1>3. 0 \in S
    BY <1>0, <1>1
<1>4. \A n \in 0 .. MerkleDepth : n \in S
    <2> HIDE DEF S
    <2> QED
        BY <1>0, <1>2, <1>3, UpTo
<1>5. ASSUME NEW lvl \in 0 .. MerkleDepth PROVE Width(lvl) \in Nat \ {0}
    <2>1. MerkleDepth - lvl \in 0 .. MerkleDepth
        BY <1>0
    <2> QED
        BY <1>4, <2>1 DEF Width
<1>6. ASSUME NEW lvl \in 1 .. MerkleDepth PROVE Width(lvl - 1) = 2 * Width(lvl)
    <2>1. MerkleDepth - (lvl - 1) \in 1 .. MerkleDepth
          /\ (MerkleDepth - (lvl - 1)) - 1 = MerkleDepth - lvl
        BY <1>0
    <2> QED
        BY <1>1, <2>1 DEF Width
<1>7. MerkleDepth - MerkleDepth = 0 /\ MerkleDepth - 0 = MerkleDepth
    BY <1>0
<1> QED
    BY <1>1, <1>5, <1>6, <1>7 DEF Width, Positions, Capacity

(* A number below 2 * n is one of the two children of its half.            *)
LEMMA Halves ==
    ASSUME NEW i \in Nat
    PROVE  /\ i \div 2 \in Nat
           /\ i % 2 = 0 => i = 2 * (i \div 2)
           /\ i % 2 # 0 => i = 2 * (i \div 2) + 1
           /\ (2 * i) \div 2 = i /\ (2 * i + 1) \div 2 = i
           /\ \A n \in Nat : i <= 2 * n - 1 => i \div 2 <= n - 1
    OBVIOUS

LEMMA OccupiedFacts ==
    ASSUME NEW tree, Len(tree) \in Nat
    PROVE  \A lvl \in 0 .. MerkleDepth :
              /\ DOMAIN Build(tree)[lvl] \subseteq Nat
              /\ Len(tree) = 0 => DOMAIN Build(tree)[lvl] = {}
<1> DEFINE Occupied(lvl) == DOMAIN Build(tree)[lvl]
           S == {lvl \in 0 .. MerkleDepth : /\ Occupied(lvl) \subseteq Nat
                                            /\ Len(tree) = 0 => Occupied(lvl) = {}}
<1>0. MerkleDepth \in Nat
    BY MerkleTreeAssumption
<1>1. /\ Occupied(0) = 0 .. Len(tree) - 1
      /\ \A lvl \in 1 .. MerkleDepth : Occupied(lvl) = {i \div 2 : i \in Occupied(lvl - 1)}
    <2>1. Build(tree)[0] = [i \in 0 .. Len(tree) - 1 |-> tree[i + 1]]
        BY BuildRecursion
    <2>2. ASSUME NEW lvl \in 1 .. MerkleDepth
          PROVE  DOMAIN Build(tree)[lvl] = {i \div 2 : i \in DOMAIN Build(tree)[lvl - 1]}
        <3>1. Build(tree)[lvl] =
                 [p \in {i \div 2 : i \in DOMAIN Build(tree)[lvl - 1]} |->
                     Hash(NodeFrom(Build(tree)[lvl - 1], lvl - 1, 2 * p),
                          NodeFrom(Build(tree)[lvl - 1], lvl - 1, 2 * p + 1))]
            BY BuildRecursion
        <3> QED
            BY <3>1, Zenon
    <2> QED
        BY <2>1, <2>2
<1>2. ASSUME NEW lvl \in 0 .. MerkleDepth - 1, lvl \in S
      PROVE  lvl + 1 \in S
    <2>1. lvl + 1 \in 1 .. MerkleDepth /\ lvl + 1 \in 0 .. MerkleDepth /\ (lvl + 1) - 1 = lvl
        BY <1>0
    <2>2. Occupied(lvl + 1) = {i \div 2 : i \in Occupied(lvl)}
        BY <1>1, <2>1
    <2> HIDE DEF Occupied
    <2>3. Occupied(lvl + 1) \subseteq Nat
        BY <1>2, <2>2, Halves
    <2> QED
        BY <1>2, <2>1, <2>2, <2>3
<1>3. 0 \in S
    BY <1>0, <1>1
<1>4. \A lvl \in 0 .. MerkleDepth : lvl \in S
    <2> HIDE DEF S
    <2> QED
        BY <1>0, <1>2, <1>3, UpTo
<1> QED
    BY <1>4

(* Every node is the hash of the two below it, whether it is occupied or   *)
(* not, and at the bottom are the leaves.                                  *)
LEMMA NodeIsHashOfChildren ==
    ASSUME NEW tree, Len(tree) \in Nat, NEW lvl \in 1 .. MerkleDepth, NEW i \in Nat
    PROVE  Node(tree, lvl, i) = Hash(Node(tree, lvl - 1, 2 * i), Node(tree, lvl - 1, 2 * i + 1))
<1> DEFINE below == Build(tree)[lvl - 1]
           here  == Build(tree)[lvl]
<1>1. here = [p \in {j \div 2 : j \in DOMAIN below} |->
                 Hash(NodeFrom(below, lvl - 1, 2 * p), NodeFrom(below, lvl - 1, 2 * p + 1))]
    BY BuildRecursion
<1>2. DOMAIN below \subseteq Nat
    <2>1. lvl - 1 \in 0 .. MerkleDepth
        BY MerkleTreeAssumption
    <2> QED
        BY <2>1, OccupiedFacts
<1> HIDE DEF here, below
<1>3. CASE i \in DOMAIN here
    <2>1. here[i] = Hash(NodeFrom(below, lvl - 1, 2 * i), NodeFrom(below, lvl - 1, 2 * i + 1))
        BY <1>1, <1>3
    <2>2. NodeFrom(here, lvl, i) = here[i]
        BY <1>3 DEF NodeFrom
    <2> QED
        BY <2>1, <2>2 DEF Node, here, below
<1>4. CASE i \notin DOMAIN here
    <2>1. 2 * i \notin DOMAIN below /\ 2 * i + 1 \notin DOMAIN below
        <3>1. \A j \in DOMAIN below : j \div 2 # i
            BY <1>1, <1>4
        <3> QED
            BY <3>1, Halves
    <2>2. /\ NodeFrom(below, lvl - 1, 2 * i) = Zeros[lvl - 1]
          /\ NodeFrom(below, lvl - 1, 2 * i + 1) = Zeros[lvl - 1]
          /\ NodeFrom(here, lvl, i) = Zeros[lvl]
        BY <1>4, <2>1 DEF NodeFrom
    <2>3. Zeros[lvl] = Hash(Zeros[lvl - 1], Zeros[lvl - 1])
        BY ZerosRecursion
    <2> QED
        BY <2>2, <2>3 DEF Node, here, below
<1> QED
    BY <1>3, <1>4

LEMMA BottomNodes ==
    ASSUME NEW tree, Len(tree) \in Nat, NEW i \in Nat
    PROVE  Node(tree, 0, i) = LeafAt(tree, i)
<1>1. Build(tree)[0] = [j \in 0 .. Len(tree) - 1 |-> tree[j + 1]] /\ Zeros[0] = ZeroValue
    BY BuildRecursion, ZerosRecursion
<1>2. i \in 0 .. Len(tree) - 1 <=> i < Len(tree)
    OBVIOUS
<1> QED
    BY <1>1, <1>2 DEF Node, NodeFrom, LeafAt

LEMMA RootIsTopNode ==
    ASSUME NEW tree \in Seq(Commitments)
    PROVE  Root(tree) = Node(tree, MerkleDepth, 0)
<1>1. CASE tree = <<>>
    <2>1. Len(tree) = 0 /\ MerkleDepth \in 0 .. MerkleDepth
        BY <1>1, EmptySeq, MerkleTreeAssumption
    <2>2. DOMAIN Build(tree)[MerkleDepth] = {}
        BY <2>1, OccupiedFacts
    <2> QED
        BY <1>1, <2>2 DEF Root, Node, NodeFrom
<1>2. CASE tree # <<>>
    BY <1>2 DEF Root, Node
<1> QED
    BY <1>1, <1>2

-----------------------------------------------------------------------------
(* The complete tree                                                       *)

LEMMA SparseIsComplete ==
    ASSUME NEW tree, Len(tree) \in Nat
    PROVE  \A lvl \in 0 .. MerkleDepth, i \in Nat :
              i <= Width(lvl) - 1 => CompleteLevels(tree)[lvl][i] = Node(tree, lvl, i)
<1> DEFINE Full(lvl, i) == CompleteLevels(tree)[lvl][i]
           S == {lvl \in 0 .. MerkleDepth :
                    \A i \in Nat : i <= Width(lvl) - 1 => Full(lvl, i) = Node(tree, lvl, i)}
<1>0. MerkleDepth \in Nat
    BY MerkleTreeAssumption
<1>1. \A i \in 0 .. Width(0) - 1 : Full(0, i) = LeafAt(tree, i)
    <2>1. CompleteLevels(tree)[0] = [i \in Positions |-> LeafAt(tree, i)]
        BY CompleteLevelsRecursion
    <2>2. Positions = 0 .. Width(0) - 1
        BY WidthFacts
    <2> QED
        BY <2>1, <2>2
<1>2. \A lvl \in 1 .. MerkleDepth : \A i \in 0 .. Width(lvl) - 1 :
         Full(lvl, i) = Hash(Full(lvl - 1, 2 * i), Full(lvl - 1, 2 * i + 1))
    <2> SUFFICES ASSUME NEW lvl \in 1 .. MerkleDepth
                 PROVE  \A i \in 0 .. Width(lvl) - 1 :
                           Full(lvl, i) = Hash(Full(lvl - 1, 2 * i), Full(lvl - 1, 2 * i + 1))
        OBVIOUS
    <2>1. CompleteLevels(tree)[lvl] =
             [i \in 0 .. Width(lvl) - 1 |-> Hash(Full(lvl - 1, 2 * i), Full(lvl - 1, 2 * i + 1))]
        BY CompleteLevelsRecursion DEF Width
    <2> QED
        BY <2>1
<1> HIDE DEF Full
<1>3. 0 \in S
    <2> SUFFICES ASSUME NEW i \in Nat, i <= Width(0) - 1 PROVE Full(0, i) = Node(tree, 0, i)
        BY <1>0
    <2>1. i \in 0 .. Width(0) - 1
        BY <1>0, WidthFacts
    <2> QED
        BY <1>1, <2>1, BottomNodes
<1>4. ASSUME NEW lvl \in 0 .. MerkleDepth - 1, lvl \in S
      PROVE  lvl + 1 \in S
    <2>1. lvl + 1 \in 1 .. MerkleDepth /\ lvl + 1 \in 0 .. MerkleDepth /\ (lvl + 1) - 1 = lvl
        BY <1>0
    <2> SUFFICES ASSUME NEW i \in Nat, i <= Width(lvl + 1) - 1
                 PROVE  Full(lvl + 1, i) = Node(tree, lvl + 1, i)
        BY <2>1
    <2>2. Width(lvl) = 2 * Width(lvl + 1) /\ Width(lvl + 1) \in Nat
        BY <2>1, WidthFacts
    <2>3. i \in 0 .. Width(lvl + 1) - 1
        BY <2>2
    <2>4. /\ 2 * i \in Nat /\ 2 * i <= Width(lvl) - 1
          /\ 2 * i + 1 \in Nat /\ 2 * i + 1 <= Width(lvl) - 1
        BY <2>2, <2>3
    <2>5. /\ Full(lvl, 2 * i) = Node(tree, lvl, 2 * i)
          /\ Full(lvl, 2 * i + 1) = Node(tree, lvl, 2 * i + 1)
        BY <1>4, <2>4
    <2>6. Full(lvl + 1, i) = Hash(Full(lvl, 2 * i), Full(lvl, 2 * i + 1))
        BY <1>2, <2>1, <2>3
    <2>7. Node(tree, lvl + 1, i) = Hash(Node(tree, lvl, 2 * i), Node(tree, lvl, 2 * i + 1))
        BY <2>1, NodeIsHashOfChildren
    <2> QED
        BY <2>5, <2>6, <2>7
<1>5. \A lvl \in 0 .. MerkleDepth : lvl \in S
    <2> HIDE DEF S
    <2> QED
        BY <1>0, <1>3, <1>4, UpTo
<1> QED
    BY <1>5 DEF Full

(* The leaves are a sequence of commitments that fits the tree.            *)
TypeInv == leaves \in Seq(Commitments) /\ Len(leaves) <= Capacity

LEMMA TypeAlways == Spec => []TypeInv
<1>1. Init => TypeInv
    <2>1. Len(<<>>) = 0 /\ <<>> \in Seq(Commitments)
        BY EmptySeq
    <2>2. Capacity \in Nat
        <3>1. 0 \in 0 .. MerkleDepth
            BY MerkleTreeAssumption
        <3> QED
            BY <3>1, WidthFacts
    <2> QED
        BY <2>1, <2>2 DEF Init, TypeInv
<1>2. TypeInv /\ [Next]_leaves => TypeInv'
    <2> SUFFICES ASSUME TypeInv, [Next]_leaves PROVE TypeInv'
        OBVIOUS
    <2>1. ASSUME NEW c \in Commitments, Insert(c)
          PROVE  TypeInv'
        <3>1. /\ leaves' = Append(leaves, c) /\ leaves \in Seq(Commitments)
              /\ Len(leaves) < Capacity
            BY <2>1 DEF TypeInv, Insert
        <3>2. leaves' \in Seq(Commitments) /\ Len(leaves') = Len(leaves) + 1 /\ Len(leaves) \in Nat
            BY <3>1, AppendProperties, LenProperties
        <3>3. Capacity \in Nat
            <4>1. 0 \in 0 .. MerkleDepth
                BY MerkleTreeAssumption
            <4> QED
                BY <4>1, WidthFacts
        <3> QED
            BY <3>1, <3>2, <3>3 DEF TypeInv
    <2> QED
        BY <2>1 DEF TypeInv, Next
<1> QED
    BY <1>1, <1>2, PTL DEF Spec

(* merkle.go: leaving the empty positions out of the computation does not  *)
(* change the root.                                                        *)
THEOREM SparseRootTheorem == Spec => []RootIsCompleteTree
<1>1. TypeInv => RootIsCompleteTree
    <2> SUFFICES ASSUME TypeInv PROVE Root(leaves) = CompleteTree(leaves)
        BY DEF RootIsCompleteTree
    <2>1. leaves \in Seq(Commitments) /\ Len(leaves) \in Nat
        BY LenProperties DEF TypeInv
    <2>2. MerkleDepth \in 0 .. MerkleDepth /\ 0 \in Nat /\ 0 <= Width(MerkleDepth) - 1
        BY WidthFacts, MerkleTreeAssumption
    <2>3. CompleteLevels(leaves)[MerkleDepth][0] = Node(leaves, MerkleDepth, 0)
        BY <2>1, <2>2, SparseIsComplete
    <2> QED
        BY <2>1, <2>3, RootIsTopNode DEF CompleteTree
<1> QED
    BY <1>1, TypeAlways, PTL

-----------------------------------------------------------------------------
(* Proofs of positions                                                     *)

LEMMA IndexAboveFacts ==
    ASSUME NEW i \in Positions
    PROVE  \A lvl \in 0 .. MerkleDepth :
              IndexAbove(i)[lvl] \in Nat /\ IndexAbove(i)[lvl] <= Width(lvl) - 1
<1> DEFINE idx == IndexAbove(i)
           S == {lvl \in 0 .. MerkleDepth : idx[lvl] \in Nat /\ idx[lvl] <= Width(lvl) - 1}
<1>0. MerkleDepth \in Nat
    BY MerkleTreeAssumption
<1>1. idx[0] = i /\ \A lvl \in 1 .. MerkleDepth : idx[lvl] = idx[lvl - 1] \div 2
    BY IndexAboveRecursion
<1> HIDE DEF idx
<1>2. 0 \in S
    <2>1. 0 \in 0 .. MerkleDepth /\ Width(0) \in Nat /\ i \in 0 .. Width(0) - 1
        BY <1>0, WidthFacts
    <2> QED
        BY <1>1, <2>1
<1>3. ASSUME NEW lvl \in 0 .. MerkleDepth - 1, lvl \in S
      PROVE  lvl + 1 \in S
    <2>1. lvl + 1 \in 1 .. MerkleDepth /\ lvl + 1 \in 0 .. MerkleDepth /\ (lvl + 1) - 1 = lvl
        BY <1>0
    <2>2. Width(lvl) = 2 * Width(lvl + 1) /\ Width(lvl + 1) \in Nat
        BY <2>1, WidthFacts
    <2>3. idx[lvl + 1] = idx[lvl] \div 2
        BY <1>1, <2>1
    <2>4. idx[lvl] \in Nat /\ idx[lvl] <= 2 * Width(lvl + 1) - 1
        BY <1>3, <2>2
    <2> QED
        BY <2>1, <2>2, <2>3, <2>4, Halves
<1>4. \A lvl \in 0 .. MerkleDepth : lvl \in S
    <2> HIDE DEF S
    <2> QED
        BY <1>0, <1>2, <1>3, UpTo
<1> QED
    BY <1>4 DEF idx

(* A level up, a path is right exactly if it was right below: the sibling  *)
(* is, and the hash forgets nothing.                                       *)
LEMMA PathStaysRight ==
    ASSUME NEW tree, Len(tree) \in Nat, NEW i \in Positions, NEW leaf,
           NEW path, path = Proof(tree, i),
           NEW k \in 1 .. MerkleDepth
    PROVE  PathNodes(leaf, i, path)[k] = Node(tree, k, IndexAbove(i)[k])
              <=> PathNodes(leaf, i, path)[k - 1] = Node(tree, k - 1, IndexAbove(i)[k - 1])
<1> DEFINE cur == PathNodes(leaf, i, path)
           a   == IndexAbove(i)[k - 1]
           p   == IndexAbove(i)[k]
           N(j) == Node(tree, k - 1, j)
<1>1. cur[k] = IF a % 2 = 0 THEN Hash(cur[k - 1], path[k]) ELSE Hash(path[k], cur[k - 1])
    BY PathNodesRecursion
<1>2. path[k] = N(Sibling(a))
    BY DEF Proof, Node
<1>3. a \in Nat /\ p = a \div 2
    <2>1. k - 1 \in 0 .. MerkleDepth
        BY MerkleTreeAssumption
    <2> QED
        BY <2>1, IndexAboveFacts, IndexAboveRecursion
<1>4. Node(tree, k, p) = Hash(N(2 * p), N(2 * p + 1))
    <2>1. p \in Nat
        BY <1>3, Halves
    <2> HIDE DEF p
    <2> QED
        BY <2>1, NodeIsHashOfChildren
<1> HIDE DEF cur, a, p, N
<1>5. CASE a % 2 = 0
    <2>1. a = 2 * p /\ Sibling(a) = 2 * p + 1
        BY <1>3, <1>5, Halves DEF Sibling
    <2>2. cur[k] = Hash(cur[k - 1], N(2 * p + 1))
        BY <1>1, <1>2, <1>5, <2>1
    <2>3. cur[k] = Node(tree, k, p) <=> cur[k - 1] = N(a)
        BY <1>4, <2>1, <2>2 DEF Hash
    <2> QED
        BY <2>3 DEF cur, a, p, N
<1>6. CASE a % 2 # 0
    <2>1. a = 2 * p + 1 /\ Sibling(a) = 2 * p
        BY <1>3, <1>6, Halves DEF Sibling
    <2>2. cur[k] = Hash(N(2 * p), cur[k - 1])
        BY <1>1, <1>2, <1>6, <2>1
    <2>3. cur[k] = Node(tree, k, p) <=> cur[k - 1] = N(a)
        BY <1>4, <2>1, <2>2 DEF Hash
    <2> QED
        BY <2>3 DEF cur, a, p, N
<1> QED
    BY <1>5, <1>6

LEMMA PathIsRight ==
    ASSUME NEW tree \in Seq(Commitments), NEW i \in Positions, NEW leaf
    PROVE  VerifyProof(leaf, i, Proof(tree, i)) = Root(tree) <=> leaf = LeafAt(tree, i)
<1> DEFINE path == Proof(tree, i)
           cur == PathNodes(leaf, i, path)
           Right(k) == cur[k] = Node(tree, k, IndexAbove(i)[k])
           S == {k \in 0 .. MerkleDepth : Right(k) <=> Right(0)}
<1>0. MerkleDepth \in Nat /\ Len(tree) \in Nat
    BY MerkleTreeAssumption, LenProperties
<1>1. \A k \in 1 .. MerkleDepth : Right(k) <=> Right(k - 1)
    BY <1>0, PathStaysRight
<1>2. i \in Nat
    <2>1. 0 \in 0 .. MerkleDepth
        BY <1>0
    <2> QED
        BY <2>1, IndexAboveFacts, IndexAboveRecursion
<1>3. Right(0) <=> leaf = LeafAt(tree, i)
    <2>1. cur[0] = leaf /\ IndexAbove(i)[0] = i
        BY PathNodesRecursion, IndexAboveRecursion
    <2>2. Node(tree, 0, i) = LeafAt(tree, i)
        BY <1>0, <1>2, BottomNodes
    <2> QED
        BY <2>1, <2>2
<1>4. Right(MerkleDepth) <=> VerifyProof(leaf, i, Proof(tree, i)) = Root(tree)
    <2>1. MerkleDepth \in 0 .. MerkleDepth
        BY <1>0
    <2>2. IndexAbove(i)[MerkleDepth] \in Nat /\ IndexAbove(i)[MerkleDepth] <= Width(MerkleDepth) - 1
        BY <2>1, IndexAboveFacts
    <2>3. IndexAbove(i)[MerkleDepth] = 0
        BY <2>2, WidthFacts
    <2> QED
        BY <2>3, RootIsTopNode DEF VerifyProof
<1> HIDE DEF Right
<1>5. MerkleDepth \in S
    <2>1. 0 \in S
        BY <1>0
    <2>2. \A k \in 0 .. MerkleDepth - 1 : k \in S => k + 1 \in S
        <3> SUFFICES ASSUME NEW k \in 0 .. MerkleDepth - 1, Right(k) <=> Right(0)
                     PROVE  k + 1 \in 0 .. MerkleDepth /\ (Right(k + 1) <=> Right(0))
            OBVIOUS
        <3>1. k + 1 \in 1 .. MerkleDepth /\ k + 1 \in 0 .. MerkleDepth /\ (k + 1) - 1 = k
            BY <1>0
        <3>2. Right(k + 1) <=> Right(k)
            BY <1>1, <3>1
        <3> QED
            BY <3>1, <3>2
    <2>3. \A k \in 0 .. MerkleDepth : k \in S
        <3> HIDE DEF S
        <3> QED
            BY <1>0, <2>1, <2>2, UpTo
    <2> QED
        BY <1>0, <2>3
<1> QED
    BY <1>3, <1>4, <1>5

(* The siblings of a position lead to the root exactly from the leaf that  *)
(* is there.                                                               *)
THEOREM PositionTheorem == Spec => []ProvesExactlyTheLeafThere
<1>1. TypeInv => ProvesExactlyTheLeafThere
    BY PathIsRight DEF TypeInv, ProvesExactlyTheLeafThere
<1> QED
    BY <1>1, TypeAlways, PTL

-----------------------------------------------------------------------------
(* Two trees of one root are one tree                                      *)

(* If the nodes of a level are the same, so are those below it.            *)
LEMMA SameBelow ==
    ASSUME NEW a, Len(a) \in Nat, NEW b, Len(b) \in Nat, NEW lvl \in 1 .. MerkleDepth,
           \A p \in Nat : p <= Width(lvl) - 1 => Node(a, lvl, p) = Node(b, lvl, p),
           NEW i \in Nat, i <= Width(lvl - 1) - 1
    PROVE  Node(a, lvl - 1, i) = Node(b, lvl - 1, i)
<1> DEFINE p == i \div 2
           A(j) == Node(a, lvl - 1, j)
           B(j) == Node(b, lvl - 1, j)
<1>1. Width(lvl - 1) = 2 * Width(lvl) /\ Width(lvl) \in Nat
    <2>1. lvl \in 0 .. MerkleDepth
        BY MerkleTreeAssumption
    <2> QED
        BY <2>1, WidthFacts
<1>2. p \in Nat /\ p <= Width(lvl) - 1 /\ (i = 2 * p \/ i = 2 * p + 1)
    BY <1>1, Halves
<1>3. Node(a, lvl, p) = Node(b, lvl, p)
    BY <1>2
<1>4. Hash(A(2 * p), A(2 * p + 1)) = Hash(B(2 * p), B(2 * p + 1))
    BY <1>2, <1>3, NodeIsHashOfChildren
<1> HIDE DEF A, B, p
<1>5. A(2 * p) = B(2 * p) /\ A(2 * p + 1) = B(2 * p + 1)
    BY <1>4 DEF Hash
<1>6. A(i) = B(i)
    BY <1>2, <1>5
<1> QED
    BY <1>6 DEF A, B

(* Trees with the same root have the same leaves: taking the sequence of   *)
(* the leaves for the root, as the other specifications do, confuses no    *)
(* two trees. An empty position is no leaf.                                *)
THEOREM RootsTellTreesApart ==
    ASSUME NEW a \in Seq(Commitments), Len(a) <= Capacity,
           NEW b \in Seq(Commitments), Len(b) <= Capacity,
           Root(a) = Root(b)
    PROVE  a = b
<1> DEFINE Same(lvl) == \A i \in Nat : i <= Width(lvl) - 1 => Node(a, lvl, i) = Node(b, lvl, i)
           S == {k \in 0 .. MerkleDepth : Same(MerkleDepth - k)}
<1>0. MerkleDepth \in Nat /\ Len(a) \in Nat /\ Len(b) \in Nat
    BY MerkleTreeAssumption, LenProperties
<1>1. Same(MerkleDepth)
    <2>1. Node(a, MerkleDepth, 0) = Node(b, MerkleDepth, 0)
        BY RootIsTopNode
    <2>2. \A i \in Nat : i <= Width(MerkleDepth) - 1 => i = 0
        BY WidthFacts
    <2> QED
        BY <2>1, <2>2
<1>2. \A lvl \in 1 .. MerkleDepth : Same(lvl) => Same(lvl - 1)
    BY <1>0, SameBelow
<1> HIDE DEF Same
<1>3. Same(0)
    <2>1. 0 \in S
        BY <1>0, <1>1
    <2>2. \A k \in 0 .. MerkleDepth - 1 : k \in S => k + 1 \in S
        <3> SUFFICES ASSUME NEW k \in 0 .. MerkleDepth - 1, Same(MerkleDepth - k)
                     PROVE  k + 1 \in 0 .. MerkleDepth /\ Same(MerkleDepth - (k + 1))
            OBVIOUS
        <3>1. MerkleDepth - k \in 1 .. MerkleDepth /\ (MerkleDepth - k) - 1 = MerkleDepth - (k + 1)
              /\ k + 1 \in 0 .. MerkleDepth
            BY <1>0
        <3> QED
            BY <1>2, <3>1
    <2>3. \A k \in 0 .. MerkleDepth : k \in S
        <3> HIDE DEF S
        <3> QED
            BY <1>0, <2>1, <2>2, UpTo
    <2>4. MerkleDepth \in S /\ MerkleDepth - MerkleDepth = 0
        BY <1>0, <2>3
    <2> QED
        BY <2>4
<1>4. \A i \in Nat : i <= Capacity - 1 => LeafAt(a, i) = LeafAt(b, i)
    <2>1. Width(0) = Capacity
        BY <1>0 DEF Width, Capacity
    <2> QED
        BY <1>0, <1>3, <2>1, BottomNodes DEF Same
<1>5. /\ \A i \in 1 .. Len(a) : a[i] \in Commitments
      /\ \A i \in 1 .. Len(b) : b[i] \in Commitments
    BY ElementOfSeq
<1>6. Capacity \in Nat
    BY <1>0, WidthFacts DEF Width, Capacity
<1>7. ASSUME NEW i \in Nat, i <= Capacity - 1
      PROVE  (i < Len(a) <=> i < Len(b)) /\ (i < Len(a) => a[i + 1] = b[i + 1])
    <2>1. i < Len(a) => i + 1 \in 1 .. Len(a)
        BY <1>0
    <2>2. i < Len(b) => i + 1 \in 1 .. Len(b)
        BY <1>0
    <2> QED
        BY <1>4, <1>5, <1>7, <2>1, <2>2, MerkleTreeAssumption DEF LeafAt
<1>8. Len(a) = Len(b)
    <2>1. ~(Len(a) < Len(b))
        BY <1>0, <1>6, <1>7
    <2>2. ~(Len(b) < Len(a))
        BY <1>0, <1>6, <1>7
    <2> QED
        BY <1>0, <2>1, <2>2
<1>9. \A i \in 1 .. Len(a) : a[i] = b[i]
    <2> SUFFICES ASSUME NEW i \in 1 .. Len(a) PROVE a[i] = b[i]
        OBVIOUS
    <2>1. i - 1 \in Nat /\ i - 1 <= Capacity - 1 /\ i - 1 < Len(a) /\ (i - 1) + 1 = i
        BY <1>0, <1>6
    <2> QED
        BY <1>7, <2>1
<1> QED
    BY <1>8, <1>9, SeqEqual

=============================================================================

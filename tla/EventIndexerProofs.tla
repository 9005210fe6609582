------------------------- MODULE EventIndexerProofs -------------------------
(***************************************************************************)
(* Theorems about EventIndexer, for every set of transactions,             *)
(* commitments and nullifiers, every batch size, every number of restarts  *)
(* and every length of the log: what the node stores, in whose name, and   *)
(* that the indexer implements LedgerReplica.                              *)
(***************************************************************************)
EXTENDS EventIndexer, DomainLemmas

-----------------------------------------------------------------------------
(* The inductive invariant                                                 *)

(* What the contract has emitted: good events; the leaves of the events so *)
(* far fill the first tree from the left; the event that carries an id is  *)
(* the last of its on-chain transaction and the only one with that id.     *)
ChainInv ==
    /\ \A i \in DOMAIN log : GoodEvent(log[i])
    /\ treeNumber = 0 =>
        \A n \in 0 .. Len(log) : \E k \in 0 .. Len(chainTree) :
            LeavesUpTo(log, n) = FirstLeaves(chainTree, k)
    /\ treeNumber = 0 => LeavesUpTo(log, Len(log)) = FirstLeaves(chainTree, Len(chainTree))
    /\ \A i \in DOMAIN log : log[i].hash < Len(log)
    /\ \A i, j \in DOMAIN log : log[i].tag \in TxIds /\ log[j].hash = log[i].hash => j <= i
    /\ \A i, j \in DOMAIN log : log[i].tag \in TxIds /\ log[j].tag = log[i].tag => j = i

(* What the node has stored: the effects of the first indexed events.      *)
NodeInv ==
    /\ treeLeaves = {LeafState(leaf) : leaf \in LeavesUpTo(log, indexed)}
    /\ \A i \in 1 .. indexed : \A j \in DOMAIN log[i].leaves :
        \E c \in confirmed : c.id = log[i].leaves[j]
    /\ \A i \in 1 .. indexed : \A n \in log[i].nullifiers : \E s \in spent : s.id = n
    /\ \A t \in completed : \E i \in 1 .. indexed : log[i].tag = t

IndInv == TypeOK /\ ChainInv /\ NodeInv

-----------------------------------------------------------------------------
(* The contract keeps the invariant                                        *)

(* Whatever the contract is called with, the invariant holds afterwards:   *)
(* the only step of MineShield and of MineTransact that matters here.      *)
LEMMA CallKeepsInvariant ==
    ASSUME IndInv,
           NEW tag \in Tags \ UsedTags, NEW L \in Seq(Commitments), NEW es,
           IsCall(Events, es, Len(log), tag, Position(chainTree, L, TreeCapacity), L),
           log' = log \o es,
           IF L = <<>> THEN UNCHANGED <<chainTree, treeNumber>> ELSE Insert(L),
           UNCHANGED <<nodeVars, restarts>>
    PROVE  IndInv'
<1> DEFINE m == Len(log)
           k == Len(es)
           start == Position(chainTree, L, TreeCapacity)
<1>1. /\ log \in Seq(Events) /\ chainTree \in Seq(Commitments) /\ treeNumber \in Nat
      /\ m \in Nat /\ k \in Nat /\ k >= 1 /\ Len(chainTree) \in Nat /\ TreeCapacity \in Nat
      /\ DOMAIN log = 1 .. m
    BY LenProperties, EventIndexerAssumption DEF IndInv, TypeOK, IsCall
<1>2. /\ log' \in Seq(Events) /\ Len(log') = m + k /\ DOMAIN log' = 1 .. m + k
      /\ \A i \in 1 .. m : log'[i] = log[i]
      /\ \A i \in 1 .. k : log'[m + i] = es[i]
      /\ \A n \in 0 .. m : LeavesUpTo(log', n) = LeavesUpTo(log, n)
      /\ \A n \in m .. m + k - 1 : LeavesUpTo(log', n) = LeavesUpTo(log, m)
      /\ LeavesUpTo(log', m + k) = LeavesUpTo(log, m) \cup LeavesOf(es[k])
    <2>1. log \o es \in Seq(Events) => DOMAIN (log \o es) = 1 .. Len(log \o es)
        BY LenProperties
    <2>2. IsCall(Events, es, m, tag, start, L)
        OBVIOUS
    <2> HIDE DEF m, k, start
    <2>3. /\ log \o es \in Seq(Events) /\ Len(log \o es) = Len(log) + Len(es)
          /\ \A i \in 1 .. Len(log) : (log \o es)[i] = log[i]
          /\ \A i \in 1 .. Len(es) : (log \o es)[Len(log) + i] = es[i]
          /\ \A n \in 0 .. Len(log) : LeavesUpTo(log \o es, n) = LeavesUpTo(log, n)
          /\ \A n \in Len(log) .. Len(log) + Len(es) - 1 :
                LeavesUpTo(log \o es, n) = LeavesUpTo(log, Len(log))
          /\ LeavesUpTo(log \o es, Len(log) + Len(es))
                = LeavesUpTo(log, Len(log)) \cup LeavesOf(es[Len(es)])
        BY <1>1, <2>2, LeavesOfLongerLog
    <2> QED
        BY <2>1, <2>3 DEF m, k
<1>3. ASSUME NEW i \in 1 .. m + k
      PROVE  \/ i \in 1 .. m /\ log'[i] = log[i]
             \/ i - m \in 1 .. k /\ log'[i] = es[i - m] /\ i > m
    <2>1. CASE i \in 1 .. m
        BY <1>2, <2>1
    <2>2. CASE i \notin 1 .. m
        <3>1. i - m \in 1 .. k /\ m + (i - m) = i /\ i > m
            BY <1>1, <2>2
        <3>2. log'[m + (i - m)] = es[i - m]
            BY <1>2, <3>1
        <3> QED
            BY <3>1, <3>2
    <2> QED
        BY <2>1, <2>2
<1>4. /\ \A i \in 1 .. k : GoodEvent(es[i]) /\ es[i].hash = m
      /\ \A i \in 1 .. k - 1 : es[i].leaves = <<>> /\ es[i].tag = NoTx
      /\ es[k].leaves = L /\ es[k].tag \in {tag, NoTx}
      /\ L # <<>> => es[k].start = start
    BY DEF IsCall
<1>5. NoTx \notin TxIds /\ ForeignTag \notin TxIds
    BY EventIndexerAssumption
<1>6. \A i \in 1 .. m : log[i].tag \in TxIds => log[i].tag # tag
    BY <1>1, <1>5 DEF UsedTags
<1>7. \A i \in 1 .. k : es[i].tag \in TxIds => i = k /\ es[i].tag = tag
    <2> SUFFICES ASSUME NEW i \in 1 .. k, es[i].tag \in TxIds
                 PROVE  i = k /\ es[i].tag = tag
        OBVIOUS
    <2>1. i \notin 1 .. k - 1
        BY <1>4, <1>5
    <2>2. i = k
        BY <1>1, <2>1
    <2> QED
        BY <1>4, <1>5, <2>2
<1>8. /\ chainTree' \in Seq(Commitments) /\ treeNumber' \in Nat
      /\ treeNumber' = 0 => treeNumber = 0
      /\ treeNumber' = 0 =>
            /\ \A n \in 0 .. Len(chainTree) : n \in 0 .. Len(chainTree') /\ FirstLeaves(chainTree', n) = FirstLeaves(chainTree, n)
            /\ FirstLeaves(chainTree', Len(chainTree')) = FirstLeaves(chainTree, Len(chainTree)) \cup LeavesOf(es[k])
    <2>1. CASE L = <<>>
        <3>1. LeavesOf(es[k]) = {}
            BY <1>4, <2>1 DEF LeavesOf
        <3> QED
            BY <1>1, <2>1, <3>1
    <2>2. CASE L # <<>> /\ Rollover(chainTree, L, TreeCapacity)
        BY <1>1, <2>2 DEF Insert, InsertLeaves
    <2>3. CASE L # <<>> /\ ~Rollover(chainTree, L, TreeCapacity)
        <3>1. chainTree' = chainTree \o L /\ treeNumber' = treeNumber /\ start = Len(chainTree)
            BY <1>1, <2>3 DEF Insert, InsertLeaves, Position
        <3>2. LeavesOf(es[k]) = {<<Len(chainTree) + j - 1, L[j]>> : j \in 1 .. Len(L)}
            <4>1. es[k].start = Len(chainTree) /\ es[k].leaves = L /\ DOMAIN L = 1 .. Len(L)
                BY <1>4, <2>3, <3>1, LenProperties
            <4> QED
                BY <4>1 DEF LeavesOf
        <3>3. /\ chainTree' \in Seq(Commitments) /\ Len(chainTree') = Len(chainTree) + Len(L)
              /\ Len(L) \in Nat
              /\ \A n \in 0 .. Len(chainTree) : FirstLeaves(chainTree', n) = FirstLeaves(chainTree, n)
              /\ FirstLeaves(chainTree', Len(chainTree) + Len(L))
                    = FirstLeaves(chainTree, Len(chainTree)) \cup LeavesOf(es[k])
            BY <1>1, <3>1, <3>2, FirstLeavesOfLongerTree, LenProperties
        <3> QED
            BY <1>1, <3>1, <3>3
    <2> QED
        BY <2>1, <2>2, <2>3
<1>9. UNCHANGED <<cursor, indexed, confirmed, treeLeaves, spent, completed, restarts>>
    BY DEF nodeVars
<1> HIDE DEF m, k, start
<1>10. TypeOK'
    <2>1. indexed \in 0 .. m + k
        BY <1>1 DEF IndInv, TypeOK, m
    <2> QED
        BY <1>2, <1>8, <1>9, <2>1 DEF IndInv, TypeOK
<1>11. ChainInv'
    <2>1. \A i \in 1 .. m + k : GoodEvent(log'[i])
        BY <1>1, <1>3, <1>4 DEF IndInv, ChainInv
    <2>2. ASSUME treeNumber' = 0, NEW n \in 0 .. m + k
          PROVE  \E p \in 0 .. Len(chainTree') : LeavesUpTo(log', n) = FirstLeaves(chainTree', p)
        <3>1. CASE n \in 0 .. m
            <4>1. PICK p \in 0 .. Len(chainTree) : LeavesUpTo(log, n) = FirstLeaves(chainTree, p)
                BY <1>8, <2>2, <3>1 DEF IndInv, ChainInv, m
            <4> QED
                BY <1>2, <1>8, <2>2, <3>1, <4>1
        <3>2. CASE n \in m .. m + k - 1
            <4>1. LeavesUpTo(log, m) = FirstLeaves(chainTree, Len(chainTree))
                BY <1>8, <2>2 DEF IndInv, ChainInv, m
            <4>2. Len(chainTree) \in 0 .. Len(chainTree)
                BY <1>1
            <4> QED
                BY <1>2, <1>8, <2>2, <3>2, <4>1, <4>2
        <3>3. CASE n = m + k
            <4>1. LeavesUpTo(log, m) = FirstLeaves(chainTree, Len(chainTree))
                BY <1>8, <2>2 DEF IndInv, ChainInv, m
            <4>2. LeavesUpTo(log', n) = FirstLeaves(chainTree', Len(chainTree'))
                BY <1>2, <1>8, <2>2, <3>3, <4>1
            <4>3. Len(chainTree') \in 0 .. Len(chainTree')
                BY <1>8, LenProperties
            <4> QED
                BY <4>2, <4>3
        <3> QED
            BY <1>1, <3>1, <3>2, <3>3
    <2>3. treeNumber' = 0 => LeavesUpTo(log', m + k) = FirstLeaves(chainTree', Len(chainTree'))
        <3> SUFFICES ASSUME treeNumber' = 0
                     PROVE  LeavesUpTo(log', m + k) = FirstLeaves(chainTree', Len(chainTree'))
            OBVIOUS
        <3>1. LeavesUpTo(log, m) = FirstLeaves(chainTree, Len(chainTree))
            BY <1>8 DEF IndInv, ChainInv, m
        <3> QED
            BY <1>2, <1>8, <3>1
    <2>4. ASSUME NEW i \in 1 .. m + k
          PROVE  log'[i].hash < m + k
        <3>1. CASE i \in 1 .. m /\ log'[i] = log[i]
            <4>1. log[i].hash < m
                BY <1>1, <3>1 DEF IndInv, ChainInv, m
            <4>2. log[i] \in Events
                BY <1>1, <3>1, ElementOfSeq DEF m
            <4> QED
                BY <1>1, <3>1, <4>1, <4>2 DEF Events, EventsOver
        <3>2. CASE i - m \in 1 .. k /\ log'[i] = es[i - m] /\ i > m
            BY <1>1, <1>4, <3>2
        <3> QED
            BY <1>3, <3>1, <3>2
    <2>5. ASSUME NEW i \in 1 .. m + k, NEW j \in 1 .. m + k,
                 log'[i].tag \in TxIds, log'[j].hash = log'[i].hash
          PROVE  j <= i
        <3>1. CASE i \in 1 .. m /\ log'[i] = log[i] /\ j \in 1 .. m /\ log'[j] = log[j]
            BY <1>1, <2>5, <3>1 DEF IndInv, ChainInv
        <3>2. CASE i \in 1 .. m /\ log'[i] = log[i] /\ j - m \in 1 .. k /\ log'[j] = es[j - m]
            <4>1. log[i].hash < m /\ log'[j].hash = m
                BY <1>1, <1>4, <3>2 DEF IndInv, ChainInv, m
            <4> QED
                BY <1>1, <2>5, <3>2, <4>1
        <3>3. CASE i - m \in 1 .. k /\ log'[i] = es[i - m]
            <4>1. i - m = k
                BY <1>7, <2>5, <3>3
            <4> QED
                BY <1>1, <4>1
        <3> QED
            BY <1>3, <3>1, <3>2, <3>3
    <2>6. ASSUME NEW i \in 1 .. m + k, NEW j \in 1 .. m + k,
                 log'[i].tag \in TxIds, log'[j].tag = log'[i].tag
          PROVE  j = i
        <3>1. CASE i \in 1 .. m /\ log'[i] = log[i] /\ j \in 1 .. m /\ log'[j] = log[j]
            BY <1>1, <2>6, <3>1 DEF IndInv, ChainInv
        <3>2. CASE i \in 1 .. m /\ log'[i] = log[i] /\ j - m \in 1 .. k /\ log'[j] = es[j - m]
            BY <1>6, <1>7, <2>6, <3>2
        <3>3. CASE i - m \in 1 .. k /\ log'[i] = es[i - m] /\ j \in 1 .. m /\ log'[j] = log[j]
            BY <1>6, <1>7, <2>6, <3>3
        <3>4. CASE i - m \in 1 .. k /\ log'[i] = es[i - m] /\ j - m \in 1 .. k /\ log'[j] = es[j - m]
            <4>1. i - m = k /\ j - m = k
                BY <1>7, <2>6, <3>4
            <4> QED
                BY <1>1, <4>1
        <3> QED
            BY <1>3, <3>1, <3>2, <3>3, <3>4
    <2> QED
        BY <1>2, <2>1, <2>2, <2>3, <2>4, <2>5, <2>6 DEF ChainInv
<1>12. NodeInv'
    <2>1. indexed \in 0 .. m /\ 1 .. indexed \subseteq 1 .. m
        BY <1>1 DEF IndInv, TypeOK, m
    <2>2. LeavesUpTo(log', indexed) = LeavesUpTo(log, indexed)
        BY <1>2, <2>1
    <2>3. \A i \in 1 .. indexed : log'[i] = log[i]
        BY <1>2, <2>1
    <2>4. treeLeaves' = {LeafState(leaf) : leaf \in LeavesUpTo(log', indexed')}
        BY <1>9, <2>2 DEF IndInv, NodeInv
    <2>5. \A i \in 1 .. indexed' : \A j \in DOMAIN log'[i].leaves :
            \E c \in confirmed' : c.id = log'[i].leaves[j]
        <3> SUFFICES ASSUME NEW i \in 1 .. indexed, NEW j \in DOMAIN log'[i].leaves
                     PROVE  \E c \in confirmed : c.id = log'[i].leaves[j]
            BY <1>9
        <3>1. log'[i] = log[i]
            BY <2>3
        <3>2. j \in DOMAIN log[i].leaves
            BY <3>1
        <3>3. PICK c \in confirmed : c.id = log[i].leaves[j]
            BY <3>2 DEF IndInv, NodeInv
        <3> QED
            BY <3>1, <3>3
    <2>6. \A i \in 1 .. indexed' : \A n \in log'[i].nullifiers : \E s \in spent' : s.id = n
        BY <1>9, <2>3 DEF IndInv, NodeInv
    <2>7. \A t \in completed' : \E i \in 1 .. indexed' : log'[i].tag = t
        BY <1>9, <2>3 DEF IndInv, NodeInv
    <2> QED
        BY <2>4, <2>5, <2>6, <2>7 DEF NodeInv
<1> QED
    BY <1>10, <1>11, <1>12 DEF IndInv

-----------------------------------------------------------------------------
(* The node keeps the invariant                                            *)

(* Delivering again what was stored before changes nothing but the cursor; *)
(* delivering what is new adds exactly the effects of the new events.      *)
LEMMA DeliveryKeepsInvariant ==
    ASSUME IndInv, NEW n \in 1 .. MaxBatch, DeliverBatch(n)
    PROVE  IndInv'
<1> DEFINE batch == SubSeq(log, cursor + 1, cursor + n)
           res   == HandleEventBatch(batch)
<1>1. /\ log \in Seq(Events) /\ Len(log) \in Nat /\ DOMAIN log = 1 .. Len(log)
      /\ cursor \in Nat /\ indexed \in Nat /\ cursor <= indexed /\ indexed <= Len(log)
      /\ n \in Nat /\ n >= 1 /\ cursor + n <= Len(log)
    BY LenProperties, EventIndexerAssumption DEF IndInv, TypeOK, DeliverBatch
<1>2. UNCHANGED <<log, chainTree, treeNumber, restarts>>
    BY DEF DeliverBatch, chainVars
<1>3. ChainInv'
    BY <1>2 DEF IndInv, ChainInv
<1>4. CASE res.failed
    <2>1. UNCHANGED <<cursor, indexed, confirmed, treeLeaves, spent, completed>>
        BY <1>4 DEF DeliverBatch, nodeVars
    <2>2. TypeOK'
        BY <1>2, <2>1 DEF IndInv, TypeOK
    <2>3. NodeInv'
        BY <1>2, <2>1 DEF IndInv, NodeInv
    <2> QED
        BY <1>3, <2>2, <2>3 DEF IndInv
<1>5. CASE ~res.failed
    <2>1. /\ cursor' = cursor + n
          /\ indexed' = IF cursor + n > indexed THEN cursor + n ELSE indexed
          /\ confirmed' = confirmed \cup res.confirmed
          /\ treeLeaves' = treeLeaves \cup res.newStates
          /\ spent' = spent \cup res.spent
          /\ completed' = completed \cup res.complete
        BY <1>5 DEF DeliverBatch
    <2>2. /\ batch \in Seq(Events) /\ DOMAIN batch = 1 .. n
          /\ \A i \in 1 .. n : batch[i] = log[cursor + i]
        <3>1. /\ cursor + 1 \in 1 .. Len(log) + 1 /\ cursor + n \in Nat
              /\ \A i \in cursor + 1 .. cursor + n : log[i] \in Events
            BY <1>1, ElementOfSeq
        <3>2. /\ batch \in Seq(Events)
              /\ Len(batch) = (IF cursor + 1 <= cursor + n THEN (cursor + n) - (cursor + 1) + 1 ELSE 0)
              /\ \A i \in 1 .. ((cursor + n) - (cursor + 1) + 1) : batch[i] = log[(cursor + 1) + i - 1]
            BY <1>1, <3>1, SubSeqProperties
        <3>3. Len(batch) = n /\ (cursor + n) - (cursor + 1) + 1 = n
            BY <1>1, <3>2
        <3>4. \A i \in 1 .. n : (cursor + 1) + i - 1 = cursor + i
            BY <1>1
        <3>5. DOMAIN batch = 1 .. Len(batch)
            BY <3>2, LenProperties
        <3> QED
            BY <3>2, <3>3, <3>4, <3>5
    <2>3. \A i \in 1 .. n : cursor + i \in 1 .. Len(log) /\ cursor + i \in 1 .. indexed'
        BY <1>1, <2>1
    <2>4. \A i \in 1 .. indexed : i \in 1 .. indexed'
        BY <1>1, <2>1
    <2>5. ASSUME NEW i \in 1 .. indexed', i \notin 1 .. indexed
          PROVE  i - cursor \in 1 .. n /\ batch[i - cursor] = log[i]
        <3>1. i - cursor \in 1 .. n /\ cursor + (i - cursor) = i
            BY <1>1, <2>1, <2>5
        <3> QED
            BY <2>2, <3>1
    <2>6. \A i \in 1 .. n : GoodEvent(batch[i])
        BY <1>1, <2>2, <2>3 DEF IndInv, ChainInv
    <2> HIDE DEF batch, res
    <2>7. /\ res.newStates = {LeafState(leaf) : leaf \in UNION {LeavesOf(batch[i]) : i \in 1 .. n}}
          /\ \A i \in 1 .. n : \A j \in DOMAIN batch[i].leaves :
                \E c \in res.confirmed : c.id = batch[i].leaves[j]
          /\ \A i \in 1 .. n : \A x \in batch[i].nullifiers : \E s \in res.spent : s.id = x
          /\ \A t \in res.complete : \E i \in 1 .. n : batch[i].tag = t
          /\ res.complete \subseteq Tags
          /\ res.confirmed \subseteq [id : Commitments, tx : Tags \cup {NoTx}]
          /\ res.spent \subseteq [id : Nullifiers, tx : Tags \cup {NoTx}]
        BY <1>5, <2>2, <2>6, HandleEventBatchFacts DEF Events, res
    <2>8. LeavesUpTo(log, indexed')
            = LeavesUpTo(log, indexed) \cup UNION {LeavesOf(batch[i]) : i \in 1 .. n}
        <3>1. LeavesUpTo(log, indexed) \subseteq LeavesUpTo(log, indexed')
            BY <2>4 DEF LeavesUpTo
        <3>2. ASSUME NEW i \in 1 .. n
              PROVE  LeavesOf(batch[i]) \subseteq LeavesUpTo(log, indexed')
            BY <2>2, <2>3 DEF LeavesUpTo
        <3>3. ASSUME NEW i \in 1 .. indexed'
              PROVE  LeavesOf(log[i]) \subseteq
                        LeavesUpTo(log, indexed) \cup UNION {LeavesOf(batch[j]) : j \in 1 .. n}
            <4>1. CASE i \in 1 .. indexed
                BY <4>1 DEF LeavesUpTo
            <4>2. CASE i \notin 1 .. indexed
                <5>1. i - cursor \in 1 .. n /\ batch[i - cursor] = log[i]
                    BY <2>5, <4>2
                <5>2. LeavesOf(batch[i - cursor]) \subseteq UNION {LeavesOf(batch[j]) : j \in 1 .. n}
                    BY <5>1
                <5> QED
                    BY <5>1, <5>2
            <4> QED
                BY <4>1, <4>2
        <3>4. LeavesUpTo(log, indexed') \subseteq
                LeavesUpTo(log, indexed) \cup UNION {LeavesOf(batch[j]) : j \in 1 .. n}
            BY <3>3 DEF LeavesUpTo
        <3> QED
            BY <3>1, <3>2, <3>4
    <2>9. treeLeaves' = {LeafState(leaf) : leaf \in LeavesUpTo(log', indexed')}
        <3>1. treeLeaves = {LeafState(leaf) : leaf \in LeavesUpTo(log, indexed)}
            BY DEF IndInv, NodeInv
        <3> QED
            BY <1>2, <2>1, <2>7, <2>8, <3>1
    <2>10. ASSUME NEW i \in 1 .. indexed', NEW j \in DOMAIN log[i].leaves
           PROVE  \E c \in confirmed' : c.id = log[i].leaves[j]
        <3>1. CASE i \in 1 .. indexed
            <4>1. \E c \in confirmed : c.id = log[i].leaves[j]
                BY <3>1 DEF IndInv, NodeInv
            <4> QED
                BY <2>1, <4>1
        <3>2. CASE i \notin 1 .. indexed
            <4>1. i - cursor \in 1 .. n /\ batch[i - cursor] = log[i]
                BY <2>5, <3>2
            <4>2. \E c \in res.confirmed : c.id = log[i].leaves[j]
                BY <2>7, <4>1
            <4> QED
                BY <2>1, <4>2
        <3> QED
            BY <3>1, <3>2
    <2>11. ASSUME NEW i \in 1 .. indexed', NEW x \in log[i].nullifiers
           PROVE  \E s \in spent' : s.id = x
        <3>1. CASE i \in 1 .. indexed
            <4>1. \E s \in spent : s.id = x
                BY <3>1 DEF IndInv, NodeInv
            <4> QED
                BY <2>1, <4>1
        <3>2. CASE i \notin 1 .. indexed
            <4>1. i - cursor \in 1 .. n /\ batch[i - cursor] = log[i]
                BY <2>5, <3>2
            <4>2. \E s \in res.spent : s.id = x
                BY <2>7, <4>1
            <4> QED
                BY <2>1, <4>2
        <3> QED
            BY <3>1, <3>2
    <2>12. ASSUME NEW t \in completed'
           PROVE  \E i \in 1 .. indexed' : log[i].tag = t
        <3>1. CASE t \in completed
            <4>1. \E i \in 1 .. indexed : log[i].tag = t
                BY <3>1 DEF IndInv, NodeInv
            <4> QED
                BY <2>4, <4>1
        <3>2. CASE t \in res.complete
            <4>1. \E i \in 1 .. n : batch[i].tag = t
                BY <2>7, <3>2
            <4> QED
                BY <2>2, <2>3, <4>1
        <3> QED
            BY <2>1, <3>1, <3>2
    <2>13. NodeInv'
        BY <1>2, <2>9, <2>10, <2>11, <2>12 DEF NodeInv
    <2>14. treeLeaves' \subseteq [id : Nat \X Commitments, leafIndex : Nat, commitment : Commitments]
        <3>1. ASSUME NEW i \in 1 .. n, NEW j \in DOMAIN batch[i].leaves
              PROVE  /\ batch[i].start + j - 1 \in Nat
                     /\ batch[i].leaves[j] \in Commitments
            <4>1. batch[i] \in Events
                BY <2>2, ElementOfSeq, LenProperties
            <4>2. batch[i].start \in Nat /\ batch[i].leaves \in Seq(Commitments)
                BY <4>1 DEF Events, EventsOver
            <4>3. j \in 1 .. Len(batch[i].leaves) /\ Len(batch[i].leaves) \in Nat
                BY <4>2, LenProperties
            <4> QED
                BY <4>2, <4>3, ElementOfSeq
        <3>2. ASSUME NEW x \in res.newStates
              PROVE  x \in [id : Nat \X Commitments, leafIndex : Nat, commitment : Commitments]
            <4>1. PICK i \in 1 .. n : \E leaf \in LeavesOf(batch[i]) : x = LeafState(leaf)
                BY <2>7
            <4>2. PICK j \in DOMAIN batch[i].leaves :
                    x = LeafState(<<batch[i].start + j - 1, batch[i].leaves[j]>>)
                BY <4>1 DEF LeavesOf
            <4> QED
                BY <3>1, <4>2 DEF LeafState
        <3> QED
            BY <2>1, <3>2 DEF IndInv, TypeOK
    <2>15. TypeOK'
        <3>1. cursor' \in 0 .. indexed' /\ indexed' \in 0 .. Len(log)
            BY <1>1, <2>1
        <3>2. /\ confirmed' \subseteq [id : Commitments, tx : Tags \cup {NoTx}]
              /\ spent' \subseteq [id : Nullifiers, tx : Tags \cup {NoTx}]
              /\ completed' \subseteq Tags
            BY <2>1, <2>7 DEF IndInv, TypeOK
        <3> QED
            BY <1>2, <2>14, <3>1, <3>2 DEF IndInv, TypeOK
    <2> QED
        BY <1>3, <2>13, <2>15 DEF IndInv
<1> QED
    BY <1>4, <1>5

-----------------------------------------------------------------------------
(* The invariant of every behaviour                                        *)

LEMMA InitEstablishesInvariant == Init => IndInv
<1> SUFFICES ASSUME Init PROVE IndInv
    OBVIOUS
<1>1. /\ log = <<>> /\ chainTree = <<>> /\ treeNumber = 0 /\ cursor = 0 /\ indexed = 0
      /\ confirmed = {} /\ treeLeaves = {} /\ spent = {} /\ completed = {} /\ restarts = 0
    BY DEF Init
<1>2. /\ log \in Seq(Events) /\ Len(log) = 0 /\ DOMAIN log = {}
      /\ chainTree \in Seq(Commitments) /\ Len(chainTree) = 0
    BY <1>1, EmptySeq
<1>3. TypeOK
    BY <1>1, <1>2, EventIndexerAssumption DEF TypeOK
<1>4. LeavesUpTo(log, 0) = {} /\ FirstLeaves(chainTree, 0) = {}
    BY DEF LeavesUpTo, FirstLeaves
<1>5. ChainInv
    <2>1. \A n \in 0 .. Len(log) : n = 0
        BY <1>2
    <2>2. 0 \in 0 .. Len(chainTree)
        BY <1>2
    <2> QED
        BY <1>2, <1>4, <2>1, <2>2 DEF ChainInv
<1>6. NodeInv
    <2>1. 1 .. indexed = {}
        BY <1>1
    <2> QED
        BY <1>1, <1>4, <2>1 DEF NodeInv
<1> QED
    BY <1>3, <1>5, <1>6 DEF IndInv

LEMMA ShortSequences ==
    ASSUME NEW leaves \in {<<>>} \cup [1 .. 1 -> Commitments] \cup [1 .. 2 -> Commitments]
    PROVE  leaves \in Seq(Commitments)
<1>1. CASE leaves = <<>>
    BY <1>1
<1>2. CASE leaves \in [1 .. 1 -> Commitments]
    BY <1>2, SeqDef
<1>3. CASE leaves \in [1 .. 2 -> Commitments]
    BY <1>3, SeqDef
<1> QED
    BY <1>1, <1>2, <1>3

LEMMA NextKeepsInvariant == IndInv /\ [Next]_vars => IndInv'
<1> SUFFICES ASSUME IndInv, [Next]_vars PROVE IndInv'
    OBVIOUS
<1>1. ASSUME NEW tag \in Tags, NEW leaves, NEW decode \in ShieldDecoding,
             leaves \in {<<>>} \cup [1 .. 1 -> Commitments] \cup [1 .. 2 -> Commitments],
             MineShield(tag, leaves, decode)
      PROVE  IndInv'
    <2> DEFINE start == Position(chainTree, leaves, TreeCapacity)
               es    == ShieldEvents(Len(log), tag, start, leaves, decode)
    <2>1. leaves \in Seq(Commitments) /\ leaves # <<>> /\ tag \in Tags \ UsedTags
        <3>1. leaves \in Seq(Commitments)
            BY <1>1, ShortSequences
        <3>2. tag \in Tags \ UsedTags /\ leaves # <<>>
            BY <1>1 DEF MineShield
        <3> QED
            BY <3>1, <3>2
    <2>2. Len(log) \in Nat /\ start \in Nat
        BY LenProperties DEF IndInv, TypeOK, Position
    <2>3. /\ log' = log \o es
          /\ IF leaves = <<>> THEN UNCHANGED <<chainTree, treeNumber>> ELSE Insert(leaves)
          /\ UNCHANGED <<nodeVars, restarts>>
        BY <1>1, <2>1 DEF MineShield
    <2> HIDE DEF es
    <2>4. IsCall(Events, es, Len(log), tag, start, leaves)
        BY <2>1, <2>2, ShieldIsCall, EventIndexerAssumption DEF Events, es
    <2> QED
        BY <2>1, <2>3, <2>4, CallKeepsInvariant
<1>2. ASSUME NEW tag \in Tags, NEW leaves, NEW nullifiers \in SUBSET Nullifiers, NEW unshields \in BOOLEAN,
             leaves \in {<<>>} \cup [1 .. 1 -> Commitments] \cup [1 .. 2 -> Commitments],
             MineTransact(tag, nullifiers, leaves, unshields)
      PROVE  IndInv'
    <2> DEFINE start == Position(chainTree, leaves, TreeCapacity)
               es    == TransactEvents(Len(log), tag, start, nullifiers, leaves, unshields)
    <2>1. leaves \in Seq(Commitments) /\ tag \in Tags \ UsedTags
        <3>1. leaves \in Seq(Commitments)
            BY <1>2, ShortSequences
        <3>2. tag \in Tags \ UsedTags
            BY <1>2 DEF MineTransact
        <3> QED
            BY <3>1, <3>2
    <2>2. Len(log) \in Nat /\ start \in Nat
        BY LenProperties DEF IndInv, TypeOK, Position
    <2>3. /\ log' = log \o es
          /\ IF leaves = <<>> THEN UNCHANGED <<chainTree, treeNumber>> ELSE Insert(leaves)
          /\ UNCHANGED <<nodeVars, restarts>>
        BY <1>2 DEF MineTransact
    <2> HIDE DEF es
    <2>4. IsCall(Events, es, Len(log), tag, start, leaves)
        BY <2>1, <2>2, TransactIsCall DEF Events, es
    <2> QED
        BY <2>1, <2>3, <2>4, CallKeepsInvariant
<1>3. ASSUME NEW n \in 1 .. MaxBatch, DeliverBatch(n)
      PROVE  IndInv'
    BY <1>3, DeliveryKeepsInvariant
<1>4. CASE Restart
    <2>1. UNCHANGED <<log, chainTree, treeNumber, indexed, confirmed, treeLeaves, spent, completed>>
        BY <1>4 DEF Restart, chainVars
    <2>2. cursor' \in 0 .. indexed
        BY <1>4 DEF Restart, IndInv, TypeOK
    <2>3. restarts' \in 0 .. MaxRestarts
        BY <1>4, EventIndexerAssumption DEF Restart, IndInv, TypeOK
    <2>4. TypeOK'
        BY <2>1, <2>2, <2>3 DEF IndInv, TypeOK
    <2>5. ChainInv'
        BY <2>1 DEF IndInv, ChainInv
    <2>6. NodeInv'
        BY <2>1 DEF IndInv, NodeInv
    <2> QED
        BY <2>4, <2>5, <2>6 DEF IndInv
<1>5. CASE UNCHANGED vars
    <2>1. UNCHANGED <<log, chainTree, treeNumber, cursor, indexed, confirmed, treeLeaves, spent, completed, restarts>>
        BY <1>5 DEF vars, chainVars, nodeVars
    <2>2. TypeOK'
        BY <2>1 DEF IndInv, TypeOK
    <2>3. ChainInv'
        BY <2>1 DEF IndInv, ChainInv
    <2>4. NodeInv'
        BY <2>1 DEF IndInv, NodeInv
    <2> QED
        BY <2>2, <2>3, <2>4 DEF IndInv
<1> QED
    BY <1>1, <1>2, <1>3, <1>4, <1>5 DEF Next, Mine, Deliver

LEMMA InvariantAlways == Spec => []IndInv
<1> QED
    BY InitEstablishesInvariant, NextKeepsInvariant, PTL DEF Spec

(* Every variable keeps its type: the cursors are positions of the log,    *)
(* and every stored record names a commitment, a nullifier and a           *)
(* transaction the events can name.                                        *)
THEOREM TypeCorrect == Spec => []TypeOK
<1>1. IndInv => TypeOK
    BY DEF IndInv
<1> QED
    BY <1>1, InvariantAlways, PTL

(* A transaction is reported complete only after all its effects are       *)
(* stored, wherever the batches are cut and whatever is delivered again:   *)
(* the event that carries the id is the last of its on-chain transaction,  *)
(* so that a batch that has it ends a prefix with all of them.             *)
THEOREM CompletionTheorem == Spec => []CompletionFollowsEffects
<1>1. IndInv => CompletionFollowsEffects
    <2> SUFFICES ASSUME IndInv,
                        NEW i \in DOMAIN log, NEW j \in DOMAIN log,
                        log[i].tag \in TxIds \cap completed, log[j].hash = log[i].hash
                 PROVE  /\ \A k \in DOMAIN log[j].leaves : \E c \in confirmed : c.id = log[j].leaves[k]
                        /\ \A n \in log[j].nullifiers : \E s \in spent : s.id = n
        BY DEF CompletionFollowsEffects
    <2>0. DOMAIN log = 1 .. Len(log) /\ Len(log) \in Nat /\ indexed \in 0 .. Len(log)
        BY LenProperties DEF IndInv, TypeOK
    <2>1. PICK p \in 1 .. indexed : log[p].tag = log[i].tag
        BY DEF IndInv, NodeInv
    <2>2. p \in DOMAIN log
        BY <2>0
    <2>3. p = i
        BY <2>1, <2>2 DEF IndInv, ChainInv
    <2>4. j <= i
        BY DEF IndInv, ChainInv
    <2>5. j \in 1 .. indexed
        BY <2>0, <2>3, <2>4
    <2> QED
        BY <2>5 DEF IndInv, NodeInv
<1> QED
    BY <1>1, InvariantAlways, PTL

-----------------------------------------------------------------------------
(* The tree a transaction rebuilds                                         *)

(* In the contract's first tree, the tree a transaction rebuilds from the  *)
(* stored states is the contract's tree as of the last event ever stored.  *)
THEOREM LoadedTreeTheorem == Spec => []LoadedTreeIsContractTree
<1>1. IndInv => LoadedTreeIsContractTree
    <2> SUFFICES ASSUME IndInv, treeNumber = 0
                 PROVE  LoadTree(treeLeaves)
                          = SubSeq(chainTree, 1, Cardinality(LeavesUpTo(log, indexed)))
        BY DEF LoadedTreeIsContractTree
    <2>1. chainTree \in Seq(Commitments) /\ indexed \in 0 .. Len(log)
        BY DEF IndInv, TypeOK
    <2>2. PICK k \in 0 .. Len(chainTree) : LeavesUpTo(log, indexed) = FirstLeaves(chainTree, k)
        BY <2>1 DEF IndInv, ChainInv
    <2>3. treeLeaves = {LeafState(leaf) : leaf \in FirstLeaves(chainTree, k)}
        BY <2>2 DEF IndInv, NodeInv
    <2>4. Cardinality(LeavesUpTo(log, indexed)) = k
        BY <2>1, <2>2, FirstLeavesCounted
    <2>5. LoadTree(treeLeaves) = SubSeq(chainTree, 1, k)
        BY <2>1, <2>3, LoadTreeOfFirstLeaves
    <2> QED
        BY <2>4, <2>5
<1> QED
    BY <1>1, InvariantAlways, PTL

-----------------------------------------------------------------------------
(* The invariant that IndInv is strengthened by                            *)

(* No commitment and no nullifier is in two events. The event that carries *)
(* a tag, anybody's, is the last of its on-chain transaction, and events   *)
(* with leaves carry one.                                                  *)
OnceInv ==
    /\ \A i, j \in DOMAIN log : log[i].tag # NoTx /\ log[j].hash = log[i].hash => j <= i
    /\ \A i \in DOMAIN log : log[i].leaves # <<>> => log[i].tag # NoTx
    /\ \A i, j \in DOMAIN log : \A p \in DOMAIN log[i].leaves, q \in DOMAIN log[j].leaves :
            log[i].leaves[p] = log[j].leaves[q] => i = j
    /\ \A i, j \in DOMAIN log : log[i].nullifiers \cap log[j].nullifiers # {} => i = j

(* What is confirmed, spent and completed comes from an event among the    *)
(* first indexed ones, and so does the transaction it is attributed to.    *)
ConfirmedBy(c, ev) == c.tx \in {ev.tag, NoTx} /\ \E p \in DOMAIN ev.leaves : c.id = ev.leaves[p]
SpentBy(s, events, ev) ==
    /\ s.id \in ev.nullifiers
    /\ \/ s.tx = NoTx
       \/ \E j \in DOMAIN events : events[j].hash = ev.hash /\ events[j].tag = s.tx
OriginInv ==
    /\ \A c \in confirmed : \E i \in 1 .. indexed : ConfirmedBy(c, log[i])
    /\ \A s \in spent : \E i \in 1 .. indexed : SpentBy(s, log, log[i])
    /\ completed = {log[i].tag : i \in 1 .. indexed} \ {NoTx}

RefInv == OnceInv /\ OriginInv

(* The view as the refinement mapping presents it.                         *)
ViewInv ==
    /\ {<<l.leafIndex, l.commitment>> : l \in treeLeaves} = Replica!LeavesIn(log, indexed)
    /\ {c.id : c \in confirmed} = Replica!NotesIn(log, indexed)
    /\ {s.id : s \in spent} = Replica!SpentIn(log, indexed)
    /\ completed = {log[i].tag : i \in 1 .. indexed} \ {NoTx}

-----------------------------------------------------------------------------
(* What a batch attributes                                                 *)

(* An id that is in the batch is found, if it is in the last event of its  *)
(* on-chain transaction.                                                   *)
LEMMA CorrelationFindsTheTag ==
    ASSUME NEW batch \in Seq(Events), NEW i \in DOMAIN batch, Correlates(batch[i]),
           \A j \in DOMAIN batch : batch[j].hash = batch[i].hash => j <= i
    PROVE  TxCorrelation(batch, batch[i].hash) = batch[i].tag
<1> DEFINE hash == batch[i].hash
           tagged == {k \in DOMAIN batch : Correlates(batch[k]) /\ batch[k].hash = hash}
           IsLast(k) == \A j \in tagged : j <= k
<1>1. i \in tagged /\ IsLast(i)
    OBVIOUS
<1>2. DOMAIN batch = 1 .. Len(batch) /\ Len(batch) \in Nat
    BY LenProperties
<1>3. (CHOOSE k \in tagged : IsLast(k)) \in tagged /\ IsLast(CHOOSE k \in tagged : IsLast(k))
    BY <1>1
<1>4. (CHOOSE k \in tagged : IsLast(k)) = i
    <2>1. ASSUME NEW k \in tagged, IsLast(k)
          PROVE  k = i
        <3>1. k \in 1 .. Len(batch) /\ i \in 1 .. Len(batch)
            BY <1>2
        <3>2. i <= k /\ k <= i
            BY <1>1, <2>1
        <3> QED
            BY <1>2, <3>1, <3>2
    <2> QED
        BY <1>3, <2>1
<1>5. TxCorrelation(batch, hash) = batch[CHOOSE k \in tagged : IsLast(k)].tag
    BY <1>1 DEF TxCorrelation
<1> QED
    BY <1>4, <1>5

LEMMA HandleEventCompletes ==
    ASSUME NEW ev \in Events, GoodEvent(ev), NEW txID, ~HandleEvent(ev, txID).failed,
           ev.kind \in {"shield", "transact"}
    PROVE  HandleEvent(ev, txID).complete = {txID} \ {NoTx}
<1>1. RecordCommitments(ev, txID).complete = {txID} \ {NoTx}
    BY DEF RecordCommitments, NoUpdate, RecordComplete
<1>2. CASE ev.kind = "shield"
    <2>1. HandleEvent(ev, txID) = HandleShieldEvent(ev, txID)
        BY <1>2 DEF HandleEvent, GoodEvent
    <2>2. ev.decode # "unhashable"
        BY <2>1 DEF HandleShieldEvent, NoUpdate
    <2> QED
        BY <1>1, <2>1, <2>2 DEF HandleShieldEvent
<1>3. CASE ev.kind = "transact"
    BY <1>1, <1>3 DEF HandleEvent, HandleTransactEvent, GoodEvent
<1> QED
    BY <1>2, <1>3

(* A batch confirms and spends in nobody's name or in that of an event of  *)
(* the same on-chain transaction, and completes every id that is in it.    *)
LEMMA BatchOrigins ==
    ASSUME NEW batch \in Seq(Events), \A i \in DOMAIN batch : GoodEvent(batch[i]),
           ~HandleEventBatch(batch).failed,
           \A i, j \in DOMAIN batch : batch[i].tag # NoTx /\ batch[j].hash = batch[i].hash => j <= i,
           \A i \in DOMAIN batch : batch[i].leaves # <<>> => batch[i].tag # NoTx
    PROVE  /\ \A c \in HandleEventBatch(batch).confirmed : \E i \in DOMAIN batch : ConfirmedBy(c, batch[i])
           /\ \A s \in HandleEventBatch(batch).spent : \E i \in DOMAIN batch : SpentBy(s, batch, batch[i])
           /\ \A i \in DOMAIN batch : batch[i].tag # NoTx => batch[i].tag \in HandleEventBatch(batch).complete
<1> DEFINE res    == HandleEventBatch(batch)
           txID(i) == TxCorrelation(batch, batch[i].hash)
           u(i)    == HandleEvent(batch[i], txID(i))
           updates == {u(i) : i \in DOMAIN batch}
<1>1. /\ res.confirmed = UNION {v.confirmed : v \in updates}
      /\ res.spent = UNION {v.spent : v \in updates}
      /\ res.complete = UNION {v.complete : v \in updates}
      /\ res.failed = \E v \in updates : v.failed
    BY DEF HandleEventBatch
<1>2. DOMAIN batch = 1 .. Len(batch) /\ Len(batch) \in Nat /\ \A i \in DOMAIN batch : batch[i] \in Events
    BY LenProperties, ElementOfSeq
<1>3. ASSUME NEW i \in DOMAIN batch
      PROVE  \/ txID(i) = NoTx
             \/ \E k \in DOMAIN batch : /\ batch[k].hash = batch[i].hash /\ batch[k].tag # NoTx
                                        /\ txID(i) = batch[k].tag
    BY CorrelationComesFromTheHash DEF Correlates
<1>4. ASSUME NEW i \in DOMAIN batch
      PROVE  /\ ~u(i).failed
             /\ u(i).confirmed = {[id |-> batch[i].leaves[j], tx |-> txID(i)] : j \in DOMAIN batch[i].leaves}
             /\ u(i).spent = {[id |-> n, tx |-> txID(i)] : n \in batch[i].nullifiers}
    <2>1. ~u(i).failed
        BY <1>1
    <2>2. batch[i].kind \in EventKinds
        BY <1>2 DEF Events, EventsOver
    <2> HIDE DEF txID
    <2> QED
        BY <2>1, <2>2, HandleEventFacts
<1>5. ASSUME NEW i \in DOMAIN batch, batch[i].tag # NoTx
      PROVE  batch[i].tag \in res.complete
    <2>1. batch[i].kind \in {"shield", "transact"} /\ Correlates(batch[i])
        BY <1>5 DEF GoodEvent, Correlates
    <2>2. txID(i) = batch[i].tag
        BY <1>5, <2>1, CorrelationFindsTheTag
    <2>3. u(i).complete = {txID(i)} \ {NoTx}
        <3>1. ~u(i).failed
            BY <1>4
        <3> HIDE DEF txID
        <3> QED
            BY <1>2, <2>1, <3>1, HandleEventCompletes
    <2>4. batch[i].tag \in u(i).complete
        BY <1>5, <2>2, <2>3
    <2> HIDE DEF u
    <2> QED
        BY <1>1, <2>4
<1> HIDE DEF u, res, txID
<1>6. ASSUME NEW c \in res.confirmed
      PROVE  \E i \in DOMAIN batch : ConfirmedBy(c, batch[i])
    <2>1. PICK i \in DOMAIN batch : \E p \in DOMAIN batch[i].leaves : c = [id |-> batch[i].leaves[p], tx |-> txID(i)]
        BY <1>1, <1>4
    <2>2. PICK p \in DOMAIN batch[i].leaves : c = [id |-> batch[i].leaves[p], tx |-> txID(i)]
        BY <2>1
    <2>3. batch[i].leaves # <<>>
        BY <2>2
    <2>4. txID(i) \in {batch[i].tag, NoTx}
        <3>1. ASSUME NEW k \in DOMAIN batch, batch[k].hash = batch[i].hash, batch[k].tag # NoTx
              PROVE  k = i
            <4>1. i <= k /\ k <= i
                BY <2>3, <3>1
            <4> QED
                BY <1>2, <4>1
        <3> QED
            BY <1>3, <3>1
    <2>5. c.tx = txID(i) /\ c.id = batch[i].leaves[p]
        BY <2>2
    <2> QED
        BY <2>4, <2>5 DEF ConfirmedBy
<1>7. ASSUME NEW s \in res.spent
      PROVE  \E i \in DOMAIN batch : SpentBy(s, batch, batch[i])
    <2>1. PICK i \in DOMAIN batch : \E n \in batch[i].nullifiers : s = [id |-> n, tx |-> txID(i)]
        BY <1>1, <1>4
    <2>2. s.id \in batch[i].nullifiers /\ s.tx = txID(i)
        BY <2>1
    <2> QED
        BY <1>3, <2>2 DEF SpentBy
<1> QED
    BY <1>5, <1>6, <1>7 DEF res

-----------------------------------------------------------------------------
(* The contract keeps the invariant                                        *)

(* What a call publishes is new, and it publishes it once.                 *)
LEMMA CallKeepsOrigins ==
    ASSUME IndInv, RefInv,
           NEW tag \in Tags \ UsedTags, NEW L \in Seq(Commitments), NEW es, NEW nulls,
           NEW start, IsCall(Events, es, Len(log), tag, start, L), PublishesOnce(es, nulls),
           FreshLeaves(L), nulls \subseteq Nullifiers \ Published,
           log' = log \o es, UNCHANGED nodeVars
    PROVE  RefInv'
<1> DEFINE m == Len(log)
           k == Len(es)
<1>1. /\ log \in Seq(Events) /\ m \in Nat /\ k \in Nat /\ k >= 1 /\ DOMAIN log = 1 .. m
      /\ \A i \in 1 .. m : log[i] \in Events /\ log[i].hash < m /\ log[i].hash \in Nat
    <2>1. log \in Seq(Events) /\ es \in Seq(Events)
        BY DEF IndInv, TypeOK, IsCall
    <2>2. m \in Nat /\ k \in Nat /\ k >= 1 /\ DOMAIN log = 1 .. m
        BY <2>1, LenProperties DEF IsCall
    <2>3. \A i \in 1 .. m : log[i] \in Events
        BY <2>1, <2>2, ElementOfSeq
    <2>4. \A i \in 1 .. m : log[i].hash < m
        BY <2>2 DEF IndInv, ChainInv
    <2> QED
        BY <2>1, <2>2, <2>3, <2>4 DEF Events, EventsOver
<1>2. /\ DOMAIN log' = 1 .. m + k
      /\ \A i \in 1 .. m : log'[i] = log[i]
      /\ \A i \in 1 .. k : log'[m + i] = es[i]
    <2>1. log \o es \in Seq(Events) => DOMAIN (log \o es) = 1 .. Len(log \o es)
        BY LenProperties
    <2> QED
        BY <1>1, <2>1, LeavesOfLongerLog
<1>3. ASSUME NEW i \in 1 .. m + k
      PROVE  \/ i \in 1 .. m /\ log'[i] = log[i]
             \/ i - m \in 1 .. k /\ log'[i] = es[i - m] /\ i > m
    <2>1. CASE i \in 1 .. m
        BY <1>2, <2>1
    <2>2. CASE i \notin 1 .. m
        <3>1. i - m \in 1 .. k /\ m + (i - m) = i /\ i > m
            BY <1>1, <2>2
        <3>2. log'[m + (i - m)] = es[i - m]
            BY <1>2, <3>1
        <3> QED
            BY <3>1, <3>2
    <2> QED
        BY <2>1, <2>2
<1>4. /\ \A i \in 1 .. k : es[i].hash = m
      /\ \A i \in 1 .. k - 1 : es[i].leaves = <<>> /\ es[i].tag = NoTx
      /\ es[k].leaves = L
    BY DEF IsCall
<1>5. /\ \A i \in 1 .. k : es[i].leaves # <<>> => es[i].tag # NoTx
      /\ \A i \in 1 .. k : es[i].nullifiers \subseteq nulls
      /\ \A i \in 1 .. k : es[i].nullifiers # {} => i = 1
    BY DEF PublishesOnce
<1>6. \A i \in 1 .. k : es[i].tag # NoTx \/ es[i].leaves # <<>> => i = k
    <2> SUFFICES ASSUME NEW i \in 1 .. k, i # k
                 PROVE  es[i].tag = NoTx /\ es[i].leaves = <<>>
        OBVIOUS
    <2>1. i \in 1 .. k - 1
        BY <1>1
    <2> QED
        BY <1>4, <2>1
<1>7. \A i \in 1 .. m : \A p \in DOMAIN log[i].leaves, q \in DOMAIN L : log[i].leaves[p] # L[q]
    BY <1>1 DEF FreshLeaves, Inserted
<1>8. \A i \in 1 .. m : log[i].nullifiers \cap nulls = {}
    BY <1>1 DEF Published
<1>9. UNCHANGED <<indexed, confirmed, spent, completed>>
    BY DEF nodeVars
<1> HIDE DEF m, k
<1>10. OnceInv'
    <2>1. ASSUME NEW i \in 1 .. m + k, NEW j \in 1 .. m + k, log'[i].tag # NoTx, log'[j].hash = log'[i].hash
          PROVE  j <= i
        <3>1. CASE i \in 1 .. m /\ log'[i] = log[i] /\ j \in 1 .. m /\ log'[j] = log[j]
            BY <1>1, <2>1, <3>1 DEF RefInv, OnceInv
        <3>2. CASE i \in 1 .. m /\ log'[i] = log[i] /\ j - m \in 1 .. k /\ log'[j] = es[j - m]
            <4>1. log[i].hash < m /\ log'[j].hash = m
                BY <1>1, <1>4, <3>2
            <4> QED
                BY <1>1, <2>1, <3>2, <4>1
        <3>3. CASE i - m \in 1 .. k /\ log'[i] = es[i - m]
            <4>1. i - m = k
                BY <1>6, <2>1, <3>3
            <4> QED
                BY <1>1, <4>1
        <3> QED
            BY <1>3, <3>1, <3>2, <3>3
    <2>2. ASSUME NEW i \in 1 .. m + k, log'[i].leaves # <<>>
          PROVE  log'[i].tag # NoTx
        BY <1>1, <1>3, <1>5, <2>2 DEF RefInv, OnceInv
    <2>3. ASSUME NEW i \in 1 .. m + k, NEW j \in 1 .. m + k,
                 NEW p \in DOMAIN log'[i].leaves, NEW q \in DOMAIN log'[j].leaves,
                 log'[i].leaves[p] = log'[j].leaves[q]
          PROVE  i = j
        <3>1. CASE i \in 1 .. m /\ log'[i] = log[i] /\ j \in 1 .. m /\ log'[j] = log[j]
            BY <1>1, <2>3, <3>1 DEF RefInv, OnceInv
        <3>2. ASSUME NEW x \in 1 .. m + k, x - m \in 1 .. k, log'[x] = es[x - m], log'[x].leaves # <<>>
              PROVE  x = m + k /\ log'[x].leaves = L
            <4>1. x - m = k
                BY <1>6, <3>2
            <4> QED
                BY <1>1, <1>4, <3>2, <4>1
        <3>3. log'[i].leaves # <<>> /\ log'[j].leaves # <<>>
            <4>1. \A f : f = <<>> => DOMAIN f = {}
                OBVIOUS
            <4>2. DOMAIN log'[i].leaves # {} /\ DOMAIN log'[j].leaves # {}
                OBVIOUS
            <4> QED
                BY <4>1, <4>2
        <3>4. CASE i \in 1 .. m /\ log'[i] = log[i] /\ j - m \in 1 .. k /\ log'[j] = es[j - m]
            BY <1>7, <2>3, <3>2, <3>3, <3>4
        <3>5. CASE i - m \in 1 .. k /\ log'[i] = es[i - m] /\ j \in 1 .. m /\ log'[j] = log[j]
            BY <1>7, <2>3, <3>2, <3>3, <3>5
        <3>6. CASE i - m \in 1 .. k /\ log'[i] = es[i - m] /\ j - m \in 1 .. k /\ log'[j] = es[j - m]
            BY <3>2, <3>3, <3>6
        <3> QED
            BY <1>3, <3>1, <3>4, <3>5, <3>6
    <2>4. ASSUME NEW i \in 1 .. m + k, NEW j \in 1 .. m + k,
                 log'[i].nullifiers \cap log'[j].nullifiers # {}
          PROVE  i = j
        <3>1. CASE i \in 1 .. m /\ log'[i] = log[i] /\ j \in 1 .. m /\ log'[j] = log[j]
            BY <1>1, <2>4, <3>1 DEF RefInv, OnceInv
        <3>2. CASE i \in 1 .. m /\ log'[i] = log[i] /\ j - m \in 1 .. k /\ log'[j] = es[j - m]
            BY <1>5, <1>8, <2>4, <3>2
        <3>3. CASE i - m \in 1 .. k /\ log'[i] = es[i - m] /\ j \in 1 .. m /\ log'[j] = log[j]
            BY <1>5, <1>8, <2>4, <3>3
        <3>4. CASE i - m \in 1 .. k /\ log'[i] = es[i - m] /\ j - m \in 1 .. k /\ log'[j] = es[j - m]
            <4>1. i - m = 1 /\ j - m = 1
                BY <1>5, <2>4, <3>4
            <4> QED
                BY <1>1, <4>1
        <3> QED
            BY <1>3, <3>1, <3>2, <3>3, <3>4
    <2>5. \A i, j \in DOMAIN log' : log'[i].tag # NoTx /\ log'[j].hash = log'[i].hash => j <= i
        BY <1>2, <2>1
    <2>6. \A i \in DOMAIN log' : log'[i].leaves # <<>> => log'[i].tag # NoTx
        BY <1>2, <2>2
    <2>7. \A i, j \in DOMAIN log' : \A p \in DOMAIN log'[i].leaves, q \in DOMAIN log'[j].leaves :
            log'[i].leaves[p] = log'[j].leaves[q] => i = j
        <3> SUFFICES ASSUME NEW i \in DOMAIN log', NEW j \in DOMAIN log',
                            NEW p \in DOMAIN log'[i].leaves, NEW q \in DOMAIN log'[j].leaves,
                            log'[i].leaves[p] = log'[j].leaves[q]
                     PROVE  i = j
            OBVIOUS
        <3>1. i \in 1 .. m + k /\ j \in 1 .. m + k
            BY <1>2
        <3> QED
            BY <2>3, <3>1
    <2>8. \A i, j \in DOMAIN log' : log'[i].nullifiers \cap log'[j].nullifiers # {} => i = j
        BY <1>2, <2>4
    <2> QED
        BY <2>5, <2>6, <2>7, <2>8 DEF OnceInv
<1>11. OriginInv'
    <2>1. indexed \in 0 .. m /\ 1 .. indexed \subseteq 1 .. m
        BY <1>1 DEF IndInv, TypeOK, m
    <2>2. \A i \in 1 .. indexed : log'[i] = log[i]
        BY <1>2, <2>1
    <2>3. \A c \in confirmed : \E i \in 1 .. indexed : ConfirmedBy(c, log'[i])
        BY <2>2 DEF RefInv, OriginInv
    <2>4. ASSUME NEW s \in spent
          PROVE  \E i \in 1 .. indexed : SpentBy(s, log', log'[i])
        <3>1. PICK i \in 1 .. indexed : SpentBy(s, log, log[i])
            BY DEF RefInv, OriginInv
        <3>2. \A j \in DOMAIN log : j \in DOMAIN log' /\ log'[j] = log[j]
            BY <1>1, <1>2
        <3>3. SpentBy(s, log', log'[i])
            BY <2>2, <3>1, <3>2 DEF SpentBy
        <3> QED
            BY <3>3
    <2>5. completed = {log'[i].tag : i \in 1 .. indexed} \ {NoTx}
        BY <2>2 DEF RefInv, OriginInv
    <2> QED
        BY <1>9, <2>3, <2>4, <2>5 DEF OriginInv
<1> QED
    BY <1>10, <1>11 DEF RefInv

-----------------------------------------------------------------------------
(* The node keeps the invariant                                            *)

(* What is delivered: a part of the log, all of it indexed afterwards.     *)
LEMMA DeliveredBatch ==
    ASSUME IndInv, NEW n \in 1 .. MaxBatch, DeliverBatch(n),
           ~HandleEventBatch(SubSeq(log, cursor + 1, cursor + n)).failed
    PROVE  /\ SubSeq(log, cursor + 1, cursor + n) \in Seq(Events)
           /\ DOMAIN SubSeq(log, cursor + 1, cursor + n) = 1 .. n
           /\ \A i \in 1 .. n : /\ SubSeq(log, cursor + 1, cursor + n)[i] = log[cursor + i]
                                /\ cursor + i \in DOMAIN log /\ cursor + i \in 1 .. indexed'
           /\ \A i \in 1 .. indexed : i \in 1 .. indexed'
           /\ \A i \in 1 .. indexed' : i \in 1 .. indexed \/ (i - cursor \in 1 .. n /\ cursor + (i - cursor) = i)
<1> DEFINE batch == SubSeq(log, cursor + 1, cursor + n)
<1>1. /\ log \in Seq(Events) /\ Len(log) \in Nat /\ DOMAIN log = 1 .. Len(log)
      /\ cursor \in Nat /\ indexed \in Nat /\ cursor <= indexed /\ indexed <= Len(log)
      /\ n \in Nat /\ n >= 1 /\ cursor + n <= Len(log)
    BY LenProperties, EventIndexerAssumption DEF IndInv, TypeOK, DeliverBatch
<1>2. indexed' = IF cursor + n > indexed THEN cursor + n ELSE indexed
    BY DEF DeliverBatch
<1>3. /\ cursor + 1 \in 1 .. Len(log) + 1 /\ cursor + n \in Nat
      /\ \A i \in cursor + 1 .. cursor + n : log[i] \in Events
    BY <1>1, ElementOfSeq
<1>4. /\ batch \in Seq(Events)
      /\ Len(batch) = (IF cursor + 1 <= cursor + n THEN (cursor + n) - (cursor + 1) + 1 ELSE 0)
      /\ \A i \in 1 .. ((cursor + n) - (cursor + 1) + 1) : batch[i] = log[(cursor + 1) + i - 1]
    BY <1>1, <1>3, SubSeqProperties
<1>5. Len(batch) = n /\ (cursor + n) - (cursor + 1) + 1 = n
    BY <1>1, <1>4
<1>6. \A i \in 1 .. n : (cursor + 1) + i - 1 = cursor + i
    BY <1>1
<1>7. DOMAIN batch = 1 .. n
    BY <1>4, <1>5, LenProperties
<1>8. \A i \in 1 .. n : batch[i] = log[cursor + i]
    BY <1>4, <1>5, <1>6
<1>9. \A i \in 1 .. n : cursor + i \in DOMAIN log /\ cursor + i \in 1 .. indexed'
    BY <1>1, <1>2
<1>10. /\ \A i \in 1 .. indexed : i \in 1 .. indexed'
       /\ \A i \in 1 .. indexed' : i \in 1 .. indexed \/ (i - cursor \in 1 .. n /\ cursor + (i - cursor) = i)
    BY <1>1, <1>2
<1> QED
    BY <1>4, <1>7, <1>8, <1>9, <1>10

LEMMA DeliveryKeepsOrigins ==
    ASSUME IndInv, RefInv, NEW n \in 1 .. MaxBatch, DeliverBatch(n)
    PROVE  RefInv'
<1> DEFINE batch == SubSeq(log, cursor + 1, cursor + n)
           res   == HandleEventBatch(batch)
<1>1. log' = log
    BY DEF DeliverBatch, chainVars
<1>2. OnceInv'
    BY <1>1 DEF RefInv, OnceInv
<1>3. CASE res.failed
    <2>1. UNCHANGED <<indexed, confirmed, spent, completed>>
        BY <1>3 DEF DeliverBatch, nodeVars
    <2>2. OriginInv'
        BY <1>1, <2>1 DEF RefInv, OriginInv
    <2> QED
        BY <1>2, <2>2 DEF RefInv
<1>4. CASE ~res.failed
    <2>1. /\ confirmed' = confirmed \cup res.confirmed
          /\ spent' = spent \cup res.spent
          /\ completed' = completed \cup res.complete
        BY <1>4 DEF DeliverBatch
    <2>2. /\ batch \in Seq(Events) /\ DOMAIN batch = 1 .. n
          /\ \A i \in 1 .. n : batch[i] = log[cursor + i] /\ cursor + i \in DOMAIN log /\ cursor + i \in 1 .. indexed'
          /\ \A i \in 1 .. indexed : i \in 1 .. indexed'
          /\ \A i \in 1 .. indexed' : i \in 1 .. indexed \/ (i - cursor \in 1 .. n /\ cursor + (i - cursor) = i)
        BY <1>4, DeliveredBatch
    <2> HIDE DEF batch, res
    <2>3. \A i \in 1 .. n : GoodEvent(batch[i])
        BY <2>2 DEF IndInv, ChainInv
    <2>4. \A i, j \in 1 .. n : batch[i].tag # NoTx /\ batch[j].hash = batch[i].hash => j <= i
        <3>1. \A i, j \in 1 .. n : batch[i].tag # NoTx /\ batch[j].hash = batch[i].hash => cursor + j <= cursor + i
            BY <2>2 DEF RefInv, OnceInv
        <3>2. cursor \in Nat
            BY DEF IndInv, TypeOK
        <3> QED
            BY <3>1, <3>2, EventIndexerAssumption
    <2>5. \A i \in 1 .. n : batch[i].leaves # <<>> => batch[i].tag # NoTx
        BY <2>2 DEF RefInv, OnceInv
    <2>6. /\ \A c \in res.confirmed : \E i \in 1 .. n : ConfirmedBy(c, batch[i])
          /\ \A s \in res.spent : \E i \in 1 .. n : SpentBy(s, batch, batch[i])
          /\ \A i \in 1 .. n : batch[i].tag # NoTx => batch[i].tag \in res.complete
        BY <1>4, <2>2, <2>3, <2>4, <2>5, BatchOrigins DEF res
    <2>7. (\A t \in res.complete : \E i \in 1 .. n : batch[i].tag = t) /\ res.complete \subseteq Tags
        BY <1>4, <2>2, <2>3, HandleEventBatchFacts DEF Events, res
    <2>8. ASSUME NEW c \in confirmed'
          PROVE  \E i \in 1 .. indexed' : ConfirmedBy(c, log[i])
        <3>1. CASE c \in confirmed
            BY <2>2, <3>1 DEF RefInv, OriginInv
        <3>2. CASE c \in res.confirmed
            BY <2>2, <2>6, <3>2
        <3> QED
            BY <2>1, <3>1, <3>2
    <2>9. ASSUME NEW s \in spent'
          PROVE  \E i \in 1 .. indexed' : SpentBy(s, log, log[i])
        <3>1. CASE s \in spent
            BY <2>2, <3>1 DEF RefInv, OriginInv
        <3>2. CASE s \in res.spent
            <4>1. PICK i \in 1 .. n : SpentBy(s, batch, batch[i])
                BY <2>6, <3>2
            <4>2. SpentBy(s, log, log[cursor + i])
                BY <2>2, <4>1 DEF SpentBy
            <4> QED
                BY <2>2, <4>2
        <3> QED
            BY <2>1, <3>1, <3>2
    <2>10. completed' = {log[i].tag : i \in 1 .. indexed'} \ {NoTx}
        <3>1. completed = {log[i].tag : i \in 1 .. indexed} \ {NoTx}
            BY DEF RefInv, OriginInv
        <3>2. \A t \in res.complete : t # NoTx
            BY <2>7, EventIndexerAssumption DEF Tags
        <3>3. ASSUME NEW t \in completed'
              PROVE  t \in {log[i].tag : i \in 1 .. indexed'} \ {NoTx}
            BY <2>1, <2>2, <2>7, <3>1, <3>2
        <3>4. ASSUME NEW i \in 1 .. indexed', log[i].tag # NoTx
              PROVE  log[i].tag \in completed'
            <4>1. CASE i \in 1 .. indexed
                BY <2>1, <3>1, <3>4, <4>1
            <4>2. CASE i - cursor \in 1 .. n /\ cursor + (i - cursor) = i
                <5>1. batch[i - cursor] = log[i]
                    BY <2>2, <4>2
                <5>2. batch[i - cursor].tag \in res.complete
                    BY <2>6, <3>4, <4>2, <5>1
                <5> QED
                    BY <2>1, <5>1, <5>2
            <4> QED
                BY <2>2, <4>1, <4>2
        <3> QED
            BY <3>3, <3>4
    <2>11. OriginInv'
        BY <1>1, <2>8, <2>9, <2>10 DEF OriginInv
    <2> QED
        BY <1>2, <2>11 DEF RefInv
<1> QED
    BY <1>3, <1>4

-----------------------------------------------------------------------------
(* The invariant of every behaviour                                        *)

(* One call of the contract, with nulls and the leaves L all new.          *)
NewCall(tag, L, es, nulls, start) ==
    /\ IsCall(Events, es, Len(log), tag, start, L) /\ PublishesOnce(es, nulls)
    /\ FreshLeaves(L) /\ nulls \subseteq Nullifiers \ Published
    /\ log' = log \o es /\ UNCHANGED nodeVars

(* Every step of the contract is such a call.                              *)
LEMMA MineIsCall ==
    ASSUME IndInv, Mine
    PROVE  \E tag \in Tags \ UsedTags, L \in Seq(Commitments) :
              \E es, nulls, start : NewCall(tag, L, es, nulls, start)
<1>1. Len(log) \in Nat
    BY LenProperties DEF IndInv, TypeOK
<1>2. ASSUME NEW tag \in Tags, NEW leaves, NEW decode \in ShieldDecoding,
             leaves \in {<<>>} \cup [1 .. 1 -> Commitments] \cup [1 .. 2 -> Commitments],
             MineShield(tag, leaves, decode)
      PROVE  /\ leaves \in Seq(Commitments) /\ tag \in Tags \ UsedTags
             /\ \E es, nulls, start : NewCall(tag, leaves, es, nulls, start)
    <2> DEFINE start == Position(chainTree, leaves, TreeCapacity)
               es    == ShieldEvents(Len(log), tag, start, leaves, decode)
    <2>1. leaves \in Seq(Commitments)
        BY <1>2, ShortSequences
    <2>2. start \in Nat
        BY LenProperties DEF IndInv, TypeOK, Position
    <2>3. /\ tag \in Tags \ UsedTags /\ FreshLeaves(leaves)
          /\ log' = log \o es /\ UNCHANGED nodeVars
        BY <1>2 DEF MineShield
    <2> HIDE DEF es, start
    <2>4. IsCall(Events, es, Len(log), tag, start, leaves)
        BY <1>1, <2>1, <2>2, ShieldIsCall, EventIndexerAssumption DEF Events, es
    <2>5. PublishesOnce(es, {})
        BY ShieldPublishesOnce, EventIndexerAssumption DEF Tags, es
    <2>6. {} \subseteq Nullifiers \ Published
        OBVIOUS
    <2> QED
        BY <2>1, <2>3, <2>4, <2>5, <2>6 DEF NewCall
<1>3. ASSUME NEW tag \in Tags, NEW leaves, NEW nullifiers \in SUBSET Nullifiers, NEW unshields \in BOOLEAN,
             leaves \in {<<>>} \cup [1 .. 1 -> Commitments] \cup [1 .. 2 -> Commitments],
             MineTransact(tag, nullifiers, leaves, unshields)
      PROVE  /\ leaves \in Seq(Commitments) /\ tag \in Tags \ UsedTags
             /\ \E es, nulls, start : NewCall(tag, leaves, es, nulls, start)
    <2> DEFINE start == Position(chainTree, leaves, TreeCapacity)
               es    == TransactEvents(Len(log), tag, start, nullifiers, leaves, unshields)
    <2>1. leaves \in Seq(Commitments)
        BY <1>3, ShortSequences
    <2>2. start \in Nat
        BY LenProperties DEF IndInv, TypeOK, Position
    <2>3. /\ tag \in Tags \ UsedTags /\ FreshLeaves(leaves)
          /\ nullifiers \subseteq Nullifiers \ Published
          /\ log' = log \o es /\ UNCHANGED nodeVars
        BY <1>3 DEF MineTransact
    <2> HIDE DEF es, start
    <2>4. IsCall(Events, es, Len(log), tag, start, leaves)
        BY <1>1, <2>1, <2>2, TransactIsCall DEF Events, es
    <2>5. PublishesOnce(es, nullifiers)
        BY TransactPublishesOnce, EventIndexerAssumption DEF Tags, es
    <2> QED
        BY <2>1, <2>3, <2>4, <2>5 DEF NewCall
<1> QED
    BY <1>2, <1>3 DEF Mine

LEMMA InitEstablishesOrigins == Init => RefInv
<1> SUFFICES ASSUME Init PROVE RefInv
    OBVIOUS
<1>1. log = <<>> /\ indexed = 0 /\ confirmed = {} /\ spent = {} /\ completed = {}
    BY DEF Init
<1>2. DOMAIN log = {} /\ 1 .. indexed = {}
    BY <1>1
<1>3. OnceInv
    BY <1>2 DEF OnceInv
<1>4. OriginInv
    BY <1>1, <1>2 DEF OriginInv
<1> QED
    BY <1>3, <1>4 DEF RefInv

LEMMA NextKeepsOrigins == IndInv /\ RefInv /\ [Next]_vars => RefInv'
<1> SUFFICES ASSUME IndInv, RefInv, [Next]_vars PROVE RefInv'
    OBVIOUS
<1>1. CASE Mine
    <2>0. PICK tag \in Tags \ UsedTags, L \in Seq(Commitments) :
              \E es, nulls, start : NewCall(tag, L, es, nulls, start)
        BY <1>1, MineIsCall
    <2>1. PICK es, nulls, start : NewCall(tag, L, es, nulls, start)
        BY <2>0
    <2> QED
        BY <2>1, CallKeepsOrigins DEF NewCall
<1>2. CASE Deliver
    BY <1>2, DeliveryKeepsOrigins DEF Deliver
<1>3. CASE Restart \/ UNCHANGED vars
    <2>1. UNCHANGED <<log, indexed, confirmed, spent, completed>>
        BY <1>3 DEF Restart, vars, chainVars, nodeVars
    <2>2. OnceInv'
        BY <2>1 DEF RefInv, OnceInv
    <2>3. OriginInv'
        BY <2>1 DEF RefInv, OriginInv
    <2> QED
        BY <2>2, <2>3 DEF RefInv
<1> QED
    BY <1>1, <1>2, <1>3 DEF Next

LEMMA OriginsAlways == Spec => []RefInv
<1> QED
    BY InvariantAlways, InitEstablishesOrigins, NextKeepsOrigins, PTL DEF Spec

(* No state is confirmed or spent in another transaction's name, wherever  *)
(* batches are cut: an event that carries an id is the last of its         *)
(* on-chain transaction, and a commitment or a nullifier is in one only.   *)
THEOREM AttributionTheorem == Spec => []NeverAttributedToAnother
<1>1. IndInv /\ RefInv => NeverAttributedToAnother
    <2> SUFFICES ASSUME IndInv, RefInv PROVE NeverAttributedToAnother
        OBVIOUS
    <2>1. \A i \in 1 .. indexed : i \in DOMAIN log
        <3>1. log \in Seq(Events) /\ indexed \in 0 .. Len(log)
            BY DEF IndInv, TypeOK
        <3> QED
            BY <3>1, LenProperties
    <2>2. ASSUME NEW c \in confirmed, NEW i \in DOMAIN log, NEW k \in DOMAIN log[i].leaves,
                 c.id = log[i].leaves[k]
          PROVE  c.tx \in {log[i].tag, NoTx}
        <3>1. PICK e \in 1 .. indexed : ConfirmedBy(c, log[e])
            BY DEF RefInv, OriginInv
        <3>2. e = i
            BY <2>1, <2>2, <3>1 DEF ConfirmedBy, RefInv, OnceInv
        <3> QED
            BY <3>1, <3>2 DEF ConfirmedBy
    <2>3. ASSUME NEW s \in spent, NEW i \in DOMAIN log, NEW j \in DOMAIN log,
                 s.id \in log[i].nullifiers, log[j].hash = log[i].hash, log[j].tag # NoTx
          PROVE  s.tx \in {log[j].tag, NoTx}
        <3>1. PICK e \in 1 .. indexed : SpentBy(s, log, log[e])
            BY DEF RefInv, OriginInv
        <3>2. e = i
            <4>1. s.id \in log[e].nullifiers \cap log[i].nullifiers
                BY <2>3, <3>1 DEF SpentBy
            <4> QED
                BY <2>1, <4>1 DEF RefInv, OnceInv
        <3>3. CASE s.tx = NoTx
            BY <3>3
        <3>4. CASE s.tx # NoTx
            <4>1. PICK l \in DOMAIN log : log[l].hash = log[i].hash /\ log[l].tag = s.tx
                BY <3>1, <3>2, <3>4 DEF SpentBy
            <4>2. l <= j /\ j <= l
                BY <2>3, <3>4, <4>1 DEF RefInv, OnceInv
            <4>3. DOMAIN log = 1 .. Len(log) /\ Len(log) \in Nat
                BY LenProperties DEF IndInv, TypeOK
            <4>4. l = j
                BY <4>2, <4>3
            <4> QED
                BY <4>1, <4>4
        <3> QED
            BY <3>3, <3>4
    <2>4. ASSUME NEW c \in confirmed, NEW i \in DOMAIN log,
                 c.id \in {log[i].leaves[k] : k \in DOMAIN log[i].leaves}
          PROVE  c.tx \in {log[i].tag, NoTx}
        BY <2>2, <2>4
    <2> QED
        BY <2>3, <2>4 DEF NeverAttributedToAnother
<1> QED
    BY <1>1, InvariantAlways, OriginsAlways, PTL

-----------------------------------------------------------------------------
(* The refinement                                                          *)

(* The mapped view is the effect of the first indexed events.              *)
LEMMA ViewIsOfThePrefix == IndInv /\ RefInv => ViewInv
<1> SUFFICES ASSUME IndInv, RefInv PROVE ViewInv
    OBVIOUS
<1>1. {<<l.leafIndex, l.commitment>> : l \in treeLeaves} = Replica!LeavesIn(log, indexed)
    <2>1. treeLeaves = {LeafState(leaf) : leaf \in LeavesUpTo(log, indexed)}
        BY DEF IndInv, NodeInv
    <2>2. LeavesUpTo(log, indexed) = Replica!LeavesIn(log, indexed)
        BY DEF LeavesUpTo, LeavesOf, Replica!LeavesIn
    <2>3. ASSUME NEW leaf \in LeavesUpTo(log, indexed)
          PROVE  <<LeafState(leaf).leafIndex, LeafState(leaf).commitment>> = leaf
        <3>1. PICK i \in 1 .. indexed : leaf \in LeavesOf(log[i])
            BY DEF LeavesUpTo
        <3>2. PICK j \in DOMAIN log[i].leaves : leaf = <<log[i].start + j - 1, log[i].leaves[j]>>
            BY <3>1 DEF LeavesOf
        <3> QED
            BY <3>2 DEF LeafState
    <2>4. \A l \in treeLeaves : <<l.leafIndex, l.commitment>> \in LeavesUpTo(log, indexed)
        BY <2>1, <2>3
    <2>5. \A leaf \in LeavesUpTo(log, indexed) : \E l \in treeLeaves : leaf = <<l.leafIndex, l.commitment>>
        BY <2>1, <2>3
    <2> QED
        BY <2>2, <2>4, <2>5
<1>2. {c.id : c \in confirmed} = Replica!NotesIn(log, indexed)
    <2>1. \A c \in confirmed : \E i \in 1 .. indexed : \E p \in DOMAIN log[i].leaves : c.id = log[i].leaves[p]
        BY DEF RefInv, OriginInv, ConfirmedBy
    <2>2. \A i \in 1 .. indexed : \A p \in DOMAIN log[i].leaves : \E c \in confirmed : c.id = log[i].leaves[p]
        BY DEF IndInv, NodeInv
    <2> QED
        BY <2>1, <2>2 DEF Replica!NotesIn
<1>3. {s.id : s \in spent} = Replica!SpentIn(log, indexed)
    <2>1. \A s \in spent : \E i \in 1 .. indexed : s.id \in log[i].nullifiers
        BY DEF RefInv, OriginInv, SpentBy
    <2>2. \A i \in 1 .. indexed : \A n \in log[i].nullifiers : \E s \in spent : s.id = n
        BY DEF IndInv, NodeInv
    <2> QED
        BY <2>1, <2>2 DEF Replica!SpentIn
<1>4. completed = {log[i].tag : i \in 1 .. indexed} \ {NoTx}
    BY DEF RefInv, OriginInv
<1> QED
    BY <1>1, <1>2, <1>3, <1>4 DEF ViewInv

LEMMA InitImplementsInit == Init => Replica!Init
    BY DEF Init, Replica!Init

(* A call of the contract is a Publish, a batch that reaches further than  *)
(* any before a Learn; everything else leaves the view as it is.           *)
LEMMA StepImplementsStep ==
    ASSUME IndInv, TypeOK', ViewInv, ViewInv', [Next]_vars
    PROVE  [Replica!Next]_(Replica!vars)
<1>0. log \in Seq(Events) /\ indexed \in Nat
    BY DEF IndInv, TypeOK
<1>1. CASE Mine
    <2>0. PICK tag \in Tags \ UsedTags, L \in Seq(Commitments) :
              \E es, nulls, start : NewCall(tag, L, es, nulls, start)
        BY <1>1, MineIsCall
    <2>1. PICK es, nulls, start : NewCall(tag, L, es, nulls, start)
        BY <2>0
    <2>2. /\ es \in Seq(Events) /\ Len(es) \in Nat /\ Len(es) >= 1 /\ Len(log) \in Nat
        BY <1>0, <2>1, LenProperties DEF NewCall, IsCall
    <2>3. Len(log') = Len(log) + Len(es) /\ \A i \in 1 .. Len(log) : log'[i] = log[i]
        BY <1>0, <2>1, <2>2, ConcatProperties DEF NewCall
    <2>4. Len(log') > Len(log)
        BY <2>2, <2>3
    <2>5. SubSeq(log', 1, Len(log)) = log
        <3>1. log' \in Seq(Events)
            BY <1>0, <2>1, <2>2, ConcatProperties DEF NewCall
        <3>2. /\ SubSeq(log', 1, Len(log)) \in Seq(Events)
              /\ Len(SubSeq(log', 1, Len(log))) = Len(log)
              /\ \A i \in 1 .. Len(log) : SubSeq(log', 1, Len(log))[i] = log'[i]
            <4>1. 1 \in 1 .. Len(log') + 1 /\ Len(log) \in 0 .. Len(log')
                BY <2>2, <2>3
            <4>2. \A i \in 1 .. Len(log) : log'[i] \in Events
                BY <1>0, <2>3, ElementOfSeq
            <4> QED
                BY <2>2, <3>1, <4>1, <4>2, SubSeqProperties
        <3> QED
            BY <1>0, <2>3, <3>2, SeqEqual
    <2>6. UNCHANGED <<indexed, treeLeaves, confirmed, spent, completed>>
        BY <2>1 DEF NewCall, nodeVars
    <2>7. Replica!Publish
        BY <2>4, <2>5, <2>6 DEF Replica!Publish
    <2> QED
        BY <2>7 DEF Replica!Next
<1>2. CASE Deliver
    <2>1. PICK n \in 1 .. MaxBatch : DeliverBatch(n)
        BY <1>2 DEF Deliver
    <2>2. log' = log
        BY <2>1 DEF DeliverBatch, chainVars
    <2>3. indexed' = indexed \/ indexed' \in indexed + 1 .. Len(log)
        <3>1. CASE indexed' = indexed
            BY <3>1
        <3>2. CASE indexed' # indexed
            <4>1. indexed' = cursor + n /\ cursor + n > indexed
                BY <2>1, <3>2 DEF DeliverBatch, nodeVars
            <4>2. indexed' \in 0 .. Len(log)
                BY <2>2 DEF TypeOK
            <4>3. Len(log) \in Nat
                BY <1>0, LenProperties
            <4> QED
                BY <1>0, <4>1, <4>2, <4>3
        <3> QED
            BY <3>1, <3>2
    <2>4. CASE indexed' = indexed
        BY <2>2, <2>4 DEF ViewInv, Replica!vars
    <2>5. CASE indexed' \in indexed + 1 .. Len(log)
        <3>1. completed' \ {ForeignTag, NoTx} = Replica!DoneIn(log, indexed')
            BY <2>2 DEF ViewInv, Replica!DoneIn
        <3>2. Replica!ViewOf(log, indexed')
            BY <2>2, <3>1 DEF ViewInv, Replica!ViewOf
        <3>3. Replica!Learn
            BY <2>2, <2>5, <3>2 DEF Replica!Learn
        <3> QED
            BY <3>3 DEF Replica!Next
    <2> QED
        BY <2>3, <2>4, <2>5
<1>3. CASE Restart \/ UNCHANGED vars
    <2>1. UNCHANGED <<log, indexed, treeLeaves, confirmed, spent, completed>>
        BY <1>3 DEF Restart, vars, chainVars, nodeVars
    <2> QED
        BY <2>1 DEF Replica!vars
<1> QED
    BY <1>1, <1>2, <1>3 DEF Next

(* The indexer implements LedgerReplica: batches, failures, redelivery and *)
(* restarts cannot be seen in the view.                                    *)
THEOREM RefinementTheorem == Spec => ViewIsReplica
<1>1. IndInv => TypeOK
    BY DEF IndInv
<1>2. IndInv /\ TypeOK' /\ ViewInv /\ ViewInv' /\ [Next]_vars => [Replica!Next]_(Replica!vars)
    BY StepImplementsStep
<1> QED
    BY <1>1, <1>2, InvariantAlways, OriginsAlways, ViewIsOfThePrefix, InitImplementsInit, PTL
        DEF Spec, ViewIsReplica, Replica!Spec

=============================================================================

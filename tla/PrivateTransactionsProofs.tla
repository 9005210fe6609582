--------------------- MODULE PrivateTransactionsProofs ---------------------
(***************************************************************************)
(* Theorems about PrivateTransactions, for every set of parties, every set *)
(* of requests with any number of payees, every limit, and every number of *)
(* attempts and of commitments of other wallets.                           *)
(*                                                                         *)
(* The first part is about every discipline: whatever overlaps, and        *)
(* however far behind the nodes are, what is submitted is accepted. The    *)
(* second is about the discipline "settled", the one under which the       *)
(* positions a node predicts are those the contract gives.                 *)
(***************************************************************************)
EXTENDS PrivateTransactions, DomainLemmas

-----------------------------------------------------------------------------
(* Types                                                                   *)

Owners     == Parties \cup {External}
Randoms    == TxIds \X Nat \X Nat
Leaves     == [owner : Owners, value : Nat, random : Randoms \cup ({ForeignTag} \X Nat)]
Nullifiers == Owners \X Nat
LogTags    == TxIds \cup {ForeignTag, NoTx}
LogEvents  == EventsOver(LogTags, Leaves, Nullifiers)

Nodes == [cursor     : Nat,
          received   : Seq(Notes),
          confirmed  : SUBSET [id : Leaves, tx : LogTags],
          treeLeaves : SUBSET [id : Nat \X Leaves, leafIndex : Nat, commitment : Leaves],
          spent      : SUBSET [id : Nullifiers, tx : LogTags],
          completed  : SUBSET (TxIds \cup {ForeignTag})]

Transactions == [pc : Pcs, attempt : 0 .. MaxAttempts, inputs : Seq(Notes),
                 outputs : Seq(Notes), root : Seq(Leaves)]

Types ==
    /\ log \in Seq(LogEvents)
    /\ chainTree \in Seq(Leaves)
    /\ published \subseteq Nullifiers
    /\ roots \subseteq Seq(Leaves)
    /\ foreign \in 0 .. MaxForeign
    /\ node \in [Parties -> Nodes]
    /\ mail \subseteq [to : Parties, notes : Seq(Notes)]
    /\ tx \in [TxIds -> Transactions]

-----------------------------------------------------------------------------
(* The inductive invariant of every discipline                             *)

(* The contract: the leaves of the first events fill the tree from the     *)
(* left, and with them the contract had a root it still accepts; its roots *)
(* are earlier states of its tree; its nullifiers are those of its events  *)
(* and of mined transactions; and the event that carries the id of a       *)
(* transaction comes after those of its nullifiers.                        *)
RootAt(n) == \E k \in 0 .. Len(chainTree) :
    LeavesUpTo(log, n) = FirstLeaves(chainTree, k) /\ SubSeq(chainTree, 1, k) \in roots

ChainInv ==
    /\ \A i \in 1 .. Len(log) : GoodEvent(log[i]) /\ log[i].decode = "ok"
    /\ \A n \in 0 .. Len(log) : RootAt(n)
    /\ LeavesUpTo(log, Len(log)) = FirstLeaves(chainTree, Len(chainTree))
    /\ chainTree \in roots
    /\ \A r \in roots : \E k \in 0 .. Len(chainTree) : r = SubSeq(chainTree, 1, k)
    /\ published = NullifiersUpTo(log, Len(log))
    /\ \A n \in published : \E u \in TxIds : tx[u].pc = "mined" /\ n \in SpentBy(u)
    /\ \A i \in 1 .. Len(log) : log[i].tag \in TxIds =>
            /\ tx[log[i].tag].pc = "mined"
            /\ SpentBy(log[i].tag) \subseteq NullifiersUpTo(log, i)

(* A node: the effects of the events up to its cursor.                     *)
NodeInv(p) ==
    /\ node[p].cursor \in 0 .. Len(log)
    /\ node[p].treeLeaves = {LeafState(leaf) : leaf \in LeavesUpTo(log, node[p].cursor)}
    /\ \A c \in node[p].confirmed : \E leaf \in LeavesUpTo(log, node[p].cursor) : c.id = leaf[2]
    /\ \A leaf \in LeavesUpTo(log, node[p].cursor) : \E c \in node[p].confirmed : c.id = leaf[2]
    /\ SpentIn(p) = NullifiersUpTo(log, node[p].cursor)
    /\ \A u \in node[p].completed : \E i \in 1 .. node[p].cursor : log[i].tag = u

(* A transaction: it spends notes of its sender only, none before it has   *)
(* selected any, and enough of them; once assembled its root is one of the *)
(* contract's, and once signed its inputs are under it.                    *)
TxInv(t) ==
    /\ \A i \in DOMAIN tx[t].inputs : tx[t].inputs[i].owner = Sender(t)
    /\ tx[t].pc \in {"idle", "reverted"} \/ Request[t].type = "shield" => tx[t].inputs = <<>>
    /\ tx[t].pc \in {"selected", "assembled"} => Request[t].type # "shield"
    /\ tx[t].pc = "selected" => TotalValue(tx[t].inputs) >= AmountOf(t)
    /\ tx[t].pc \in {"assembled", "signed", "submitted", "mined"} => tx[t].root \in roots
    /\ tx[t].pc \in {"signed", "submitted", "mined"} =>
            \A i \in DOMAIN tx[t].inputs : IsMember(tx[t].inputs[i], tx[t].root)

(* No note is an input of two transactions.                                *)
Exclusive ==
    \A t, u \in TxIds : t # u =>
        \A i \in DOMAIN tx[t].inputs, j \in DOMAIN tx[u].inputs : tx[t].inputs[i] # tx[u].inputs[j]

IndInv ==
    /\ Types
    /\ ChainInv
    /\ \A p \in Parties : NodeInv(p)
    /\ \A t \in TxIds : TxInv(t)
    /\ Exclusive

-----------------------------------------------------------------------------
(* The inductive invariant of the discipline "settled"                     *)

(* One transaction at a time, on a node that has every event; what it      *)
(* built is about the tree as it is.                                       *)
Alone(t) == InFlight(t) =>
    /\ \A u \in TxIds : InFlight(u) => u = t
    /\ node[Sender(t)].cursor = Len(log)
    /\ tx[t].pc # "selected" => tx[t].root = chainTree
    /\ \A i \in DOMAIN tx[t].inputs : IsMember(tx[t].inputs[i], chainTree)

(* The positions it predicted are the next ones, and become those of its   *)
(* notes when it is mined.                                                 *)
Predicted(t) ==
    /\ tx[t].pc \in {"assembled", "signed", "submitted", "mined"} =>
            \A k \in DOMAIN tx[t].outputs : tx[t].outputs[k].random = Random(t, k)
    /\ tx[t].pc \in {"assembled", "signed", "submitted"} =>
            \A k \in DOMAIN tx[t].outputs : tx[t].outputs[k].leafIndex = Len(chainTree) + k - 1
    /\ tx[t].pc = "mined" =>
            \A k \in DOMAIN tx[t].outputs : IsMember(tx[t].outputs[k], chainTree)

Balanced(t) == tx[t].pc = "assembled" =>
    TotalValue(tx[t].inputs) =
        TotalValue(tx[t].outputs) + (IF Request[t].type = "unshield" THEN AmountOf(t) ELSE 0)

(* A leaf that carries a Paladin random is an output of a mined            *)
(* transaction, at the position that note claims.                          *)
OwnLeaves ==
    \A i \in DOMAIN chainTree : chainTree[i].random \in Randoms =>
        LET t == chainTree[i].random[1]
        IN  /\ tx[t].pc = "mined"
            /\ \E k \in DOMAIN tx[t].outputs :
                    /\ chainTree[i] = Commitment(tx[t].outputs[k])
                    /\ tx[t].outputs[k].leafIndex = i - 1

(* A note comes from an earlier attempt, from one that failed, or is an    *)
(* output of its transaction as it is.                                     *)
Own(note) ==
    LET t == note.random[1]
    IN  /\ note.random[2] <= tx[t].attempt
        /\ note.random[2] = tx[t].attempt =>
                \/ tx[t].pc = "idle"
                \/ /\ tx[t].pc \in {"submitted", "mined"}
                   /\ \E k \in DOMAIN tx[t].outputs : note = tx[t].outputs[k]

(* Those that nodes have and those on their way to one.                    *)
OwnNotes ==
    /\ \A p \in Parties : \A note \in HeldBy(p) : Own(note)
    /\ \A m \in mail : \A i \in DOMAIN m.notes : Own(m.notes[i])

SettledInv ==
    /\ \A t \in TxIds : Alone(t) /\ Predicted(t) /\ Balanced(t)
    /\ OwnLeaves
    /\ OwnNotes

(* A note is in one place only, on a node or on its way to it, and the     *)
(* notes of a submitted transaction have been handed over. Leaves without  *)
(* a Paladin random are of nobody here.                                    *)
NoCopies(notes) == \A i, j \in DOMAIN notes : notes[i] = notes[j] => i = j

Once ==
    /\ \A p \in Parties : NoCopies(node[p].received)
    /\ \A m \in mail : NoCopies(m.notes)
    /\ \A m \in mail : \A i \in DOMAIN m.notes : m.notes[i] \notin HeldBy(m.to)
    /\ \A m, l \in mail : m # l /\ m.to = l.to =>
            \A i \in DOMAIN m.notes, j \in DOMAIN l.notes : m.notes[i] # l.notes[j]

IsHanded(note) ==
    \/ note \in HeldBy(note.owner)
    \/ \E m \in mail : m.to = note.owner /\ \E i \in DOMAIN m.notes : m.notes[i] = note

Handed(t) == tx[t].pc \in {"submitted", "mined"} =>
    \A k \in DOMAIN tx[t].outputs :
        tx[t].outputs[k].owner \in Parties => IsHanded(tx[t].outputs[k])

OtherLeaves ==
    \A i \in DOMAIN chainTree :
        chainTree[i].random \notin Randoms => chainTree[i].owner = External

HandInv ==
    /\ Once
    /\ \A t \in TxIds : Handed(t)
    /\ OtherLeaves

-----------------------------------------------------------------------------
(* Requests, notes and what a node selects                                 *)

LEMMA RequestFacts ==
    ASSUME NEW t \in TxIds
    PROVE  /\ Sender(t) \in Parties
           /\ Request[t].type \in {"shield", "transfer", "unshield"}
           /\ Payments(t) \in Seq([to : Owners, value : Nat])
           /\ Len(Payments(t)) \in Nat /\ Len(Payments(t)) >= 1
           /\ DOMAIN Payments(t) = 1 .. Len(Payments(t))
           /\ \A k \in 1 .. Len(Payments(t)) :
                Payments(t)[k].to \in Owners /\ Payments(t)[k].value \in Nat
           /\ AmountOf(t) \in Nat
           /\ Request[t].type # "transfer" => AmountOf(t) = Payments(t)[1].value
<1> DEFINE P == [to : Owners, value : Nat]
<1>1. Payments(t) \in Seq([to : Parties \cup {External}, value : Nat \ {0}])
    BY PrivateTransactionsAssumption
<1>2. /\ Len(Payments(t)) \in Nat
      /\ DOMAIN Payments(t) = 1 .. Len(Payments(t))
      /\ \A k \in 1 .. Len(Payments(t)) :
            Payments(t)[k] \in [to : Parties \cup {External}, value : Nat \ {0}]
    BY <1>1, LenProperties, ElementOfSeq
<1>3. \A k \in 1 .. Len(Payments(t)) : Payments(t)[k] \in P
    BY <1>2 DEF Owners
<1>4. Payments(t) \in Seq(P)
    <2>1. [to : Parties \cup {External}, value : Nat \ {0}] \subseteq P
        BY DEF Owners
    <2> HIDE DEF P
    <2> QED
        BY <1>1, <2>1, SeqMonotonic
<1>5. AmountOf(t) \in Nat
    <2>1. \A v \in P : v.value \in Nat
        OBVIOUS
    <2> HIDE DEF P
    <2> QED
        BY <1>4, <2>1, SequenceIsValued DEF AmountOf
<1>6. ASSUME Request[t].type # "transfer"
      PROVE  AmountOf(t) = Payments(t)[1].value
    <2>1. Len(Payments(t)) = 1
        BY <1>6, PrivateTransactionsAssumption
    <2>2. Valued(Payments(t))
        BY <1>2 DEF Valued
    <2>3. /\ RunningSum(Payments(t))[0] = 0
          /\ RunningSum(Payments(t))[1] = RunningSum(Payments(t))[0] + Payments(t)[1].value
        <3>1. /\ RunningSum(Payments(t))[0] = 0
              /\ \A k \in 1 .. Len(Payments(t)) :
                    RunningSum(Payments(t))[k] = RunningSum(Payments(t))[k - 1] + Payments(t)[k].value
            BY <2>2, RunningSumFacts
        <3> QED
            BY <2>1, <3>1
    <2>4. Payments(t)[1].value \in Nat
        BY <1>2, <2>1
    <2> QED
        BY <2>1, <2>3, <2>4 DEF AmountOf, TotalValue
<1> QED
    BY <1>2, <1>3, <1>4, <1>5, <1>6, PrivateTransactionsAssumption

LEMMA NotesAreValued ==
    /\ \A note \in Notes : note.value \in Nat
    /\ \A note \in Notes : Commitment(note) \in Leaves /\ Nullifier(note) \in Nullifiers
    /\ \A a, b \in Notes : Commitment(a) = Commitment(b) /\ a.leafIndex = b.leafIndex => a = b
<1>1. \A note \in Notes :
        /\ note = [owner |-> note.owner, value |-> note.value,
                   random |-> note.random, leafIndex |-> note.leafIndex]
        /\ note.owner \in Owners /\ note.value \in Nat /\ note.random \in Randoms
        /\ note.leafIndex \in Nat
    BY DEF Notes, Owners, Randoms
<1>2. \A note \in Notes : Commitment(note) \in Leaves /\ Nullifier(note) \in Nullifiers
    BY <1>1 DEF Commitment, Nullifier, Leaves, Nullifiers
<1>3. ASSUME NEW a \in Notes, NEW b \in Notes,
             Commitment(a) = Commitment(b), a.leafIndex = b.leafIndex
      PROVE  a = b
    <2>1. Commitment(a).owner = a.owner /\ Commitment(a).value = a.value /\ Commitment(a).random = a.random
        BY DEF Commitment
    <2>2. Commitment(b).owner = b.owner /\ Commitment(b).value = b.value /\ Commitment(b).random = b.random
        BY DEF Commitment
    <2> QED
        BY <1>1, <1>3, <2>1, <2>2
<1> QED
    BY <1>1, <1>2, <1>3

(* What FindAvailableStates returns.                                       *)
LEMMA AvailableFacts ==
    ASSUME Types, NEW p \in Parties
    PROVE  /\ Available(p) \in Seq(Notes)
           /\ \A i \in DOMAIN Available(p) :
                LET note == Available(p)[i]
                IN  /\ note \in Notes /\ note \in HeldBy(p) /\ note.owner = p
                    /\ \E c \in node[p].confirmed : c.id = Commitment(note)
                    /\ Nullifier(note) \notin SpentIn(p)
                    /\ note \notin Locked(p)
<1> DEFINE notes == node[p].received
           IsAvailable(note) ==
                /\ note.owner = p
                /\ \E c \in node[p].confirmed : c.id = Commitment(note)
                /\ ~ \E s \in node[p].spent : s.id = Nullifier(note)
                /\ note \notin Locked(p)
           S == {i \in DOMAIN notes : IsAvailable(notes[i])}
           found == ElementsAt(notes, S)
<1>1. Available(p) = found
    BY DEF Available
<1>2. notes \in Seq(Notes)
    BY DEF Types, Nodes
<1>3. \A i \in S : i \in DOMAIN notes /\ IsAvailable(notes[i])
    OBVIOUS
<1>4. \A i \in DOMAIN notes : notes[i] \in HeldBy(p) /\ notes[i] \in Notes
    BY <1>2, ElementOfSeq, LenProperties DEF HeldBy
<1> HIDE DEF S, found, notes
<1>5. /\ found \in Seq(Notes)
      /\ \A i \in DOMAIN found : \E k \in DOMAIN notes \cap S : found[i] = notes[k]
    BY <1>2, ElementsAtElements DEF found
<1>6. ASSUME NEW i \in DOMAIN found
      PROVE  found[i] \in Notes /\ found[i] \in HeldBy(p) /\ IsAvailable(found[i])
    <2>1. PICK k \in DOMAIN notes \cap S : found[i] = notes[k]
        BY <1>5
    <2> QED
        BY <1>3, <1>4, <2>1
<1> QED
    BY <1>1, <1>5, <1>6 DEF SpentIn

LEMMA OutputsForFacts ==
    ASSUME NEW t \in TxIds, NEW p, tx[t].outputs \in Seq(Notes)
    PROVE  /\ OutputsFor(t, p) \in Seq(Notes)
           /\ \A i \in DOMAIN OutputsFor(t, p) :
                \E k \in DOMAIN tx[t].outputs : OutputsFor(t, p)[i] = tx[t].outputs[k]
<1> DEFINE notes == tx[t].outputs
           S == {i \in DOMAIN notes : notes[i].owner = p}
           found == ElementsAt(notes, S)
<1> HIDE DEF S, notes
<1>1. /\ found \in Seq(Notes)
      /\ \A i \in DOMAIN found : \E k \in DOMAIN notes \cap S : found[i] = notes[k]
    BY ElementsAtElements DEF notes
<1>2. OutputsFor(t, p) = found
    BY DEF OutputsFor, S, notes
<1> QED
    BY <1>1, <1>2 DEF notes

LEMMA NewNoteFacts ==
    ASSUME NEW o \in Owners, NEW v \in Nat, NEW r \in Randoms, NEW i \in Nat
    PROVE  /\ NewNote(o, v, r, i) \in Notes
           /\ NewNote(o, v, r, i).owner = o /\ NewNote(o, v, r, i).value = v
           /\ NewNote(o, v, r, i).random = r /\ NewNote(o, v, r, i).leafIndex = i
<1>1. o \in Parties \cup {External} /\ r \in TxIds \X Nat \X Nat
    BY DEF Owners, Randoms
<1> QED
    BY <1>1 DEF NewNote, Notes

(* The outputs of a transaction: notes, at the positions from next on, of  *)
(* the randoms of the attempt; and as much as the inputs.                  *)
LEMMA PaymentNotesFacts ==
    ASSUME NEW t \in TxIds, NEW next \in Nat, tx[t].attempt \in Nat
    PROVE  /\ PaymentNotes(t, next) \in Seq(Notes)
           /\ Len(PaymentNotes(t, next)) = Len(Payments(t))
           /\ \A k \in 1 .. Len(Payments(t)) :
                /\ PaymentNotes(t, next)[k].random = Random(t, k)
                /\ PaymentNotes(t, next)[k].leafIndex = next + k - 1
           /\ TotalValue(PaymentNotes(t, next)) = AmountOf(t)
<1> DEFINE n == Len(Payments(t))
           notes == PaymentNotes(t, next)
<1>1. /\ n \in Nat /\ DOMAIN Payments(t) = 1 .. n
      /\ \A k \in 1 .. n : Payments(t)[k].to \in Owners /\ Payments(t)[k].value \in Nat
    BY RequestFacts
<1>2. \A k \in 1 .. n :
        notes[k] = NewNote(Payments(t)[k].to, Payments(t)[k].value, Random(t, k), next + k - 1)
    BY <1>1 DEF PaymentNotes
<1>3. \A k \in 1 .. n : Random(t, k) \in Randoms /\ next + k - 1 \in Nat
    BY <1>1 DEF Random, Randoms
<1>4. ASSUME NEW k \in 1 .. n
      PROVE  /\ notes[k] \in Notes
             /\ notes[k].value = Payments(t)[k].value
             /\ notes[k].random = Random(t, k)
             /\ notes[k].leafIndex = next + k - 1
    <2> DEFINE note == NewNote(Payments(t)[k].to, Payments(t)[k].value, Random(t, k), next + k - 1)
    <2>1. /\ Payments(t)[k].to \in Owners /\ Payments(t)[k].value \in Nat
          /\ Random(t, k) \in Randoms /\ next + k - 1 \in Nat
        BY <1>1, <1>3
    <2>2. /\ note \in Notes /\ note.value = Payments(t)[k].value
          /\ note.random = Random(t, k) /\ note.leafIndex = next + k - 1
        BY <2>1, NewNoteFacts
    <2>3. notes[k] = note
        BY <1>2
    <2> HIDE DEF note, notes
    <2> QED
        BY <2>2, <2>3
<1>5. notes \in [1 .. n -> Notes]
    <2>1. notes = [k \in 1 .. n |-> notes[k]]
        BY <1>1 DEF PaymentNotes
    <2> HIDE DEF notes, n
    <2> QED
        BY <1>4, <2>1
<1> HIDE DEF notes
<1>6. notes \in Seq(Notes) /\ Len(notes) = n
    <2> HIDE DEF n
    <2> QED
        BY <1>1, <1>5, FunctionIsSequence
<1>7. TotalValue(notes) = AmountOf(t)
    <2>1. Valued(notes)
        BY <1>1, <1>4, <1>6 DEF Valued
    <2>2. Valued(Payments(t))
        BY <1>1 DEF Valued
    <2>3. \A k \in 1 .. Len(notes) : notes[k].value = Payments(t)[k].value
        BY <1>4, <1>6
    <2> QED
        BY <1>6, <2>1, <2>2, <2>3, TotalOfSameValues DEF AmountOf
<1> QED
    BY <1>4, <1>6, <1>7 DEF notes

LEMMA OutputNotesFacts ==
    ASSUME NEW t \in TxIds, NEW next \in Nat, tx[t] \in Transactions,
           Request[t].type # "shield", TotalValue(tx[t].inputs) >= AmountOf(t)
    PROVE  /\ OutputNotes(t, next) \in Seq(Notes)
           /\ \A k \in DOMAIN OutputNotes(t, next) :
                /\ OutputNotes(t, next)[k].random = Random(t, k)
                /\ OutputNotes(t, next)[k].leafIndex = next + k - 1
           /\ TotalValue(tx[t].inputs) = TotalValue(OutputNotes(t, next))
                    + (IF Request[t].type = "unshield" THEN AmountOf(t) ELSE 0)
<1> DEFINE n == Len(Payments(t))
           change == TotalValue(tx[t].inputs) - AmountOf(t)
           ChangeAt(k) == NewNote(Sender(t), change, Random(t, k), next + k - 1)
           payments == PaymentNotes(t, next)
           outputs == OutputNotes(t, next)
<1>1. /\ tx[t].attempt \in Nat /\ tx[t].inputs \in Seq(Notes)
      /\ n \in Nat /\ AmountOf(t) \in Nat /\ Sender(t) \in Owners
    BY RequestFacts, PrivateTransactionsAssumption DEF Transactions, Owners
<1>2. TotalValue(tx[t].inputs) \in Nat
    BY <1>1, NotesAreValued, SequenceIsValued
<1>3. change \in Nat
    BY <1>1, <1>2
<1>4. ASSUME NEW k \in Nat, k >= 1
      PROVE  /\ ChangeAt(k) \in Notes /\ ChangeAt(k).value = change
             /\ ChangeAt(k).random = Random(t, k) /\ ChangeAt(k).leafIndex = next + k - 1
    <2>1. next + k - 1 \in Nat
        BY <1>4
    <2>2. Random(t, k) \in Randoms
        BY <1>1, <1>4 DEF Random, Randoms
    <2> HIDE DEF change
    <2> QED
        BY <1>1, <1>3, <2>1, <2>2, NewNoteFacts
<1>5. /\ payments \in Seq(Notes) /\ Len(payments) = n
      /\ \A k \in 1 .. n : payments[k].random = Random(t, k) /\ payments[k].leafIndex = next + k - 1
      /\ TotalValue(payments) = AmountOf(t)
    BY <1>1, PaymentNotesFacts
<1>6. Request[t].type \in {"transfer", "unshield"}
    BY RequestFacts
<1>7. CASE Request[t].type = "transfer" /\ change > 0
    <2>1. outputs = Append(payments, ChangeAt(n + 1))
        BY <1>1, <1>3, <1>7 DEF OutputNotes
    <2>2. /\ ChangeAt(n + 1) \in Notes /\ ChangeAt(n + 1).value = change
          /\ ChangeAt(n + 1).random = Random(t, n + 1) /\ ChangeAt(n + 1).leafIndex = next + (n + 1) - 1
        BY <1>1, <1>4
    <2> HIDE DEF ChangeAt, payments, outputs, n
    <2>3. /\ outputs \in Seq(Notes) /\ Len(outputs) = n + 1
          /\ \A k \in 1 .. n : outputs[k] = payments[k]
          /\ outputs[n + 1] = ChangeAt(n + 1)
        BY <1>5, <2>1, <2>2, AppendProperties
    <2>4. TotalValue(outputs) = AmountOf(t) + change
        BY <1>5, <2>1, <2>2, NotesAreValued, TotalOfAppend
    <2>5. \A k \in 1 .. n + 1 : k \in 1 .. n \/ k = n + 1
        BY <1>1
    <2>6. DOMAIN outputs = 1 .. n + 1
        BY <2>3, LenProperties
    <2>7. \A k \in DOMAIN outputs :
            outputs[k].random = Random(t, k) /\ outputs[k].leafIndex = next + k - 1
        BY <1>5, <2>2, <2>3, <2>5, <2>6
    <2>8. TotalValue(tx[t].inputs) = TotalValue(outputs) + 0
        BY <1>1, <1>2, <2>4
    <2> QED
        BY <1>7, <2>3, <2>7, <2>8 DEF outputs
<1>8. CASE Request[t].type = "transfer" /\ change <= 0
    <2>1. outputs = payments
        BY <1>8 DEF OutputNotes
    <2>2. DOMAIN payments = 1 .. n
        BY <1>5, LenProperties
    <2>3. change = 0
        BY <1>3, <1>8
    <2>4. TotalValue(tx[t].inputs) = TotalValue(outputs) + 0
        BY <1>1, <1>2, <1>5, <2>1, <2>3
    <2> HIDE DEF payments, outputs, n, change
    <2> QED
        BY <1>5, <1>8, <2>1, <2>2, <2>4 DEF outputs
<1>9. CASE Request[t].type = "unshield"
    <2>1. outputs = <<ChangeAt(1)>>
        BY <1>9 DEF OutputNotes
    <2>2. /\ ChangeAt(1) \in Notes /\ ChangeAt(1).value = change
          /\ ChangeAt(1).random = Random(t, 1) /\ ChangeAt(1).leafIndex = next + 1 - 1
        BY <1>4
    <2> HIDE DEF ChangeAt, outputs
    <2>3. outputs \in Seq(Notes) /\ DOMAIN outputs = {1} /\ outputs[1] = ChangeAt(1)
        BY <2>1, <2>2
    <2>4. TotalValue(outputs) = change
        BY <1>3, <2>1, <2>2, TotalOfOne
    <2>5. TotalValue(tx[t].inputs) = TotalValue(outputs) + AmountOf(t)
        BY <1>1, <1>2, <2>4
    <2> QED
        BY <1>9, <2>2, <2>3, <2>5 DEF outputs
<1> QED
    BY <1>3, <1>6, <1>7, <1>8, <1>9

-----------------------------------------------------------------------------
(* The invariant of every discipline: the steps of the nodes               *)

LEMMA InitInv == Init => IndInv
<1> SUFFICES ASSUME Init PROVE IndInv
    OBVIOUS
<1>1. \A n : 1 .. 0 = {} /\ (n \in 0 .. 0 => n = 0)
    OBVIOUS
<1>2. log = <<>> /\ Len(log) = 0 /\ chainTree = <<>> /\ Len(chainTree) = 0 /\ roots = {<<>>}
      /\ published = {} /\ foreign = 0 /\ mail = {}
    BY DEF Init
<1>3. LeavesUpTo(log, 0) = {} /\ NullifiersUpTo(log, 0) = {} /\ FirstLeaves(chainTree, 0) = {}
    BY <1>1 DEF LeavesUpTo, NullifiersUpTo, FirstLeaves
<1>4. SubSeq(chainTree, 1, 0) = <<>>
    BY SubSeqEmpty
<1>5. ASSUME NEW p \in Parties
      PROVE  node[p] = [cursor |-> 0, received |-> <<>>, confirmed |-> {}, treeLeaves |-> {},
                        spent |-> {}, completed |-> {}]
    BY DEF Init
<1>6. ASSUME NEW t \in TxIds
      PROVE  tx[t] = [pc |-> "idle", attempt |-> 0, inputs |-> <<>>, outputs |-> <<>>, root |-> <<>>]
    BY DEF Init
<1>7. Types
    <2>1. <<>> \in Seq(Notes) /\ <<>> \in Seq(Leaves) /\ <<>> \in Seq(LogEvents)
        BY EmptySeq
    <2>2. node \in [Parties -> Nodes]
        BY <2>1 DEF Init, Nodes
    <2>3. 0 \in 0 .. MaxAttempts /\ 0 \in 0 .. MaxForeign
        BY PrivateTransactionsAssumption
    <2>4. tx \in [TxIds -> Transactions]
        BY <2>1, <2>3 DEF Init, Transactions, Pcs
    <2> QED
        BY <1>2, <2>1, <2>2, <2>3, <2>4 DEF Types
<1>8. ChainInv
    <2>1. 0 \in 0 .. Len(chainTree) /\ SubSeq(chainTree, 1, 0) \in roots
        BY <1>2, <1>4
    <2>2. \A n \in 0 .. Len(log) : n = 0
        BY <1>2
    <2>3. \A n \in 0 .. Len(log) : RootAt(n)
        BY <1>3, <2>1, <2>2 DEF RootAt
    <2>4. \A i : i \notin 1 .. Len(log)
        BY <1>2
    <2>5. LeavesUpTo(log, Len(log)) = FirstLeaves(chainTree, Len(chainTree))
        BY <1>2, <1>3
    <2>6. chainTree \in roots
        BY <1>2
    <2>7. \A r \in roots : \E k \in 0 .. Len(chainTree) : r = SubSeq(chainTree, 1, k)
        BY <1>2, <1>4, <2>1
    <2>8. published = NullifiersUpTo(log, Len(log)) /\ published = {}
        BY <1>2, <1>3
    <2> QED
        BY <2>3, <2>4, <2>5, <2>6, <2>7, <2>8 DEF ChainInv
<1>9. ASSUME NEW p \in Parties
      PROVE  NodeInv(p)
    BY <1>2, <1>3, <1>5 DEF NodeInv, SpentIn
<1>10. ASSUME NEW t \in TxIds
       PROVE  TxInv(t)
    BY <1>6 DEF TxInv
<1>11. Exclusive
    BY <1>6 DEF Exclusive
<1> QED
    BY <1>7, <1>8, <1>9, <1>10, <1>11 DEF IndInv

(* A step of the nodes, as far as the invariant is concerned: the contract *)
(* and what the nodes know of it stay, and mined transactions too.         *)
LEMMA LocalStep ==
    ASSUME IndInv, UNCHANGED chainVars, Types',
           \A p \in Parties :
                /\ node'[p].cursor = node[p].cursor /\ node'[p].treeLeaves = node[p].treeLeaves
                /\ node'[p].confirmed = node[p].confirmed /\ node'[p].spent = node[p].spent
                /\ node'[p].completed = node[p].completed,
           \A u \in TxIds : tx[u].pc = "mined" => tx'[u] = tx[u],
           \A u \in TxIds : tx'[u] = tx[u] \/ TxInv(u)',
           Exclusive'
    PROVE  IndInv'
<1>1. UNCHANGED <<log, chainTree, published, roots>>
    BY DEF chainVars
<1>2. \A u \in TxIds : tx[u].pc = "mined" => tx'[u].pc = "mined" /\ SpentBy(u)' = SpentBy(u)
    BY DEF SpentBy
<1>3. ChainInv'
    <2>1. ChainInv
        BY DEF IndInv
    <2>2. \A n \in 0 .. Len(log') : RootAt(n)'
        BY <1>1, <2>1 DEF ChainInv, RootAt
    <2>3. \A n \in published' : \E u \in TxIds : tx'[u].pc = "mined" /\ n \in SpentBy(u)'
        BY <1>1, <1>2, <2>1 DEF ChainInv
    <2>4. ASSUME NEW i \in 1 .. Len(log), log[i].tag \in TxIds
          PROVE  /\ tx'[log[i].tag].pc = "mined"
                 /\ SpentBy(log[i].tag)' \subseteq NullifiersUpTo(log, i)
        <3>1. PICK u \in TxIds : u = log[i].tag
            BY <2>4
        <3>2. tx[u].pc = "mined" /\ SpentBy(u) \subseteq NullifiersUpTo(log, i)
            BY <2>1, <2>4, <3>1 DEF ChainInv
        <3>3. tx'[u].pc = "mined" /\ SpentBy(u)' \subseteq NullifiersUpTo(log, i)
            BY <1>2, <3>2
        <3>4. SpentBy(log[i].tag)' = SpentBy(u)'
            BY <1>1, <3>1 DEF SpentBy
        <3> QED
            BY <3>1, <3>3, <3>4
    <2> QED
        BY <1>1, <2>1, <2>2, <2>3, <2>4 DEF ChainInv
<1>4. ASSUME NEW p \in Parties
      PROVE  NodeInv(p)'
    <2>1. NodeInv(p)
        BY DEF IndInv
    <2> QED
        BY <1>1, <2>1 DEF NodeInv, SpentIn
<1>5. ASSUME NEW u \in TxIds, tx'[u] = tx[u]
      PROVE  TxInv(u)'
    <2>1. TxInv(u)
        BY DEF IndInv
    <2> QED
        BY <1>1, <1>5, <2>1 DEF TxInv
<1> QED
    BY <1>3, <1>4, <1>5 DEF IndInv

(* Transactions that keep or give up their inputs share none.              *)
LEMMA InputsKept ==
    ASSUME Exclusive, \A u \in TxIds : tx'[u].inputs = tx[u].inputs \/ tx'[u].inputs = <<>>
    PROVE  Exclusive'
<1> SUFFICES ASSUME NEW t \in TxIds, NEW u \in TxIds, t # u,
                    NEW i \in DOMAIN tx'[t].inputs, NEW j \in DOMAIN tx'[u].inputs
             PROVE  tx'[t].inputs[i] # tx'[u].inputs[j]
    BY DEF Exclusive
<1>1. \A f : f = <<>> => DOMAIN f = {}
    OBVIOUS
<1>2. tx'[t].inputs = tx[t].inputs /\ tx'[u].inputs = tx[u].inputs
    BY <1>1
<1> QED
    BY <1>2 DEF Exclusive

(* The tree a node rebuilds is one the contract has had; a node that has   *)
(* every event rebuilds the tree as it is.                                 *)
LEMMA LoadedTree ==
    ASSUME IndInv, NEW p \in Parties
    PROVE  /\ LoadTree(node[p].treeLeaves) \in roots
           /\ node[p].cursor = Len(log) => LoadTree(node[p].treeLeaves) = chainTree
<1>1. NodeInv(p) /\ ChainInv /\ chainTree \in Seq(Leaves)
    BY DEF IndInv, Types
<1>2. PICK k \in 0 .. Len(chainTree) :
            /\ LeavesUpTo(log, node[p].cursor) = FirstLeaves(chainTree, k)
            /\ SubSeq(chainTree, 1, k) \in roots
    BY <1>1 DEF NodeInv, ChainInv, RootAt
<1>3. node[p].treeLeaves = {LeafState(leaf) : leaf \in FirstLeaves(chainTree, k)}
    BY <1>1, <1>2 DEF NodeInv
<1>4. LoadTree({LeafState(leaf) : leaf \in FirstLeaves(chainTree, k)}) = SubSeq(chainTree, 1, k)
    BY <1>1, LoadTreeOfFirstLeaves
<1>5. ASSUME node[p].cursor = Len(log)
      PROVE  LoadTree(node[p].treeLeaves) = chainTree
    <2>1. node[p].treeLeaves = {LeafState(leaf) : leaf \in FirstLeaves(chainTree, Len(chainTree))}
        BY <1>1, <1>5 DEF NodeInv, ChainInv
    <2>2. Len(chainTree) \in 0 .. Len(chainTree)
        BY <1>1, LenProperties
    <2>3. LoadTree({LeafState(leaf) : leaf \in FirstLeaves(chainTree, Len(chainTree))})
            = SubSeq(chainTree, 1, Len(chainTree))
        BY <1>1, <2>2, LoadTreeOfFirstLeaves
    <2>4. SubSeq(chainTree, 1, Len(chainTree)) = chainTree
        BY <1>1, SubSeqFull
    <2> QED
        BY <2>1, <2>3, <2>4
<1> QED
    BY <1>2, <1>3, <1>4, <1>5

(* What the first half of an assembly takes.                               *)
LEMMA SelectedFacts ==
    ASSUME Types, NEW t \in TxIds, PrepareInputs(t)
    PROVE  LET notes == Available(Sender(t))
           IN  /\ tx'[t].pc \in {"selected", "reverted"}
               /\ tx'[t].attempt = tx[t].attempt + 1 /\ tx'[t].attempt \in 0 .. MaxAttempts
               /\ tx'[t].inputs \in Seq(Notes) /\ Len(tx'[t].inputs) <= Len(notes)
               /\ \A i \in DOMAIN tx'[t].inputs : i \in DOMAIN notes /\ tx'[t].inputs[i] = notes[i]
               /\ tx'[t].pc = "reverted" => tx'[t].inputs = <<>>
               /\ tx'[t].pc = "selected" => TotalValue(tx'[t].inputs) >= AmountOf(t)
               /\ tx'[t].outputs = tx[t].outputs /\ tx'[t].root = tx[t].root
               /\ \A u \in TxIds : u # t => tx'[u] = tx[u]
               /\ tx' \in [TxIds -> Transactions]
<1> DEFINE notes == Available(Sender(t))
           selected == SelectInputs(notes, AmountOf(t), MaxInputs)
<1>1. tx \in [TxIds -> Transactions] /\ tx[t] \in Transactions
    BY DEF Types
<1>2. Sender(t) \in Parties /\ AmountOf(t) \in Nat
    BY RequestFacts
<1>3. notes \in Seq(Notes) /\ Len(notes) \in Nat /\ DOMAIN notes = 1 .. Len(notes)
    BY <1>2, AvailableFacts, LenProperties
<1>4. tx' = [tx EXCEPT
                ![t].pc      = IF selected.result = "ok" THEN "selected" ELSE "reverted",
                ![t].attempt = @ + 1,
                ![t].inputs  = SubSeq(notes, 1, selected.count)]
    BY DEF PrepareInputs
<1>5. tx[t].attempt + 1 \in 0 .. MaxAttempts
    <2>1. tx[t].attempt \in Nat /\ tx[t].attempt < MaxAttempts /\ MaxAttempts \in Nat
        BY <1>1, PrivateTransactionsAssumption DEF PrepareInputs, Idle, Transactions
    <2> QED
        BY <2>1
<1> HIDE DEF notes
<1>6. /\ selected.count \in 0 .. Len(notes)
      /\ selected.result = "ok" =>
            /\ selected.count \in 1 .. Len(notes)
            /\ RunningSum(notes)[selected.count] >= AmountOf(t)
      /\ selected.result # "ok" => selected.count = 0
    BY <1>3, NotesAreValued, SelectInputsFacts
<1> HIDE DEF selected
<1>7. /\ SubSeq(notes, 1, selected.count) \in Seq(Notes)
      /\ Len(SubSeq(notes, 1, selected.count)) = selected.count
      /\ \A i \in 1 .. selected.count : SubSeq(notes, 1, selected.count)[i] = notes[i]
      /\ TotalValue(SubSeq(notes, 1, selected.count)) = RunningSum(notes)[selected.count]
    BY <1>3, <1>6, NotesAreValued, TotalOfFirst
<1>8. /\ tx'[t] = [tx[t] EXCEPT !.pc = IF selected.result = "ok" THEN "selected" ELSE "reverted",
                                !.attempt = @ + 1, !.inputs = SubSeq(notes, 1, selected.count)]
      /\ \A u \in TxIds : u # t => tx'[u] = tx[u]
    BY <1>1, <1>4
<1>9. /\ tx'[t].pc = (IF selected.result = "ok" THEN "selected" ELSE "reverted")
      /\ tx'[t].attempt = tx[t].attempt + 1
      /\ tx'[t].inputs = SubSeq(notes, 1, selected.count)
      /\ tx'[t].outputs = tx[t].outputs /\ tx'[t].root = tx[t].root
      /\ tx'[t] \in Transactions
    BY <1>1, <1>5, <1>7, <1>8 DEF Transactions, Pcs
<1>10. tx' \in [TxIds -> Transactions]
    BY <1>1, <1>4, <1>9
<1>11. DOMAIN tx'[t].inputs = 1 .. selected.count
    BY <1>7, <1>9, LenProperties
<1>12. \A i \in DOMAIN tx'[t].inputs : i \in DOMAIN notes /\ tx'[t].inputs[i] = notes[i]
    BY <1>3, <1>6, <1>7, <1>9, <1>11
<1>13. tx'[t].pc = "reverted" => tx'[t].inputs = <<>>
    <2>1. SubSeq(notes, 1, 0) = <<>>
        BY SubSeqEmpty
    <2> QED
        BY <1>6, <1>9, <2>1
<1>14. tx'[t].pc = "selected" => TotalValue(tx'[t].inputs) >= AmountOf(t)
    BY <1>6, <1>7, <1>9
<1>15. tx'[t].inputs \in Seq(Notes) /\ Len(tx'[t].inputs) <= Len(notes)
    BY <1>3, <1>6, <1>7, <1>9
<1>16. tx'[t].pc \in {"selected", "reverted"} /\ tx'[t].attempt \in 0 .. MaxAttempts
    BY <1>5, <1>9
<1>17. /\ tx'[t].attempt = tx[t].attempt + 1
       /\ tx'[t].outputs = tx[t].outputs /\ tx'[t].root = tx[t].root
       /\ \A u \in TxIds : u # t => tx'[u] = tx[u]
    BY <1>8, <1>9
<1> QED
    BY <1>10, <1>12, <1>13, <1>14, <1>15, <1>16, <1>17 DEF notes

(* What the second half makes of them.                                     *)
LEMMA BuiltFacts ==
    ASSUME IndInv, NEW t \in TxIds, BuildTransaction(t)
    PROVE  LET tree == LoadTree(node[Sender(t)].treeLeaves)
           IN  /\ tx[t].pc = "selected" /\ tx'[t].pc = "assembled"
               /\ tx'[t].attempt = tx[t].attempt /\ tx'[t].inputs = tx[t].inputs
               /\ tx'[t].root = tree /\ tree \in roots /\ tree \in Seq(Leaves)
               /\ \A k \in DOMAIN tx'[t].outputs :
                    /\ tx'[t].outputs[k].random = Random(t, k)
                    /\ tx'[t].outputs[k].leafIndex = Len(tree) + k - 1
               /\ TotalValue(tx'[t].inputs) = TotalValue(tx'[t].outputs)
                    + (IF Request[t].type = "unshield" THEN AmountOf(t) ELSE 0)
               /\ \A u \in TxIds : u # t => tx'[u] = tx[u]
               /\ tx' \in [TxIds -> Transactions]
<1> DEFINE tree == LoadTree(node[Sender(t)].treeLeaves)
           outputs == OutputNotes(t, Len(tree))
<1>1. Types /\ tx \in [TxIds -> Transactions] /\ tx[t] \in Transactions /\ TxInv(t)
    BY DEF IndInv, Types
<1>2. tree \in roots
    BY RequestFacts, LoadedTree
<1>3. tree \in Seq(Leaves) /\ Len(tree) \in Nat
    BY <1>1, <1>2, LenProperties DEF Types
<1>4. tx' = [tx EXCEPT ![t].pc = "assembled", ![t].outputs = outputs, ![t].root = tree]
      /\ tx[t].pc = "selected"
    BY DEF BuildTransaction
<1>5. Request[t].type # "shield" /\ TotalValue(tx[t].inputs) >= AmountOf(t)
    BY <1>1, <1>4 DEF TxInv
<1> HIDE DEF tree
<1>6. /\ outputs \in Seq(Notes)
      /\ \A k \in DOMAIN outputs :
            outputs[k].random = Random(t, k) /\ outputs[k].leafIndex = Len(tree) + k - 1
      /\ TotalValue(tx[t].inputs) = TotalValue(outputs)
            + (IF Request[t].type = "unshield" THEN AmountOf(t) ELSE 0)
    BY <1>1, <1>3, <1>5, OutputNotesFacts
<1> HIDE DEF outputs
<1>7. /\ tx'[t].pc = "assembled" /\ tx'[t].outputs = outputs /\ tx'[t].root = tree
      /\ tx'[t].attempt = tx[t].attempt /\ tx'[t].inputs = tx[t].inputs
      /\ tx'[t] \in Transactions
      /\ \A u \in TxIds : u # t => tx'[u] = tx[u]
    BY <1>1, <1>3, <1>4, <1>6 DEF Transactions, Pcs
<1>8. tx' \in [TxIds -> Transactions]
    BY <1>1, <1>4, <1>7
<1> QED
    BY <1>2, <1>3, <1>4, <1>6, <1>7, <1>8 DEF tree

LEMMA ShieldFacts ==
    ASSUME IndInv, NEW t \in TxIds, AssembleShield(t)
    PROVE  LET tree == LoadTree(node[Sender(t)].treeLeaves)
           IN  /\ tx[t].pc = "idle" /\ tx'[t].pc = "signed"
               /\ tx'[t].attempt = tx[t].attempt + 1 /\ tx'[t].inputs = tx[t].inputs
               /\ tx'[t].root = tree /\ tree \in roots
               /\ DOMAIN tx'[t].outputs = {1}
               /\ tx'[t].outputs[1].random = <<t, tx'[t].attempt, 1>>
               /\ tx'[t].outputs[1].leafIndex = Len(tree)
               /\ \A u \in TxIds : u # t => tx'[u] = tx[u]
               /\ tx' \in [TxIds -> Transactions]
<1> DEFINE tree == LoadTree(node[Sender(t)].treeLeaves)
           note == NewNote(Payments(t)[1].to, AmountOf(t), <<t, tx[t].attempt + 1, 1>>, Len(tree))
<1>1. Types /\ tx \in [TxIds -> Transactions] /\ tx[t] \in Transactions
    BY DEF IndInv, Types
<1>2. tree \in roots
    BY RequestFacts, LoadedTree
<1>3. tree \in Seq(Leaves) /\ Len(tree) \in Nat
    BY <1>1, <1>2, LenProperties DEF Types
<1>4. tx' = [tx EXCEPT ![t].pc = "signed", ![t].attempt = @ + 1, ![t].outputs = <<note>>, ![t].root = tree]
      /\ tx[t].pc = "idle" /\ tx[t].attempt < MaxAttempts
    BY DEF AssembleShield, Idle
<1>5. tx[t].attempt \in Nat /\ tx[t].attempt + 1 \in 0 .. MaxAttempts
    <2>1. tx[t].attempt \in Nat /\ MaxAttempts \in Nat
        BY <1>1, PrivateTransactionsAssumption DEF Transactions
    <2> QED
        BY <1>4, <2>1
<1>6. /\ note \in Notes /\ note.random = <<t, tx[t].attempt + 1, 1>> /\ note.leafIndex = Len(tree)
    <2>1. Payments(t)[1].to \in Owners /\ AmountOf(t) \in Nat
        BY RequestFacts
    <2>2. <<t, tx[t].attempt + 1, 1>> \in Randoms
        BY <1>5 DEF Randoms
    <2> HIDE DEF tree
    <2> QED
        BY <1>3, <2>1, <2>2, NewNoteFacts
<1> HIDE DEF tree, note
<1>7. <<note>> \in Seq(Notes) /\ DOMAIN <<note>> = {1} /\ <<note>>[1] = note
    BY <1>6
<1>8. /\ tx'[t].pc = "signed" /\ tx'[t].outputs = <<note>> /\ tx'[t].root = tree
      /\ tx'[t].attempt = tx[t].attempt + 1 /\ tx'[t].inputs = tx[t].inputs
      /\ tx'[t] \in Transactions
      /\ \A u \in TxIds : u # t => tx'[u] = tx[u]
    BY <1>1, <1>3, <1>4, <1>5, <1>7 DEF Transactions, Pcs
<1>9. tx' \in [TxIds -> Transactions]
    BY <1>1, <1>4, <1>8
<1> QED
    BY <1>2, <1>4, <1>6, <1>7, <1>8, <1>9 DEF tree

LEMMA NewPc ==
    ASSUME Types, NEW t \in TxIds, NEW pc \in Pcs, tx' = [tx EXCEPT ![t].pc = pc]
    PROVE  /\ tx'[t].pc = pc /\ tx'[t].attempt = tx[t].attempt
           /\ tx'[t].inputs = tx[t].inputs /\ tx'[t].outputs = tx[t].outputs
           /\ tx'[t].root = tx[t].root
           /\ \A u \in TxIds : u # t => tx'[u] = tx[u]
           /\ tx' \in [TxIds -> Transactions]
<1>1. tx \in [TxIds -> Transactions] /\ tx[t] \in Transactions
    BY DEF Types
<1>2. /\ tx'[t].pc = pc /\ tx'[t].attempt = tx[t].attempt
      /\ tx'[t].inputs = tx[t].inputs /\ tx'[t].outputs = tx[t].outputs
      /\ tx'[t].root = tx[t].root /\ tx'[t] \in Transactions
    BY <1>1 DEF Transactions
<1> QED
    BY <1>1, <1>2

LEMMA RetryFacts ==
    ASSUME Types, NEW t \in TxIds, Retry(t)
    PROVE  /\ tx'[t].pc = "idle" /\ tx'[t].attempt = tx[t].attempt
           /\ tx'[t].inputs = <<>> /\ tx'[t].outputs = <<>>
           /\ \A u \in TxIds : u # t => tx'[u] = tx[u]
           /\ tx' \in [TxIds -> Transactions]
<1>1. tx \in [TxIds -> Transactions] /\ tx[t] \in Transactions
    BY DEF Types
<1>2. tx' = [tx EXCEPT ![t].pc = "idle", ![t].inputs = <<>>, ![t].outputs = <<>>]
    BY DEF Retry
<1>3. <<>> \in Seq(Notes)
    BY EmptySeq
<1>4. /\ tx'[t].pc = "idle" /\ tx'[t].attempt = tx[t].attempt
      /\ tx'[t].inputs = <<>> /\ tx'[t].outputs = <<>> /\ tx'[t] \in Transactions
    BY <1>1, <1>2, <1>3 DEF Transactions, Pcs
<1> QED
    BY <1>1, <1>2, <1>4

(* A note that is available is no input of another transaction: one that   *)
(* is in flight, or mined and not known to be complete, locks its inputs,  *)
(* and when it is known to be complete its nullifiers are known, too.      *)
LEMMA AvailableIsFree ==
    ASSUME IndInv, NEW p \in Parties, NEW i \in DOMAIN Available(p),
           NEW u \in TxIds, NEW j \in DOMAIN tx[u].inputs
    PROVE  Available(p)[i] # tx[u].inputs[j]
<1> DEFINE note == Available(p)[i]
<1>1. Types /\ NodeInv(p) /\ ChainInv /\ TxInv(u) /\ tx[u] \in Transactions
    BY DEF IndInv, Types
<1>2. /\ note.owner = p /\ Nullifier(note) \notin SpentIn(p) /\ note \notin Locked(p)
    BY <1>1, AvailableFacts
<1> HIDE DEF note
<1> SUFFICES ASSUME note = tx[u].inputs[j]
             PROVE  FALSE
    BY DEF note
<1>3. Sender(u) = p
    BY <1>1, <1>2 DEF TxInv
<1>4. ~Holds(u)
    <2> SUFFICES ASSUME Holds(u) PROVE FALSE
        OBVIOUS
    <2>1. note \in {tx[u].inputs[k] : k \in DOMAIN tx[u].inputs}
        OBVIOUS
    <2>2. u \in {v \in TxIds : Holds(v) /\ Sender(v) = p}
        BY <1>3
    <2>3. note \in Locked(p)
        BY <2>1, <2>2 DEF Locked
    <2> QED
        BY <1>2, <2>3
<1>5. tx[u].pc = "mined" /\ u \in node[p].completed
    <2>1. \A f : f = <<>> => DOMAIN f = {}
        OBVIOUS
    <2>2. tx[u].pc \notin {"idle", "reverted"}
        BY <1>1, <2>1 DEF TxInv
    <2>3. tx[u].pc \notin {"selected", "assembled", "signed", "submitted"}
        BY <1>4 DEF Holds, InFlight
    <2>4. tx[u].pc \in Pcs
        BY <1>1 DEF Transactions
    <2>5. tx[u].pc = "mined"
        BY <2>2, <2>3, <2>4 DEF Pcs
    <2> QED
        BY <1>3, <1>4, <2>5 DEF Holds
<1>6. PICK k \in 1 .. node[p].cursor : log[k].tag = u
    BY <1>1, <1>5 DEF NodeInv
<1>7. node[p].cursor \in Nat /\ Len(log) \in Nat /\ node[p].cursor <= Len(log)
    BY <1>1, LenProperties DEF NodeInv, Types
<1>8. k \in 1 .. Len(log) /\ \A m \in 1 .. k : m \in 1 .. node[p].cursor
    BY <1>7
<1>9. SpentBy(u) \subseteq NullifiersUpTo(log, k)
    BY <1>1, <1>6, <1>8 DEF ChainInv
<1>10. NullifiersUpTo(log, k) \subseteq NullifiersUpTo(log, node[p].cursor)
    BY <1>8 DEF NullifiersUpTo
<1>11. Nullifier(note) \in SpentBy(u)
    BY DEF SpentBy
<1>12. SpentIn(p) = NullifiersUpTo(log, node[p].cursor)
    BY <1>1 DEF NodeInv
<1> QED
    BY <1>2, <1>9, <1>10, <1>11, <1>12

LEMMA PrepareInputsStep ==
    ASSUME IndInv, NEW t \in TxIds, PrepareInputs(t)
    PROVE  IndInv'
<1> DEFINE notes == Available(Sender(t))
<1>1. Types /\ Exclusive /\ TxInv(t) /\ tx \in [TxIds -> Transactions] /\ Sender(t) \in Parties
    BY RequestFacts DEF IndInv, Types
<1>2. /\ UNCHANGED chainVars /\ UNCHANGED node /\ UNCHANGED mail
      /\ Request[t].type # "shield" /\ tx[t].pc = "idle"
    BY DEF PrepareInputs, Idle
<1>3. /\ tx'[t].pc \in {"selected", "reverted"}
      /\ \A i \in DOMAIN tx'[t].inputs : i \in DOMAIN notes /\ tx'[t].inputs[i] = notes[i]
      /\ tx'[t].pc = "reverted" => tx'[t].inputs = <<>>
      /\ tx'[t].pc = "selected" => TotalValue(tx'[t].inputs) >= AmountOf(t)
      /\ \A u \in TxIds : u # t => tx'[u] = tx[u]
      /\ tx' \in [TxIds -> Transactions]
    BY <1>1, SelectedFacts
<1>4. Types'
    BY <1>1, <1>2, <1>3 DEF Types, chainVars
<1>5. TxInv(t)'
    <2>1. \A i \in DOMAIN tx'[t].inputs : tx'[t].inputs[i].owner = Sender(t)
        BY <1>1, <1>3, AvailableFacts
    <2> QED
        BY <1>2, <1>3, <2>1 DEF TxInv
<1>6. Exclusive'
    <2>1. ASSUME NEW u \in TxIds, u # t, NEW i \in DOMAIN tx'[t].inputs, NEW j \in DOMAIN tx[u].inputs
          PROVE  tx'[t].inputs[i] # tx[u].inputs[j]
        <3>1. i \in DOMAIN notes /\ tx'[t].inputs[i] = notes[i]
            BY <1>3
        <3> QED
            BY <1>1, <3>1, AvailableIsFree
    <2> SUFFICES ASSUME NEW v \in TxIds, NEW u \in TxIds, v # u,
                        NEW i \in DOMAIN tx'[v].inputs, NEW j \in DOMAIN tx'[u].inputs
                 PROVE  tx'[v].inputs[i] # tx'[u].inputs[j]
        BY DEF Exclusive
    <2>2. CASE v = t
        BY <1>3, <2>1, <2>2
    <2>3. CASE u = t
        BY <1>3, <2>1, <2>3
    <2>4. CASE v # t /\ u # t
        BY <1>1, <1>3, <2>4 DEF Exclusive
    <2> QED
        BY <2>2, <2>3, <2>4
<1>7. \A u \in TxIds : tx[u].pc = "mined" => tx'[u] = tx[u]
    BY <1>2, <1>3
<1>8. \A u \in TxIds : tx'[u] = tx[u] \/ TxInv(u)'
    BY <1>3, <1>5
<1> QED
    BY <1>2, <1>4, <1>6, <1>7, <1>8, LocalStep

LEMMA BuildTransactionStep ==
    ASSUME IndInv, NEW t \in TxIds, BuildTransaction(t)
    PROVE  IndInv'
<1>1. Types /\ Exclusive /\ TxInv(t)
    BY DEF IndInv
<1>2. UNCHANGED chainVars /\ UNCHANGED node /\ UNCHANGED mail
    BY DEF BuildTransaction
<1>3. /\ tx[t].pc = "selected" /\ tx'[t].pc = "assembled"
      /\ tx'[t].inputs = tx[t].inputs /\ tx'[t].root \in roots
      /\ \A u \in TxIds : u # t => tx'[u] = tx[u]
      /\ tx' \in [TxIds -> Transactions]
    BY BuiltFacts
<1>4. Types'
    BY <1>1, <1>2, <1>3 DEF Types, chainVars
<1>5. TxInv(t)'
    BY <1>1, <1>2, <1>3 DEF TxInv, chainVars
<1>6. Exclusive'
    BY <1>1, <1>3, InputsKept
<1>7. \A u \in TxIds : tx[u].pc = "mined" => tx'[u] = tx[u]
    BY <1>3
<1>8. \A u \in TxIds : tx'[u] = tx[u] \/ TxInv(u)'
    BY <1>3, <1>5
<1> QED
    BY <1>2, <1>4, <1>6, <1>7, <1>8, LocalStep

LEMMA AssembleShieldStep ==
    ASSUME IndInv, NEW t \in TxIds, AssembleShield(t)
    PROVE  IndInv'
<1>1. Types /\ Exclusive /\ TxInv(t)
    BY DEF IndInv
<1>2. UNCHANGED chainVars /\ UNCHANGED node /\ UNCHANGED mail /\ Request[t].type = "shield"
    BY DEF AssembleShield
<1>3. /\ tx[t].pc = "idle" /\ tx'[t].pc = "signed"
      /\ tx'[t].inputs = tx[t].inputs /\ tx'[t].root \in roots
      /\ \A u \in TxIds : u # t => tx'[u] = tx[u]
      /\ tx' \in [TxIds -> Transactions]
    BY ShieldFacts
<1>4. Types'
    BY <1>1, <1>2, <1>3 DEF Types, chainVars
<1>5. TxInv(t)'
    <2>1. tx'[t].inputs = <<>> /\ DOMAIN tx'[t].inputs = {}
        BY <1>1, <1>2, <1>3 DEF TxInv
    <2> QED
        BY <1>2, <1>3, <2>1 DEF TxInv, chainVars
<1>6. Exclusive'
    BY <1>1, <1>3, InputsKept
<1>7. \A u \in TxIds : tx[u].pc = "mined" => tx'[u] = tx[u]
    BY <1>3
<1>8. \A u \in TxIds : tx'[u] = tx[u] \/ TxInv(u)'
    BY <1>3, <1>5
<1> QED
    BY <1>2, <1>4, <1>6, <1>7, <1>8, LocalStep

(* Sign that fails, and a refusal of the base ledger.                      *)
LEMMA RetryStep ==
    ASSUME IndInv, NEW t \in TxIds, Retry(t), tx[t].pc \in {"assembled", "submitted"},
           UNCHANGED <<chainVars, node, mail>>
    PROVE  IndInv'
<1>1. Types /\ Exclusive
    BY DEF IndInv
<1>2. UNCHANGED chainVars /\ UNCHANGED node /\ UNCHANGED mail
    OBVIOUS
<1>3. /\ tx'[t].pc = "idle" /\ tx'[t].inputs = <<>> /\ DOMAIN tx'[t].inputs = {}
      /\ \A u \in TxIds : u # t => tx'[u] = tx[u]
      /\ tx' \in [TxIds -> Transactions]
    BY <1>1, RetryFacts
<1>4. Types'
    BY <1>1, <1>2, <1>3 DEF Types, chainVars
<1>5. TxInv(t)'
    BY <1>3 DEF TxInv
<1>6. Exclusive'
    BY <1>1, <1>3, InputsKept
<1>7. \A u \in TxIds : tx[u].pc = "mined" => tx'[u] = tx[u]
    BY <1>3
<1>8. \A u \in TxIds : tx'[u] = tx[u] \/ TxInv(u)'
    BY <1>3, <1>5
<1> QED
    BY <1>2, <1>4, <1>6, <1>7, <1>8, LocalStep

LEMMA SignStep ==
    ASSUME IndInv, NEW t \in TxIds, Sign(t)
    PROVE  IndInv'
<1>1. Types /\ Exclusive /\ TxInv(t)
    BY DEF IndInv
<1>2. /\ UNCHANGED chainVars /\ UNCHANGED node /\ UNCHANGED mail
      /\ tx[t].pc = "assembled"
    BY DEF Sign
<1>3. CASE ~Provable(t)
    BY <1>2, <1>3, RetryStep DEF Sign
<1>4. CASE Provable(t)
    <2>1. tx' = [tx EXCEPT ![t].pc = "signed"]
        BY <1>4 DEF Sign
    <2>2. /\ tx'[t].pc = "signed" /\ tx'[t].inputs = tx[t].inputs /\ tx'[t].root = tx[t].root
          /\ \A u \in TxIds : u # t => tx'[u] = tx[u]
          /\ tx' \in [TxIds -> Transactions]
        BY <1>1, <2>1, NewPc DEF Pcs
    <2>3. Types'
        BY <1>1, <1>2, <2>2 DEF Types, chainVars
    <2>4. TxInv(t)'
        BY <1>1, <1>2, <1>4, <2>2 DEF TxInv, Provable, chainVars
    <2>5. Exclusive'
        BY <1>1, <2>2, InputsKept
    <2>6. \A u \in TxIds : tx[u].pc = "mined" => tx'[u] = tx[u]
        BY <1>2, <2>2
    <2>7. \A u \in TxIds : tx'[u] = tx[u] \/ TxInv(u)'
        BY <2>2, <2>4
    <2> QED
        BY <1>2, <2>3, <2>5, <2>6, <2>7, LocalStep
<1> QED
    BY <1>3, <1>4

LEMMA StoreFacts ==
    ASSUME Types, NEW p \in Parties, NEW notes \in Seq(Notes), Store(p, notes)
    PROVE  /\ node' \in [Parties -> Nodes]
           /\ \A q \in Parties :
                /\ node'[q].cursor = node[q].cursor /\ node'[q].treeLeaves = node[q].treeLeaves
                /\ node'[q].confirmed = node[q].confirmed /\ node'[q].spent = node[q].spent
                /\ node'[q].completed = node[q].completed
           /\ node'[p].received = node[p].received \o notes
           /\ \A q \in Parties : q # p => node'[q] = node[q]
<1>1. /\ node \in [Parties -> Nodes] /\ node[p] \in Nodes /\ node[p].received \in Seq(Notes)
    BY DEF Types, Nodes
<1>2. node' = [node EXCEPT ![p].received = @ \o notes]
    BY DEF Store
<1>3. node[p].received \o notes \in Seq(Notes)
    BY <1>1, ConcatProperties
<1>4. /\ node'[p].received = node[p].received \o notes
      /\ node'[p].cursor = node[p].cursor /\ node'[p].treeLeaves = node[p].treeLeaves
      /\ node'[p].confirmed = node[p].confirmed /\ node'[p].spent = node[p].spent
      /\ node'[p].completed = node[p].completed
      /\ node'[p] \in Nodes
    BY <1>1, <1>2, <1>3 DEF Nodes
<1>5. \A q \in Parties : q # p => node'[q] = node[q]
    BY <1>1, <1>2
<1>6. node' \in [Parties -> Nodes]
    BY <1>1, <1>2, <1>4
<1> QED
    BY <1>4, <1>5, <1>6

LEMMA DispatchStep ==
    ASSUME IndInv, NEW t \in TxIds, Dispatch(t)
    PROVE  IndInv'
<1>1. Types /\ Exclusive /\ TxInv(t) /\ Sender(t) \in Parties
    BY RequestFacts DEF IndInv
<1>2. tx[t].outputs \in Seq(Notes)
    BY <1>1 DEF Types, Transactions
<1>3. /\ UNCHANGED chainVars /\ tx[t].pc = "signed" /\ tx' = [tx EXCEPT ![t].pc = "submitted"]
      /\ Store(Sender(t), OutputsFor(t, Sender(t)))
      /\ mail' = mail \cup {[to |-> p, notes |-> OutputsFor(t, p)] :
                            p \in {q \in Parties \ {Sender(t)} : OutputsFor(t, q) # <<>>}}
    BY DEF Dispatch
<1>4. \A p \in Parties : OutputsFor(t, p) \in Seq(Notes)
    BY <1>2, OutputsForFacts
<1>5. /\ node' \in [Parties -> Nodes]
      /\ \A q \in Parties :
            /\ node'[q].cursor = node[q].cursor /\ node'[q].treeLeaves = node[q].treeLeaves
            /\ node'[q].confirmed = node[q].confirmed /\ node'[q].spent = node[q].spent
            /\ node'[q].completed = node[q].completed
    BY <1>1, <1>3, <1>4, StoreFacts
<1>6. /\ tx'[t].pc = "submitted" /\ tx'[t].inputs = tx[t].inputs /\ tx'[t].root = tx[t].root
      /\ \A u \in TxIds : u # t => tx'[u] = tx[u]
      /\ tx' \in [TxIds -> Transactions]
    BY <1>1, <1>3, NewPc DEF Pcs
<1>7. mail' \subseteq [to : Parties, notes : Seq(Notes)]
    <2>1. mail \subseteq [to : Parties, notes : Seq(Notes)]
        BY <1>1 DEF Types
    <2>2. \A p \in Parties : [to |-> p, notes |-> OutputsFor(t, p)] \in [to : Parties, notes : Seq(Notes)]
        BY <1>4
    <2> QED
        BY <1>3, <2>1, <2>2
<1>8. Types'
    BY <1>1, <1>3, <1>5, <1>6, <1>7 DEF Types, chainVars
<1>9. TxInv(t)'
    BY <1>1, <1>3, <1>6 DEF TxInv, chainVars
<1>10. Exclusive'
    BY <1>1, <1>6, InputsKept
<1>11. \A u \in TxIds : tx[u].pc = "mined" => tx'[u] = tx[u]
    BY <1>3, <1>6
<1>12. \A u \in TxIds : tx'[u] = tx[u] \/ TxInv(u)'
    BY <1>6, <1>9
<1> QED
    BY <1>3, <1>5, <1>8, <1>10, <1>11, <1>12, LocalStep

LEMMA ReceiveNotesStep ==
    ASSUME IndInv, NEW m \in mail, ReceiveNotes(m)
    PROVE  IndInv'
<1>1. Types /\ Exclusive /\ m.to \in Parties /\ m.notes \in Seq(Notes)
    BY DEF IndInv, Types
<1>2. /\ UNCHANGED chainVars /\ UNCHANGED tx /\ mail' = mail \ {m} /\ Store(m.to, m.notes)
    BY DEF ReceiveNotes
<1>3. /\ node' \in [Parties -> Nodes]
      /\ \A q \in Parties :
            /\ node'[q].cursor = node[q].cursor /\ node'[q].treeLeaves = node[q].treeLeaves
            /\ node'[q].confirmed = node[q].confirmed /\ node'[q].spent = node[q].spent
            /\ node'[q].completed = node[q].completed
    BY <1>1, <1>2, StoreFacts
<1>4. Types'
    BY <1>1, <1>2, <1>3 DEF Types, chainVars
<1>5. Exclusive'
    BY <1>1, <1>2 DEF Exclusive
<1>6. \A u \in TxIds : tx'[u] = tx[u]
    BY <1>2
<1> QED
    BY <1>2, <1>3, <1>4, <1>5, <1>6, LocalStep

-----------------------------------------------------------------------------
(* The invariant of every discipline: the contract                         *)

(* A call of the contract that inserts L and publishes nulls, and at most  *)
(* makes the transaction mined that nulls are of.                          *)
Call(tag, L, es, nulls) ==
    /\ IsCall(LogEvents, es, Len(log), tag, Len(chainTree), L)
    /\ PublishesOnce(es, nulls) /\ DecodesTo(es, "ok")
    /\ log' = log \o es
    /\ chainTree' = chainTree \o L
    /\ published' = published \cup nulls
    /\ roots' = roots \cup {chainTree'}
    /\ \A u \in TxIds :
        /\ tx'[u].inputs = tx[u].inputs /\ tx'[u].root = tx[u].root
        /\ tx'[u].pc = tx[u].pc \/ (tx[u].pc = "submitted" /\ tx'[u].pc = "mined")
    /\ tag \in TxIds => tx'[tag].pc = "mined" /\ SpentBy(tag) = nulls
    /\ nulls # {} => tag \in TxIds

LEMMA CallFacts ==
    ASSUME Types, ChainInv, NEW tag \in LogTags, NEW L \in Seq(Leaves), NEW es, NEW nulls,
           Call(tag, L, es, nulls)
    PROVE  /\ es \in Seq(LogEvents) /\ Len(es) \in Nat /\ Len(es) >= 1
           /\ log' \in Seq(LogEvents) /\ Len(log') = Len(log) + Len(es)
           /\ \A i \in 1 .. Len(log) : log'[i] = log[i]
           /\ \A i \in 1 .. Len(log') :
                i \notin 1 .. Len(log) => i - Len(log) \in 1 .. Len(es) /\ log'[i] = es[i - Len(log)]
           /\ \A n \in 0 .. Len(log) : LeavesUpTo(log', n) = LeavesUpTo(log, n)
           /\ \A n \in 0 .. Len(log') : n \notin 0 .. Len(log) =>
                \/ LeavesUpTo(log', n) = LeavesUpTo(log, Len(log))
                \/ LeavesUpTo(log', n) = FirstLeaves(chainTree', Len(chainTree'))
           /\ LeavesUpTo(log', Len(log')) = FirstLeaves(chainTree', Len(chainTree'))
           /\ \A n \in 0 .. Len(log) : NullifiersUpTo(log', n) = NullifiersUpTo(log, n)
           /\ \A n \in 0 .. Len(log') : n \notin 0 .. Len(log) =>
                NullifiersUpTo(log', n) = published \cup nulls
<1> DEFINE m == Len(log)
           k == Len(es)
           long == log \o es
<1>1. /\ log \in Seq(LogEvents) /\ chainTree \in Seq(Leaves) /\ m \in Nat /\ Len(chainTree) \in Nat
      /\ es \in Seq(LogEvents) /\ k \in Nat /\ k >= 1 /\ Len(L) \in Nat /\ DOMAIN L = 1 .. Len(L)
    BY LenProperties DEF Types, Call, IsCall
<1>2. /\ IsCall(LogEvents, es, Len(log), tag, Len(chainTree), L)
      /\ PublishesOnce(es, nulls)
      /\ log' = long /\ chainTree' = chainTree \o L
    BY DEF Call
<1>3. /\ long \in Seq(LogEvents) /\ Len(long) = Len(log) + Len(es)
      /\ \A i \in 1 .. Len(log) : long[i] = log[i]
      /\ \A i \in 1 .. Len(es) : long[Len(log) + i] = es[i]
      /\ \A n \in 0 .. Len(log) : LeavesUpTo(long, n) = LeavesUpTo(log, n)
      /\ \A n \in Len(log) .. Len(log) + Len(es) - 1 : LeavesUpTo(long, n) = LeavesUpTo(log, Len(log))
      /\ LeavesUpTo(long, Len(log) + Len(es)) = LeavesUpTo(log, Len(log)) \cup LeavesOf(es[Len(es)])
    BY <1>1, <1>2, LeavesOfLongerLog
<1>4. /\ \A n \in 0 .. Len(log) : NullifiersUpTo(long, n) = NullifiersUpTo(log, n)
      /\ \A n \in Len(log) + 1 .. Len(log) + Len(es) :
            NullifiersUpTo(long, n) = NullifiersUpTo(log, Len(log)) \cup nulls
    BY <1>1, <1>2, NullifiersOfLongerLog
<1>5. LeavesOf(es[k]) = {<<Len(chainTree) + j - 1, L[j]>> : j \in 1 .. Len(L)}
    <2>1. es[k].leaves = L /\ (L # <<>> => es[k].start = Len(chainTree))
        BY <1>2 DEF IsCall
    <2>2. CASE L = <<>>
        <3>1. DOMAIN L = {}
            BY <2>2
        <3> QED
            BY <1>1, <2>1, <3>1 DEF LeavesOf
    <2>3. CASE L # <<>>
        BY <1>1, <2>1, <2>3 DEF LeavesOf
    <2> QED
        BY <2>2, <2>3
<1>6. LeavesUpTo(long, m + k) = FirstLeaves(chainTree', Len(chainTree'))
    <2>1. /\ Len(chainTree \o L) = Len(chainTree) + Len(L)
          /\ FirstLeaves(chainTree \o L, Len(chainTree) + Len(L))
                = FirstLeaves(chainTree, Len(chainTree)) \cup {<<Len(chainTree) + j - 1, L[j]>> : j \in 1 .. Len(L)}
        BY <1>1, FirstLeavesOfLongerTree
    <2>2. LeavesUpTo(log, Len(log)) = FirstLeaves(chainTree, Len(chainTree))
        BY DEF ChainInv
    <2> QED
        BY <1>2, <1>3, <1>5, <2>1, <2>2
<1> HIDE DEF m, k, long
<1>7. \A i \in 1 .. m + k : i \notin 1 .. m => i - m \in 1 .. k /\ m + (i - m) = i
    BY <1>1
<1>8. \A n \in 0 .. m + k : n \notin 0 .. m =>
            n \in m + 1 .. m + k /\ (n \in m .. m + k - 1 \/ n = m + k)
    BY <1>1
<1>9. Len(long) = m + k
    BY <1>3 DEF m, k
<1>10. \A i \in 1 .. Len(long) : i \notin 1 .. m => i - m \in 1 .. k /\ long[i] = es[i - m]
    <2> SUFFICES ASSUME NEW i \in 1 .. m + k, i \notin 1 .. m
                 PROVE  i - m \in 1 .. k /\ long[i] = es[i - m]
        BY <1>9
    <2>1. i - m \in 1 .. k /\ m + (i - m) = i
        BY <1>7
    <2>2. long[m + (i - m)] = es[i - m]
        BY <1>3, <2>1 DEF m, k
    <2> QED
        BY <2>1, <2>2
<1>11. \A n \in 0 .. Len(long) : n \notin 0 .. m =>
            /\ \/ LeavesUpTo(long, n) = LeavesUpTo(log, m)
               \/ LeavesUpTo(long, n) = FirstLeaves(chainTree', Len(chainTree'))
            /\ NullifiersUpTo(long, n) = published \cup nulls
    <2> SUFFICES ASSUME NEW n \in 0 .. m + k, n \notin 0 .. m
                 PROVE  /\ \/ LeavesUpTo(long, n) = LeavesUpTo(log, m)
                           \/ LeavesUpTo(long, n) = FirstLeaves(chainTree', Len(chainTree'))
                        /\ NullifiersUpTo(long, n) = published \cup nulls
        BY <1>9
    <2>1. n \in m + 1 .. m + k /\ (n \in m .. m + k - 1 \/ n = m + k)
        BY <1>8
    <2>2. NullifiersUpTo(long, n) = NullifiersUpTo(log, m) \cup nulls
        BY <1>4, <2>1 DEF m, k
    <2>3. NullifiersUpTo(log, m) = published
        BY DEF ChainInv, m
    <2>4. n \in m .. m + k - 1 => LeavesUpTo(long, n) = LeavesUpTo(log, m)
        BY <1>3 DEF m, k
    <2> QED
        BY <1>6, <2>1, <2>2, <2>3, <2>4
<1> QED
    BY <1>1, <1>2, <1>3, <1>4, <1>6, <1>9, <1>10, <1>11 DEF m, k

LEMMA CallStep ==
    ASSUME IndInv, NEW tag \in LogTags, NEW L \in Seq(Leaves), NEW es, NEW nulls \in SUBSET Nullifiers,
           Call(tag, L, es, nulls),
           foreign' \in 0 .. MaxForeign, UNCHANGED <<node, mail>>, tx' \in [TxIds -> Transactions]
    PROVE  IndInv'
<1> DEFINE m == Len(log)
           k == Len(es)
<1>1. /\ Types /\ ChainInv /\ Exclusive
      /\ \A p \in Parties : NodeInv(p)
      /\ \A u \in TxIds : TxInv(u)
      /\ log \in Seq(LogEvents) /\ chainTree \in Seq(Leaves) /\ m \in Nat /\ Len(chainTree) \in Nat
    BY LenProperties DEF IndInv, Types
<1>2. /\ PublishesOnce(es, nulls) /\ DecodesTo(es, "ok")
      /\ IsCall(LogEvents, es, m, tag, Len(chainTree), L)
      /\ chainTree' = chainTree \o L /\ published' = published \cup nulls
      /\ roots' = roots \cup {chainTree'}
      /\ \A u \in TxIds :
            /\ tx'[u].inputs = tx[u].inputs /\ tx'[u].root = tx[u].root
            /\ tx'[u].pc = tx[u].pc \/ (tx[u].pc = "submitted" /\ tx'[u].pc = "mined")
      /\ tag \in TxIds => tx'[tag].pc = "mined" /\ SpentBy(tag) = nulls
      /\ nulls # {} => tag \in TxIds
    BY DEF Call
<1>3. /\ es \in Seq(LogEvents) /\ k \in Nat /\ k >= 1
      /\ log' \in Seq(LogEvents) /\ Len(log') = m + k
      /\ \A i \in 1 .. m : log'[i] = log[i]
      /\ \A i \in 1 .. m + k : i \notin 1 .. m => i - m \in 1 .. k /\ log'[i] = es[i - m]
      /\ \A n \in 0 .. m : LeavesUpTo(log', n) = LeavesUpTo(log, n)
      /\ \A n \in 0 .. m + k : n \notin 0 .. m =>
            \/ LeavesUpTo(log', n) = LeavesUpTo(log, m)
            \/ LeavesUpTo(log', n) = FirstLeaves(chainTree', Len(chainTree'))
      /\ LeavesUpTo(log', m + k) = FirstLeaves(chainTree', Len(chainTree'))
      /\ \A n \in 0 .. m : NullifiersUpTo(log', n) = NullifiersUpTo(log, n)
      /\ \A n \in 0 .. m + k : n \notin 0 .. m => NullifiersUpTo(log', n) = published \cup nulls
    <2>1. /\ es \in Seq(LogEvents) /\ Len(es) \in Nat /\ Len(es) >= 1
          /\ log' \in Seq(LogEvents) /\ Len(log') = Len(log) + Len(es)
          /\ \A i \in 1 .. Len(log) : log'[i] = log[i]
          /\ \A i \in 1 .. Len(log') :
                i \notin 1 .. Len(log) => i - Len(log) \in 1 .. Len(es) /\ log'[i] = es[i - Len(log)]
          /\ \A n \in 0 .. Len(log) : LeavesUpTo(log', n) = LeavesUpTo(log, n)
          /\ \A n \in 0 .. Len(log') : n \notin 0 .. Len(log) =>
                \/ LeavesUpTo(log', n) = LeavesUpTo(log, Len(log))
                \/ LeavesUpTo(log', n) = FirstLeaves(chainTree', Len(chainTree'))
          /\ LeavesUpTo(log', Len(log')) = FirstLeaves(chainTree', Len(chainTree'))
          /\ \A n \in 0 .. Len(log) : NullifiersUpTo(log', n) = NullifiersUpTo(log, n)
          /\ \A n \in 0 .. Len(log') : n \notin 0 .. Len(log) =>
                NullifiersUpTo(log', n) = published \cup nulls
        BY <1>1, CallFacts
    <2> QED
        BY <2>1
<1>4. /\ chainTree' \in Seq(Leaves) /\ Len(chainTree') \in Nat /\ Len(chainTree) <= Len(chainTree')
      /\ \A n \in 0 .. Len(chainTree) : n \in 0 .. Len(chainTree')
            /\ FirstLeaves(chainTree', n) = FirstLeaves(chainTree, n)
            /\ SubSeq(chainTree', 1, n) = SubSeq(chainTree, 1, n)
      /\ SubSeq(chainTree', 1, Len(chainTree')) = chainTree'
      /\ SubSeq(chainTree, 1, Len(chainTree)) = chainTree
    <2>1. /\ chainTree \o L \in Seq(Leaves) /\ Len(chainTree \o L) = Len(chainTree) + Len(L)
          /\ \A n \in 0 .. Len(chainTree) : FirstLeaves(chainTree \o L, n) = FirstLeaves(chainTree, n)
        BY <1>1, FirstLeavesOfLongerTree
    <2>2. \A n \in 0 .. Len(chainTree) : SubSeq(chainTree \o L, 1, n) = SubSeq(chainTree, 1, n)
        BY <1>1, FirstOfLongerTree
    <2>3. Len(L) \in Nat
        BY LenProperties
    <2>4. /\ SubSeq(chainTree \o L, 1, Len(chainTree \o L)) = chainTree \o L
          /\ SubSeq(chainTree, 1, Len(chainTree)) = chainTree
        BY <1>1, <2>1, SubSeqFull
    <2> QED
        BY <1>1, <1>2, <2>1, <2>2, <2>3, <2>4
<1> HIDE DEF m, k
<1>5. Types'
    <2>1. published' \subseteq Nullifiers /\ roots' \subseteq Seq(Leaves)
        BY <1>1, <1>2, <1>4 DEF Types
    <2> QED
        BY <1>1, <1>3, <1>4, <2>1 DEF Types
<1>6. \A u \in TxIds : SpentBy(u)' = SpentBy(u)
    BY <1>2 DEF SpentBy
<1>7. ChainInv'
    <2>1. \A i \in 1 .. m + k : GoodEvent(log'[i]) /\ log'[i].decode = "ok"
        <3>1. \A i \in 1 .. k : GoodEvent(es[i]) /\ es[i].decode = "ok"
            BY <1>2 DEF IsCall, DecodesTo, k
        <3>2. \A i \in 1 .. m : GoodEvent(log[i]) /\ log[i].decode = "ok"
            BY <1>1 DEF ChainInv, m
        <3> QED
            BY <1>3, <3>1, <3>2
    <2>2. LeavesUpTo(log, m) = FirstLeaves(chainTree, Len(chainTree)) /\ chainTree \in roots
        BY <1>1 DEF ChainInv, m
    <2>3. Len(chainTree) \in 0 .. Len(chainTree) /\ Len(chainTree') \in 0 .. Len(chainTree')
        BY <1>1, <1>4
    <2>4. ASSUME NEW n \in 0 .. m + k
          PROVE  RootAt(n)'
        <3>1. CASE n \in 0 .. m
            <4>1. PICK j \in 0 .. Len(chainTree) :
                    LeavesUpTo(log, n) = FirstLeaves(chainTree, j) /\ SubSeq(chainTree, 1, j) \in roots
                BY <1>1, <3>1 DEF ChainInv, RootAt, m
            <4>2. /\ j \in 0 .. Len(chainTree') /\ LeavesUpTo(log', n) = FirstLeaves(chainTree', j)
                  /\ SubSeq(chainTree', 1, j) \in roots'
                BY <1>2, <1>3, <1>4, <3>1, <4>1
            <4> QED
                BY <4>2 DEF RootAt
        <3>2. CASE n \notin 0 .. m /\ LeavesUpTo(log', n) = LeavesUpTo(log, m)
            <4>1. /\ Len(chainTree) \in 0 .. Len(chainTree')
                  /\ LeavesUpTo(log', n) = FirstLeaves(chainTree', Len(chainTree))
                  /\ SubSeq(chainTree', 1, Len(chainTree)) \in roots'
                BY <1>2, <1>4, <2>2, <2>3, <3>2
            <4> QED
                BY <4>1 DEF RootAt
        <3>3. CASE n \notin 0 .. m /\ LeavesUpTo(log', n) = FirstLeaves(chainTree', Len(chainTree'))
            <4>1. SubSeq(chainTree', 1, Len(chainTree')) \in roots'
                BY <1>2, <1>4
            <4> QED
                BY <2>3, <3>3, <4>1 DEF RootAt
        <3> QED
            BY <1>3, <3>1, <3>2, <3>3
    <2>5. chainTree' \in roots'
        BY <1>2
    <2>6. ASSUME NEW r \in roots'
          PROVE  \E j \in 0 .. Len(chainTree') : r = SubSeq(chainTree', 1, j)
        <3>1. CASE r = chainTree'
            BY <1>4, <2>3, <3>1
        <3>2. CASE r \in roots
            <4>1. PICK j \in 0 .. Len(chainTree) : r = SubSeq(chainTree, 1, j)
                BY <1>1, <3>2 DEF ChainInv
            <4> QED
                BY <1>4, <4>1
        <3> QED
            BY <1>2, <3>1, <3>2
    <2>7. published' = NullifiersUpTo(log', m + k)
        <3>1. m + k \in 0 .. m + k /\ m + k \notin 0 .. m
            BY <1>1, <1>3
        <3> QED
            BY <1>2, <1>3, <3>1
    <2>8. ASSUME NEW n \in published'
          PROVE  \E u \in TxIds : tx'[u].pc = "mined" /\ n \in SpentBy(u)'
        <3>1. CASE n \in nulls
            BY <1>2, <1>6, <3>1
        <3>2. CASE n \in published
            <4>1. PICK u \in TxIds : tx[u].pc = "mined" /\ n \in SpentBy(u)
                BY <1>1, <3>2 DEF ChainInv
            <4>2. tx'[u].pc = "mined"
                BY <1>2, <4>1
            <4> QED
                BY <1>6, <4>1, <4>2
        <3> QED
            BY <1>2, <3>1, <3>2
    <2>9. ASSUME NEW i \in 1 .. m + k, log'[i].tag \in TxIds
          PROVE  /\ tx'[log'[i].tag].pc = "mined"
                 /\ SpentBy(log[i].tag)' \subseteq NullifiersUpTo(log', i)
        <3>1. PICK u \in TxIds : u = log'[i].tag
            BY <2>9
        <3>2. SpentBy(log[i].tag)' = SpentBy(u)
            <4>1. SpentBy(log[i].tag)' = SpentBy(u)'
                BY <3>1 DEF SpentBy
            <4> QED
                BY <1>6, <4>1
        <3>3. CASE i \in 1 .. m
            <4>1. log[i].tag = u /\ i \in 0 .. m
                BY <1>3, <3>1, <3>3
            <4>2. tx[u].pc = "mined" /\ SpentBy(u) \subseteq NullifiersUpTo(log, i)
                BY <1>1, <3>3, <4>1 DEF ChainInv, m
            <4>3. tx'[u].pc = "mined"
                BY <1>2, <4>2
            <4> QED
                BY <1>3, <3>1, <3>2, <4>1, <4>2, <4>3
        <3>4. CASE i \notin 1 .. m
            <4>1. i - m \in 1 .. k /\ log'[i] = es[i - m] /\ i \in 0 .. m + k /\ i \notin 0 .. m
                BY <1>1, <1>3, <3>4
            <4>2. NoTx \notin TxIds
                BY PrivateTransactionsAssumption
            <4>3. i - m \notin 1 .. k - 1
                BY <1>2, <3>1, <4>1, <4>2 DEF IsCall, k
            <4>4. i - m = k
                BY <1>3, <4>1, <4>3
            <4>5. u = tag
                BY <1>2, <3>1, <4>1, <4>2, <4>4 DEF IsCall, k
            <4>6. NullifiersUpTo(log', i) = published \cup nulls
                BY <1>3, <4>1
            <4> QED
                BY <1>2, <3>1, <3>2, <4>5, <4>6
        <3> QED
            BY <3>3, <3>4
    <2>10. Len(log') = m + k
        BY <1>3
    <2>11. LeavesUpTo(log', m + k) = FirstLeaves(chainTree', Len(chainTree'))
        BY <1>3
    <2> QED
        BY <2>1, <2>4, <2>5, <2>6, <2>7, <2>8, <2>9, <2>10, <2>11 DEF ChainInv
<1>8. ASSUME NEW p \in Parties
      PROVE  NodeInv(p)'
    <2>1. NodeInv(p) /\ node[p].cursor \in 0 .. m
        BY <1>1 DEF NodeInv, m
    <2>2. node' = node /\ node[p].cursor \in 0 .. m + k
        BY <1>1, <1>3, <2>1
    <2>3. /\ LeavesUpTo(log', node[p].cursor) = LeavesUpTo(log, node[p].cursor)
          /\ NullifiersUpTo(log', node[p].cursor) = NullifiersUpTo(log, node[p].cursor)
        BY <1>3, <2>1
    <2>4. \A i \in 1 .. node[p].cursor : log'[i] = log[i]
        BY <1>1, <1>3, <2>1
    <2>5. \A u \in node[p].completed : \E i \in 1 .. node[p].cursor : log'[i].tag = u
        BY <2>1, <2>4 DEF NodeInv
    <2>6. SpentIn(p)' = SpentIn(p)
        BY <2>2 DEF SpentIn
    <2> QED
        BY <1>3, <2>1, <2>2, <2>3, <2>5, <2>6 DEF NodeInv
<1>9. ASSUME NEW u \in TxIds
      PROVE  TxInv(u)'
    <2>1. TxInv(u)
        BY <1>1
    <2>2. /\ tx'[u].inputs = tx[u].inputs /\ tx'[u].root = tx[u].root
          /\ tx'[u].pc = tx[u].pc \/ (tx[u].pc = "submitted" /\ tx'[u].pc = "mined")
          /\ roots \subseteq roots'
        BY <1>2
    <2> QED
        BY <2>1, <2>2 DEF TxInv
<1>10. Exclusive'
    BY <1>1, <1>2, InputsKept
<1> QED
    BY <1>5, <1>7, <1>8, <1>9, <1>10 DEF IndInv

LEMMA InsertsFacts ==
    ASSUME NEW notes \in Seq(Notes)
    PROVE  /\ Inserts(notes) \in Seq(Leaves) /\ Len(Inserts(notes)) = Len(notes)
           /\ \A i \in 1 .. Len(notes) : Inserts(notes)[i] = Commitment(notes[i])
<1>1. Len(notes) \in Nat /\ DOMAIN notes = 1 .. Len(notes)
    BY LenProperties
<1>2. \A i \in 1 .. Len(notes) : Commitment(notes[i]) \in Leaves
    BY <1>1, ElementOfSeq, NotesAreValued
<1>3. Inserts(notes) = [i \in 1 .. Len(notes) |-> Commitment(notes[i])]
    BY <1>1 DEF Inserts
<1>4. Inserts(notes) \in [1 .. Len(notes) -> Leaves]
    BY <1>2, <1>3
<1> QED
    BY <1>1, <1>3, <1>4, FunctionIsSequence

(* What mining a transaction is to the contract.                           *)
LEMMA MineIsCall ==
    ASSUME IndInv, NEW t \in TxIds, Mine(t)
    PROVE  /\ \E es : Call(t, Inserts(tx[t].outputs), es, SpentBy(t))
           /\ Inserts(tx[t].outputs) \in Seq(Leaves)
           /\ SpentBy(t) \in SUBSET Nullifiers
           /\ foreign' = foreign /\ UNCHANGED <<node, mail>>
           /\ tx[t].pc = "submitted" /\ tx'[t].pc = "mined" /\ MayInsert(t)
           /\ tx'[t].attempt = tx[t].attempt /\ tx'[t].inputs = tx[t].inputs
           /\ tx'[t].outputs = tx[t].outputs
           /\ \A u \in TxIds : u # t => tx'[u] = tx[u]
           /\ tx' \in [TxIds -> Transactions]
<1> DEFINE L == Inserts(tx[t].outputs)
           unshields == Request[t].type = "unshield"
           es == IF Request[t].type = "shield"
                 THEN ShieldEvents(Len(log), t, Len(chainTree), L, "ok")
                 ELSE TransactEvents(Len(log), t, Len(chainTree), SpentBy(t), L, unshields)
<1>1. /\ Types /\ TxInv(t) /\ tx[t] \in Transactions
      /\ log \in Seq(LogEvents) /\ Len(log) \in Nat /\ Len(chainTree) \in Nat
    BY LenProperties DEF IndInv, Types
<1>2. tx[t].inputs \in Seq(Notes) /\ tx[t].outputs \in Seq(Notes)
    BY <1>1 DEF Transactions
<1>3. L \in Seq(Leaves)
    BY <1>2, InsertsFacts
<1>4. SpentBy(t) \in SUBSET Nullifiers
    <2>1. \A i \in DOMAIN tx[t].inputs : tx[t].inputs[i] \in Notes
        BY <1>2, LenProperties, ElementOfSeq
    <2> QED
        BY <2>1, NotesAreValued DEF SpentBy
<1>5. /\ tx[t].pc = "submitted" /\ MayInsert(t) /\ foreign' = foreign /\ UNCHANGED <<node, mail>>
      /\ log' = log \o es /\ chainTree' = chainTree \o L
      /\ published' = published \cup SpentBy(t) /\ roots' = roots \cup {chainTree'}
      /\ tx' = [tx EXCEPT ![t].pc = "mined"]
    BY DEF Mine
<1>6. /\ tx'[t].pc = "mined" /\ tx'[t].attempt = tx[t].attempt
      /\ tx'[t].inputs = tx[t].inputs /\ tx'[t].outputs = tx[t].outputs
      /\ tx'[t].root = tx[t].root
      /\ \A u \in TxIds : u # t => tx'[u] = tx[u]
      /\ tx' \in [TxIds -> Transactions]
    BY <1>1, <1>5, NewPc DEF Pcs
<1>7. t \in LogTags /\ NoTx \in LogTags /\ t # NoTx
    BY PrivateTransactionsAssumption DEF LogTags
<1> HIDE DEF L
<1>8. /\ IsCall(LogEvents, es, Len(log), t, Len(chainTree), L)
      /\ PublishesOnce(es, SpentBy(t)) /\ DecodesTo(es, "ok")
    <2>1. CASE Request[t].type = "shield"
        <3>1. es = ShieldEvents(Len(log), t, Len(chainTree), L, "ok")
            BY <2>1
        <3>2. SpentBy(t) = {}
            <4>1. tx[t].inputs = <<>> /\ DOMAIN tx[t].inputs = {}
                BY <1>1, <2>1 DEF TxInv
            <4> QED
                BY <4>1 DEF SpentBy
        <3>3. "ok" \in Decodings \ {"malformed"}
            BY DEF Decodings
        <3>4. IsCall(EventsOver(LogTags, Leaves, Nullifiers),
                     ShieldEvents(Len(log), t, Len(chainTree), L, "ok"), Len(log), t, Len(chainTree), L)
            BY <1>1, <1>3, <1>7, <3>3, ShieldIsCall
        <3>5. /\ PublishesOnce(ShieldEvents(Len(log), t, Len(chainTree), L, "ok"), {})
              /\ DecodesTo(ShieldEvents(Len(log), t, Len(chainTree), L, "ok"), "ok")
            BY <1>7, ShieldPublishesOnce
        <3> HIDE DEF es
        <3> QED
            BY <3>1, <3>2, <3>4, <3>5 DEF LogEvents
    <2>2. CASE Request[t].type # "shield"
        <3>1. es = TransactEvents(Len(log), t, Len(chainTree), SpentBy(t), L, unshields)
            BY <2>2
        <3>2. unshields \in BOOLEAN
            OBVIOUS
        <3> HIDE DEF es, unshields
        <3>3. IsCall(EventsOver(LogTags, Leaves, Nullifiers),
                     TransactEvents(Len(log), t, Len(chainTree), SpentBy(t), L, unshields),
                     Len(log), t, Len(chainTree), L)
            BY <1>1, <1>3, <1>4, <1>7, <3>2, TransactIsCall
        <3>4. /\ PublishesOnce(TransactEvents(Len(log), t, Len(chainTree), SpentBy(t), L, unshields), SpentBy(t))
              /\ DecodesTo(TransactEvents(Len(log), t, Len(chainTree), SpentBy(t), L, unshields), "ok")
            BY <1>7, <3>2, TransactPublishesOnce
        <3> QED
            BY <3>1, <3>3, <3>4 DEF LogEvents
    <2> QED
        BY <2>1, <2>2
<1>9. \A u \in TxIds :
        /\ tx'[u].inputs = tx[u].inputs /\ tx'[u].root = tx[u].root
        /\ tx'[u].pc = tx[u].pc \/ (tx[u].pc = "submitted" /\ tx'[u].pc = "mined")
    BY <1>5, <1>6
<1> HIDE DEF es
<1>10. Call(t, L, es, SpentBy(t))
    BY <1>5, <1>6, <1>8, <1>9 DEF Call
<1> QED
    BY <1>3, <1>4, <1>5, <1>6, <1>10 DEF L

LEMMA MineStep ==
    ASSUME IndInv, NEW t \in TxIds, Mine(t)
    PROVE  IndInv'
<1>1. /\ \E es : Call(t, Inserts(tx[t].outputs), es, SpentBy(t))
      /\ Inserts(tx[t].outputs) \in Seq(Leaves)
      /\ SpentBy(t) \in SUBSET Nullifiers
      /\ foreign' = foreign /\ UNCHANGED <<node, mail>>
      /\ tx' \in [TxIds -> Transactions]
    BY MineIsCall
<1>2. PICK es : Call(t, Inserts(tx[t].outputs), es, SpentBy(t))
    BY <1>1
<1>3. t \in LogTags /\ foreign' \in 0 .. MaxForeign
    BY <1>1 DEF LogTags, IndInv, Types
<1> QED
    BY <1>1, <1>2, <1>3, CallStep

LEMMA ForeignIsCall ==
    ASSUME IndInv, ForeignShield
    PROVE  \E leaf \in Leaves :
                /\ leaf.owner = External /\ leaf.random = <<ForeignTag, foreign>>
                /\ <<leaf>> \in Seq(Leaves)
                /\ \E es : Call(ForeignTag, <<leaf>>, es, {})
<1> DEFINE leaf == [owner |-> External, value |-> 1, random |-> <<ForeignTag, foreign>>]
           es == ShieldEvents(Len(log), ForeignTag, Len(chainTree), <<leaf>>, "ok")
<1>1. /\ Types /\ foreign \in Nat /\ chainTree \in Seq(Leaves)
      /\ log \in Seq(LogEvents) /\ Len(log) \in Nat /\ Len(chainTree) \in Nat
    BY PrivateTransactionsAssumption, LenProperties DEF IndInv, Types
<1>2. /\ log' = log \o es /\ chainTree' = Append(chainTree, leaf)
      /\ roots' = roots \cup {chainTree'} /\ published' = published /\ tx' = tx
    BY DEF ForeignShield
<1>3. /\ leaf \in Leaves /\ leaf.owner = External /\ leaf.random = <<ForeignTag, foreign>>
    BY <1>1 DEF Leaves, Owners
<1> HIDE DEF leaf
<1>4. <<leaf>> \in Seq(Leaves) /\ Append(chainTree, leaf) = chainTree \o <<leaf>>
    BY <1>1, <1>3, AppendIsConcat
<1>5. ForeignTag \in LogTags /\ ForeignTag # NoTx /\ ForeignTag \notin TxIds
    BY PrivateTransactionsAssumption DEF LogTags
<1>6. /\ IsCall(LogEvents, es, Len(log), ForeignTag, Len(chainTree), <<leaf>>)
      /\ PublishesOnce(es, {}) /\ DecodesTo(es, "ok")
    <2>1. "ok" \in Decodings \ {"malformed"}
        BY DEF Decodings
    <2>2. IsCall(EventsOver(LogTags, Leaves, Nullifiers),
                 ShieldEvents(Len(log), ForeignTag, Len(chainTree), <<leaf>>, "ok"),
                 Len(log), ForeignTag, Len(chainTree), <<leaf>>)
        BY <1>1, <1>4, <1>5, <2>1, ShieldIsCall
    <2>3. /\ PublishesOnce(ShieldEvents(Len(log), ForeignTag, Len(chainTree), <<leaf>>, "ok"), {})
          /\ DecodesTo(ShieldEvents(Len(log), ForeignTag, Len(chainTree), <<leaf>>, "ok"), "ok")
        BY <1>5, ShieldPublishesOnce
    <2> QED
        BY <2>2, <2>3 DEF LogEvents
<1> HIDE DEF es
<1>7. Call(ForeignTag, <<leaf>>, es, {})
    BY <1>2, <1>4, <1>5, <1>6 DEF Call
<1> QED
    BY <1>3, <1>4, <1>7

LEMMA ForeignShieldStep ==
    ASSUME IndInv, ForeignShield
    PROVE  IndInv'
<1>1. PICK leaf \in Leaves : <<leaf>> \in Seq(Leaves) /\ \E es : Call(ForeignTag, <<leaf>>, es, {})
    BY ForeignIsCall
<1>2. PICK es : Call(ForeignTag, <<leaf>>, es, {})
    BY <1>1
<1>3. Types /\ tx' = tx /\ UNCHANGED <<node, mail>> /\ foreign' = foreign + 1 /\ foreign < MaxForeign
    BY DEF ForeignShield, IndInv
<1>4. foreign' \in 0 .. MaxForeign /\ tx' \in [TxIds -> Transactions] /\ ForeignTag \in LogTags
    BY <1>3, PrivateTransactionsAssumption DEF Types, LogTags
<1>5. {} \in SUBSET Nullifiers
    OBVIOUS
<1> QED
    BY <1>1, <1>2, <1>3, <1>4, <1>5, CallStep

-----------------------------------------------------------------------------
(* The invariant of every discipline: the events                           *)

LEMMA DeliveredFacts ==
    ASSUME IndInv, NEW p \in Parties, NEW n \in 1 .. MaxBatch, DeliverBatch(p, n)
    PROVE  /\ n \in Nat /\ n >= 1 /\ node[p].cursor \in Nat /\ node[p].cursor + n <= Len(log)
           /\ node'[p].cursor = node[p].cursor + n
           /\ node'[p].received = node[p].received
           /\ node'[p] \in Nodes
           /\ NodeInv(p)'
<1> DEFINE cursor == node[p].cursor
           batch == SubSeq(log, cursor + 1, cursor + n)
           res   == HandleEventBatch(batch)
           next  == cursor + n
<1>1. /\ Types /\ ChainInv /\ NodeInv(p) /\ node \in [Parties -> Nodes] /\ node[p] \in Nodes
      /\ log \in Seq(LogEvents) /\ Len(log) \in Nat /\ DOMAIN log = 1 .. Len(log)
      /\ n \in Nat /\ n >= 1 /\ cursor \in Nat /\ cursor + n <= Len(log)
    <2>1. /\ Types /\ ChainInv /\ NodeInv(p) /\ node \in [Parties -> Nodes]
          /\ log \in Seq(LogEvents)
        BY DEF IndInv, Types
    <2>2. node[p] \in Nodes /\ cursor \in Nat
        BY <2>1 DEF Nodes
    <2>3. Len(log) \in Nat /\ DOMAIN log = 1 .. Len(log)
        BY <2>1, LenProperties
    <2>4. n \in Nat /\ n >= 1
        BY PrivateTransactionsAssumption
    <2>5. cursor + n <= Len(log)
        BY DEF DeliverBatch
    <2> QED
        BY <2>1, <2>2, <2>3, <2>4, <2>5
<1>2. /\ node' = [node EXCEPT
                ![p].cursor     = @ + n,
                ![p].confirmed  = @ \cup res.confirmed,
                ![p].treeLeaves = @ \cup res.newStates,
                ![p].spent      = @ \cup res.spent,
                ![p].completed  = @ \cup res.complete]
      /\ log' = log
    BY DEF DeliverBatch, chainVars
<1>3. /\ batch \in Seq(LogEvents) /\ DOMAIN batch = 1 .. n
      /\ \A i \in 1 .. n : batch[i] = log[cursor + i]
    <2>1. /\ cursor + 1 \in Int /\ cursor + n \in Int
          /\ \A i \in cursor + 1 .. cursor + n : log[i] \in LogEvents
        BY <1>1, ElementOfSeq
    <2> HIDE DEF cursor
    <2>2. /\ batch \in Seq(LogEvents)
          /\ Len(batch) = (IF cursor + 1 <= cursor + n THEN (cursor + n) - (cursor + 1) + 1 ELSE 0)
          /\ \A i \in 1 .. ((cursor + n) - (cursor + 1) + 1) : batch[i] = log[(cursor + 1) + i - 1]
        BY <1>1, <2>1, SubSeqProperties
    <2>3. Len(batch) = n /\ (cursor + n) - (cursor + 1) + 1 = n
        BY <1>1, <2>2
    <2>4. \A i \in 1 .. n : (cursor + 1) + i - 1 = cursor + i
        BY <1>1
    <2>5. DOMAIN batch = 1 .. Len(batch)
        BY <2>2, LenProperties
    <2> QED
        BY <2>2, <2>3, <2>4, <2>5
<1>4. \A i \in 1 .. n : GoodEvent(batch[i]) /\ batch[i].decode = "ok" /\ batch[i].kind \in EventKinds
    <2> SUFFICES ASSUME NEW i \in 1 .. n
                 PROVE  GoodEvent(batch[i]) /\ batch[i].decode = "ok" /\ batch[i].kind \in EventKinds
        OBVIOUS
    <2> HIDE DEF batch, cursor
    <2>1. cursor + i \in 1 .. Len(log) /\ batch[i] = log[cursor + i]
        BY <1>1, <1>3
    <2>2. log[cursor + i] \in LogEvents
        BY <1>1, <2>1, ElementOfSeq
    <2> QED
        BY <1>1, <2>1, <2>2 DEF ChainInv, LogEvents, EventsOver
<1> HIDE DEF batch
<1>5. ~res.failed
    BY <1>3, <1>4, DecodedBatchSucceeds
<1>6. /\ res.newStates = {LeafState(leaf) : leaf \in UNION {LeavesOf(batch[i]) : i \in 1 .. n}}
      /\ \A i \in 1 .. n : \A j \in DOMAIN batch[i].leaves :
            \E c \in res.confirmed : c.id = batch[i].leaves[j]
      /\ \A i \in 1 .. n : \A x \in batch[i].nullifiers : \E s \in res.spent : s.id = x
      /\ \A c \in res.confirmed :
            \E i \in 1 .. n : \E j \in DOMAIN batch[i].leaves : c.id = batch[i].leaves[j]
      /\ \A s \in res.spent : \E i \in 1 .. n : s.id \in batch[i].nullifiers
      /\ \A u \in res.complete : \E i \in 1 .. n : batch[i].tag = u
      /\ res.complete \subseteq LogTags \ {NoTx}
      /\ res.confirmed \subseteq [id : Leaves, tx : LogTags]
      /\ res.spent \subseteq [id : Nullifiers, tx : LogTags]
    <2>1. NoTx \in LogTags
        BY DEF LogTags
    <2>2. batch \in Seq(EventsOver(LogTags, Leaves, Nullifiers))
        BY <1>3 DEF LogEvents
    <2>3. \A i \in DOMAIN batch : GoodEvent(batch[i])
        BY <1>3, <1>4
    <2>4. ~HandleEventBatch(batch).failed
        BY <1>5
    <2> QED
        BY <1>3, <2>1, <2>2, <2>3, <2>4, HandleEventBatchFacts
<1> HIDE DEF res
<1>7. /\ node'[p].cursor = next /\ node'[p].received = node[p].received
      /\ node'[p].confirmed = node[p].confirmed \cup res.confirmed
      /\ node'[p].treeLeaves = node[p].treeLeaves \cup res.newStates
      /\ node'[p].spent = node[p].spent \cup res.spent
      /\ node'[p].completed = node[p].completed \cup res.complete
    BY <1>1, <1>2 DEF Nodes
<1>8. /\ next \in Nat /\ next <= Len(log)
      /\ \A i \in 1 .. cursor : i \in 1 .. next
      /\ \A i \in 1 .. n : cursor + i \in 1 .. next /\ cursor + i \in 1 .. Len(log)
      /\ \A i \in 1 .. next : i \in 1 .. cursor \/ (i - cursor \in 1 .. n /\ cursor + (i - cursor) = i)
    BY <1>1
<1>9. \A i \in 1 .. next : i \in 1 .. cursor \/ (i - cursor \in 1 .. n /\ batch[i - cursor] = log[i])
    BY <1>3, <1>8
<1> HIDE DEF next, cursor
<1>10. LeavesUpTo(log, next) = LeavesUpTo(log, cursor) \cup UNION {LeavesOf(batch[i]) : i \in 1 .. n}
    <2> DEFINE new == UNION {LeavesOf(batch[i]) : i \in 1 .. n}
    <2>1. LeavesUpTo(log, cursor) \subseteq LeavesUpTo(log, next)
        BY <1>8 DEF LeavesUpTo
    <2>2. new \subseteq LeavesUpTo(log, next)
        BY <1>3, <1>8 DEF LeavesUpTo
    <2>3. ASSUME NEW i \in 1 .. next
          PROVE  LeavesOf(log[i]) \subseteq LeavesUpTo(log, cursor) \cup new
        <3>1. CASE i \in 1 .. cursor
            BY <3>1 DEF LeavesUpTo
        <3>2. CASE i \notin 1 .. cursor
            <4>1. LeavesOf(batch[i - cursor]) \subseteq new
                BY <1>9, <3>2
            <4> QED
                BY <1>9, <3>2, <4>1
        <3> QED
            BY <3>1, <3>2
    <2> HIDE DEF new
    <2>4. LeavesUpTo(log, next) \subseteq LeavesUpTo(log, cursor) \cup new
        BY <2>3 DEF LeavesUpTo
    <2> QED
        BY <2>1, <2>2, <2>4 DEF new
<1>11. NullifiersUpTo(log, next) = NullifiersUpTo(log, cursor) \cup UNION {batch[i].nullifiers : i \in 1 .. n}
    <2> DEFINE new == UNION {batch[i].nullifiers : i \in 1 .. n}
    <2>1. NullifiersUpTo(log, cursor) \subseteq NullifiersUpTo(log, next)
        BY <1>8 DEF NullifiersUpTo
    <2>2. new \subseteq NullifiersUpTo(log, next)
        BY <1>3, <1>8 DEF NullifiersUpTo
    <2>3. ASSUME NEW i \in 1 .. next
          PROVE  log[i].nullifiers \subseteq NullifiersUpTo(log, cursor) \cup new
        <3>1. CASE i \in 1 .. cursor
            BY <3>1 DEF NullifiersUpTo
        <3>2. CASE i \notin 1 .. cursor
            <4>1. batch[i - cursor].nullifiers \subseteq new
                BY <1>9, <3>2
            <4> QED
                BY <1>9, <3>2, <4>1
        <3> QED
            BY <3>1, <3>2
    <2> HIDE DEF new
    <2>4. NullifiersUpTo(log, next) \subseteq NullifiersUpTo(log, cursor) \cup new
        BY <2>3 DEF NullifiersUpTo
    <2> QED
        BY <2>1, <2>2, <2>4 DEF new
<1>12. /\ node[p].treeLeaves = {LeafState(leaf) : leaf \in LeavesUpTo(log, cursor)}
       /\ \A c \in node[p].confirmed : \E leaf \in LeavesUpTo(log, cursor) : c.id = leaf[2]
       /\ \A leaf \in LeavesUpTo(log, cursor) : \E c \in node[p].confirmed : c.id = leaf[2]
       /\ SpentIn(p) = NullifiersUpTo(log, cursor)
       /\ \A u \in node[p].completed : \E i \in 1 .. cursor : log[i].tag = u
    BY <1>1 DEF NodeInv, cursor
<1>13. NodeInv(p)'
    <2>1. node'[p].cursor \in 0 .. Len(log')
        BY <1>1, <1>2, <1>7, <1>8
    <2>2. node'[p].treeLeaves = {LeafState(leaf) : leaf \in LeavesUpTo(log', node'[p].cursor)}
        <3> DEFINE old == LeavesUpTo(log, cursor)
                   new == UNION {LeavesOf(batch[i]) : i \in 1 .. n}
        <3>1. {LeafState(leaf) : leaf \in old \cup new}
                = {LeafState(leaf) : leaf \in old} \cup {LeafState(leaf) : leaf \in new}
            OBVIOUS
        <3>2. node'[p].treeLeaves = {LeafState(leaf) : leaf \in old \cup new}
            BY <1>6, <1>7, <1>12, <3>1
        <3> QED
            BY <1>2, <1>7, <1>10, <3>2
    <2>3. ASSUME NEW c \in node'[p].confirmed
          PROVE  \E leaf \in LeavesUpTo(log, next) : c.id = leaf[2]
        <3>1. CASE c \in node[p].confirmed
            BY <1>10, <1>12, <3>1
        <3>2. CASE c \in res.confirmed
            <4>1. PICK i \in 1 .. n : \E j \in DOMAIN batch[i].leaves : c.id = batch[i].leaves[j]
                BY <1>6, <3>2
            <4>2. PICK j \in DOMAIN batch[i].leaves : c.id = batch[i].leaves[j]
                BY <4>1
            <4>3. <<batch[i].start + j - 1, batch[i].leaves[j]>> \in LeavesOf(batch[i])
                BY <4>2 DEF LeavesOf
            <4>4. <<batch[i].start + j - 1, batch[i].leaves[j]>> \in LeavesUpTo(log, next)
                BY <1>10, <4>3
            <4> QED
                BY <4>2, <4>4
        <3> QED
            BY <1>7, <3>1, <3>2
    <2>4. ASSUME NEW leaf \in LeavesUpTo(log, next)
          PROVE  \E c \in node'[p].confirmed : c.id = leaf[2]
        <3>1. CASE leaf \in LeavesUpTo(log, cursor)
            BY <1>7, <1>12, <3>1
        <3>2. CASE leaf \notin LeavesUpTo(log, cursor)
            <4>1. PICK i \in 1 .. n : leaf \in LeavesOf(batch[i])
                BY <1>10, <3>2
            <4>2. PICK j \in DOMAIN batch[i].leaves : leaf = <<batch[i].start + j - 1, batch[i].leaves[j]>>
                BY <4>1 DEF LeavesOf
            <4>3. \E c \in res.confirmed : c.id = batch[i].leaves[j]
                BY <1>6
            <4> QED
                BY <1>7, <4>2, <4>3
        <3> QED
            BY <3>1, <3>2
    <2>5. SpentIn(p)' = NullifiersUpTo(log, next)
        <3>1. SpentIn(p)' = SpentIn(p) \cup {s.id : s \in res.spent}
            BY <1>7 DEF SpentIn
        <3>2. {s.id : s \in res.spent} = UNION {batch[i].nullifiers : i \in 1 .. n}
            BY <1>6
        <3> QED
            BY <1>11, <1>12, <3>1, <3>2
    <2>6. ASSUME NEW u \in node'[p].completed
          PROVE  \E i \in 1 .. next : log[i].tag = u
        <3>1. CASE u \in node[p].completed
            BY <1>8, <1>12, <3>1
        <3>2. CASE u \in res.complete
            <4>1. PICK i \in 1 .. n : batch[i].tag = u
                BY <1>6, <3>2
            <4>2. cursor + i \in 1 .. next /\ log[cursor + i].tag = u
                BY <1>3, <1>8, <4>1 DEF cursor
            <4> QED
                BY <4>2
        <3> QED
            BY <1>7, <3>1, <3>2
    <2> QED
        BY <1>2, <1>7, <2>1, <2>2, <2>3, <2>4, <2>5, <2>6 DEF NodeInv
<1>14. node'[p] \in Nodes
    <2>1. node'[p].treeLeaves \subseteq [id : Nat \X Leaves, leafIndex : Nat, commitment : Leaves]
        <3>1. ASSUME NEW i \in 1 .. n, NEW j \in DOMAIN batch[i].leaves
              PROVE  batch[i].start + j - 1 \in Nat /\ batch[i].leaves[j] \in Leaves
            <4>1. batch[i] \in EventsOver(LogTags, Leaves, Nullifiers)
                BY <1>3, ElementOfSeq, LenProperties DEF LogEvents
            <4>2. batch[i].start \in Nat /\ batch[i].leaves \in Seq(Leaves)
                BY <4>1 DEF EventsOver
            <4>3. j \in 1 .. Len(batch[i].leaves) /\ Len(batch[i].leaves) \in Nat
                BY <4>2, LenProperties
            <4> QED
                BY <4>2, <4>3, ElementOfSeq
        <3>2. ASSUME NEW i \in 1 .. n, NEW leaf \in LeavesOf(batch[i])
              PROVE  LeafState(leaf) \in [id : Nat \X Leaves, leafIndex : Nat, commitment : Leaves]
            <4>1. PICK j \in DOMAIN batch[i].leaves : leaf = <<batch[i].start + j - 1, batch[i].leaves[j]>>
                BY DEF LeavesOf
            <4>2. leaf \in Nat \X Leaves /\ leaf[1] \in Nat /\ leaf[2] \in Leaves
                BY <3>1, <4>1
            <4> QED
                BY <4>2 DEF LeafState
        <3>3. res.newStates \subseteq [id : Nat \X Leaves, leafIndex : Nat, commitment : Leaves]
            BY <1>6, <3>2
        <3> QED
            BY <1>1, <1>7, <3>3 DEF Nodes
    <2>2. node'[p].completed \subseteq TxIds \cup {ForeignTag}
        BY <1>1, <1>6, <1>7 DEF Nodes, LogTags
    <2>3. /\ node'[p].confirmed \subseteq [id : Leaves, tx : LogTags]
          /\ node'[p].spent \subseteq [id : Nullifiers, tx : LogTags]
          /\ node'[p].received \in Seq(Notes) /\ node'[p].cursor \in Nat
        BY <1>1, <1>6, <1>7, <1>8 DEF Nodes
    <2>4. node'[p] = [node[p] EXCEPT
                !.cursor     = @ + n,
                !.confirmed  = @ \cup res.confirmed,
                !.treeLeaves = @ \cup res.newStates,
                !.spent      = @ \cup res.spent,
                !.completed  = @ \cup res.complete]
        BY <1>1, <1>2
    <2> QED
        BY <1>1, <2>1, <2>2, <2>3, <2>4 DEF Nodes
<1> QED
    BY <1>1, <1>7, <1>13, <1>14 DEF cursor, next

LEMMA DeliverBatchStep ==
    ASSUME IndInv, NEW p \in Parties, NEW n \in 1 .. MaxBatch, DeliverBatch(p, n)
    PROVE  IndInv'
<1>1. Types /\ ChainInv /\ Exclusive /\ node \in [Parties -> Nodes]
    BY DEF IndInv, Types
<1>2. /\ UNCHANGED chainVars /\ UNCHANGED mail /\ UNCHANGED tx
      /\ \A q \in Parties : q # p => node'[q] = node[q]
      /\ DOMAIN node' = Parties /\ node' = [q \in Parties |-> node'[q]]
    BY <1>1 DEF DeliverBatch
<1>3. node'[p] \in Nodes /\ NodeInv(p)'
    BY DeliveredFacts
<1>4. node' \in [Parties -> Nodes]
    BY <1>1, <1>2, <1>3
<1>5. UNCHANGED <<log, chainTree, published, roots, foreign>>
    BY <1>2 DEF chainVars
<1>6. Types'
    BY <1>1, <1>2, <1>4, <1>5 DEF Types
<1>7. ChainInv'
    <2>1. \A n1 : RootAt(n1)' <=> RootAt(n1)
        BY <1>5 DEF RootAt
    <2>2. \A u \in TxIds : SpentBy(u)' = SpentBy(u)
        BY <1>2 DEF SpentBy
    <2>3. \A i \in 1 .. Len(log) : SpentBy(log[i].tag)' = SpentBy(log[i].tag)
        BY <1>2, <1>5 DEF SpentBy
    <2> QED
        BY <1>1, <1>2, <1>5, <2>1, <2>2, <2>3 DEF ChainInv
<1>8. ASSUME NEW q \in Parties
      PROVE  NodeInv(q)'
    <2>1. CASE q = p
        BY <1>3, <2>1
    <2>2. CASE q # p
        <3>1. NodeInv(q) /\ node'[q] = node[q]
            BY <1>2, <2>2 DEF IndInv
        <3> QED
            BY <1>5, <3>1 DEF NodeInv, SpentIn
    <2> QED
        BY <2>1, <2>2
<1>9. ASSUME NEW u \in TxIds
      PROVE  TxInv(u)'
    <2>1. TxInv(u)
        BY DEF IndInv
    <2> QED
        BY <1>2, <1>5, <2>1 DEF TxInv
<1>10. Exclusive'
    BY <1>1, <1>2 DEF Exclusive
<1> QED
    BY <1>6, <1>7, <1>8, <1>9, <1>10 DEF IndInv

-----------------------------------------------------------------------------
(* The invariant of every discipline: what follows                         *)

LEMMA NextInv == IndInv /\ [Next]_vars => IndInv'
<1> SUFFICES ASSUME IndInv, [Next]_vars
             PROVE  IndInv'
    OBVIOUS
<1>1. ASSUME NEW t \in TxIds, Advance(t)
      PROVE  IndInv'
    <2>1. CASE PrepareInputs(t)
        BY <2>1, PrepareInputsStep
    <2>2. CASE BuildTransaction(t)
        BY <2>2, BuildTransactionStep
    <2>3. CASE AssembleShield(t)
        BY <2>3, AssembleShieldStep
    <2>4. CASE Sign(t)
        BY <2>4, SignStep
    <2>5. CASE Dispatch(t)
        BY <2>5, DispatchStep
    <2>6. CASE Mine(t)
        BY <2>6, MineStep
    <2>7. CASE BaseLedgerRevert(t)
        <3>1. Retry(t) /\ tx[t].pc \in {"assembled", "submitted"} /\ UNCHANGED <<chainVars, node, mail>>
            BY <2>7 DEF BaseLedgerRevert
        <3> QED
            BY <3>1, RetryStep
    <2> QED
        BY <1>1, <2>1, <2>2, <2>3, <2>4, <2>5, <2>6, <2>7 DEF Advance
<1>2. ASSUME NEW m \in mail, ReceiveNotes(m)
      PROVE  IndInv'
    BY <1>2, ReceiveNotesStep
<1>3. ASSUME NEW p \in Parties, Deliver(p)
      PROVE  IndInv'
    BY <1>3, DeliverBatchStep DEF Deliver
<1>4. CASE ForeignShield
    BY <1>4, ForeignShieldStep
<1>5. CASE UNCHANGED vars
    <2>1. /\ UNCHANGED chainVars /\ UNCHANGED <<log, chainTree, published, roots, foreign>>
          /\ UNCHANGED node /\ UNCHANGED mail /\ UNCHANGED tx
        BY <1>5 DEF vars, chainVars
    <2>2. Types'
        BY <2>1 DEF IndInv, Types
    <2>3. Exclusive'
        BY <2>1 DEF IndInv, Exclusive
    <2> QED
        BY <2>1, <2>2, <2>3, LocalStep
<1> QED
    BY <1>1, <1>2, <1>3, <1>4, <1>5 DEF Next

LEMMA SpecInv == Spec => []IndInv
    BY InitInv, NextInv, PTL DEF Spec

(* The state of the nodes and of the transactions has its type.            *)
THEOREM TypeCorrect == Spec => []TypeOK
<1>1. ASSUME IndInv
      PROVE  TypeOK
    <2>1. ASSUME NEW p \in Parties
          PROVE  /\ node[p].cursor \in 0 .. Len(log)
                 /\ node[p].received \in Seq(Notes)
                 /\ node[p].completed \subseteq TxIds \cup {ForeignTag}
        <3>1. node[p] \in Nodes /\ NodeInv(p)
            BY <1>1 DEF IndInv, Types
        <3> QED
            BY <3>1 DEF Nodes, NodeInv
    <2>2. ASSUME NEW t \in TxIds
          PROVE  /\ tx[t].pc \in Pcs
                 /\ tx[t].attempt \in 0 .. MaxAttempts
                 /\ tx[t].inputs \in Seq(Notes) /\ tx[t].outputs \in Seq(Notes)
        BY <1>1 DEF IndInv, Types, Transactions
    <2>3. \A m \in mail : m.to \in Parties /\ m.notes \in Seq(Notes)
        BY <1>1 DEF IndInv, Types
    <2>4. foreign \in 0 .. MaxForeign
        BY <1>1 DEF IndInv, Types
    <2> QED
        BY <2>1, <2>2, <2>3, <2>4 DEF TypeOK
<1> QED
    BY <1>1, SpecInv, PTL

(* The tree loadTree rebuilds on a node is one the contract has had and    *)
(* still accepts, however far behind the events the node is, and whatever  *)
(* the batches they came in.                                               *)
THEOREM LoadedRootTheorem == Spec => []LoadedRootIsKnown
<1>1. IndInv => LoadedRootIsKnown
    BY LoadedTree DEF LoadedRootIsKnown
<1> QED
    BY <1>1, SpecInv, PTL

(* A nullifier is that of one note only: two notes of one owner under the  *)
(* contract's tree at one position are the same note.                      *)
LEMMA OneNoteAtAPosition ==
    ASSUME IndInv, NEW a \in Notes, NEW b \in Notes, Nullifier(a) = Nullifier(b),
           NEW r \in roots, IsMember(a, r), NEW s \in roots, IsMember(b, s)
    PROVE  a = b
<1>1. /\ chainTree \in Seq(Leaves) /\ Len(chainTree) \in Nat
      /\ \A x \in roots : \E k \in 0 .. Len(chainTree) : x = SubSeq(chainTree, 1, k)
    BY LenProperties DEF IndInv, Types, ChainInv
<1>2. a.leafIndex = b.leafIndex /\ a.leafIndex \in Nat
    BY DEF Nullifier, Notes
<1>3. ASSUME NEW x \in roots, NEW n \in Notes, n.leafIndex = a.leafIndex, IsMember(n, x)
      PROVE  Commitment(n) = chainTree[a.leafIndex + 1]
    <2>1. PICK k \in 0 .. Len(chainTree) : x = SubSeq(chainTree, 1, k)
        BY <1>1
    <2>2. k \in Nat /\ k <= Len(chainTree)
        BY <1>1
    <2>3. Len(x) = k /\ \A i \in 1 .. k : x[i] = chainTree[i]
        <3>1. \A i \in 1 .. k : chainTree[i] \in Leaves
            BY <1>1, <2>2, ElementOfSeq
        <3>2. /\ Len(SubSeq(chainTree, 1, k)) = (IF 1 <= k THEN k - 1 + 1 ELSE 0)
              /\ \A i \in 1 .. (k - 1 + 1) : SubSeq(chainTree, 1, k)[i] = chainTree[1 + i - 1]
            BY <2>2, <3>1, SubSeqProperties
        <3>3. \A i \in 1 .. k : 1 + i - 1 = i
            BY <2>2
        <3> QED
            BY <2>1, <2>2, <3>2, <3>3
    <2>4. a.leafIndex < Len(x) /\ x[a.leafIndex + 1] = Commitment(n)
        BY <1>3 DEF IsMember
    <2>5. a.leafIndex + 1 \in 1 .. k
        BY <1>2, <2>2, <2>3, <2>4
    <2> QED
        BY <2>3, <2>4, <2>5
<1>4. Commitment(a) = Commitment(b)
    BY <1>2, <1>3
<1> QED
    BY <1>2, <1>4, NotesAreValued

(* What is submitted is accepted by the contract, whatever other           *)
(* transactions and other wallets do meanwhile and however far behind the  *)
(* sender's node was: the root is one the contract knows, and no nullifier *)
(* has been published. A published one is that of an input of a mined      *)
(* transaction, which would then be the same note, and a node never        *)
(* selects a note for two transactions.                                    *)
THEOREM AcceptedTheorem == Spec => []SubmittedIsAccepted
<1>1. ASSUME IndInv, NEW t \in TxIds, tx[t].pc = "submitted"
      PROVE  Accepted(t)
    <2>1. /\ tx \in [TxIds -> Transactions] /\ TxInv(t) /\ Exclusive
          /\ \A n \in published : \E u \in TxIds : tx[u].pc = "mined" /\ n \in SpentBy(u)
        BY <1>1 DEF IndInv, Types, ChainInv
    <2>2. tx[t].root \in roots /\ \A i \in DOMAIN tx[t].inputs : IsMember(tx[t].inputs[i], tx[t].root)
        BY <1>1, <2>1 DEF TxInv
    <2>3. ASSUME NEW n \in SpentBy(t), n \in published
          PROVE  FALSE
        <3>1. PICK u \in TxIds : tx[u].pc = "mined" /\ n \in SpentBy(u)
            BY <2>1, <2>3
        <3>2. PICK i \in DOMAIN tx[t].inputs : n = Nullifier(tx[t].inputs[i])
            BY DEF SpentBy
        <3>3. PICK j \in DOMAIN tx[u].inputs : n = Nullifier(tx[u].inputs[j])
            BY <3>1 DEF SpentBy
        <3>4. /\ tx[u].root \in roots /\ IsMember(tx[u].inputs[j], tx[u].root)
              /\ IsMember(tx[t].inputs[i], tx[t].root)
            BY <1>1, <2>2, <3>1 DEF IndInv, TxInv
        <3>5. tx[t].inputs[i] \in Notes /\ tx[u].inputs[j] \in Notes
            BY <2>1, ElementOfSeq, LenProperties DEF Transactions
        <3>6. tx[t].inputs[i] = tx[u].inputs[j]
            BY <1>1, <2>2, <3>2, <3>3, <3>4, <3>5, OneNoteAtAPosition
        <3>7. t # u
            BY <1>1, <3>1
        <3> QED
            BY <2>1, <3>6, <3>7 DEF Exclusive
    <2> QED
        BY <2>2, <2>3 DEF Accepted
<1>2. IndInv => SubmittedIsAccepted
    BY <1>1 DEF SubmittedIsAccepted
<1> QED
    BY <1>2, SpecInv, PTL

-----------------------------------------------------------------------------
(* The discipline "settled": where the notes of a node are                 *)

LEMMA NotesOfNodes ==
    ASSUME Types
    PROVE  /\ \A p \in Parties : HeldBy(p) \subseteq Notes
           /\ \A m \in mail : \A i \in DOMAIN m.notes : m.notes[i] \in Notes
<1>1. ASSUME NEW p \in Parties, NEW note \in HeldBy(p)
      PROVE  note \in Notes
    <2>1. node[p].received \in Seq(Notes)
        BY DEF Types, Nodes
    <2>2. PICK i \in DOMAIN node[p].received : note = node[p].received[i]
        BY DEF HeldBy
    <2> QED
        BY <2>1, <2>2, ElementOfSeq, LenProperties
<1>2. ASSUME NEW m \in mail, NEW i \in DOMAIN m.notes
      PROVE  m.notes[i] \in Notes
    <2>1. m.notes \in Seq(Notes)
        BY DEF Types
    <2> QED
        BY <2>1, ElementOfSeq, LenProperties
<1> QED
    BY <1>1, <1>2

(* A note a node knows of, and whose commitment is in the contract's tree, *)
(* is where it says.                                                       *)
LEMMA OwnNoteIsThere ==
    ASSUME IndInv, SettledInv, NEW note \in Notes, Own(note), NEW i \in DOMAIN chainTree,
           chainTree[i] = Commitment(note)
    PROVE  note.leafIndex = i - 1
<1> DEFINE t == note.random[1]
<1>2. note.random \in Randoms /\ t \in TxIds /\ note.random[2] \in Nat
    BY DEF Notes, Randoms
<1>3. chainTree[i].random = note.random
    BY DEF Commitment
<1>4. /\ tx[t].pc = "mined"
      /\ \E k \in DOMAIN tx[t].outputs :
            chainTree[i] = Commitment(tx[t].outputs[k]) /\ tx[t].outputs[k].leafIndex = i - 1
    BY <1>2, <1>3 DEF SettledInv, OwnLeaves
<1>5. PICK k \in DOMAIN tx[t].outputs :
            chainTree[i] = Commitment(tx[t].outputs[k]) /\ tx[t].outputs[k].leafIndex = i - 1
    BY <1>4
<1>6. \A j \in DOMAIN tx[t].outputs : tx[t].outputs[j].random = <<t, tx[t].attempt, j>>
    BY <1>2, <1>4 DEF SettledInv, Predicted, Random
<1>7. note.random = <<t, tx[t].attempt, k>>
    BY <1>3, <1>5, <1>6 DEF Commitment
<1>8. note.random[2] = tx[t].attempt => \E j \in DOMAIN tx[t].outputs : note = tx[t].outputs[j]
    BY <1>4 DEF Own
<1>9. PICK j \in DOMAIN tx[t].outputs : note = tx[t].outputs[j]
    BY <1>7, <1>8
<1>10. j = k
    BY <1>6, <1>7, <1>9
<1> QED
    BY <1>5, <1>9, <1>10

(* The same for what a node takes for confirmed.                           *)
LEMMA ConfirmedNoteIsThere ==
    ASSUME IndInv, SettledInv, NEW p \in Parties, NEW note \in HeldBy(p),
           \E c \in node[p].confirmed : c.id = Commitment(note)
    PROVE  IsMember(note, chainTree)
<1>1. /\ chainTree \in Seq(Leaves) /\ DOMAIN chainTree = 1 .. Len(chainTree) /\ Len(chainTree) \in Nat
      /\ NodeInv(p) /\ RootAt(node[p].cursor) /\ Types
    BY LenProperties DEF IndInv, Types, ChainInv, NodeInv
<1>2. PICK leaf \in LeavesUpTo(log, node[p].cursor) : leaf[2] = Commitment(note)
    BY <1>1 DEF NodeInv
<1>3. PICK k \in 0 .. Len(chainTree) : LeavesUpTo(log, node[p].cursor) = FirstLeaves(chainTree, k)
    BY <1>1 DEF RootAt
<1>4. PICK i \in 1 .. k : leaf = <<i - 1, chainTree[i]>>
    BY <1>2, <1>3 DEF FirstLeaves
<1>5. i \in DOMAIN chainTree /\ i \in Nat /\ i <= Len(chainTree) /\ chainTree[i] = Commitment(note)
    BY <1>1, <1>2, <1>4
<1>6. note \in Notes /\ Own(note)
    BY <1>1, NotesOfNodes DEF SettledInv, OwnNotes
<1>7. note.leafIndex = i - 1
    BY <1>5, <1>6, OwnNoteIsThere
<1> QED
    BY <1>5, <1>7 DEF IsMember

-----------------------------------------------------------------------------
(* The discipline "settled": its invariant                                 *)

(* A step of one transaction on its own node.                              *)
LEMMA OwnStep ==
    ASSUME IndInv, SettledInv, UNCHANGED chainVars, UNCHANGED <<node, mail>>, NEW t \in TxIds,
           \A u \in TxIds : u # t => tx'[u] = tx[u],
           tx[t].pc # "mined",
           \/ tx'[t].attempt = tx[t].attempt + 1
           \/ tx'[t].attempt = tx[t].attempt
                /\ (tx'[t].pc = "idle" \/ tx[t].pc \in {"selected", "assembled"}),
           InFlight(t)' => \A u \in TxIds : u # t => ~InFlight(u),
           Alone(t)', Predicted(t)', Balanced(t)'
    PROVE  SettledInv'
<1>1. /\ log' = log /\ chainTree' = chainTree /\ node' = node /\ mail' = mail
    BY DEF chainVars
<1>2. ASSUME NEW u \in TxIds
      PROVE  Alone(u)' /\ Predicted(u)' /\ Balanced(u)'
    <2>1. CASE u # t
        <3>1. tx'[u] = tx[u] /\ Alone(u) /\ Predicted(u) /\ Balanced(u)
            BY <2>1 DEF SettledInv
        <3>2. Predicted(u)' /\ Balanced(u)'
            BY <1>1, <3>1 DEF Predicted, Balanced, Random, IsMember
        <3>3. Alone(u)'
            <4> SUFFICES ASSUME InFlight(u)'
                         PROVE  /\ \A v \in TxIds : InFlight(v)' => v = u
                                /\ node'[Sender(u)].cursor = Len(log')
                                /\ tx'[u].pc # "selected" => tx'[u].root = chainTree'
                                /\ \A i \in DOMAIN tx'[u].inputs : IsMember(tx'[u].inputs[i], chainTree')
                BY DEF Alone, IsMember
            <4>1. InFlight(u)
                BY <3>1 DEF InFlight
            <4>2. \A v \in TxIds : InFlight(v)' => v = u
                BY <2>1, <3>1, <4>1 DEF Alone, InFlight
            <4> QED
                BY <1>1, <3>1, <4>1, <4>2 DEF Alone
        <3> QED
            BY <3>2, <3>3
    <2> QED
        BY <2>1
<1>3. OwnLeaves'
    <2> SUFFICES ASSUME NEW i \in DOMAIN chainTree, chainTree[i].random \in Randoms
                 PROVE  LET u == chainTree[i].random[1]
                        IN  /\ tx'[u].pc = "mined"
                            /\ \E k \in DOMAIN tx'[u].outputs :
                                    /\ chainTree[i] = Commitment(tx'[u].outputs[k])
                                    /\ tx'[u].outputs[k].leafIndex = i - 1
        BY <1>1 DEF OwnLeaves, Commitment
    <2>1. chainTree[i].random[1] \in TxIds
        BY DEF Randoms
    <2>2. tx[chainTree[i].random[1]].pc = "mined"
        BY DEF SettledInv, OwnLeaves
    <2>3. tx'[chainTree[i].random[1]] = tx[chainTree[i].random[1]]
        BY <2>1, <2>2
    <2> QED
        BY <2>3 DEF SettledInv, OwnLeaves
<1>4. OwnNotes'
    <2> SUFFICES ASSUME NEW note \in Notes, Own(note)
                 PROVE  Own(note)'
        <3>1. Types /\ OwnNotes
            BY DEF IndInv, SettledInv
        <3>2. \A p \in Parties : HeldBy(p)' = HeldBy(p)
            BY <1>1 DEF HeldBy
        <3> QED
            BY <1>1, <3>1, <3>2, NotesOfNodes DEF OwnNotes
    <2>2. note.random[1] \in TxIds /\ note.random[2] \in Nat
        BY DEF Notes
    <2>3. CASE note.random[1] # t
        <3>1. tx'[note.random[1]] = tx[note.random[1]]
            BY <2>2, <2>3
        <3> QED
            BY <3>1 DEF Own
    <2>4. CASE note.random[1] = t
        <3>1. tx[t].attempt \in Nat
            BY PrivateTransactionsAssumption DEF IndInv, Types, Transactions
        <3>2. /\ note.random[2] <= tx[t].attempt
              /\ note.random[2] = tx[t].attempt =>
                    tx[t].pc = "idle" \/ tx[t].pc \in {"submitted", "mined"}
            BY <2>4 DEF Own
        <3> QED
            BY <2>2, <2>4, <3>1, <3>2 DEF Own
    <2> QED
        BY <2>3, <2>4
<1> QED
    BY <1>2, <1>3, <1>4 DEF SettledInv

LEMMA PrepareInputsSettled ==
    ASSUME Discipline = "settled", IndInv, SettledInv, NEW t \in TxIds, PrepareInputs(t)
    PROVE  SettledInv'
<1>1. Types /\ UNCHANGED chainVars /\ UNCHANGED <<node, mail>> /\ Sender(t) \in Parties
    BY RequestFacts DEF IndInv, PrepareInputs
<1>2. /\ tx'[t].pc \in {"selected", "reverted"} /\ tx'[t].attempt = tx[t].attempt + 1
      /\ \A i \in DOMAIN tx'[t].inputs :
            i \in DOMAIN Available(Sender(t)) /\ tx'[t].inputs[i] = Available(Sender(t))[i]
      /\ \A u \in TxIds : u # t => tx'[u] = tx[u]
    BY <1>1, SelectedFacts
<1>3. /\ tx[t].pc = "idle" /\ \A u \in TxIds : ~InFlight(u)
      /\ node[Sender(t)].cursor = Len(log)
    BY DEF PrepareInputs, Idle, MayAssemble
<1>4. \A i \in DOMAIN tx'[t].inputs : IsMember(tx'[t].inputs[i], chainTree)
    BY <1>1, <1>2, AvailableFacts, ConfirmedNoteIsThere
<1>5. Alone(t)'
    <2>1. \A v \in TxIds : InFlight(v)' => v = t
        BY <1>2, <1>3 DEF InFlight
    <2>2. node'[Sender(t)].cursor = Len(log') /\ chainTree' = chainTree
        BY <1>1, <1>3 DEF chainVars
    <2>3. InFlight(t)' => tx'[t].pc = "selected"
        BY <1>2 DEF InFlight
    <2> QED
        BY <1>4, <2>1, <2>2, <2>3 DEF Alone
<1>6. Predicted(t)' /\ Balanced(t)'
    BY <1>2 DEF Predicted, Balanced
<1> QED
    BY <1>1, <1>2, <1>3, <1>5, <1>6, OwnStep

LEMMA BuildTransactionSettled ==
    ASSUME IndInv, SettledInv, NEW t \in TxIds, BuildTransaction(t)
    PROVE  SettledInv'
<1>1. UNCHANGED chainVars /\ UNCHANGED <<node, mail>> /\ Sender(t) \in Parties
    BY RequestFacts DEF BuildTransaction
<1>2. /\ tx[t].pc = "selected" /\ tx'[t].pc = "assembled"
      /\ tx'[t].attempt = tx[t].attempt /\ tx'[t].inputs = tx[t].inputs
      /\ tx'[t].root = LoadTree(node[Sender(t)].treeLeaves)
      /\ \A k \in DOMAIN tx'[t].outputs :
            /\ tx'[t].outputs[k].random = Random(t, k)
            /\ tx'[t].outputs[k].leafIndex = Len(LoadTree(node[Sender(t)].treeLeaves)) + k - 1
      /\ TotalValue(tx'[t].inputs) = TotalValue(tx'[t].outputs)
            + (IF Request[t].type = "unshield" THEN AmountOf(t) ELSE 0)
      /\ \A u \in TxIds : u # t => tx'[u] = tx[u]
    BY BuiltFacts
<1>3. /\ \A u \in TxIds : InFlight(u) => u = t
      /\ node[Sender(t)].cursor = Len(log)
      /\ \A i \in DOMAIN tx[t].inputs : IsMember(tx[t].inputs[i], chainTree)
    BY <1>2 DEF SettledInv, Alone, InFlight
<1>4. LoadTree(node[Sender(t)].treeLeaves) = chainTree
    BY <1>1, <1>3, LoadedTree
<1>5. chainTree' = chainTree /\ log' = log /\ node' = node
    BY <1>1 DEF chainVars
<1>6. Alone(t)'
    <2>1. \A v \in TxIds : InFlight(v)' => v = t
        BY <1>2, <1>3 DEF InFlight
    <2> QED
        BY <1>2, <1>3, <1>4, <1>5, <2>1 DEF Alone
<1>7. Predicted(t)'
    BY <1>2, <1>4, <1>5 DEF Predicted, Random
<1>8. Balanced(t)'
    BY <1>2 DEF Balanced
<1> QED
    BY <1>1, <1>2, <1>3, <1>6, <1>7, <1>8, OwnStep

LEMMA AssembleShieldSettled ==
    ASSUME Discipline = "settled", IndInv, SettledInv, NEW t \in TxIds, AssembleShield(t)
    PROVE  SettledInv'
<1>1. /\ UNCHANGED chainVars /\ UNCHANGED <<node, mail>> /\ Sender(t) \in Parties
      /\ Request[t].type = "shield" /\ TxInv(t)
    BY RequestFacts DEF AssembleShield, IndInv
<1>2. /\ tx[t].pc = "idle" /\ tx'[t].pc = "signed"
      /\ tx'[t].attempt = tx[t].attempt + 1 /\ tx'[t].inputs = tx[t].inputs
      /\ tx'[t].root = LoadTree(node[Sender(t)].treeLeaves)
      /\ DOMAIN tx'[t].outputs = {1}
      /\ tx'[t].outputs[1].random = <<t, tx'[t].attempt, 1>>
      /\ tx'[t].outputs[1].leafIndex = Len(LoadTree(node[Sender(t)].treeLeaves))
      /\ \A u \in TxIds : u # t => tx'[u] = tx[u]
    BY ShieldFacts
<1>3. (\A u \in TxIds : ~InFlight(u)) /\ node[Sender(t)].cursor = Len(log)
    BY DEF AssembleShield, MayAssemble
<1>4. LoadTree(node[Sender(t)].treeLeaves) = chainTree
    BY <1>1, <1>3, LoadedTree
<1>5. chainTree' = chainTree /\ log' = log /\ node' = node /\ Len(chainTree) \in Nat
    BY <1>1, LenProperties DEF chainVars, IndInv, Types
<1>6. DOMAIN tx'[t].inputs = {}
    <2>1. tx[t].inputs = <<>>
        BY <1>1 DEF TxInv
    <2> QED
        BY <1>2, <2>1
<1>7. Alone(t)'
    <2>1. \A v \in TxIds : InFlight(v)' => v = t
        BY <1>2, <1>3 DEF InFlight
    <2> QED
        BY <1>2, <1>3, <1>4, <1>5, <1>6, <2>1 DEF Alone
<1>8. Predicted(t)'
    <2>1. \A k \in DOMAIN tx'[t].outputs : k = 1 /\ Len(chainTree) + k - 1 = Len(chainTree)
        BY <1>2, <1>5
    <2> QED
        BY <1>2, <1>4, <1>5, <2>1 DEF Predicted, Random
<1>9. Balanced(t)'
    BY <1>2 DEF Balanced
<1> QED
    BY <1>1, <1>2, <1>3, <1>7, <1>8, <1>9, OwnStep

LEMMA RetrySettled ==
    ASSUME IndInv, SettledInv, NEW t \in TxIds, Retry(t), tx[t].pc \in {"assembled", "submitted"},
           UNCHANGED <<chainVars, node, mail>>
    PROVE  SettledInv'
<1>1. /\ tx'[t].pc = "idle" /\ tx'[t].attempt = tx[t].attempt
      /\ \A u \in TxIds : u # t => tx'[u] = tx[u]
    BY RetryFacts DEF IndInv
<1>2. ~InFlight(t)'
    BY <1>1 DEF InFlight
<1>3. Alone(t)' /\ Predicted(t)' /\ Balanced(t)'
    BY <1>1, <1>2 DEF Alone, Predicted, Balanced
<1> QED
    BY <1>1, <1>2, <1>3, OwnStep

LEMMA SignSettled ==
    ASSUME IndInv, SettledInv, NEW t \in TxIds, Sign(t)
    PROVE  SettledInv'
<1>1. Types /\ tx[t].pc = "assembled" /\ UNCHANGED <<chainVars, node, mail>>
    BY DEF IndInv, Sign
<1>2. CASE Retry(t)
    BY <1>1, <1>2, RetrySettled
<1>3. CASE tx' = [tx EXCEPT ![t].pc = "signed"]
    <2>1. "signed" \in Pcs
        BY DEF Pcs
    <2>2. /\ tx'[t].pc = "signed" /\ tx'[t].attempt = tx[t].attempt
          /\ tx'[t].inputs = tx[t].inputs /\ tx'[t].outputs = tx[t].outputs
          /\ tx'[t].root = tx[t].root
          /\ \A u \in TxIds : u # t => tx'[u] = tx[u]
        BY <1>1, <1>3, <2>1, NewPc
    <2>3. chainTree' = chainTree /\ log' = log /\ node' = node
        BY <1>1 DEF chainVars
    <2>4. /\ \A u \in TxIds : InFlight(u) => u = t
          /\ node[Sender(t)].cursor = Len(log) /\ tx[t].root = chainTree
          /\ \A i \in DOMAIN tx[t].inputs : IsMember(tx[t].inputs[i], chainTree)
        BY <1>1 DEF SettledInv, Alone, InFlight
    <2>5. Alone(t)'
        <3>1. \A v \in TxIds : InFlight(v)' => v = t
            BY <2>2, <2>4 DEF InFlight
        <3> QED
            BY <2>2, <2>3, <2>4, <3>1 DEF Alone
    <2>6. Predicted(t)'
        <3>1. Predicted(t)
            BY DEF SettledInv
        <3> QED
            BY <1>1, <2>2, <2>3, <3>1 DEF Predicted, Random
    <2>7. Balanced(t)'
        BY <2>2 DEF Balanced
    <2> QED
        BY <1>1, <2>2, <2>4, <2>5, <2>6, <2>7, OwnStep
<1> QED
    BY <1>2, <1>3 DEF Sign

(* The notes of a transaction that is submitted are its outputs.           *)
LEMMA DispatchSettled ==
    ASSUME IndInv, SettledInv, NEW t \in TxIds, Dispatch(t)
    PROVE  SettledInv'
<1>1. /\ Types /\ tx[t].pc = "signed" /\ UNCHANGED chainVars
      /\ tx' = [tx EXCEPT ![t].pc = "submitted"]
      /\ Store(Sender(t), OutputsFor(t, Sender(t)))
      /\ mail' = mail \cup {[to |-> p, notes |-> OutputsFor(t, p)] :
                            p \in {q \in Parties \ {Sender(t)} : OutputsFor(t, q) # <<>>}}
      /\ Sender(t) \in Parties
      /\ log' = log /\ chainTree' = chainTree
    BY RequestFacts DEF Dispatch, IndInv, chainVars
<1>2. "submitted" \in Pcs
    BY DEF Pcs
<1>3. /\ tx'[t].pc = "submitted" /\ tx'[t].attempt = tx[t].attempt
      /\ tx'[t].inputs = tx[t].inputs /\ tx'[t].outputs = tx[t].outputs
      /\ tx'[t].root = tx[t].root
      /\ \A u \in TxIds : u # t => tx'[u] = tx[u]
    BY <1>1, <1>2, NewPc
<1>4. tx[t].outputs \in Seq(Notes)
    BY <1>1 DEF Types, Transactions
<1>5. \A p : OutputsFor(t, p) \in Seq(Notes)
             /\ \A i \in DOMAIN OutputsFor(t, p) :
                    \E k \in DOMAIN tx[t].outputs : OutputsFor(t, p)[i] = tx[t].outputs[k]
    BY <1>4, OutputsForFacts
<1>6. /\ \A q \in Parties : node'[q].cursor = node[q].cursor
      /\ node'[Sender(t)].received = node[Sender(t)].received \o OutputsFor(t, Sender(t))
      /\ \A q \in Parties : q # Sender(t) => node'[q] = node[q]
    BY <1>1, <1>5, StoreFacts
<1> DEFINE Output(note) == \E k \in DOMAIN tx[t].outputs : note = tx[t].outputs[k]
<1>7. /\ \A p \in Parties : \A note \in HeldBy(p)' : note \in HeldBy(p) \/ Output(note)
      /\ \A m \in mail' : m \in mail \/ \A i \in DOMAIN m.notes : Output(m.notes[i])
    <2>1. ASSUME NEW p \in Parties, NEW note \in HeldBy(p)'
          PROVE  note \in HeldBy(p) \/ Output(note)
        <3>1. PICK i \in DOMAIN node'[p].received : note = node'[p].received[i]
            BY DEF HeldBy
        <3>2. CASE p # Sender(t)
            BY <1>6, <3>1, <3>2 DEF HeldBy
        <3>3. CASE p = Sender(t)
            <4> DEFINE old == node[p].received
                       new == OutputsFor(t, p)
            <4>1. old \in Seq(Notes) /\ new \in Seq(Notes) /\ node'[p].received = old \o new
                BY <1>1, <1>5, <1>6, <3>3 DEF Types, Nodes
            <4> HIDE DEF old, new
            <4>2. /\ Len(old) \in Nat /\ Len(new) \in Nat
                  /\ DOMAIN old = 1 .. Len(old) /\ DOMAIN new = 1 .. Len(new)
                  /\ DOMAIN (old \o new) = 1 .. Len(old) + Len(new)
                  /\ \A j \in 1 .. Len(old) + Len(new) :
                        (old \o new)[j] = IF j <= Len(old) THEN old[j] ELSE new[j - Len(old)]
                BY <4>1, LenProperties, ConcatProperties
            <4>3. CASE i <= Len(old)
                <5>1. i \in DOMAIN old /\ note = old[i]
                    BY <3>1, <4>1, <4>2, <4>3
                <5> QED
                    BY <5>1 DEF HeldBy, old
            <4>4. CASE ~(i <= Len(old))
                <5>1. i - Len(old) \in DOMAIN new /\ note = new[i - Len(old)]
                    BY <3>1, <4>1, <4>2, <4>4
                <5> QED
                    BY <1>5, <5>1 DEF new
            <4> QED
                BY <4>3, <4>4
        <3> QED
            BY <3>2, <3>3
    <2>2. ASSUME NEW m \in mail', m \notin mail, NEW i \in DOMAIN m.notes
          PROVE  Output(m.notes[i])
        <3>1. PICK p \in Parties : m = [to |-> p, notes |-> OutputsFor(t, p)]
            BY <1>1, <2>2
        <3>2. m.notes = OutputsFor(t, p)
            BY <3>1
        <3> QED
            BY <1>5, <3>2
    <2> QED
        BY <2>1, <2>2
<1>8. ASSUME NEW u \in TxIds
      PROVE  Alone(u)' /\ Predicted(u)' /\ Balanced(u)'
    <2>1. Alone(u) /\ Predicted(u) /\ Balanced(u) /\ Alone(t)
        BY DEF SettledInv
    <2>2. /\ tx'[u].attempt = tx[u].attempt /\ tx'[u].inputs = tx[u].inputs
          /\ tx'[u].outputs = tx[u].outputs /\ tx'[u].root = tx[u].root
          /\ tx'[u].pc = tx[u].pc \/ (tx[u].pc = "signed" /\ tx'[u].pc = "submitted")
        BY <1>1, <1>3
    <2>3. Balanced(u)'
        BY <2>1, <2>2 DEF Balanced
    <2>4. Predicted(u)'
        BY <1>1, <2>1, <2>2 DEF Predicted, Random, IsMember
    <2>5. \A v \in TxIds : InFlight(v)' <=> InFlight(v)
        BY <1>1, <1>3 DEF InFlight
    <2>6. Sender(u) \in Parties
        BY RequestFacts
    <2>7. Alone(u)'
        BY <1>1, <1>6, <2>1, <2>2, <2>5, <2>6 DEF Alone, IsMember
    <2> QED
        BY <2>3, <2>4, <2>7
<1>9. \A u \in TxIds : tx[u].pc = "mined" => tx'[u] = tx[u]
    BY <1>1, <1>3
<1>10. OwnLeaves'
    <2> SUFFICES ASSUME NEW i \in DOMAIN chainTree, chainTree[i].random \in Randoms
                 PROVE  LET u == chainTree[i].random[1]
                        IN  /\ tx'[u].pc = "mined"
                            /\ \E k \in DOMAIN tx'[u].outputs :
                                    /\ chainTree[i] = Commitment(tx'[u].outputs[k])
                                    /\ tx'[u].outputs[k].leafIndex = i - 1
        BY <1>1 DEF OwnLeaves, Commitment
    <2>1. chainTree[i].random[1] \in TxIds
        BY DEF Randoms
    <2>2. tx[chainTree[i].random[1]].pc = "mined"
        BY DEF SettledInv, OwnLeaves
    <2>3. tx'[chainTree[i].random[1]] = tx[chainTree[i].random[1]]
        BY <1>9, <2>1, <2>2
    <2> QED
        BY <2>3 DEF SettledInv, OwnLeaves
<1>11. \A note : Output(note) => Own(note)'
    <2> SUFFICES ASSUME NEW k \in DOMAIN tx[t].outputs
                 PROVE  Own(tx[t].outputs[k])'
        BY <1>3 DEF Own
    <2>1. tx[t].outputs[k].random = <<t, tx[t].attempt, k>>
        BY <1>1 DEF SettledInv, Predicted, Random
    <2>2. /\ tx[t].outputs[k].random[1] = t /\ tx[t].outputs[k].random[2] = tx[t].attempt
          /\ tx[t].attempt \in Nat
        BY <1>1, <2>1, PrivateTransactionsAssumption DEF Types, Transactions
    <2> QED
        BY <1>3, <2>2 DEF Own
<1>12. ASSUME NEW note \in Notes, Own(note)
       PROVE  Own(note)'
    <2>1. note.random[1] \in TxIds
        BY DEF Notes
    <2>2. CASE note.random[1] # t
        <3>1. tx'[note.random[1]] = tx[note.random[1]]
            BY <1>3, <2>1, <2>2
        <3> QED
            BY <1>12, <3>1 DEF Own
    <2>3. CASE note.random[1] = t
        BY <1>1, <1>3, <1>12, <2>3 DEF Own
    <2> QED
        BY <2>2, <2>3
<1>13. OwnNotes'
    <2>1. OwnNotes
        BY DEF SettledInv
    <2> HIDE DEF Output
    <2>2. \A p \in Parties : \A note \in HeldBy(p)' : Own(note)'
        BY <1>1, <1>7, <1>11, <1>12, <2>1, NotesOfNodes DEF OwnNotes
    <2>3. \A m \in mail' : \A i \in DOMAIN m.notes : Own(m.notes[i])'
        BY <1>1, <1>7, <1>11, <1>12, <2>1, NotesOfNodes DEF OwnNotes
    <2> QED
        BY <2>2, <2>3 DEF OwnNotes
<1> QED
    BY <1>8, <1>10, <1>13 DEF SettledInv

(* Nothing is known that was not on its way.                               *)
LEMMA TransactionsKept ==
    ASSUME SettledInv, UNCHANGED chainVars, UNCHANGED tx, OwnNotes',
           \A u \in TxIds : InFlight(u) => node'[Sender(u)].cursor = node[Sender(u)].cursor
    PROVE  SettledInv'
<1>1. tx' = tx /\ log' = log /\ chainTree' = chainTree
    BY DEF chainVars
<1>2. ASSUME NEW u \in TxIds
      PROVE  Alone(u)' /\ Predicted(u)' /\ Balanced(u)'
    <2>1. Alone(u) /\ Predicted(u) /\ Balanced(u)
        BY DEF SettledInv
    <2>2. Predicted(u)' /\ Balanced(u)'
        BY <1>1, <2>1 DEF Predicted, Balanced, Random, IsMember
    <2>3. Alone(u)'
        BY <1>1, <2>1 DEF Alone, InFlight, IsMember
    <2> QED
        BY <2>2, <2>3
<1>3. OwnLeaves'
    BY <1>1 DEF SettledInv, OwnLeaves, Commitment
<1> QED
    BY <1>2, <1>3 DEF SettledInv

LEMMA ReceiveNotesSettled ==
    ASSUME IndInv, SettledInv, NEW m \in mail, ReceiveNotes(m)
    PROVE  SettledInv'
<1>1. /\ Types /\ mail' = mail \ {m} /\ Store(m.to, m.notes)
      /\ UNCHANGED chainVars /\ UNCHANGED tx
      /\ m.to \in Parties /\ m.notes \in Seq(Notes)
    BY DEF IndInv, Types, ReceiveNotes
<1>2. /\ \A q \in Parties : node'[q].cursor = node[q].cursor
      /\ node'[m.to].received = node[m.to].received \o m.notes
      /\ \A q \in Parties : q # m.to => node'[q] = node[q]
    BY <1>1, StoreFacts
<1>3. \A note : Own(note)' = Own(note)
    BY <1>1 DEF Own
<1>4. ASSUME NEW p \in Parties, NEW note \in HeldBy(p)'
      PROVE  Own(note)
    <2>1. OwnNotes
        BY DEF SettledInv
    <2>2. PICK i \in DOMAIN node'[p].received : note = node'[p].received[i]
        BY DEF HeldBy
    <2>3. CASE p # m.to
        BY <1>2, <2>1, <2>2, <2>3 DEF OwnNotes, HeldBy
    <2>4. CASE p = m.to
        <3> DEFINE old == node[p].received
        <3>1. old \in Seq(Notes) /\ node'[p].received = old \o m.notes
            BY <1>1, <1>2, <2>4 DEF Types, Nodes
        <3>2. \A j \in DOMAIN old : Own(old[j])
            BY <2>1 DEF OwnNotes, HeldBy
        <3>3. \A j \in DOMAIN m.notes : Own(m.notes[j])
            BY <2>1 DEF OwnNotes
        <3> HIDE DEF old
        <3>4. /\ Len(old) \in Nat /\ Len(m.notes) \in Nat
              /\ DOMAIN old = 1 .. Len(old) /\ DOMAIN m.notes = 1 .. Len(m.notes)
              /\ DOMAIN (old \o m.notes) = 1 .. Len(old) + Len(m.notes)
              /\ \A j \in 1 .. Len(old) + Len(m.notes) :
                    (old \o m.notes)[j] = IF j <= Len(old) THEN old[j] ELSE m.notes[j - Len(old)]
            BY <1>1, <3>1, LenProperties, ConcatProperties
        <3>5. CASE i <= Len(old)
            <4>1. i \in DOMAIN old /\ note = old[i]
                BY <2>2, <3>1, <3>4, <3>5
            <4> QED
                BY <3>2, <4>1
        <3>6. CASE ~(i <= Len(old))
            <4>1. i - Len(old) \in DOMAIN m.notes /\ note = m.notes[i - Len(old)]
                BY <2>2, <3>1, <3>4, <3>6
            <4> QED
                BY <3>3, <4>1
        <3> QED
            BY <3>5, <3>6
    <2> QED
        BY <2>3, <2>4
<1>5. OwnNotes'
    <2>1. \A x \in mail' : \A i \in DOMAIN x.notes : Own(x.notes[i])
        BY <1>1 DEF SettledInv, OwnNotes
    <2> QED
        BY <1>3, <1>4, <2>1 DEF OwnNotes
<1>6. \A u \in TxIds : Sender(u) \in Parties
    BY RequestFacts
<1> QED
    BY <1>1, <1>2, <1>5, <1>6, TransactionsKept

LEMMA DeliverBatchSettled ==
    ASSUME IndInv, SettledInv, NEW p \in Parties, NEW n \in 1 .. MaxBatch, DeliverBatch(p, n)
    PROVE  SettledInv'
<1>1. /\ Types /\ UNCHANGED chainVars /\ UNCHANGED mail /\ UNCHANGED tx
      /\ \A q \in Parties : q # p => node'[q] = node[q]
    BY DEF IndInv, Types, DeliverBatch
<1>2. /\ n \in Nat /\ n >= 1 /\ node[p].cursor \in Nat /\ node[p].cursor + n <= Len(log)
      /\ node'[p].received = node[p].received
    BY DeliveredFacts
<1>3. \A q \in Parties : HeldBy(q)' = HeldBy(q)
    BY <1>1, <1>2 DEF HeldBy
<1>4. OwnNotes'
    <2>1. \A note : Own(note)' = Own(note)
        BY <1>1 DEF Own
    <2> QED
        BY <1>1, <1>3, <2>1 DEF SettledInv, OwnNotes
<1>5. ASSUME NEW u \in TxIds, InFlight(u)
      PROVE  node'[Sender(u)].cursor = node[Sender(u)].cursor
    <2>1. node[Sender(u)].cursor = Len(log) /\ Sender(u) \in Parties /\ Len(log) \in Nat
        BY <1>1, <1>5, RequestFacts, LenProperties DEF SettledInv, Alone, Types
    <2>2. Sender(u) # p
        BY <1>2, <2>1
    <2> QED
        BY <1>1, <2>1, <2>2
<1> QED
    BY <1>1, <1>4, <1>5, TransactionsKept

(* The contract inserts leaves when no transaction is in flight, or only   *)
(* the one that is mined by it.                                            *)
LEMMA InsertStep ==
    ASSUME IndInv, SettledInv, NEW L \in Seq(Leaves), chainTree' = chainTree \o L,
           UNCHANGED <<node, mail>>,
           \A u \in TxIds :
                /\ ~InFlight(u)'
                /\ tx'[u].attempt = tx[u].attempt /\ tx'[u].outputs = tx[u].outputs
                /\ \/ tx'[u].pc = tx[u].pc
                   \/ /\ tx[u].pc = "submitted" /\ tx'[u].pc = "mined"
                      /\ \A k \in DOMAIN tx[u].outputs : IsMember(tx[u].outputs[k], chainTree'),
           \A j \in 1 .. Len(L) : L[j].random \in Randoms =>
                LET u == L[j].random[1]
                IN  /\ tx'[u].pc = "mined"
                    /\ \E k \in DOMAIN tx[u].outputs :
                            /\ L[j] = Commitment(tx[u].outputs[k])
                            /\ tx[u].outputs[k].leafIndex = Len(chainTree) + j - 1
    PROVE  SettledInv'
<1>1. /\ Types /\ chainTree \in Seq(Leaves) /\ Len(chainTree) \in Nat /\ Len(L) \in Nat
      /\ DOMAIN chainTree = 1 .. Len(chainTree)
      /\ Len(chainTree') = Len(chainTree) + Len(L)
      /\ DOMAIN chainTree' = 1 .. Len(chainTree) + Len(L)
      /\ \A i \in 1 .. Len(chainTree) + Len(L) :
            chainTree'[i] = IF i <= Len(chainTree) THEN chainTree[i] ELSE L[i - Len(chainTree)]
    BY LenProperties, ConcatProperties DEF IndInv, Types
<1>2. ASSUME NEW u \in TxIds
      PROVE  Alone(u)' /\ Predicted(u)' /\ Balanced(u)'
    <2>1. ~InFlight(u)' /\ Predicted(u)
        BY DEF SettledInv
    <2>2. Alone(u)' /\ Balanced(u)'
        BY <2>1 DEF Alone, Balanced, InFlight
    <2>3. CASE tx'[u].pc # "mined"
        <3>1. tx'[u].pc \notin {"assembled", "signed", "submitted", "mined"}
            BY <2>1, <2>3 DEF InFlight
        <3> QED
            BY <2>2, <3>1 DEF Predicted
    <2>4. CASE tx'[u].pc = "mined"
        <3>1. tx[u].pc \in {"submitted", "mined"}
            BY <2>4
        <3>2. \A k \in DOMAIN tx'[u].outputs : tx'[u].outputs[k].random = <<u, tx'[u].attempt, k>>
            BY <2>1, <3>1 DEF Predicted, Random
        <3>3. ASSUME NEW k \in DOMAIN tx[u].outputs
              PROVE  IsMember(tx[u].outputs[k], chainTree')
            <4>1. CASE tx[u].pc = "mined"
                <5>1. IsMember(tx[u].outputs[k], chainTree)
                    BY <2>1, <4>1 DEF Predicted
                <5>2. tx[u].outputs[k].leafIndex \in Nat
                    <6>1. tx[u].outputs \in Seq(Notes)
                        BY <1>1 DEF Types, Transactions
                    <6>2. tx[u].outputs[k] \in Notes
                        BY <6>1, ElementOfSeq, LenProperties
                    <6> QED
                        BY <6>2 DEF Notes
                <5>3. /\ tx[u].outputs[k].leafIndex < Len(chainTree)
                      /\ tx[u].outputs[k].leafIndex + 1 \in 1 .. Len(chainTree) + Len(L)
                    BY <1>1, <5>1, <5>2 DEF IsMember
                <5> QED
                    BY <1>1, <5>1, <5>2, <5>3 DEF IsMember
            <4>2. CASE tx[u].pc # "mined"
                BY <2>4, <4>2
            <4> QED
                BY <4>1, <4>2
        <3>4. \A k \in DOMAIN tx'[u].outputs : IsMember(tx'[u].outputs[k], chainTree')
            BY <3>3
        <3>5. tx'[u].pc \notin {"assembled", "signed", "submitted"}
            BY <2>4
        <3>6. Predicted(u)'
            BY <3>2, <3>4, <3>5 DEF Predicted, IsMember, Random
        <3> QED
            BY <2>2, <3>6
    <2> QED
        BY <2>2, <2>3, <2>4
<1>3. OwnLeaves'
    <2> SUFFICES ASSUME NEW i \in DOMAIN chainTree', chainTree'[i].random \in Randoms
                 PROVE  LET u == chainTree'[i].random[1]
                        IN  /\ tx'[u].pc = "mined"
                            /\ \E k \in DOMAIN tx'[u].outputs :
                                    /\ chainTree'[i] = Commitment(tx'[u].outputs[k])
                                    /\ tx'[u].outputs[k].leafIndex = i - 1
        BY DEF OwnLeaves, Commitment
    <2>1. chainTree'[i].random[1] \in TxIds
        BY DEF Randoms
    <2>2. CASE i <= Len(chainTree)
        <3>1. i \in DOMAIN chainTree /\ chainTree'[i] = chainTree[i]
            BY <1>1, <2>2
        <3>2. tx[chainTree[i].random[1]].pc = "mined"
            BY <3>1 DEF SettledInv, OwnLeaves
        <3>3. /\ tx'[chainTree[i].random[1]].pc = "mined"
              /\ tx'[chainTree[i].random[1]].outputs = tx[chainTree[i].random[1]].outputs
            BY <2>1, <3>1, <3>2
        <3> QED
            BY <3>1, <3>3 DEF SettledInv, OwnLeaves
    <2>3. CASE ~(i <= Len(chainTree))
        <3>1. /\ i - Len(chainTree) \in 1 .. Len(L) /\ chainTree'[i] = L[i - Len(chainTree)]
              /\ Len(chainTree) + (i - Len(chainTree)) - 1 = i - 1
            BY <1>1, <2>3
        <3>2. PICK j \in 1 .. Len(L) :
                j = i - Len(chainTree) /\ chainTree'[i] = L[j] /\ Len(chainTree) + j - 1 = i - 1
            BY <3>1
        <3>3. L[j].random \in Randoms /\ L[j].random[1] \in TxIds
            BY <2>1, <3>2
        <3>4. /\ tx'[L[j].random[1]].pc = "mined"
              /\ \E k \in DOMAIN tx[L[j].random[1]].outputs :
                    /\ L[j] = Commitment(tx[L[j].random[1]].outputs[k])
                    /\ tx[L[j].random[1]].outputs[k].leafIndex = Len(chainTree) + j - 1
            BY <3>3
        <3>5. tx'[L[j].random[1]].outputs = tx[L[j].random[1]].outputs
            BY <3>3
        <3>6. chainTree'[i].random[1] = L[j].random[1]
            BY <3>2
        <3>7. \E k \in DOMAIN tx'[L[j].random[1]].outputs :
                    /\ chainTree'[i] = Commitment(tx'[L[j].random[1]].outputs[k])
                    /\ tx'[L[j].random[1]].outputs[k].leafIndex = i - 1
            BY <3>2, <3>4, <3>5
        <3> QED
            BY <3>4, <3>6, <3>7
    <2> QED
        BY <2>2, <2>3
<1>4. OwnNotes'
    <2>1. Types /\ OwnNotes
        BY <1>1 DEF SettledInv
    <2>2. \A p \in Parties : HeldBy(p)' = HeldBy(p)
        BY DEF HeldBy
    <2>3. ASSUME NEW note \in Notes, Own(note)
          PROVE  Own(note)'
        <3>1. note.random[1] \in TxIds
            BY DEF Notes
        <3> QED
            BY <2>3, <3>1 DEF Own
    <2> QED
        BY <2>1, <2>2, <2>3, NotesOfNodes DEF OwnNotes
<1> QED
    BY <1>2, <1>3, <1>4 DEF SettledInv

LEMMA MineSettled ==
    ASSUME Discipline = "settled", IndInv, SettledInv, NEW t \in TxIds, Mine(t)
    PROVE  SettledInv'
<1> DEFINE outputs == tx[t].outputs
           L       == Inserts(outputs)
<1>1. /\ L \in Seq(Leaves) /\ UNCHANGED <<node, mail>>
      /\ tx[t].pc = "submitted" /\ tx'[t].pc = "mined" /\ MayInsert(t)
      /\ tx'[t].attempt = tx[t].attempt /\ tx'[t].outputs = outputs
      /\ \A u \in TxIds : u # t => tx'[u] = tx[u]
    BY MineIsCall
<1>2. chainTree' = chainTree \o L
    BY DEF Mine
<1>3. /\ Types /\ chainTree \in Seq(Leaves) /\ Len(chainTree) \in Nat
      /\ outputs \in Seq(Notes) /\ Len(outputs) \in Nat /\ DOMAIN outputs = 1 .. Len(outputs)
    BY LenProperties DEF IndInv, Types, Transactions
<1>4. /\ Len(L) = Len(outputs) /\ \A k \in 1 .. Len(outputs) : L[k] = Commitment(outputs[k])
    BY <1>3, InsertsFacts
<1>5. \A k \in DOMAIN outputs :
        outputs[k].random = Random(t, k) /\ outputs[k].leafIndex = Len(chainTree) + k - 1
    BY <1>1 DEF SettledInv, Predicted
<1> HIDE DEF L, outputs
<1>6. /\ Len(chainTree') = Len(chainTree) + Len(L)
      /\ \A i \in 1 .. Len(chainTree) + Len(L) :
            chainTree'[i] = IF i <= Len(chainTree) THEN chainTree[i] ELSE L[i - Len(chainTree)]
    BY <1>1, <1>2, <1>3, ConcatProperties
<1>7. ASSUME NEW k \in DOMAIN outputs
      PROVE  IsMember(outputs[k], chainTree')
    <2>1. k \in 1 .. Len(outputs) /\ outputs[k].leafIndex + 1 = Len(chainTree) + k
        BY <1>3, <1>5
    <2>2. /\ Len(chainTree) + k \in 1 .. Len(chainTree) + Len(L)
          /\ ~(Len(chainTree) + k <= Len(chainTree)) /\ (Len(chainTree) + k) - Len(chainTree) = k
          /\ outputs[k].leafIndex < Len(chainTree')
        BY <1>3, <1>4, <1>5, <1>6, <2>1
    <2> QED
        BY <1>4, <1>6, <2>1, <2>2 DEF IsMember
<1>8. \A u \in TxIds : ~InFlight(u)'
    BY <1>1 DEF MayInsert, InFlight
<1>9. ASSUME NEW j \in 1 .. Len(L), L[j].random \in Randoms
      PROVE  /\ tx'[L[j].random[1]].pc = "mined"
             /\ \E k \in DOMAIN tx[L[j].random[1]].outputs :
                    /\ L[j] = Commitment(tx[L[j].random[1]].outputs[k])
                    /\ tx[L[j].random[1]].outputs[k].leafIndex = Len(chainTree) + j - 1
    <2>1. j \in DOMAIN outputs /\ L[j] = Commitment(outputs[j])
        BY <1>3, <1>4
    <2>2. L[j].random = <<t, tx[t].attempt, j>>
        BY <1>5, <2>1 DEF Commitment, Random
    <2>3. L[j].random[1] = t
        BY <2>2
    <2> QED
        BY <1>1, <1>5, <2>1, <2>3 DEF outputs
<1> QED
    BY <1>1, <1>2, <1>7, <1>8, <1>9, InsertStep DEF outputs

LEMMA ForeignShieldSettled ==
    ASSUME Discipline = "settled", IndInv, SettledInv, ForeignShield
    PROVE  SettledInv'
<1>1. PICK leaf \in Leaves :
        /\ leaf.random = <<ForeignTag, foreign>> /\ <<leaf>> \in Seq(Leaves)
        /\ \E es : Call(ForeignTag, <<leaf>>, es, {})
    BY ForeignIsCall
<1>2. chainTree' = chainTree \o <<leaf>>
    BY <1>1 DEF Call
<1>3. /\ UNCHANGED <<node, mail>> /\ tx' = tx
      /\ \A u \in TxIds : ~InFlight(u)
    BY PrivateTransactionsAssumption DEF ForeignShield, MayInsert
<1>4. \A u \in TxIds : ~InFlight(u)'
    BY <1>3 DEF InFlight
<1>5. leaf.random \notin Randoms
    <2>1. ForeignTag \notin TxIds /\ leaf.random[1] = ForeignTag
        BY <1>1, PrivateTransactionsAssumption
    <2> QED
        BY <2>1 DEF Randoms
<1>6. Len(<<leaf>>) = 1 /\ \A j \in 1 .. Len(<<leaf>>) : <<leaf>>[j] = leaf
    OBVIOUS
<1> QED
    BY <1>1, <1>2, <1>3, <1>4, <1>5, <1>6, InsertStep

LEMMA InitSettled == Init => SettledInv
<1> SUFFICES ASSUME Init
             PROVE  SettledInv
    OBVIOUS
<1>1. ASSUME NEW t \in TxIds
      PROVE  Alone(t) /\ Predicted(t) /\ Balanced(t)
    <2>1. tx[t].pc = "idle"
        BY DEF Init
    <2> QED
        BY <2>1 DEF Alone, Predicted, Balanced, InFlight
<1>2. OwnLeaves
    BY DEF Init, OwnLeaves
<1>3. OwnNotes
    <2>1. mail = {} /\ \A p \in Parties : node[p].received = <<>>
        BY DEF Init
    <2> QED
        BY <2>1 DEF OwnNotes, HeldBy
<1> QED
    BY <1>1, <1>2, <1>3 DEF SettledInv

LEMMA NextSettled ==
    ASSUME Discipline = "settled"
    PROVE  IndInv /\ SettledInv /\ [Next]_vars => SettledInv'
<1> SUFFICES ASSUME IndInv, SettledInv, [Next]_vars
             PROVE  SettledInv'
    OBVIOUS
<1>1. ASSUME NEW t \in TxIds, Advance(t)
      PROVE  SettledInv'
    <2>1. CASE PrepareInputs(t)
        BY <2>1, PrepareInputsSettled
    <2>2. CASE BuildTransaction(t)
        BY <2>2, BuildTransactionSettled
    <2>3. CASE AssembleShield(t)
        BY <2>3, AssembleShieldSettled
    <2>4. CASE Sign(t)
        BY <2>4, SignSettled
    <2>5. CASE Dispatch(t)
        BY <2>5, DispatchSettled
    <2>6. CASE Mine(t)
        BY <2>6, MineSettled
    <2>7. CASE BaseLedgerRevert(t)
        <3>1. Retry(t) /\ tx[t].pc \in {"assembled", "submitted"} /\ UNCHANGED <<chainVars, node, mail>>
            BY <2>7 DEF BaseLedgerRevert
        <3> QED
            BY <3>1, RetrySettled
    <2> QED
        BY <1>1, <2>1, <2>2, <2>3, <2>4, <2>5, <2>6, <2>7 DEF Advance
<1>2. ASSUME NEW m \in mail, ReceiveNotes(m)
      PROVE  SettledInv'
    BY <1>2, ReceiveNotesSettled
<1>3. ASSUME NEW p \in Parties, Deliver(p)
      PROVE  SettledInv'
    BY <1>3, DeliverBatchSettled DEF Deliver
<1>4. CASE ForeignShield
    BY <1>4, ForeignShieldSettled
<1>5. CASE UNCHANGED vars
    <2>1. UNCHANGED chainVars /\ UNCHANGED node /\ UNCHANGED mail /\ UNCHANGED tx
        BY <1>5 DEF vars
    <2>2. OwnNotes'
        BY <2>1 DEF SettledInv, OwnNotes, Own, HeldBy
    <2> QED
        BY <2>1, <2>2, TransactionsKept
<1> QED
    BY <1>1, <1>2, <1>3, <1>4, <1>5 DEF Next

LEMMA SettledSpecInv ==
    ASSUME Discipline = "settled"
    PROVE  Spec => [](IndInv /\ SettledInv)
<1>1. Init => IndInv /\ SettledInv
    BY InitInv, InitSettled
<1>2. IndInv /\ SettledInv /\ [Next]_vars => (IndInv /\ SettledInv)'
    BY NextInv, NextSettled
<1> QED
    BY <1>1, <1>2, PTL DEF Spec

-----------------------------------------------------------------------------
(* The discipline "settled": what follows                                  *)

(* types/states.go: the leaf index of a note is its position in the        *)
(* contract's tree, once the note is there. It is predicted when the note  *)
(* is assembled, so this holds because nothing else is inserted before the *)
(* transaction is mined and the assembling node had seen every event.      *)
THEOREM LeafIndexTheorem ==
    ASSUME Discipline = "settled"
    PROVE  Spec => []LeafIndexIsPosition
<1>1. ASSUME IndInv, SettledInv, NEW p \in Parties, NEW note \in HeldBy(p), NEW i \in Positions(note)
      PROVE  note.leafIndex = i - 1
    <2>1. note \in Notes /\ Own(note)
        BY <1>1, NotesOfNodes DEF SettledInv, OwnNotes, IndInv
    <2>2. i \in DOMAIN chainTree /\ chainTree[i] = Commitment(note)
        BY DEF Positions
    <2> QED
        BY <1>1, <2>1, <2>2, OwnNoteIsThere
<1>2. IndInv /\ SettledInv => LeafIndexIsPosition
    BY <1>1 DEF LeafIndexIsPosition
<1> QED
    BY <1>2, SettledSpecInv, PTL

(* A transaction that has been assembled can be proved, whatever events    *)
(* and notes its node stores between the two halves of its assembly: every *)
(* input is under the root at the position its note claims, and what goes  *)
(* out, change included, is what came in.                                  *)
THEOREM ProvableTheorem ==
    ASSUME Discipline = "settled"
    PROVE  Spec => []AssembledIsProvable
<1>1. ASSUME SettledInv, NEW t \in TxIds, tx[t].pc = "assembled"
      PROVE  Provable(t)
    <2>1. /\ tx[t].root = chainTree
          /\ \A i \in DOMAIN tx[t].inputs : IsMember(tx[t].inputs[i], chainTree)
        BY <1>1 DEF SettledInv, Alone, InFlight
    <2>2. Balanced(t)
        BY <1>1 DEF SettledInv
    <2> QED
        BY <1>1, <2>1, <2>2 DEF Provable, Balanced
<1>2. IndInv /\ SettledInv => AssembledIsProvable
    BY <1>1 DEF AssembledIsProvable
<1> QED
    BY <1>2, SettledSpecInv, PTL

(* src/README.md: spends are detected through the nullifiers. A node       *)
(* counts a note of its party as spent exactly when an event it has stored *)
(* published the nullifier of the note's real position: what it computes   *)
(* from the predicted position is that nullifier, and what it has stored   *)
(* are the nullifiers of the events it has handled.                        *)
THEOREM SpentTheorem ==
    ASSUME Discipline = "settled"
    PROVE  Spec => []SpentIffNullified
<1>1. ASSUME IndInv, SettledInv, NEW p \in Parties, NEW note \in HeldBy(p),
             NEW i \in Positions(note), note.owner = p
      PROVE  Nullifier(note) \in SpentIn(p) <=> <<p, i - 1>> \in NullifiersUpTo(log, node[p].cursor)
    <2>1. note \in Notes /\ Own(note)
        BY <1>1, NotesOfNodes DEF SettledInv, OwnNotes, IndInv
    <2>2. i \in DOMAIN chainTree /\ chainTree[i] = Commitment(note)
        BY DEF Positions
    <2>3. note.leafIndex = i - 1
        BY <1>1, <2>1, <2>2, OwnNoteIsThere
    <2>4. Nullifier(note) = <<p, i - 1>>
        BY <1>1, <2>3 DEF Nullifier
    <2>5. SpentIn(p) = NullifiersUpTo(log, node[p].cursor)
        BY <1>1 DEF IndInv, NodeInv
    <2> QED
        BY <2>4, <2>5
<1>2. IndInv /\ SettledInv => SpentIffNullified
    BY <1>1 DEF SpentIffNullified
<1> QED
    BY <1>2, SettledSpecInv, PTL

-----------------------------------------------------------------------------
(* Where a note is: its invariant                                          *)

Elements(seq) == {seq[i] : i \in DOMAIN seq}

LEMMA ConcatElements ==
    ASSUME NEW S, NEW a \in Seq(S), NEW b \in Seq(S)
    PROVE  /\ Elements(a \o b) = Elements(a) \cup Elements(b)
           /\ NoCopies(a) /\ NoCopies(b) /\ (\A i \in DOMAIN a, j \in DOMAIN b : a[i] # b[j])
                => NoCopies(a \o b)
<1> DEFINE c == a \o b
<1>1. /\ Len(a) \in Nat /\ Len(b) \in Nat /\ DOMAIN a = 1 .. Len(a) /\ DOMAIN b = 1 .. Len(b)
      /\ DOMAIN c = 1 .. Len(a) + Len(b)
      /\ \A i \in 1 .. Len(a) + Len(b) : c[i] = IF i <= Len(a) THEN a[i] ELSE b[i - Len(a)]
    BY LenProperties, ConcatProperties
<1> HIDE DEF c
<1>2. /\ \A i \in DOMAIN a : i \in DOMAIN c /\ c[i] = a[i]
      /\ \A i \in DOMAIN b : Len(a) + i \in DOMAIN c /\ c[Len(a) + i] = b[i]
    <2>1. \A i \in DOMAIN a : i \in DOMAIN c /\ c[i] = a[i]
        BY <1>1
    <2>2. ASSUME NEW i \in DOMAIN b
          PROVE  Len(a) + i \in DOMAIN c /\ c[Len(a) + i] = b[i]
        <3>1. /\ i \in 1 .. Len(b) /\ Len(a) + i \in 1 .. Len(a) + Len(b)
              /\ ~(Len(a) + i <= Len(a)) /\ (Len(a) + i) - Len(a) = i
            BY <1>1
        <3> QED
            BY <1>1, <3>1
    <2> QED
        BY <2>1, <2>2
<1>3. \A i \in DOMAIN c : \/ i \in DOMAIN a /\ c[i] = a[i]
                          \/ i \notin DOMAIN a /\ i - Len(a) \in DOMAIN b /\ c[i] = b[i - Len(a)]
    BY <1>1
<1>4. Elements(c) = Elements(a) \cup Elements(b)
    BY <1>2, <1>3 DEF Elements
<1>5. ASSUME NoCopies(a), NoCopies(b), \A i \in DOMAIN a, j \in DOMAIN b : a[i] # b[j]
      PROVE  NoCopies(c)
    <2> SUFFICES ASSUME NEW i \in DOMAIN c, NEW j \in DOMAIN c, c[i] = c[j]
                 PROVE  i = j
        BY DEF NoCopies
    <2>1. i \in Nat /\ j \in Nat
        BY <1>1
    <2>2. CASE i \in DOMAIN a /\ c[i] = a[i]
        <3>1. j \in DOMAIN a /\ c[j] = a[j]
            BY <1>3, <1>5, <2>2
        <3> QED
            BY <1>5, <2>2, <3>1 DEF NoCopies
    <2>3. CASE i - Len(a) \in DOMAIN b /\ c[i] = b[i - Len(a)]
        <3>1. j - Len(a) \in DOMAIN b /\ c[j] = b[j - Len(a)]
            BY <1>3, <1>5, <2>3
        <3>2. i - Len(a) = j - Len(a)
            BY <1>5, <2>3, <3>1 DEF NoCopies
        <3> QED
            BY <1>1, <2>1, <3>2
    <2> QED
        BY <1>3, <2>2, <2>3
<1> QED
    BY <1>4, <1>5 DEF c

LEMMA NoCopiesOfElements ==
    ASSUME NEW V, NEW seq \in Seq(V), NEW S, NoCopies(seq)
    PROVE  NoCopies(ElementsAt(seq, S))
<1> DEFINE found == ElementsAt(seq, S)
           R     == DOMAIN seq \cap S
<1>1. found \in Seq(V) /\ Picks(found, seq, R)
    BY ElementsAtFacts
<1> HIDE DEF found, R
<1>2. PICK pos : Enumerates(pos, Len(found), R) /\ \A i \in 1 .. Len(found) : found[i] = seq[pos[i]]
    BY <1>1 DEF Picks
<1>3. /\ Len(found) \in Nat /\ DOMAIN found = 1 .. Len(found)
      /\ \A i \in 1 .. Len(found) : pos[i] \in R
      /\ \A i, j \in 1 .. Len(found) : i < j => pos[i] < pos[j]
    BY <1>1, <1>2, LenProperties DEF Enumerates
<1>4. R \subseteq Nat /\ R \subseteq DOMAIN seq
    BY LenProperties DEF R
<1>5. ASSUME NEW i \in DOMAIN found, NEW j \in DOMAIN found, found[i] = found[j]
      PROVE  i = j
    <2>0. i \in 1 .. Len(found) /\ j \in 1 .. Len(found) /\ i \in Nat /\ j \in Nat
        BY <1>3
    <2>1. pos[i] \in DOMAIN seq /\ pos[j] \in DOMAIN seq /\ pos[i] \in Nat /\ pos[j] \in Nat
        BY <1>3, <1>4, <2>0
    <2>2. pos[i] = pos[j]
        BY <1>2, <1>5, <2>0, <2>1 DEF NoCopies
    <2>3. ~(i < j) /\ ~(j < i)
        BY <1>3, <2>0, <2>1, <2>2
    <2> QED
        BY <2>0, <2>3
<1> QED
    BY <1>5 DEF NoCopies, found

(* What a node has after it stored notes.                                  *)
LEMMA StoredFacts ==
    ASSUME Types, NEW p \in Parties, NEW notes \in Seq(Notes), Store(p, notes)
    PROVE  /\ HeldBy(p)' = HeldBy(p) \cup Elements(notes)
           /\ \A q \in Parties : q # p => node'[q].received = node[q].received /\ HeldBy(q)' = HeldBy(q)
           /\ NoCopies(node[p].received) /\ NoCopies(notes)
                /\ (\A i \in DOMAIN notes : notes[i] \notin HeldBy(p)) => NoCopies(node'[p].received)
<1>1. /\ node'[p].received = node[p].received \o notes
      /\ \A q \in Parties : q # p => node'[q] = node[q]
    BY StoreFacts
<1>2. node[p].received \in Seq(Notes)
    BY DEF Types, Nodes
<1>3. HeldBy(p) = Elements(node[p].received) /\ HeldBy(p)' = Elements(node'[p].received)
    BY DEF HeldBy, Elements
<1>4. HeldBy(p)' = HeldBy(p) \cup Elements(notes)
    BY <1>1, <1>2, <1>3, ConcatElements
<1>5. \A q \in Parties : q # p => node'[q].received = node[q].received /\ HeldBy(q)' = HeldBy(q)
    BY <1>1 DEF HeldBy
<1>6. ASSUME NoCopies(node[p].received), NoCopies(notes), \A i \in DOMAIN notes : notes[i] \notin HeldBy(p)
      PROVE  NoCopies(node'[p].received)
    <2>1. \A i \in DOMAIN node[p].received, j \in DOMAIN notes : node[p].received[i] # notes[j]
        BY <1>6 DEF HeldBy
    <2>2. NoCopies(node[p].received \o notes)
        BY <1>2, <1>6, <2>1, ConcatElements
    <2> QED
        BY <1>1, <2>2
<1> QED
    BY <1>4, <1>5, <1>6

(* Nothing is handed over.                                                 *)
LEMMA NothingHanded ==
    ASSUME Types, HandInv, mail' = mail,
           \A p \in Parties : node'[p].received = node[p].received,
           \A u \in TxIds : tx'[u].pc \in {"submitted", "mined"} =>
                tx[u].pc \in {"submitted", "mined"} /\ tx'[u].outputs = tx[u].outputs,
           \A i \in DOMAIN chainTree' : chainTree'[i].random \in Randoms
                \/ chainTree'[i].owner = External
                \/ (i \in DOMAIN chainTree /\ chainTree'[i] = chainTree[i])
    PROVE  HandInv'
<1>1. \A p \in Parties : HeldBy(p)' = HeldBy(p)
    BY DEF HeldBy
<1>2. Once'
    <2>1. Once /\ \A m \in mail : m.to \in Parties
        BY DEF HandInv, Types
    <2>2. \A p \in Parties : NoCopies(node'[p].received)
        BY <2>1 DEF Once
    <2>3. ASSUME NEW m \in mail, NEW i \in DOMAIN m.notes
          PROVE  m.notes[i] \notin HeldBy(m.to)'
        BY <1>1, <2>1 DEF Once
    <2> QED
        BY <2>1, <2>2, <2>3 DEF Once, NoCopies
<1>3. ASSUME NEW u \in TxIds
      PROVE  Handed(u)'
    <2> SUFFICES ASSUME tx'[u].pc \in {"submitted", "mined"}, NEW k \in DOMAIN tx'[u].outputs,
                        NEW note, note = tx'[u].outputs[k], note.owner \in Parties
                 PROVE  IsHanded(note)'
        BY DEF Handed, IsHanded, HeldBy
    <2>1. /\ tx[u].pc \in {"submitted", "mined"} /\ tx'[u].outputs = tx[u].outputs
          /\ Handed(u)
        BY DEF HandInv
    <2>2. IsHanded(note)
        BY <2>1 DEF Handed
    <2> QED
        BY <1>1, <2>1, <2>2 DEF IsHanded
<1>4. OtherLeaves'
    BY DEF HandInv, OtherLeaves
<1> QED
    BY <1>2, <1>3, <1>4 DEF HandInv

LEMMA HandedOver ==
    ASSUME NEW t \in TxIds, NEW p, tx[t].outputs \in Seq(Notes), NoCopies(tx[t].outputs)
    PROVE  /\ OutputsFor(t, p) \in Seq(Notes) /\ NoCopies(OutputsFor(t, p))
           /\ \A k \in DOMAIN tx[t].outputs : tx[t].outputs[k].owner = p =>
                \E i \in DOMAIN OutputsFor(t, p) : OutputsFor(t, p)[i] = tx[t].outputs[k]
<1> DEFINE notes == tx[t].outputs
           S     == {i \in DOMAIN notes : notes[i].owner = p}
           found == ElementsAt(notes, S)
<1>1. \A k \in DOMAIN notes : notes[k].owner = p => k \in DOMAIN notes \cap S
    OBVIOUS
<1> HIDE DEF S, notes
<1>2. /\ found \in Seq(Notes) /\ NoCopies(found)
      /\ \A k \in DOMAIN notes \cap S : \E i \in DOMAIN found : found[i] = notes[k]
    <2>1. notes \in Seq(Notes) /\ NoCopies(notes)
        BY DEF notes
    <2>2. found = ElementsAt(notes, S)
        OBVIOUS
    <2>3. NoCopies(ElementsAt(notes, S))
        BY <2>1, NoCopiesOfElements
    <2> HIDE DEF found
    <2> QED
        BY <2>1, <2>2, <2>3, ElementsAtElements
<1>3. OutputsFor(t, p) = found
    BY DEF OutputsFor, S, notes
<1> HIDE DEF found
<1> QED
    BY <1>1, <1>2, <1>3 DEF notes

LEMMA DispatchHanded ==
    ASSUME IndInv, SettledInv, HandInv, NEW t \in TxIds, Dispatch(t)
    PROVE  HandInv'
<1> DEFINE outputs == tx[t].outputs
           New(m)  == \E p \in Parties : p # Sender(t) /\ m = [to |-> p, notes |-> OutputsFor(t, p)]
           Output(note) == \E k \in DOMAIN outputs : note = outputs[k]
<1>1. /\ Types /\ Once /\ OwnNotes /\ tx[t].pc = "signed" /\ UNCHANGED chainVars
      /\ tx' = [tx EXCEPT ![t].pc = "submitted"]
      /\ Store(Sender(t), OutputsFor(t, Sender(t)))
      /\ mail' = mail \cup {[to |-> p, notes |-> OutputsFor(t, p)] :
                            p \in {q \in Parties \ {Sender(t)} : OutputsFor(t, q) # <<>>}}
      /\ Sender(t) \in Parties /\ chainTree' = chainTree
    BY RequestFacts DEF Dispatch, IndInv, SettledInv, HandInv, chainVars
<1>2. /\ outputs \in Seq(Notes) /\ tx[t].attempt \in Nat
      /\ \A k \in DOMAIN outputs : outputs[k].random = <<t, tx[t].attempt, k>>
    <2>1. outputs \in Seq(Notes) /\ tx[t].attempt \in Nat
        BY <1>1, PrivateTransactionsAssumption DEF Types, Transactions
    <2>2. Predicted(t)
        BY DEF SettledInv
    <2>3. \A k \in DOMAIN outputs : outputs[k].random = <<t, tx[t].attempt, k>>
        BY <1>1, <2>2 DEF Predicted, Random
    <2> QED
        BY <2>1, <2>3
<1>3. NoCopies(outputs)
    BY <1>2 DEF NoCopies
<1>4. \A note : Own(note) => ~Output(note)
    <2> SUFFICES ASSUME NEW note, Own(note), NEW k \in DOMAIN outputs, note = outputs[k]
                 PROVE  FALSE
        OBVIOUS
    <2>1. note.random[1] = t /\ note.random[2] = tx[t].attempt
        BY <1>2
    <2> QED
        BY <1>1, <2>1 DEF Own
<1>5. \A p : /\ OutputsFor(t, p) \in Seq(Notes) /\ NoCopies(OutputsFor(t, p))
             /\ \A i \in DOMAIN OutputsFor(t, p) : Output(OutputsFor(t, p)[i])
             /\ \A k \in DOMAIN outputs : outputs[k].owner = p =>
                    \E i \in DOMAIN OutputsFor(t, p) : OutputsFor(t, p)[i] = outputs[k]
    BY <1>2, <1>3, OutputsForFacts, HandedOver
<1>6. /\ \A p \in Parties : \A note \in HeldBy(p) : ~Output(note)
      /\ \A m \in mail : \A i \in DOMAIN m.notes : ~Output(m.notes[i])
    BY <1>1, <1>4 DEF OwnNotes
<1> HIDE DEF Output, outputs
<1>7. /\ \A m \in mail' : m \in mail \/ New(m)
      /\ \A m \in mail : m \in mail'
      /\ \A p \in Parties : p # Sender(t) /\ OutputsFor(t, p) # <<>> =>
            [to |-> p, notes |-> OutputsFor(t, p)] \in mail'
    BY <1>1
<1>8. \A m : New(m) => /\ m.to \in Parties /\ m.to # Sender(t) /\ m.notes = OutputsFor(t, m.to)
                       /\ m = [to |-> m.to, notes |-> OutputsFor(t, m.to)]
    OBVIOUS
<1> HIDE DEF New
<1>9. /\ HeldBy(Sender(t))' = HeldBy(Sender(t)) \cup Elements(OutputsFor(t, Sender(t)))
      /\ \A q \in Parties : q # Sender(t) =>
            node'[q].received = node[q].received /\ HeldBy(q)' = HeldBy(q)
      /\ NoCopies(node'[Sender(t)].received)
    <2>1. NoCopies(node[Sender(t)].received)
        BY <1>1 DEF Once
    <2>2. \A i \in DOMAIN OutputsFor(t, Sender(t)) : OutputsFor(t, Sender(t))[i] \notin HeldBy(Sender(t))
        BY <1>1, <1>5, <1>6
    <2> QED
        BY <1>1, <1>5, <2>1, <2>2, StoredFacts
<1>10. \A p \in Parties : \A note : note \in HeldBy(p)' => note \in HeldBy(p) \/ Output(note)
    BY <1>5, <1>9 DEF Elements
<1>11. \A p \in Parties : HeldBy(p) \subseteq HeldBy(p)'
    BY <1>9
<1>12. Once'
    <2>1. ASSUME NEW p \in Parties
          PROVE  NoCopies(node'[p].received)
        BY <1>1, <1>9 DEF Once
    <2>2. ASSUME NEW m \in mail'
          PROVE  NoCopies(m.notes)
        BY <1>1, <1>5, <1>7, <1>8 DEF Once
    <2>3. ASSUME NEW m \in mail', NEW i \in DOMAIN m.notes
          PROVE  m.notes[i] \notin HeldBy(m.to)'
        <3>1. CASE m \in mail
            <4>1. m.to \in Parties /\ m.notes[i] \notin HeldBy(m.to) /\ ~Output(m.notes[i])
                BY <1>1, <1>6, <3>1 DEF Once, Types
            <4> QED
                BY <1>10, <4>1
        <3>2. CASE New(m)
            <4>1. m.to \in Parties /\ m.to # Sender(t) /\ Output(m.notes[i])
                BY <1>5, <1>8, <3>2
            <4> QED
                BY <1>6, <1>9, <4>1
        <3> QED
            BY <1>7, <3>1, <3>2
    <2>4. ASSUME NEW m \in mail', NEW l \in mail', m # l, m.to = l.to,
                 NEW i \in DOMAIN m.notes, NEW j \in DOMAIN l.notes
          PROVE  m.notes[i] # l.notes[j]
        <3>1. CASE m \in mail /\ l \in mail
            BY <1>1, <2>4, <3>1 DEF Once
        <3>2. CASE m \in mail /\ New(l)
            BY <1>5, <1>6, <1>8, <3>2
        <3>3. CASE New(m) /\ l \in mail
            BY <1>5, <1>6, <1>8, <3>3
        <3>4. CASE New(m) /\ New(l)
            BY <1>8, <2>4, <3>4
        <3> QED
            BY <1>7, <3>1, <3>2, <3>3, <3>4
    <2> QED
        BY <2>1, <2>2, <2>3, <2>4 DEF Once, NoCopies
<1>13. "submitted" \in Pcs
    BY DEF Pcs
<1>14. /\ tx'[t].pc = "submitted" /\ tx'[t].outputs = outputs
       /\ \A u \in TxIds : u # t => tx'[u] = tx[u]
    BY <1>1, <1>13, NewPc DEF outputs
<1>15. ASSUME NEW u \in TxIds
       PROVE  Handed(u)'
    <2> SUFFICES ASSUME tx'[u].pc \in {"submitted", "mined"}, NEW k \in DOMAIN tx'[u].outputs,
                        NEW note, note = tx'[u].outputs[k], note.owner \in Parties
                 PROVE  IsHanded(note)'
        BY DEF Handed, IsHanded, HeldBy
    <2>1. CASE u # t
        <3>1. IsHanded(note)
            BY <1>14, <2>1 DEF HandInv, Handed
        <3> QED
            BY <1>7, <1>11, <3>1 DEF IsHanded
    <2>2. CASE u = t
        <3>1. k \in DOMAIN outputs /\ note = outputs[k]
            BY <1>14, <2>2
        <3>2. PICK i \in DOMAIN OutputsFor(t, note.owner) : OutputsFor(t, note.owner)[i] = note
            BY <1>5, <3>1
        <3>3. CASE note.owner = Sender(t)
            <4>1. note \in Elements(OutputsFor(t, Sender(t)))
                BY <3>2, <3>3 DEF Elements
            <4>2. note \in HeldBy(Sender(t))'
                BY <1>9, <4>1
            <4> QED
                BY <3>3, <4>2 DEF IsHanded
        <3>4. CASE note.owner # Sender(t)
            <4> DEFINE m == [to |-> note.owner, notes |-> OutputsFor(t, note.owner)]
            <4>1. OutputsFor(t, note.owner) # <<>>
                BY <3>2
            <4>2. m \in mail' /\ m.to = note.owner /\ m.notes = OutputsFor(t, note.owner)
                BY <1>7, <3>4, <4>1
            <4> QED
                BY <3>2, <4>2 DEF IsHanded
        <3> QED
            BY <3>3, <3>4
    <2> QED
        BY <2>1, <2>2
<1>16. OtherLeaves'
    BY <1>1 DEF HandInv, OtherLeaves
<1> QED
    BY <1>12, <1>15, <1>16 DEF HandInv

LEMMA ReceiveNotesHanded ==
    ASSUME IndInv, HandInv, NEW m \in mail, ReceiveNotes(m)
    PROVE  HandInv'
<1>1. /\ Types /\ Once /\ mail' = mail \ {m} /\ Store(m.to, m.notes)
      /\ chainTree' = chainTree /\ tx' = tx
      /\ m.to \in Parties /\ m.notes \in Seq(Notes)
    BY DEF IndInv, HandInv, Types, ReceiveNotes, chainVars
<1>2. /\ HeldBy(m.to)' = HeldBy(m.to) \cup Elements(m.notes)
      /\ \A q \in Parties : q # m.to =>
            node'[q].received = node[q].received /\ HeldBy(q)' = HeldBy(q)
      /\ NoCopies(node'[m.to].received)
    <2>1. /\ NoCopies(node[m.to].received) /\ NoCopies(m.notes)
          /\ \A i \in DOMAIN m.notes : m.notes[i] \notin HeldBy(m.to)
        BY <1>1 DEF Once
    <2> QED
        BY <1>1, <2>1, StoredFacts
<1>3. Once'
    <2>1. ASSUME NEW p \in Parties
          PROVE  NoCopies(node'[p].received)
        BY <1>1, <1>2 DEF Once
    <2>2. ASSUME NEW l \in mail', NEW i \in DOMAIN l.notes
          PROVE  l.notes[i] \notin HeldBy(l.to)'
        <3>1. l \in mail /\ l # m /\ l.to \in Parties /\ l.notes[i] \notin HeldBy(l.to)
            BY <1>1 DEF Once, Types
        <3>2. CASE l.to = m.to
            <4>1. \A j \in DOMAIN m.notes : l.notes[i] # m.notes[j]
                BY <1>1, <3>1, <3>2 DEF Once
            <4>2. l.notes[i] \notin Elements(m.notes)
                BY <4>1 DEF Elements
            <4> QED
                BY <1>2, <3>1, <3>2, <4>2
        <3>3. CASE l.to # m.to
            BY <1>2, <3>1, <3>3
        <3> QED
            BY <3>2, <3>3
    <2>3. \A l \in mail' : NoCopies(l.notes)
        BY <1>1 DEF Once
    <2>4. \A l, k \in mail' : l # k /\ l.to = k.to =>
            \A i \in DOMAIN l.notes, j \in DOMAIN k.notes : l.notes[i] # k.notes[j]
        BY <1>1 DEF Once
    <2> QED
        BY <2>1, <2>2, <2>3, <2>4 DEF Once, NoCopies
<1>4. ASSUME NEW u \in TxIds
      PROVE  Handed(u)'
    <2> SUFFICES ASSUME tx'[u].pc \in {"submitted", "mined"}, NEW k \in DOMAIN tx'[u].outputs,
                        NEW note, note = tx'[u].outputs[k], note.owner \in Parties
                 PROVE  IsHanded(note)'
        BY DEF Handed, IsHanded, HeldBy
    <2>1. IsHanded(note)
        BY <1>1 DEF HandInv, Handed
    <2>2. CASE note \in HeldBy(note.owner)
        <3>1. note \in HeldBy(note.owner)'
            BY <1>1, <1>2, <2>2
        <3> QED
            BY <3>1 DEF IsHanded
    <2>3. ASSUME NEW l \in mail, l.to = note.owner, NEW i \in DOMAIN l.notes, l.notes[i] = note
          PROVE  IsHanded(note)'
        <3>1. CASE l = m
            <4>1. note \in Elements(m.notes) /\ note.owner = m.to
                BY <2>3, <3>1 DEF Elements
            <4>2. note \in HeldBy(m.to)'
                BY <1>2, <4>1
            <4> QED
                BY <4>1, <4>2 DEF IsHanded
        <3>2. CASE l # m
            <4>1. l \in mail'
                BY <1>1, <3>2
            <4> QED
                BY <2>3, <4>1 DEF IsHanded
        <3> QED
            BY <3>1, <3>2
    <2> QED
        BY <2>1, <2>2, <2>3 DEF IsHanded
<1>5. OtherLeaves'
    BY <1>1 DEF HandInv, OtherLeaves
<1> QED
    BY <1>3, <1>4, <1>5 DEF HandInv

LEMMA InitHanded == Init => HandInv
<1> SUFFICES ASSUME Init
             PROVE  HandInv
    OBVIOUS
<1>1. /\ mail = {} /\ chainTree = <<>> /\ \A p \in Parties : node[p].received = <<>>
      /\ \A t \in TxIds : tx[t].pc = "idle"
    BY DEF Init
<1>2. Once
    BY <1>1 DEF Once, NoCopies
<1> QED
    BY <1>1, <1>2 DEF HandInv, Handed, OtherLeaves

LEMMA NextHanded == IndInv /\ SettledInv /\ HandInv /\ [Next]_vars => HandInv'
<1> SUFFICES ASSUME IndInv, SettledInv, HandInv, [Next]_vars
             PROVE  HandInv'
    OBVIOUS
<1>0. Types
    BY DEF IndInv
<1>1. ASSUME UNCHANGED <<chainVars, node, mail>>, NEW t \in TxIds,
             \A u \in TxIds : u # t => tx'[u] = tx[u],
             tx'[t].pc \notin {"submitted", "mined"}
      PROVE  HandInv'
    <2>1. chainTree' = chainTree /\ node' = node /\ mail' = mail
        BY <1>1 DEF chainVars
    <2> QED
        BY <1>0, <1>1, <2>1, NothingHanded
<1>2. ASSUME NEW t \in TxIds, Advance(t)
      PROVE  HandInv'
    <2>1. CASE PrepareInputs(t)
        <3>1. tx'[t].pc \in {"selected", "reverted"} /\ \A u \in TxIds : u # t => tx'[u] = tx[u]
            BY <1>0, <2>1, SelectedFacts
        <3> QED
            BY <1>1, <2>1, <3>1 DEF PrepareInputs
    <2>2. CASE BuildTransaction(t)
        <3>1. tx'[t].pc = "assembled" /\ \A u \in TxIds : u # t => tx'[u] = tx[u]
            BY <2>2, BuiltFacts
        <3> QED
            BY <1>1, <2>2, <3>1 DEF BuildTransaction
    <2>3. CASE AssembleShield(t)
        <3>1. tx'[t].pc = "signed" /\ \A u \in TxIds : u # t => tx'[u] = tx[u]
            BY <2>3, ShieldFacts
        <3> QED
            BY <1>1, <2>3, <3>1 DEF AssembleShield
    <2>4. CASE Sign(t)
        <3>1. "signed" \in Pcs
            BY DEF Pcs
        <3>2. tx'[t].pc \in {"signed", "idle"} /\ \A u \in TxIds : u # t => tx'[u] = tx[u]
            BY <1>0, <2>4, <3>1, NewPc, RetryFacts DEF Sign
        <3> QED
            BY <1>1, <2>4, <3>2 DEF Sign
    <2>5. CASE Dispatch(t)
        BY <2>5, DispatchHanded
    <2>6. CASE Mine(t)
        <3> DEFINE L == Inserts(tx[t].outputs)
        <3>1. /\ L \in Seq(Leaves) /\ UNCHANGED <<node, mail>>
              /\ tx[t].pc = "submitted" /\ tx'[t].outputs = tx[t].outputs
              /\ \A u \in TxIds : u # t => tx'[u] = tx[u]
            BY <2>6, MineIsCall
        <3>2. chainTree' = chainTree \o L
            BY <2>6 DEF Mine
        <3>3. tx[t].outputs \in Seq(Notes) /\ chainTree \in Seq(Leaves)
            BY <1>0 DEF Types, Transactions
        <3>4. /\ Len(tx[t].outputs) \in Nat /\ Len(chainTree) \in Nat
              /\ Len(L) = Len(tx[t].outputs)
              /\ \A j \in 1 .. Len(L) : L[j] = Commitment(tx[t].outputs[j]) /\ tx[t].outputs[j] \in Notes
            BY <3>3, InsertsFacts, ElementOfSeq, LenProperties
        <3>5. \A j \in 1 .. Len(L) : L[j].random \in Randoms
            <4>1. \A note \in Notes : Commitment(note).random \in Randoms
                BY DEF Commitment, Notes, Randoms
            <4> HIDE DEF L
            <4> QED
                BY <3>4, <4>1
        <3> HIDE DEF L
        <3>6. /\ DOMAIN chainTree = 1 .. Len(chainTree)
              /\ DOMAIN chainTree' = 1 .. Len(chainTree) + Len(L)
              /\ \A i \in 1 .. Len(chainTree) + Len(L) :
                    chainTree'[i] = IF i <= Len(chainTree) THEN chainTree[i] ELSE L[i - Len(chainTree)]
            BY <3>1, <3>2, <3>3, LenProperties, ConcatProperties
        <3>7. ASSUME NEW i \in DOMAIN chainTree'
              PROVE  chainTree'[i].random \in Randoms
                        \/ (i \in DOMAIN chainTree /\ chainTree'[i] = chainTree[i])
            <4>1. CASE i <= Len(chainTree)
                BY <3>4, <3>6, <4>1
            <4>2. CASE ~(i <= Len(chainTree))
                <5>1. i - Len(chainTree) \in 1 .. Len(L) /\ chainTree'[i] = L[i - Len(chainTree)]
                    BY <3>4, <3>6, <4>2
                <5> QED
                    BY <3>5, <5>1
            <4> QED
                BY <4>1, <4>2
        <3> QED
            BY <1>0, <3>1, <3>7, NothingHanded
    <2>7. CASE BaseLedgerRevert(t)
        <3>1. tx'[t].pc = "idle" /\ \A u \in TxIds : u # t => tx'[u] = tx[u]
            BY <1>0, <2>7, RetryFacts DEF BaseLedgerRevert
        <3> QED
            BY <1>1, <2>7, <3>1 DEF BaseLedgerRevert
    <2> QED
        BY <1>2, <2>1, <2>2, <2>3, <2>4, <2>5, <2>6, <2>7 DEF Advance
<1>3. ASSUME NEW m \in mail, ReceiveNotes(m)
      PROVE  HandInv'
    BY <1>3, ReceiveNotesHanded
<1>4. ASSUME NEW p \in Parties, Deliver(p)
      PROVE  HandInv'
    <2>1. PICK n \in 1 .. MaxBatch : DeliverBatch(p, n)
        BY <1>4 DEF Deliver
    <2>2. \A q \in Parties : node'[q].received = node[q].received
        <3>1. node'[p].received = node[p].received
            BY <2>1, DeliveredFacts
        <3>2. \A q \in Parties : q # p => node'[q] = node[q]
            BY <1>0, <2>1 DEF DeliverBatch, Types
        <3> QED
            BY <3>1, <3>2
    <2>3. chainTree' = chainTree /\ mail' = mail /\ tx' = tx
        BY <2>1 DEF DeliverBatch, chainVars
    <2> QED
        BY <1>0, <2>2, <2>3, NothingHanded
<1>5. CASE ForeignShield
    <2>1. PICK leaf \in Leaves : leaf.owner = External /\ \E es : Call(ForeignTag, <<leaf>>, es, {})
        BY <1>5, ForeignIsCall
    <2>2. chainTree' = chainTree \o <<leaf>> /\ node' = node /\ mail' = mail /\ tx' = tx
        BY <1>5, <2>1 DEF Call, ForeignShield
    <2>3. chainTree \in Seq(Leaves) /\ Len(chainTree) \in Nat /\ Append(chainTree, leaf) = chainTree \o <<leaf>>
        BY <1>0, <2>1, AppendIsConcat, LenProperties DEF Types
    <2>4. /\ DOMAIN chainTree = 1 .. Len(chainTree)
          /\ DOMAIN chainTree' = 1 .. Len(chainTree) + 1
          /\ \A i \in 1 .. Len(chainTree) : chainTree'[i] = chainTree[i]
          /\ chainTree'[Len(chainTree) + 1] = leaf
        BY <2>1, <2>2, <2>3, LenProperties, AppendProperties
    <2>5. \A i \in DOMAIN chainTree' : chainTree'[i].owner = External
                \/ (i \in DOMAIN chainTree /\ chainTree'[i] = chainTree[i])
        BY <2>1, <2>3, <2>4
    <2> QED
        BY <1>0, <2>2, <2>5, NothingHanded
<1>6. CASE UNCHANGED vars
    <2>1. chainTree' = chainTree /\ node' = node /\ mail' = mail /\ tx' = tx
        BY <1>6 DEF vars, chainVars
    <2> QED
        BY <1>0, <2>1, NothingHanded
<1> QED
    BY <1>2, <1>3, <1>4, <1>5, <1>6 DEF Next

-----------------------------------------------------------------------------
(* Balances                                                                *)

(* FindAvailableStates leaves nothing out and returns nothing twice.       *)
LEMMA AvailableAll ==
    ASSUME Types, NEW p \in Parties, NoCopies(node[p].received)
    PROVE  /\ NoCopies(Available(p))
           /\ \A note \in HeldBy(p) :
                /\ note.owner = p
                /\ \E c \in node[p].confirmed : c.id = Commitment(note)
                /\ Nullifier(note) \notin SpentIn(p)
                /\ note \notin Locked(p)
                => \E i \in DOMAIN Available(p) : Available(p)[i] = note
<1> DEFINE notes == node[p].received
           IsAvailable(note) ==
                /\ note.owner = p
                /\ \E c \in node[p].confirmed : c.id = Commitment(note)
                /\ ~ \E s \in node[p].spent : s.id = Nullifier(note)
                /\ note \notin Locked(p)
           S == {i \in DOMAIN notes : IsAvailable(notes[i])}
<1>1. Available(p) = ElementsAt(notes, S)
    BY DEF Available
<1>2. notes \in Seq(Notes) /\ NoCopies(notes)
    BY DEF Types, Nodes
<1>3. \A k \in DOMAIN notes : IsAvailable(notes[k]) => k \in DOMAIN notes \cap S
    OBVIOUS
<1> HIDE DEF S, notes
<1> DEFINE found == ElementsAt(notes, S)
<1>4. NoCopies(found)
    BY <1>2, NoCopiesOfElements
<1>5. \A k \in DOMAIN notes \cap S : \E i \in DOMAIN found : found[i] = notes[k]
    <2>1. found = ElementsAt(notes, S)
        OBVIOUS
    <2> HIDE DEF found
    <2> QED
        BY <1>2, <2>1, ElementsAtElements
<1> HIDE DEF found
<1>6. ASSUME NEW note \in HeldBy(p), IsAvailable(note)
      PROVE  \E i \in DOMAIN found : found[i] = note
    <2>1. PICK k \in DOMAIN notes : note = notes[k]
        BY DEF HeldBy, notes
    <2> QED
        BY <1>3, <1>5, <1>6, <2>1
<1>7. Available(p) = found
    BY <1>1 DEF found
<1> QED
    BY <1>4, <1>6, <1>7 DEF SpentIn

(* The notes a settled node has available are the unspent leaves of its    *)
(* party, each once.                                                       *)
LEMMA HoldingsAreAvailable ==
    ASSUME IndInv, SettledInv, HandInv, NEW p \in Parties, Settled(p)
    PROVE  TotalValue(UnspentOf(p)) = TotalValue(Available(p))
<1> DEFINE notes == Available(p)
           n     == Len(notes)
           T     == {i \in DOMAIN chainTree : chainTree[i].owner = p /\ <<p, i - 1>> \notin published}
           pos   == [i \in 1 .. n |-> notes[i].leafIndex + 1]
<1>1. /\ Types /\ NodeInv(p) /\ chainTree \in Seq(Leaves) /\ Len(chainTree) \in Nat
      /\ DOMAIN chainTree = 1 .. Len(chainTree)
      /\ node[p].cursor = Len(log) /\ (\A m \in mail : m.to # p)
      /\ \A t \in TxIds : Sender(t) = p => ~Holds(t)
    BY LenProperties DEF IndInv, Types, Settled
<1>2. SpentIn(p) = published
    BY <1>1 DEF NodeInv, IndInv, ChainInv
<1>3. /\ notes \in Seq(Notes) /\ n \in Nat /\ DOMAIN notes = 1 .. n
      /\ \A i \in 1 .. n :
            /\ notes[i] \in Notes /\ notes[i].owner = p
            /\ Nullifier(notes[i]) \notin SpentIn(p)
            /\ notes[i] \in HeldBy(p) /\ \E c \in node[p].confirmed : c.id = Commitment(notes[i])
    <2>1. notes \in Seq(Notes)
        BY <1>1, AvailableFacts
    <2>2. n \in Nat /\ DOMAIN notes = 1 .. n
        BY <2>1, LenProperties
    <2> QED
        BY <1>1, <2>1, <2>2, AvailableFacts
<1>4. NoCopies(node[p].received)
    BY DEF HandInv, Once
<1>5. /\ NoCopies(notes)
      /\ \A note \in HeldBy(p) :
                /\ note.owner = p
                /\ \E c \in node[p].confirmed : c.id = Commitment(note)
                /\ Nullifier(note) \notin SpentIn(p)
                /\ note \notin Locked(p)
                => \E i \in DOMAIN notes : notes[i] = note
    BY <1>1, <1>4, AvailableAll
<1> HIDE DEF notes, n
<1>6. ASSUME NEW i \in 1 .. n
      PROVE  /\ pos[i] = notes[i].leafIndex + 1 /\ notes[i].leafIndex \in Nat
             /\ pos[i] \in 1 .. Len(chainTree) /\ chainTree[pos[i]] = Commitment(notes[i])
    <2>1. notes[i].leafIndex \in Nat /\ pos[i] = notes[i].leafIndex + 1
        BY <1>3 DEF Notes
    <2>2. IsMember(notes[i], chainTree)
        BY <1>3, ConfirmedNoteIsThere
    <2> HIDE DEF pos
    <2> QED
        BY <1>1, <2>1, <2>2 DEF IsMember
<1>7. pos \in [1 .. n -> 1 .. Len(chainTree)]
    BY <1>6
<1> HIDE DEF pos
<1>8. ASSUME NEW i \in 1 .. n, NEW j \in 1 .. n, pos[i] = pos[j]
      PROVE  i = j
    <2>1. /\ notes[i].leafIndex + 1 = notes[j].leafIndex + 1
          /\ notes[i].leafIndex \in Nat /\ notes[j].leafIndex \in Nat
          /\ Commitment(notes[i]) = Commitment(notes[j])
        BY <1>6, <1>8
    <2>2. notes[i] = notes[j]
        BY <1>3, <2>1, NotesAreValued
    <2> QED
        BY <1>3, <1>5, <2>2 DEF NoCopies
<1>9. /\ \A note : Commitment(note).owner = note.owner /\ Commitment(note).value = note.value
      /\ \A i \in 1 .. n : chainTree[pos[i]].owner = p /\ notes[i].value = chainTree[pos[i]].value
    <2>1. \A note : Commitment(note).owner = note.owner /\ Commitment(note).value = note.value
        BY DEF Commitment
    <2> QED
        BY <1>3, <1>6, <2>1
<1>10. (\A i \in 1 .. n : pos[i] \in T) /\ (\A x \in T : \E i \in 1 .. n : pos[i] = x)
    <2>1. ASSUME NEW i \in 1 .. n
          PROVE  pos[i] \in T
        <3>1. chainTree[pos[i]].owner = p
            BY <1>9
        <3>2. Nullifier(notes[i]) = <<p, pos[i] - 1>>
            <4>1. pos[i] - 1 = notes[i].leafIndex
                BY <1>6
            <4> QED
                BY <1>3, <4>1 DEF Nullifier
        <3> QED
            BY <1>1, <1>2, <1>3, <1>6, <3>1, <3>2
    <2>2. ASSUME NEW i \in T
          PROVE  \E j \in 1 .. n : pos[j] = i
        <3>1. /\ i \in DOMAIN chainTree /\ i \in Nat /\ chainTree[i].owner = p
              /\ <<p, i - 1>> \notin published
            BY <1>1
        <3>2. chainTree[i].random \in Randoms
            BY <3>1, PrivateTransactionsAssumption DEF HandInv, OtherLeaves
        <3> DEFINE t == chainTree[i].random[1]
        <3>3. t \in TxIds
            BY <3>2 DEF Randoms
        <3>4. /\ tx[t].pc = "mined"
              /\ \E k \in DOMAIN tx[t].outputs :
                    chainTree[i] = Commitment(tx[t].outputs[k]) /\ tx[t].outputs[k].leafIndex = i - 1
            BY <3>1, <3>2 DEF SettledInv, OwnLeaves
        <3>5. PICK k \in DOMAIN tx[t].outputs :
                chainTree[i] = Commitment(tx[t].outputs[k]) /\ tx[t].outputs[k].leafIndex = i - 1
            BY <3>4
        <3> DEFINE note == tx[t].outputs[k]
        <3>6. note.owner = p
            BY <3>1, <3>5 DEF Commitment
        <3>7. IsHanded(note)
            BY <3>3, <3>4, <3>6 DEF HandInv, Handed
        <3>8. note \in HeldBy(p)
            BY <1>1, <3>6, <3>7 DEF IsHanded
        <3>9. \E c \in node[p].confirmed : c.id = Commitment(note)
            <4>1. LeavesUpTo(log, node[p].cursor) = FirstLeaves(chainTree, Len(chainTree))
                BY <1>1 DEF IndInv, ChainInv
            <4>2. <<i - 1, chainTree[i]>> \in LeavesUpTo(log, node[p].cursor)
                BY <1>1, <3>1, <4>1 DEF FirstLeaves
            <4>3. \E c \in node[p].confirmed : c.id = chainTree[i]
                BY <1>1, <4>2 DEF NodeInv
            <4> QED
                BY <3>5, <4>3
        <3>10. Nullifier(note) \notin SpentIn(p)
            BY <1>2, <3>1, <3>5, <3>6 DEF Nullifier
        <3>11. note \notin Locked(p)
            BY <1>1 DEF Locked
        <3> HIDE DEF note, t
        <3>12. PICK j \in DOMAIN notes : notes[j] = note
            BY <1>5, <3>6, <3>8, <3>9, <3>10, <3>11
        <3>13. j \in 1 .. n /\ notes[j].leafIndex = i - 1
            BY <1>3, <3>5, <3>12 DEF note
        <3>14. pos[j] = i
            BY <1>6, <3>1, <3>13
        <3> QED
            BY <3>13, <3>14
    <2> HIDE DEF T
    <2> QED
        BY <2>1, <2>2
<1>11. UnspentOf(p) = ElementsAt(chainTree, T)
    BY DEF UnspentOf
<1> HIDE DEF T
<1>12. TotalValue(ElementsAt(chainTree, T)) = TotalValue(notes)
    <2>1. \A leaf \in Leaves : leaf.value \in Nat
        BY DEF Leaves
    <2>2. \A note \in Notes : note.value \in Nat
        BY NotesAreValued
    <2>3. Matches(pos, notes, chainTree, T)
        BY <1>7, <1>8, <1>9, <1>10 DEF n, Matches
    <2> QED
        BY <1>1, <1>3, <2>1, <2>2, <2>3, TotalOfMatching
<1> QED
    BY <1>11, <1>12 DEF notes

LEMMA SettledSpecHand ==
    ASSUME Discipline = "settled"
    PROVE  Spec => [](IndInv /\ SettledInv /\ HandInv)
<1>1. Init => HandInv
    BY InitHanded
<1>2. (IndInv /\ SettledInv) /\ HandInv /\ [Next]_vars => HandInv'
    BY NextHanded
<1> QED
    BY <1>1, <1>2, SettledSpecInv, PTL DEF Spec

(* A balance without the overflow flag is what the contract's tree holds   *)
(* for the party, whatever the notes of failed attempts, the change and    *)
(* the order in which notes and events came in, once nothing is on its way *)
(* to the node: every unspent leaf of the party is a note its node was     *)
(* given once, and counts once.                                            *)
THEOREM BalanceTheorem ==
    ASSUME Discipline = "settled"
    PROVE  Spec => []BalanceIsHoldings
<1>1. ASSUME IndInv, SettledInv, HandInv, NEW p \in Parties, Settled(p), ~AccountBalance(p).overflow
      PROVE  AccountBalance(p).total = TotalValue(UnspentOf(p))
    <2> DEFINE notes == Available(p)
               found == IF Len(notes) > BalanceLimit THEN SubSeq(notes, 1, BalanceLimit) ELSE notes
    <2>1. notes \in Seq(Notes) /\ Len(notes) \in Nat /\ BalanceLimit \in Nat
        BY <1>1, AvailableFacts, LenProperties, PrivateTransactionsAssumption DEF IndInv
    <2>2. AccountBalance(p).total = TotalValue(found) /\ Len(found) # BalanceLimit
        BY <1>1 DEF AccountBalance
    <2>3. TotalValue(UnspentOf(p)) = TotalValue(notes)
        BY <1>1, HoldingsAreAvailable
    <2>4. ~(Len(notes) > BalanceLimit)
        <3> SUFFICES ASSUME Len(notes) > BalanceLimit
                     PROVE  FALSE
            OBVIOUS
        <3>1. BalanceLimit \in 0 .. Len(notes) /\ \A note \in Notes : note.value \in Nat
            BY <2>1, NotesAreValued
        <3> HIDE DEF notes
        <3>2. Len(SubSeq(notes, 1, BalanceLimit)) = BalanceLimit
            BY <2>1, <3>1, TotalOfFirst
        <3> QED
            BY <2>2, <3>2
    <2> QED
        BY <2>2, <2>3, <2>4
<1>2. IndInv /\ SettledInv /\ HandInv => BalanceIsHoldings
    BY <1>1 DEF BalanceIsHoldings
<1> QED
    BY <1>2, SettledSpecHand, PTL

=============================================================================

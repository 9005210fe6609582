------------------------- MODULE PrivateTransactions -------------------------
(***************************************************************************)
(* The life of private transactions on several Paladin nodes that share    *)
(* one Railgun contract: a shield, transfer or unshield is assembled from  *)
(* the states of the sender's node, proved, submitted and mined, its notes *)
(* are handed to their owners, and every node learns of it from the        *)
(* contract's events.                                                      *)
(*                                                                         *)
(* One party lives on each node. A note is                                 *)
(*   [owner, value, random, leafIndex]                                     *)
(* and its commitment the same record without leafIndex: the position is   *)
(* not part of the hash. The nullifier is <<owner, leafIndex>>. Poseidon   *)
(* is free (two records are equal or they are different), the tree is the  *)
(* sequence of its leaves and the root of a tree is the tree.              *)
(***************************************************************************)
EXTENDS RailgunContract, CommitmentTree, NoteSelection

CONSTANTS
    Parties,        \* Paladin parties, one to a node
    External,       \* a "0zk" recipient who is no Paladin party
    ForeignTag,     \* what another wallet has in the field the id goes in
    Request,        \* the request of each Paladin transaction
    Discipline,     \* which transactions may overlap, see MayAssemble
    MaxInputs,      \* MAX_INPUT_COUNT
    BalanceLimit,   \* Limit(1000) of the query of balanceOf
    MaxBatch,       \* bound: events in a batch
    MaxAttempts,    \* bound: assemblies of one transaction
    MaxForeign      \* bound: commitments inserted by other wallets

TxIds == DOMAIN Request

Payments(t) == Request[t].transfers
Sender(t)   == Request[t].from

ASSUME PrivateTransactionsAssumption ==
    /\ NoTx \notin TxIds /\ ForeignTag \notin TxIds \cup {NoTx}
    /\ External \notin Parties
    /\ Discipline \in {"concurrent", "sequential", "settled"}
    /\ MaxInputs \in Nat \ {0} /\ BalanceLimit \in Nat \ {0} /\ MaxBatch \in Nat \ {0}
    /\ MaxAttempts \in Nat \ {0} /\ MaxForeign \in Nat
    /\ \A t \in TxIds :
        /\ Request[t].type \in {"shield", "transfer", "unshield"}
        /\ Sender(t) \in Parties
        /\ Payments(t) \in Seq([to : Parties \cup {External}, value : Nat \ {0}])
        /\ Len(Payments(t)) >= 1
        /\ Request[t].type # "transfer" => Len(Payments(t)) = 1

VARIABLES
    log,        \* events of the contract
    chainTree,  \* its commitments, by leaf position
    published,  \* its nullifiers
    roots,      \* the roots it accepts: its tree after every transaction
    foreign,    \* commitments other wallets inserted
    node,       \* what each party's node has stored
    mail,       \* notes on their way to their owner's node
    tx          \* how far each Paladin transaction has come

chainVars == <<log, chainTree, published, roots, foreign>>
vars      == <<chainVars, node, mail, tx>>

-----------------------------------------------------------------------------
(* Notes *)

NewNote(owner, value, random, leafIndex) ==
    [owner |-> owner, value |-> value, random |-> random, leafIndex |-> leafIndex]
Commitment(note) == [owner |-> note.owner, value |-> note.value, random |-> note.random]
Nullifier(note)  == <<note.owner, note.leafIndex>>

(* A transaction of a node holds its inputs until the node knows it to be  *)
(* complete.                                                               *)
InFlight(t) == tx[t].pc \in {"selected", "assembled", "signed", "submitted"}
(* Bug, as all operators named X_Y: the inputs are free again when the     *)
(* transaction is mined, before the node has its Nullified event.          *)
Holds_UntilMined(t) == InFlight(t)

Holds(t) == InFlight(t) \/ (tx[t].pc = "mined" /\ t \notin node[Sender(t)].completed)
Locked(p) == UNION {{tx[t].inputs[i] : i \in DOMAIN tx[t].inputs} :
                        t \in {u \in TxIds : Holds(u) /\ Sender(u) = p}}

(* Bug: the query does not ask for UseNullifiers.                          *)
Available_NullifiersIgnored(p) ==
    LET IsAvailable(note) ==
            /\ note.owner = p
            /\ \E c \in node[p].confirmed : c.id = Commitment(note)
            /\ note \notin Locked(p)
        notes == node[p].received
    IN  ElementsAt(notes, {i \in DOMAIN notes : IsAvailable(notes[i])})

(* FindAvailableStates with UseNullifiers: notes of the owner that are     *)
(* confirmed and whose nullifier, computed from the position the note      *)
(* claims, is not spent; without those a transaction of the same node      *)
(* holds that the node does not yet know to be complete. In the order the  *)
(* node received them.                                                     *)
Available(p) ==
    LET IsAvailable(note) ==
            /\ note.owner = p
            /\ \E c \in node[p].confirmed : c.id = Commitment(note)
            /\ ~ \E s \in node[p].spent : s.id = Nullifier(note)
            /\ note \notin Locked(p)
        notes == node[p].received
    IN  ElementsAt(notes, {i \in DOMAIN notes : IsAvailable(notes[i])})

(* balanceOf: one query, and a flag when it returned as many notes as it   *)
(* may.                                                                    *)
AccountBalance(p) ==
    LET notes == Available(p)
        found == IF Len(notes) > BalanceLimit THEN SubSeq(notes, 1, BalanceLimit) ELSE notes
    IN  [total |-> TotalValue(found), overflow |-> Len(found) = BalanceLimit]

Store(p, notes) == node' = [node EXCEPT ![p].received = @ \o notes]

-----------------------------------------------------------------------------
(* Assemble *)

(* "concurrent": no restriction. "sequential": nothing is inserted between *)
(* the assembly of a transaction and its mining, as the README of the      *)
(* integration tests assumes. "settled": and the assembling node has       *)
(* stored every event there is.                                            *)
MayAssemble(t) ==
    \/ Discipline = "concurrent"
    \/ /\ \A u \in TxIds : ~InFlight(u)
       /\ Discipline = "settled" => node[Sender(t)].cursor = Len(log)

MayInsert(tag) ==
    Discipline = "concurrent" \/ \A u \in TxIds \ {tag} : ~InFlight(u)

AmountOf(t) == TotalValue(Payments(t))

Idle(t) == tx[t].pc = "idle" /\ tx[t].attempt < MaxAttempts

(* First half of Assemble of a transfer or an unshield: select the inputs, *)
(* or answer REVERT.                                                       *)
PrepareInputs(t) ==
    LET notes    == Available(Sender(t))
        selected == SelectInputs(notes, AmountOf(t), MaxInputs)
    IN  /\ Request[t].type \in {"transfer", "unshield"}
        /\ Idle(t) /\ MayAssemble(t)
        /\ tx' = [tx EXCEPT
                ![t].pc      = IF selected.result = "ok" THEN "selected" ELSE "reverted",
                ![t].attempt = @ + 1,
                ![t].inputs  = SubSeq(notes, 1, selected.count)]
        /\ UNCHANGED <<chainVars, node, mail>>

Random(t, k) == <<t, tx[t].attempt, k>>

(* One note per recipient, at consecutive predicted positions.             *)
PaymentNotes(t, next) ==
    [k \in DOMAIN Payments(t) |->
        NewNote(Payments(t)[k].to, Payments(t)[k].value, Random(t, k), next + k - 1)]

(* Bug: the change of a transfer is forgotten.                             *)
OutputNotes_NoChange(t, next) ==
    LET change == TotalValue(tx[t].inputs) - AmountOf(t)
    IN  IF Request[t].type = "transfer"
        THEN PaymentNotes(t, next)
        ELSE <<NewNote(Sender(t), change, Random(t, 1), next)>>

(* Bug: the change is taken to be the first of the new leaves.             *)
OutputNotes_ChangeFirst(t, next) ==
    LET change == TotalValue(tx[t].inputs) - AmountOf(t)
        payments == IF Request[t].type = "transfer" THEN PaymentNotes(t, next) ELSE <<>>
    IN  Append(payments, NewNote(Sender(t), change, Random(t, Len(payments) + 1), next))

(* Bug: an unshield without change has no output.                          *)
OutputNotes_NoEmptyNote(t, next) ==
    LET change == TotalValue(tx[t].inputs) - AmountOf(t)
        payments == IF Request[t].type = "transfer" THEN PaymentNotes(t, next) ELSE <<>>
        k == Len(payments) + 1
    IN  IF change > 0
        THEN Append(payments, NewNote(Sender(t), change, Random(t, k), next + k - 1))
        ELSE payments

(* Change goes back to the sender: only if there is any for a transfer,    *)
(* always for an unshield, whose payee is no note.                         *)
OutputNotes(t, next) ==
    LET change == TotalValue(tx[t].inputs) - AmountOf(t)
        ChangeAt(k) == NewNote(Sender(t), change, Random(t, k), next + k - 1)
    IN  CASE Request[t].type = "transfer" /\ change > 0 ->
                Append(PaymentNotes(t, next), ChangeAt(Len(Payments(t)) + 1))
          [] Request[t].type = "transfer" /\ change <= 0 -> PaymentNotes(t, next)
          [] Request[t].type = "unshield" -> <<ChangeAt(1)>>

(* Second half: rebuild the tree, predict the positions of the outputs and *)
(* build the proving payload. The notes that stay with the sender are      *)
(* stored with the transaction.                                            *)
BuildTransaction(t) ==
    LET tree    == LoadTree(node[Sender(t)].treeLeaves)
        outputs == OutputNotes(t, Len(tree))
    IN  /\ tx[t].pc = "selected"
        /\ tx' = [tx EXCEPT ![t].pc = "assembled", ![t].outputs = outputs, ![t].root = tree]
        /\ UNCHANGED <<chainVars, node, mail>>

(* Assemble of a shield: no inputs and no proof.                           *)
AssembleShield(t) ==
    LET tree == LoadTree(node[Sender(t)].treeLeaves)
        note == NewNote(Payments(t)[1].to, AmountOf(t), <<t, tx[t].attempt + 1, 1>>, Len(tree))
    IN  /\ Request[t].type = "shield"
        /\ Idle(t) /\ MayAssemble(t)
        /\ tx' = [tx EXCEPT ![t].pc = "signed", ![t].attempt = @ + 1,
                            ![t].outputs = <<note>>, ![t].root = tree]
        /\ UNCHANGED <<chainVars, node, mail>>

-----------------------------------------------------------------------------
(* Sign, Prepare and the base ledger *)

(* The joinsplit circuit (external): every input is the leaf at its        *)
(* position under the root, and as much goes out as comes in.              *)
IsMember(note, tree) ==
    note.leafIndex < Len(tree) /\ tree[note.leafIndex + 1] = Commitment(note)
Provable(t) ==
    /\ \A i \in DOMAIN tx[t].inputs : IsMember(tx[t].inputs[i], tx[t].root)
    /\ TotalValue(tx[t].inputs) =
            TotalValue(tx[t].outputs) + (IF Request[t].type = "unshield" THEN AmountOf(t) ELSE 0)

(* A failed attempt is assembled again, from new states and new randoms.   *)
Retry(t) == tx' = [tx EXCEPT ![t].pc = "idle", ![t].inputs = <<>>, ![t].outputs = <<>>]

Sign(t) ==
    /\ tx[t].pc = "assembled"
    /\ IF Provable(t) THEN tx' = [tx EXCEPT ![t].pc = "signed"] ELSE Retry(t)
    /\ UNCHANGED <<chainVars, node, mail>>

OutputsFor(t, p) ==
    LET notes == tx[t].outputs
    IN  ElementsAt(notes, {i \in DOMAIN notes : notes[i].owner = p})

(* Bug: the recipients are left out of the distribution list.              *)
Dispatch_NotDistributed(t) ==
    /\ tx[t].pc = "signed"
    /\ tx' = [tx EXCEPT ![t].pc = "submitted"]
    /\ Store(Sender(t), OutputsFor(t, Sender(t)))
    /\ UNCHANGED <<chainVars, mail>>

(* The transaction is handed to the base ledger and its notes to their     *)
(* owners. An external recipient has no node to hand a note to.            *)
Dispatch(t) ==
    /\ tx[t].pc = "signed"
    /\ tx' = [tx EXCEPT ![t].pc = "submitted"]
    /\ Store(Sender(t), OutputsFor(t, Sender(t)))
    /\ mail' = mail \cup {[to |-> p, notes |-> OutputsFor(t, p)] :
                            p \in {q \in Parties \ {Sender(t)} : OutputsFor(t, q) # <<>>}}
    /\ UNCHANGED chainVars

ReceiveNotes(m) ==
    /\ m \in mail
    /\ mail' = mail \ {m}
    /\ Store(m.to, m.notes)
    /\ UNCHANGED <<chainVars, tx>>

Inserts(notes) == [i \in DOMAIN notes |-> Commitment(notes[i])]
SpentBy(t) == {Nullifier(tx[t].inputs[i]) : i \in DOMAIN tx[t].inputs}

(* The contract rejects an unknown root and a used nullifier.              *)
Accepted(t) == Request[t].type # "shield" =>
                    tx[t].root \in roots /\ SpentBy(t) \cap published = {}

Mine(t) ==
    LET leaves == Inserts(tx[t].outputs)
    IN  /\ tx[t].pc = "submitted" /\ MayInsert(t) /\ Accepted(t)
        /\ log' = log \o (IF Request[t].type = "shield"
                          THEN ShieldEvents(Len(log), t, Len(chainTree), leaves, "ok")
                          ELSE TransactEvents(Len(log), t, Len(chainTree), SpentBy(t), leaves,
                                              Request[t].type = "unshield"))
        /\ chainTree' = chainTree \o leaves
        /\ published' = published \cup SpentBy(t)
        /\ roots' = roots \cup {chainTree'}
        /\ tx' = [tx EXCEPT ![t].pc = "mined"]
        /\ UNCHANGED <<foreign, node, mail>>

(* The base ledger may refuse for reasons of its own (the token contract,  *)
(* the gas). IsBaseLedgerRevertRetryable calls every revert retryable.     *)
BaseLedgerRevert(t) ==
    /\ tx[t].pc = "submitted" /\ tx[t].attempt < MaxAttempts
    /\ Retry(t)
    /\ UNCHANGED <<chainVars, node, mail>>

(* Another wallet shields into the same contract.                          *)
ForeignShield ==
    LET leaf == [owner |-> External, value |-> 1, random |-> <<ForeignTag, foreign>>]
    IN  /\ foreign < MaxForeign /\ MayInsert(NoTx)
        /\ foreign' = foreign + 1
        /\ log' = log \o ShieldEvents(Len(log), ForeignTag, Len(chainTree), <<leaf>>, "ok")
        /\ chainTree' = Append(chainTree, leaf)
        /\ roots' = roots \cup {chainTree'}
        /\ UNCHANGED <<published, node, mail, tx>>

-----------------------------------------------------------------------------
(* Events *)

DeliverBatch(p, n) ==
    LET res == HandleEventBatch(SubSeq(log, node[p].cursor + 1, node[p].cursor + n))
    IN  /\ node[p].cursor + n <= Len(log)
        /\ node' = [node EXCEPT
                ![p].cursor     = @ + n,
                ![p].confirmed  = @ \cup res.confirmed,
                ![p].treeLeaves = @ \cup res.newStates,
                ![p].spent      = @ \cup res.spent,
                ![p].completed  = @ \cup res.complete]
        /\ UNCHANGED <<chainVars, mail, tx>>

-----------------------------------------------------------------------------
Init ==
    /\ log = <<>> /\ chainTree = <<>> /\ published = {} /\ roots = {<<>>} /\ foreign = 0
    /\ node = [p \in Parties |->
                [cursor |-> 0, received |-> <<>>, confirmed |-> {}, treeLeaves |-> {},
                 spent |-> {}, completed |-> {}]]
    /\ mail = {}
    /\ tx = [t \in TxIds |->
                [pc |-> "idle", attempt |-> 0, inputs |-> <<>>, outputs |-> <<>>, root |-> <<>>]]

Advance(t) ==
    \/ PrepareInputs(t) \/ BuildTransaction(t) \/ AssembleShield(t)
    \/ Sign(t) \/ Dispatch(t) \/ Mine(t) \/ BaseLedgerRevert(t)

Deliver(p) == \E n \in 1 .. MaxBatch : DeliverBatch(p, n)

Next ==
    \/ \E t \in TxIds : Advance(t)
    \/ \E m \in mail : ReceiveNotes(m)
    \/ \E p \in Parties : Deliver(p)
    \/ ForeignShield

Spec == Init /\ [][Next]_vars

(* Every step a node or the base ledger can take is taken in the end.      *)
(* Reverts of the base ledger, other wallets and new requests are not      *)
(* forced.                                                                 *)
FairSpec ==
    /\ Spec
    /\ \A t \in TxIds :
        /\ WF_vars(PrepareInputs(t) \/ AssembleShield(t))
        /\ WF_vars(BuildTransaction(t) \/ Sign(t) \/ Dispatch(t))
        /\ WF_vars(Mine(t))
    /\ \A p \in Parties :
        /\ WF_vars(Deliver(p))
        /\ WF_vars(\E m \in mail : m.to = p /\ ReceiveNotes(m))

-----------------------------------------------------------------------------
(* Properties *)

Pcs == {"idle", "selected", "reverted", "assembled", "signed", "submitted", "mined"}

Notes == [owner : Parties \cup {External}, value : Nat,
          random : TxIds \X Nat \X Nat, leafIndex : Nat]

(* The type of the state of the nodes and of the transactions.             *)
TypeOK ==
    /\ \A p \in Parties :
        /\ node[p].cursor \in 0 .. Len(log)
        /\ node[p].received \in Seq(Notes)
        /\ node[p].completed \subseteq TxIds \cup {ForeignTag}
    /\ \A t \in TxIds :
        /\ tx[t].pc \in Pcs
        /\ tx[t].attempt \in 0 .. MaxAttempts
        /\ tx[t].inputs \in Seq(Notes) /\ tx[t].outputs \in Seq(Notes)
    /\ \A m \in mail : m.to \in Parties /\ m.notes \in Seq(Notes)
    /\ foreign \in 0 .. MaxForeign

HeldBy(p) == {node[p].received[i] : i \in DOMAIN node[p].received}
Positions(note) == {i \in DOMAIN chainTree : chainTree[i] = Commitment(note)}

(* types/states.go: the leaf index of a note is its position in the        *)
(* contract's tree, once the note is there.                                *)
LeafIndexIsPosition ==
    \A p \in Parties : \A note \in HeldBy(p) :
        \A i \in Positions(note) : note.leafIndex = i - 1

(* A transaction that has been assembled can be proved, whatever the node  *)
(* stored between the two halves of its assembly: its inputs are under     *)
(* its root at the positions their notes claim, and its sums balance.      *)
AssembledIsProvable == \A t \in TxIds : tx[t].pc = "assembled" => Provable(t)

(* What is submitted is accepted, with other transactions in flight and    *)
(* on a node that lags behind too: the root was the contract's at some     *)
(* time, and no input was spent before or is spent by another.             *)
SubmittedIsAccepted == \A t \in TxIds : tx[t].pc = "submitted" => Accepted(t)

(* The tree a node would build now is one the contract has had, however    *)
(* far behind the node is.                                                 *)
LoadedRootIsKnown == \A p \in Parties : LoadTree(node[p].treeLeaves) \in roots

SpentIn(p) == {s.id : s \in node[p].spent}

(* src/README.md: spends are detected through the nullifiers. A node       *)
(* counts a note of its party as spent exactly when the note at that       *)
(* position of the contract's tree has been spent in an event it stored.   *)
SpentIffNullified ==
    \A p \in Parties : \A note \in HeldBy(p) : \A i \in Positions(note) :
        note.owner = p =>
            (Nullifier(note) \in SpentIn(p)
                <=> <<p, i - 1>> \in NullifiersUpTo(log, node[p].cursor))

Settled(p) ==
    /\ node[p].cursor = Len(log)
    /\ \A m \in mail : m.to # p
    /\ \A t \in TxIds : Sender(t) = p => ~Holds(t)

UnspentOf(p) == ElementsAt(chainTree,
    {i \in DOMAIN chainTree : chainTree[i].owner = p /\ <<p, i - 1>> \notin published})

(* A balance without the overflow flag is what the contract's tree holds   *)
(* for the party once nothing is on its way to the node, notes of failed   *)
(* attempts notwithstanding.                                               *)
BalanceIsHoldings ==
    \A p \in Parties :
        Settled(p) /\ ~AccountBalance(p).overflow
            => AccountBalance(p).total = TotalValue(UnspentOf(p))

(* The owner of a note of a mined transaction can spend it in the end, or  *)
(* has already done so.                                                    *)
OwnersAreReached ==
    \A t \in TxIds : tx[t].pc = "mined" ~>
        \A i \in DOMAIN tx[t].outputs :
            LET note == tx[t].outputs[i]
            IN  note.owner \in Parties =>
                    \/ note \in HeldBy(note.owner)
                         /\ \E c \in node[note.owner].confirmed : c.id = Commitment(note)
                    \/ Nullifier(note) \in published

(* Every request is answered: its transaction is reported complete on the  *)
(* sender's node, or it is reverted for want of notes.                     *)
RequestsAreAnswered ==
    \A t \in TxIds : <>(tx[t].pc = "reverted" \/ t \in node[Sender(t)].completed)

=============================================================================

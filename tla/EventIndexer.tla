---------------------------- MODULE EventIndexer ----------------------------
(***************************************************************************)
(* One Paladin node indexing the events of one Railgun contract.           *)
(*                                                                         *)
(* The contract (external) appends the events of one on-chain transaction  *)
(* at a time to a log. The node's event stream hands the domain            *)
(* consecutive slices of the log of any length, so that a batch may end    *)
(* in the middle of an on-chain transaction, and after a restart it        *)
(* resumes from an earlier position and delivers events again, possibly    *)
(* cut into different batches. The domain answers each batch with          *)
(* HandleEventBatch and the node stores what it returns; a batch that ends *)
(* in an error is not stored, and is delivered again.                      *)
(***************************************************************************)
EXTENDS RailgunContract, CommitmentTree

CONSTANTS
    TxIds,          \* Paladin transactions
    ForeignTag,     \* what another wallet has in the field the id goes in
    Commitments,    \* note commitments, each inserted at most once
    Nullifiers,     \* nullifiers, each published at most once
    TreeCapacity,   \* leaves of one tree of the contract (2^MerkleDepth)
    ShieldDecoding, \* what may happen when a Shield event is decoded
    MaxBatch,       \* bound: events in a batch
    MaxRestarts     \* bound: restarts of the node

ASSUME EventIndexerAssumption ==
    /\ NoTx \notin TxIds
    /\ ForeignTag \notin TxIds \cup {NoTx}
    /\ TreeCapacity \in Nat
    /\ ShieldDecoding \subseteq Decodings \ {"malformed"}
    /\ MaxBatch \in Nat \ {0}
    /\ MaxRestarts \in Nat

VARIABLES
    log,            \* the events the contract emitted
    chainTree,      \* the leaves of the contract's current tree
    treeNumber,     \* how many trees it filled before
    cursor,         \* events delivered and stored since the last resumption
    indexed,        \* events stored at any time (the highest cursor)
    confirmed,      \* StateConfirm records: state id and transaction
    treeLeaves,     \* tree-leaf states
    spent,          \* StateSpend records: nullifier and transaction
    completed,      \* transactions reported complete
    restarts        \* restarts so far

chainVars == <<log, chainTree, treeNumber>>
nodeVars  == <<cursor, indexed, confirmed, treeLeaves, spent, completed>>
vars      == <<chainVars, nodeVars, restarts>>

Tags == TxIds \cup {ForeignTag}

-----------------------------------------------------------------------------
(* The contract *)

Inserted  == UNION {{log[i].leaves[j] : j \in DOMAIN log[i].leaves} : i \in DOMAIN log}
Published == UNION {log[i].nullifiers : i \in DOMAIN log}
UsedTags  == {log[i].tag : i \in DOMAIN log} \ {ForeignTag}

Insert(leaves) ==
    /\ chainTree' = InsertLeaves(chainTree, leaves, TreeCapacity)
    /\ treeNumber' = treeNumber + (IF Rollover(chainTree, leaves, TreeCapacity) THEN 1 ELSE 0)

FreshLeaves(leaves) ==
    /\ \A i \in DOMAIN leaves : leaves[i] \in Commitments \ Inserted
    /\ \A i, j \in DOMAIN leaves : leaves[i] = leaves[j] => i = j

(* An on-chain transaction has the position of its first event as hash.    *)
MineShield(tag, leaves, decode) ==
    /\ tag \in Tags \ UsedTags
    /\ FreshLeaves(leaves) /\ leaves # <<>>
    /\ log' = log \o ShieldEvents(Len(log), tag, Position(chainTree, leaves, TreeCapacity),
                                  leaves, decode)
    /\ Insert(leaves)
    /\ UNCHANGED <<nodeVars, restarts>>

(* The domain's transactions always create a note; another wallet that     *)
(* unshields a whole note creates none.                                    *)
MineTransact(tag, nullifiers, leaves, unshields) ==
    /\ tag \in Tags \ UsedTags
    /\ nullifiers # {} /\ nullifiers \subseteq Nullifiers \ Published
    /\ FreshLeaves(leaves)
    /\ leaves = <<>> => tag = ForeignTag /\ unshields
    /\ log' = log \o TransactEvents(Len(log), tag, Position(chainTree, leaves, TreeCapacity),
                                    nullifiers, leaves, unshields)
    /\ IF leaves = <<>> THEN UNCHANGED <<chainTree, treeNumber>> ELSE Insert(leaves)
    /\ UNCHANGED <<nodeVars, restarts>>

-----------------------------------------------------------------------------
(* The node *)

DeliverBatch(n) ==
    LET res == HandleEventBatch(SubSeq(log, cursor + 1, cursor + n))
    IN  /\ n <= MaxBatch /\ cursor + n <= Len(log)
        /\ IF res.failed
           THEN UNCHANGED nodeVars
           ELSE /\ cursor' = cursor + n
                /\ indexed' = IF cursor + n > indexed THEN cursor + n ELSE indexed
                /\ confirmed' = confirmed \cup res.confirmed
                /\ treeLeaves' = treeLeaves \cup res.newStates
                /\ spent' = spent \cup res.spent
                /\ completed' = completed \cup res.complete
        /\ UNCHANGED <<chainVars, restarts>>

(* The event stream resumes from a position it has saved.                  *)
Restart ==
    /\ restarts < MaxRestarts
    /\ restarts' = restarts + 1
    /\ cursor' \in 0 .. cursor
    /\ UNCHANGED <<chainVars, indexed, confirmed, treeLeaves, spent, completed>>

-----------------------------------------------------------------------------
Init ==
    /\ log = <<>> /\ chainTree = <<>> /\ treeNumber = 0
    /\ cursor = 0 /\ indexed = 0
    /\ confirmed = {} /\ treeLeaves = {} /\ spent = {} /\ completed = {}
    /\ restarts = 0

Mine ==
    \E tag \in Tags, leaves \in {<<>>} \cup [1 .. 1 -> Commitments] \cup [1 .. 2 -> Commitments] :
        \/ \E decode \in ShieldDecoding : MineShield(tag, leaves, decode)
        \/ \E nullifiers \in SUBSET Nullifiers, unshields \in BOOLEAN :
                MineTransact(tag, nullifiers, leaves, unshields)

Deliver == \E n \in 1 .. MaxBatch : DeliverBatch(n)

Next == Mine \/ Deliver \/ Restart

Spec == Init /\ [][Next]_vars

(* The event stream keeps delivering while events are left.                *)
FairSpec == Spec /\ WF_vars(Deliver)

-----------------------------------------------------------------------------
(* Properties *)

Events == EventsOver(Tags \cup {NoTx}, Commitments, Nullifiers)

(* The type of every variable; a position of the log for the two cursors.  *)
TypeOK ==
    /\ log \in Seq(Events)
    /\ chainTree \in Seq(Commitments)
    /\ treeNumber \in Nat
    /\ cursor \in 0 .. indexed /\ indexed \in 0 .. Len(log)
    /\ confirmed \subseteq [id : Commitments, tx : Tags \cup {NoTx}]
    /\ treeLeaves \subseteq [id : Nat \X Commitments, leafIndex : Nat, commitment : Commitments]
    /\ spent \subseteq [id : Nullifiers, tx : Tags \cup {NoTx}]
    /\ completed \subseteq Tags
    /\ restarts \in 0 .. MaxRestarts

(* As long as the contract fills its first tree, the tree a transaction    *)
(* rebuilds (loadTree) is the contract's tree as of the last event ever    *)
(* stored: no gap, no duplicate and no misplaced leaf, wherever batches    *)
(* were cut and whatever was delivered twice.                              *)
LoadedTreeIsContractTree ==
    treeNumber = 0 =>
        LoadTree(treeLeaves) = SubSeq(chainTree, 1, Cardinality(LeavesUpTo(log, indexed)))

(* A transaction is reported complete only when the node has all of its    *)
(* effects: whoever waited for the completion finds the inputs spent and   *)
(* the outputs confirmed, also when a batch ended in the middle of the     *)
(* on-chain transaction.                                                   *)
CompletionFollowsEffects ==
    \A i, j \in DOMAIN log :
        log[i].tag \in TxIds \cap completed /\ log[j].hash = log[i].hash =>
            /\ \A k \in DOMAIN log[j].leaves : \E c \in confirmed : c.id = log[j].leaves[k]
            /\ \A n \in log[j].nullifiers : \E s \in spent : s.id = n

(* No state is confirmed or spent in the name of a transaction that did    *)
(* not confirm or spend it; at worst the name is missing.                  *)
NeverAttributedToAnother ==
    /\ \A c \in confirmed, i \in DOMAIN log :
        c.id \in {log[i].leaves[k] : k \in DOMAIN log[i].leaves} => c.tx \in {log[i].tag, NoTx}
    /\ \A s \in spent, i, j \in DOMAIN log :
        s.id \in log[i].nullifiers /\ log[j].hash = log[i].hash /\ log[j].tag # NoTx
            => s.tx \in {log[j].tag, NoTx}

(* handler_events.go: the first pass lets every event of an on-chain       *)
(* transaction, Nullified included, be processed with the transaction id.  *)
EveryEventAttributed ==
    \A s \in spent, i, j \in DOMAIN log :
        s.id \in log[i].nullifiers /\ log[j].hash = log[i].hash /\ log[j].tag # NoTx
            => s.tx = log[j].tag

(* An event the handlers fail on fails every batch it is in, for good.     *)
Poisoned == \E i \in DOMAIN log : log[i].decode = "unhashable"

(* Every transaction that is mined is reported complete in the end, an     *)
(* unshield, whose own event carries no id, included; unless an event      *)
(* blocks the stream.                                                      *)
MinedCompletes == \A tx \in TxIds : tx \in UsedTags ~> tx \in completed \/ Poisoned

(* The node's view is the effect of a prefix of the events, exactly once   *)
(* each, and never goes back.                                              *)
Replica == INSTANCE LedgerReplica WITH
    ledger  <- log,
    seen    <- indexed,
    leaves  <- {<<l.leafIndex, l.commitment>> : l \in treeLeaves},
    notes   <- {c.id : c \in confirmed},
    spent   <- {s.id : s \in spent},
    done    <- completed,
    Foreign <- {ForeignTag, NoTx}

ViewIsReplica == Replica!Spec

=============================================================================

---------------------------- MODULE LedgerReplica ----------------------------
(***************************************************************************)
(* What the event handling of the domain promises its node: a view of the  *)
(* contract that is always the exact effect of some prefix of the          *)
(* contract's events, each event counted once, and that only ever moves to *)
(* a longer prefix. Batches, redelivery and restarts are invisible.        *)
(***************************************************************************)
EXTENDS Integers, Sequences

VARIABLES
    ledger,     \* events of the contract
    seen,       \* length of the prefix the view reflects
    leaves,     \* positions and commitments known
    notes,      \* commitments confirmed
    spent,      \* nullifiers known to be used
    done        \* Paladin transactions known to be complete

vars == <<ledger, seen, leaves, notes, spent, done>>

CONSTANT Foreign    \* identifiers that are no Paladin transaction of the node

LeavesIn(log, n) ==
    UNION {{<<log[i].start + j - 1, log[i].leaves[j]>> : j \in DOMAIN log[i].leaves} : i \in 1 .. n}
NotesIn(log, n) == UNION {{log[i].leaves[j] : j \in DOMAIN log[i].leaves} : i \in 1 .. n}
SpentIn(log, n) == UNION {log[i].nullifiers : i \in 1 .. n}
DoneIn(log, n)  == {log[i].tag : i \in 1 .. n} \ Foreign

ViewOf(log, n) ==
    /\ leaves' = LeavesIn(log, n)
    /\ notes' = NotesIn(log, n)
    /\ spent' = SpentIn(log, n)
    /\ done' \ Foreign = DoneIn(log, n)

Init ==
    /\ ledger = <<>> /\ seen = 0
    /\ leaves = {} /\ notes = {} /\ spent = {} /\ done = {}

Publish ==
    /\ Len(ledger') > Len(ledger)
    /\ SubSeq(ledger', 1, Len(ledger)) = ledger
    /\ UNCHANGED <<seen, leaves, notes, spent, done>>

Learn ==
    /\ seen' \in seen + 1 .. Len(ledger)
    /\ ViewOf(ledger, seen')
    /\ UNCHANGED ledger

Next == Publish \/ Learn

Spec == Init /\ [][Next]_vars

=============================================================================

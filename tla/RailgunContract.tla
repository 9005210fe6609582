--------------------------- MODULE RailgunContract ---------------------------
(***************************************************************************)
(* The Railgun smart wallet, as far as the domain depends on it: which     *)
(* events a call emits, in which order, and where the contract puts new    *)
(* leaves. The contract is not part of the repository's Go code; this is   *)
(* what the event structures, the ABI and the integration tests assume.    *)
(***************************************************************************)
EXTENDS RailgunEvents

(* A new tree is begun when the current one has no room for all leaves.    *)
Rollover(tree, leaves, capacity) == Len(tree) + Len(leaves) > capacity
Position(tree, leaves, capacity) ==
    IF Rollover(tree, leaves, capacity) THEN 0 ELSE Len(tree)
InsertLeaves(tree, leaves, capacity) ==
    IF Rollover(tree, leaves, capacity) THEN leaves ELSE tree \o leaves

(* shield(): one Shield event.                                             *)
ShieldEvents(hash, tag, start, leaves, decode) ==
    <<[kind |-> "shield", hash |-> hash, tag |-> tag, start |-> start,
       leaves |-> leaves, nullifiers |-> {}, decode |-> decode]>>

(* transact(): Nullified, an Unshield if value leaves the pool, and a      *)
(* Transact if commitments were inserted. Only the last carries positions  *)
(* and ciphertexts; the others share its transaction hash.                 *)
TransactEvents(hash, tag, start, nullifiers, leaves, unshields) ==
    LET Untagged(kind, published) ==
            [kind |-> kind, hash |-> hash, tag |-> NoTx, start |-> 0,
             leaves |-> <<>>, nullifiers |-> published, decode |-> "ok"]
    IN  <<Untagged("nullified", nullifiers)>>
          \o (IF unshields THEN <<Untagged("unshield", {})>> ELSE <<>>)
          \o (IF leaves = <<>> THEN <<>>
              ELSE <<[kind |-> "transact", hash |-> hash, tag |-> tag, start |-> start,
                      leaves |-> leaves, nullifiers |-> {}, decode |-> "ok"]>>)

-----------------------------------------------------------------------------
(* To state properties of the events *)

EventsOver(tags, commitments, nullifiers) ==
    [kind : EventKinds, hash : Nat, tag : tags, start : Nat,
     leaves : Seq(commitments), nullifiers : SUBSET nullifiers, decode : Decodings]

(* Position and commitment of every leaf the first n events inserted, and  *)
(* the nullifiers they published.                                          *)
LeavesOf(ev) == {<<ev.start + j - 1, ev.leaves[j]>> : j \in DOMAIN ev.leaves}
LeavesUpTo(events, n) == UNION {LeavesOf(events[i]) : i \in 1 .. n}
NullifiersUpTo(events, n) == UNION {events[i].nullifiers : i \in 1 .. n}

=============================================================================

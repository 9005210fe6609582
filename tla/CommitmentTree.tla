--------------------------- MODULE CommitmentTree ---------------------------
(***************************************************************************)
(* The domain keeps no tree. It keeps a state per commitment, with the     *)
(* position the Shield or Transact event gave it, and rebuilds the tree    *)
(* from them whenever it assembles a transaction (loadTree).               *)
(*                                                                         *)
(* A tree is the sequence of its leaves. A stored leaf is a record with    *)
(* the fields leafIndex and commitment.                                    *)
(***************************************************************************)
EXTENDS Integers, Sequences, FiniteSets

LeavesAt(stored, i) == {s \in stored : s.leafIndex = i}

(* The loop of loadTree over the leaves sorted by position: it stops at a  *)
(* position no stored leaf has, and at the second leaf of one position.    *)
StopsAt(stored, n) ==
    \/ LeavesAt(stored, n) = {}
    \/ n > 0 /\ \E s, t \in LeavesAt(stored, n - 1) : s # t

(* The next free leaf index loadTree returns.                              *)
NextIndex(stored) ==
    CHOOSE n \in 0 .. Cardinality(stored) :
        /\ StopsAt(stored, n)
        /\ \A m \in 0 .. n - 1 : ~StopsAt(stored, m)

(* The tree it returns. Of two leaves at the last position it takes        *)
(* whichever the unstable sort put first.                                  *)
LoadTree(stored) ==
    [i \in 1 .. NextIndex(stored) |->
        (CHOOSE s \in LeavesAt(stored, i - 1) : TRUE).commitment]

=============================================================================

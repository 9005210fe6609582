---------------------------- MODULE MCProverCache ----------------------------
(* Three calls of Prove, two of them for the same circuit.                 *)
EXTENDS ProverCache

TwoCircuits == [c \in {"p1", "p2", "p3"} |-> IF c = "p3" THEN "01x02" ELSE "01x01"]

=============================================================================

---------------------------- MODULE NoteSelection ----------------------------
(***************************************************************************)
(* Which notes pay for a transfer or an unshield                           *)
(* (prepareInputsForTransfer): the oldest available notes of the sender,   *)
(* one after the other, until they cover the amount. Here over the whole   *)
(* sequence of available notes, oldest first; the pages the code reads it *)
(* in are those of AssemblyQueries.                                        *)
(***************************************************************************)
EXTENDS Integers, Sequences

(* The elements of seq at the positions in S, in their order: SelectSeq,   *)
(* written as a recursive function because proofs cannot expand SelectSeq. *)
ElementsAt(seq, S) ==
    LET at[k \in 0 .. Len(seq)] ==
            IF k = 0 THEN <<>>
            ELSE IF k \in S THEN Append(at[k - 1], seq[k]) ELSE at[k - 1]
    IN  at[Len(seq)]

(* The sum after each note, as the loop accumulates it.                    *)
RunningSum(notes) ==
    LET sum[k \in 0 .. Len(notes)] == IF k = 0 THEN 0 ELSE sum[k - 1] + notes[k].value
    IN  sum

TotalValue(notes) == RunningSum(notes)[Len(notes)]

Covers(notes, total) == {k \in 1 .. Len(notes) : RunningSum(notes)[k] >= total}

(* "ok" with the number of notes taken; "maxNotes" once the limit is       *)
(* reached without covering the amount; "insufficient" when the notes run  *)
(* out first.                                                              *)
SelectInputs(notes, total, maxInputs) ==
    LET enough == {k \in Covers(notes, total) : k <= maxInputs}
    IN  IF enough # {}
        THEN [result |-> "ok", count |-> CHOOSE k \in enough : \A j \in enough : k <= j]
        ELSE [result |-> IF Len(notes) >= maxInputs THEN "maxNotes" ELSE "insufficient",
              count  |-> 0]

=============================================================================

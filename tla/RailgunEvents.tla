---------------------------- MODULE RailgunEvents ----------------------------
(***************************************************************************)
(* What the Railgun domain makes of the on-chain events of a Railgun       *)
(* smart wallet: HandleEventBatch and the four event handlers, as          *)
(* operators from a batch of events to the state updates the domain        *)
(* returns to its Paladin node.                                            *)
(*                                                                         *)
(* An event is a record                                                    *)
(*   kind       "shield", "transact", "nullified" or "unshield"            *)
(*   hash       the on-chain transaction that emitted it                   *)
(*   tag        the field of the calldata the domain hides a Paladin       *)
(*              transaction id in (ShieldCiphertext[0].ShieldKey,          *)
(*              Ciphertext[0].AnnotationData); NoTx if there is none       *)
(*   start      StartPosition, the tree position of the first leaf         *)
(*   leaves     the commitments inserted from there on                     *)
(*   nullifiers the nullifiers published                                   *)
(*   decode     "ok", "malformed" (the JSON does not unmarshal) or         *)
(*              "unhashable" (a Shield preimage Poseidon rejects)          *)
(* A state update is a record; the lists of the response are sets, as the  *)
(* node stores states under their id.                                      *)
(***************************************************************************)
EXTENDS Integers, Sequences, FiniteSets

CONSTANT NoTx       \* the empty transaction id, "" in the code

EventKinds == {"shield", "transact", "nullified", "unshield"}
Decodings  == {"ok", "malformed", "unhashable"}

(* The identity of a tree-leaf state: Poseidon of the commitment and its   *)
(* position, so that the same leaf always has the same id.                 *)
TreeLeafStateID(leafIndex, commitment) == <<leafIndex, commitment>>

(* Operators named X_Y are X with a bug, never used by a specification:    *)
(* the runs are repeated with them to see that the properties notice.      *)

(* Bug: the first pass forgets the Transact events.                        *)
Correlates_ShieldsOnly(ev) == ev.kind = "shield" /\ ev.decode # "malformed" /\ ev.tag # NoTx

(* An event of the first pass of HandleEventBatch that carries an id.      *)
Correlates(ev) ==
    /\ ev.kind \in {"shield", "transact"}
    /\ ev.decode # "malformed"
    /\ ev.tag # NoTx

(* Bug: one id for the whole batch, whatever the hash.                     *)
TxCorrelation_AnyHash(batch, hash) ==
    LET tagged == {i \in DOMAIN batch : Correlates(batch[i])}
    IN  IF tagged = {}
        THEN NoTx
        ELSE batch[CHOOSE i \in tagged : \A j \in tagged : j <= i].tag

(* The id the first pass maps an on-chain hash to: the one of the last     *)
(* Shield or Transact event of the batch with that hash, or nothing.       *)
TxCorrelation(batch, hash) ==
    LET tagged == {i \in DOMAIN batch : Correlates(batch[i]) /\ batch[i].hash = hash}
    IN  IF tagged = {}
        THEN NoTx
        ELSE batch[CHOOSE i \in tagged : \A j \in tagged : j <= i].tag

NoUpdate == [confirmed |-> {}, newStates |-> {}, spent |-> {},
             complete |-> {}, failed |-> FALSE]

(* recordComplete: nothing for an event nobody's transaction id came with. *)
RecordComplete(txID) == {txID} \ {NoTx}

(* Bug: every leaf of an event at the position of the first.               *)
RecordCommitments_SamePosition(ev, txID) ==
    [NoUpdate EXCEPT
        !.confirmed = {[id |-> ev.leaves[i], tx |-> txID] : i \in DOMAIN ev.leaves},
        !.newStates = {[id |-> TreeLeafStateID(ev.start, ev.leaves[i]),
                        leafIndex |-> ev.start,
                        commitment |-> ev.leaves[i]] : i \in DOMAIN ev.leaves},
        !.complete  = RecordComplete(txID)]

(* Bug: positions counted within the event.                                *)
RecordCommitments_FromZero(ev, txID) ==
    [NoUpdate EXCEPT
        !.confirmed = {[id |-> ev.leaves[i], tx |-> txID] : i \in DOMAIN ev.leaves},
        !.newStates = {[id |-> TreeLeafStateID(i - 1, ev.leaves[i]),
                        leafIndex |-> i - 1,
                        commitment |-> ev.leaves[i]] : i \in DOMAIN ev.leaves},
        !.complete  = RecordComplete(txID)]

(* recordCommitment of every leaf of the event, then recordComplete.       *)
RecordCommitments(ev, txID) ==
    [NoUpdate EXCEPT
        !.confirmed = {[id |-> ev.leaves[i], tx |-> txID] : i \in DOMAIN ev.leaves},
        !.newStates = {[id |-> TreeLeafStateID(ev.start + i - 1, ev.leaves[i]),
                        leafIndex |-> ev.start + i - 1,
                        commitment |-> ev.leaves[i]] : i \in DOMAIN ev.leaves},
        !.complete  = RecordComplete(txID)]

(* Bug: confirms the notes but keeps no leaves.                            *)
HandleShieldEvent_NoLeaves(ev, txID) == [RecordCommitments(ev, txID) EXCEPT !.newStates = {}]

(* An unhashable preimage makes the handler return an error, and with it   *)
(* the batch: the node takes nothing of the response then, so what was     *)
(* recorded before the error is left out.                                  *)
HandleShieldEvent(ev, txID) ==
    IF ev.decode = "unhashable"
    THEN [NoUpdate EXCEPT !.failed = TRUE]
    ELSE RecordCommitments(ev, txID)

HandleTransactEvent(ev, txID) == RecordCommitments(ev, txID)

(* Bug: a spend no id is known for is dropped.                             *)
HandleNullifiedEvent_DropsUncorrelated(ev, txID) ==
    [NoUpdate EXCEPT !.spent = {[id |-> n, tx |-> txID] :
                                    n \in IF txID = NoTx THEN {} ELSE ev.nullifiers}]

HandleNullifiedEvent(ev, txID) ==
    [NoUpdate EXCEPT !.spent = {[id |-> n, tx |-> txID] : n \in ev.nullifiers}]

(* Bug: an unshield completes its transaction, known or not.               *)
HandleUnshieldEvent_Completes(ev, txID) == [NoUpdate EXCEPT !.complete = {txID}]

(* The Unshield handler only logs.                                         *)
HandleUnshieldEvent(ev, txID) == NoUpdate

(* One turn of the second pass. A handler that cannot decode its event     *)
(* logs and returns no error: the event is dropped.                        *)
HandleEvent(ev, txID) ==
    CASE ev.decode = "malformed"  -> NoUpdate
      [] ev.decode # "malformed" /\ ev.kind = "shield"    -> HandleShieldEvent(ev, txID)
      [] ev.decode # "malformed" /\ ev.kind = "transact"  -> HandleTransactEvent(ev, txID)
      [] ev.decode # "malformed" /\ ev.kind = "nullified" -> HandleNullifiedEvent(ev, txID)
      [] ev.decode # "malformed" /\ ev.kind = "unshield"  -> HandleUnshieldEvent(ev, txID)

HandleEventBatch(batch) ==
    LET updates == {HandleEvent(batch[i], TxCorrelation(batch, batch[i].hash)) :
                        i \in DOMAIN batch}
    IN  [confirmed |-> UNION {u.confirmed : u \in updates},
         newStates |-> UNION {u.newStates : u \in updates},
         spent     |-> UNION {u.spent : u \in updates},
         complete  |-> UNION {u.complete : u \in updates},
         failed    |-> \E u \in updates : u.failed]

=============================================================================

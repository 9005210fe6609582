------------------------------ MODULE Receipts ------------------------------
(***************************************************************************)
(* What a receipt tells (receipts.go): the net payments of a transaction,  *)
(* rebuilt from the states that were spent and confirmed in its name. A    *)
(* state is a record with its schema and, if it is a note, the note; an    *)
(* owner is a number, NoOwner what the code writes as "".                  *)
(***************************************************************************)
EXTENDS NoteSelection, FiniteSets, Functions

NoOwner == -1

FilterSchema(states, schema) == {s \in states : s.schema = schema}

(* In whatever order the states are summed.                                *)
TotalOf(states) ==
    LET order == CHOOSE f \in Injection(1 .. Cardinality(states), states) : TRUE
    IN  TotalValue([i \in DOMAIN order |-> order[i].note])

NoReceipt == [built |-> FALSE, transfers |-> {}]

(* Bug, as all operators named X_Y: change is a payment.                   *)
ReceiptTransfers_KeepsChange(inputs, outputs) ==
    LET from       == IF inputs = {} THEN NoOwner ELSE (CHOOSE s \in inputs : TRUE).note.owner
        To(owner)  == {s \in outputs : s.note.owner = owner}
        recipients == {s.note.owner : s \in {x \in outputs : x.note.value # 0}}
    IN  IF recipients = {} /\ from # NoOwner
        THEN {[from |-> from, to |-> NoOwner, amount |-> TotalOf(inputs)]}
        ELSE {[from |-> from, to |-> owner, amount |-> TotalOf(To(owner))] : owner \in recipients}

(* Inputs count for their one owner, outputs of that owner against him;    *)
(* all others are recipients. What is left of a transaction without        *)
(* recipients has left the pool.                                           *)
ReceiptTransfers(inputs, outputs) ==
    LET from       == IF inputs = {} THEN NoOwner ELSE (CHOOSE s \in inputs : TRUE).note.owner
        To(owner)  == {s \in outputs : s.note.owner = owner}
        fromAmount == TotalOf(inputs) - TotalOf(To(from))
        recipients == {s.note.owner : s \in {x \in outputs : x.note.value # 0}} \ {from}
    IN  IF \E s \in inputs : s.note.owner # from
        THEN {}
        ELSE IF recipients = {} /\ from # NoOwner /\ fromAmount > 0
        THEN {[from |-> from, to |-> NoOwner, amount |-> fromAmount]}
        ELSE {[from |-> from, to |-> owner, amount |-> TotalOf(To(owner))] : owner \in recipients}

(* A state the node does not have leaves the transaction without receipt.  *)
Receipt(unavailableStates, inputStates, outputStates) ==
    IF unavailableStates
    THEN NoReceipt
    ELSE [built |-> TRUE, transfers |-> ReceiptTransfers(FilterSchema(inputStates, "note"),
                                                         FilterSchema(outputStates, "note"))]

=============================================================================

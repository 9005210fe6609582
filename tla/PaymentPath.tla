---------------------------- MODULE PaymentPath ----------------------------
(***************************************************************************)
(* From an assembled request to the payees: Sign replaces the placeholder  *)
(* ciphertexts by notes encrypted to their owners, hashes the parameters   *)
(* they are part of and proves; Prepare makes the call; the contract       *)
(* emits events, in which wallets look for their notes; the parties of the *)
(* Paladin network are given theirs and have them confirmed by the events, *)
(* and the sender is given a receipt.                                      *)
(***************************************************************************)
EXTENDS Requests, NoteCiphertexts, RailgunContract, Receipts

CONSTANT TxId       \* the Paladin transaction

ASSUME PaymentPathAssumption == TxId # NoTx

VARIABLES
    cts,        \* the ciphertexts of the bound parameters
    next,       \* the first not yet encrypted
    bound,      \* the ciphertexts that were hashed into the proof
    events,     \* what the contract emitted
    held,       \* the notes the parties were given, under their ids
    indexed,    \* the state update the events brought
    receipt     \* of the transaction, once it is asked for

signVars == <<cts, next, bound>>
nodeVars == <<held, indexed, receipt>>
vars     == <<requestVars, signVars, events, nodeVars>>

Goes(from, to) ==
    /\ stage = from /\ stage' = to
    /\ UNCHANGED <<asked, request, notes, verifiers, inputs, outputs, answer>>

-----------------------------------------------------------------------------
(* The payload *)

Unshields == request.function = "unshield"

(* One ciphertext per commitment that becomes a leaf.                      *)
Placeholders(n) == [i \in 1 .. n |-> [ec |-> Placeholder, annotation |-> NoTx]]

BuildProvingPayload ==
    /\ AssembleTransact
    /\ cts' = Placeholders(Len(outputs') - (IF Unshields /\ outputs' # <<>> THEN 1 ELSE 0))
    /\ UNCHANGED <<next, bound, events, nodeVars>>

Random(k) == <<"random", k>>
Commitment(k) == <<outputs[k].owner, Random(k), outputs[k].value>>

-----------------------------------------------------------------------------
(* Sign *)

(* Bug: an output without viewing key is left alone altogether.            *)
EncryptedOutput_SkipsPlaceholder(out, i) ==
    IF out.encrypted
    THEN [ec |-> EncryptTransactNote(MasterKey[Sender], out.owner, out.viewing, Random(i), out.value),
          annotation |-> TxId]
    ELSE cts[i]

EncryptedOutput(out, i) ==
    IF out.encrypted
    THEN [ec |-> EncryptTransactNote(MasterKey[Sender], out.owner, out.viewing, Random(i), out.value),
          annotation |-> TxId]
    ELSE [cts[i] EXCEPT !.annotation = TxId]

(* One turn of the loop of encryptOutputCiphertext.                        *)
EncryptOutput ==
    /\ stage = "assembled"
    /\ next <= Len(cts) /\ next <= Len(outputs)
    /\ cts' = [cts EXCEPT ![next] = EncryptedOutput(outputs[next], next)]
    /\ next' = next + 1
    /\ UNCHANGED <<requestVars, bound, events, nodeVars>>

(* Bug: the parameters are hashed before the ciphertexts are made.         *)
Encrypted_Unchecked == TRUE
Encrypted == next > Len(cts)

BoundParamsHash ==
    /\ stage = "assembled" /\ cts # <<>> /\ bound = <<>>
    /\ Encrypted
    /\ bound' = cts
    /\ UNCHANGED <<requestVars, cts, next, events, nodeVars>>

(* The proof over the hash. The payload it was made from is what is        *)
(* returned, as it is then.                                                *)
Prove ==
    /\ Goes("assembled", "signed")
    /\ bound # <<>> /\ next > Len(cts)
    /\ UNCHANGED <<signVars, events, nodeVars>>

(* The three steps of Sign. Without a prover it fails, and the transaction *)
(* goes no further.                                                        *)
Sign == EncryptOutput \/ BoundParamsHash \/ Prove

(* A shield needs no proof and has no attestation.                         *)
PrepareTransaction ==
    /\ Enter(IF request.function = "shield" THEN "assembled" ELSE "signed", "prepared")
    /\ UNCHANGED <<asked, request, notes, verifiers, inputs, outputs, answer, signVars, events, nodeVars>>

-----------------------------------------------------------------------------
(* The contract and the nodes *)

Nullifier(k) == <<"nullifier", k>>

(* The contract hashes the parameters it is called with again.             *)
Mine ==
    LET leaves == [k \in DOMAIN outputs \ (IF Unshields THEN {Len(outputs)} ELSE {}) |-> Commitment(k)]
    IN  /\ Goes("prepared", "mined")
        /\ events' = IF request.function = "shield"
                     THEN ShieldEvents(0, TxId, 0, leaves, "ok")
                     ELSE TransactEvents(0, cts[1].annotation, 0, {Nullifier(k) : k \in DOMAIN inputs}, leaves, Unshields)
        /\ UNCHANGED <<signVars, nodeVars>>

(* A number as text, with all its digits or without leading zeros; some    *)
(* commitments begin with a zero. NoID is the empty text.                  *)
LeadingZero(commitment) == commitment[2] = Random(1)
To32ByteHex(commitment) == [number |-> commitment, padded |-> TRUE]
HexString0xPrefix(commitment) == [number |-> commitment, padded |-> ~LeadingZero(commitment)]
NoID == [number |-> <<>>, padded |-> FALSE]

StateID_LeftOut(commitment) == NoID         \* bug: left to the validation
StateID(commitment) == To32ByteHex(commitment)

(* validateStateHash: an id is compared as a number and kept as it is, a   *)
(* missing one is made.                                                    *)
Valid(commitment, id) == id = NoID \/ id.number = commitment
ValidatedID(commitment, id) == IF id = NoID THEN HexString0xPrefix(commitment) ELSE id

(* A party's node is given a note, validates and keeps it.                 *)
ReceiveNote(k) ==
    LET id == StateID(Commitment(k))
    IN  /\ stage \in {"prepared", "mined", "handled"}
        /\ Valid(Commitment(k), id)
        /\ \E name \in {to.name : to \in outputs[k].lookup} :
              held' = held \cup {[party |-> name, note |-> k, id |-> ValidatedID(Commitment(k), id)]}
        /\ UNCHANGED <<requestVars, signVars, events, indexed, receipt>>

HandleEvents ==
    /\ Goes("mined", "handled")
    /\ indexed' = HandleEventBatch(events)
    /\ UNCHANGED <<signVars, events, held, receipt>>

(* The states of the transaction, as the node hands them to the domain:    *)
(* those spent and those confirmed in its name, of any schema.             *)
InputStates ==
    {[schema |-> "note", id |-> s.id, note |-> inputs[s.id[2]]] :
        s \in {x \in indexed.spent : x.tx = TxId}}
OutputStates ==
    {[schema |-> "note", id |-> Commitment(k), note |-> outputs[k]] :
        k \in {x \in DOMAIN outputs : [id |-> Commitment(x), tx |-> TxId] \in indexed.confirmed}}
    \cup {[schema |-> "leaf", id |-> l.id] : l \in indexed.newStates}

BuildReceipt(unavailableStates) ==
    /\ stage = "handled" /\ TxId \in indexed.complete
    /\ receipt' = Receipt(unavailableStates, InputStates, OutputStates)
    /\ UNCHANGED <<requestVars, signVars, events, held, indexed>>

-----------------------------------------------------------------------------
Init ==
    /\ RequestInit
    /\ cts = <<>> /\ next = 1 /\ bound = <<>>
    /\ events = <<>> /\ held = {} /\ indexed = NoUpdate /\ receipt = NoReceipt

Request ==
    /\ Ask \/ ResolveVerifiers \/ InitTransaction \/ AssembleShield \/ InitCall \/ ExecCall
    /\ UNCHANGED <<signVars, events, nodeVars>>

Next ==
    \/ Request \/ BuildProvingPayload
    \/ Sign \/ PrepareTransaction
    \/ Mine \/ HandleEvents
    \/ \E k \in DOMAIN outputs : ReceiveNote(k)
    \/ \E unavailableStates \in BOOLEAN : BuildReceipt(unavailableStates)

Spec == Init /\ [][Next]_vars

-----------------------------------------------------------------------------
(* Properties *)

Published == stage \in {"mined", "handled"}
AllWallets == 0 .. Power(Base, KeyBytes) - 1
Chains == {AllChains} \cup [type : Bytes, id : 0 .. Power(Base, IdBytes) - 1]

(* Whom the client means to pay, as a master public key and a viewing key: *)
(* a party, the wallet whose address he wrote, or those that a text he was *)
(* given is an address of. A wallet has both keys.                         *)
MeansKeys(to, key, viewing) ==
    CASE to.kind = "party"  -> to.name \in Parties /\ MasterKey[to.name] = key /\ viewing = key
      [] to.kind = "wallet" -> to.address.key = key /\ to.address.viewing = viewing
      [] to.kind = "text"   -> to.text.viewing = viewing /\ \E chain \in Chains :
            to.text = EncodeRailgunAddress([key |-> key, viewing |-> viewing, chain |-> chain])
Means(to, wallet) == MeansKeys(to, wallet, wallet)

Change(k) == k = Len(asked.payments) + 1

(* A wallet's scan of a Transact event: the leaves that are commitments to *)
(* what it can decrypt, to itself, from the sender.                        *)
TheTransact == (CHOOSE i \in DOMAIN events : events[i].kind = "transact")
FoundBy(wallet) ==
    {i \in DOMAIN events[TheTransact].leaves :
        /\ Decrypts(wallet, cts[i].ec)
        /\ LET note == Decrypted(wallet, cts[i].ec)
           IN  /\ events[TheTransact].leaves[i] = <<wallet, note.random, note.value>>
               /\ XorKeys(note.encodedMPK, {wallet}) = {MasterKey[Sender]}}

(* proving.go: an external Railgun wallet can recover its notes by         *)
(* scanning. Whatever way a wallet was named, and whatever chain its       *)
(* address is scoped to, it finds exactly the notes of a transfer that     *)
(* were meant for it, the sender his change.                               *)
WalletsFindTheirNotes ==
    Published /\ request.function = "transfer" =>
        \A wallet \in AllWallets :
            FoundBy(wallet) =
                {k \in DOMAIN outputs : IF Change(k) THEN wallet = MasterKey[Sender]
                                        ELSE Means(asked.payments[k].to, wallet)}

(* The secrets of a note can be read by its owner's wallet only.           *)
OnlyTheOwnerReads ==
    \A wallet \in AllWallets, i \in 1 .. next - 1 :
        Decrypts(wallet, cts[i].ec) => wallet = outputs[i].viewing

(* The parameters that are submitted are those that were proved.           *)
SubmittedAsProved == Published /\ request.function # "shield" => bound = cts

(* Whatever its outputs, the domain finds the transaction id in the events *)
(* of a transaction.                                                       *)
EventsCarryTheTransaction == stage = "handled" => indexed.complete = {TxId}

(* The notes a party can spend once the events were handled: kept under an *)
(* id they confirm. They are those of the payments to the party by name    *)
(* and the change, and they are the party's.                               *)
Spendable(name) ==
    {h.note : h \in {x \in held : x.party = name /\ x.id \in {To32ByteHex(c.id) : c \in indexed.confirmed}}}
PartiesAreGivenTheirNotes ==
    stage = "handled" /\ (\A k \in DOMAIN outputs : outputs[k].lookup # {} => \E h \in held : h.note = k) =>
        \A name \in Parties :
            /\ Spendable(name) =
                 {k \in DOMAIN outputs :
                    IF request.function = "unshield" THEN k = 1 /\ name = Sender
                    ELSE IF Change(k) THEN name = Sender
                    ELSE asked.payments[k].to = Party(name)}
            /\ \A k \in Spendable(name) : outputs[k].owner = MasterKey[name]

(* receipts.go: the receipt reconstructs the net value transfers between   *)
(* owners. It names exactly the keys the client meant to pay, other than   *)
(* the sender's own, and what each was paid in all, whatever notes were    *)
(* spent for it and whatever change came back.                             *)
Payer == IF request.function = "shield" THEN NoOwner ELSE MasterKey[Sender]
PaidTo(key) ==
    TotalValue(ElementsAt(asked.payments,
        {i \in DOMAIN asked.payments : \E viewing \in AllWallets : MeansKeys(asked.payments[i].to, key, viewing)}))
Paid ==
    IF request.function = "unshield"
    THEN {[from |-> Payer, to |-> NoOwner, amount |-> TotalValue(asked.payments)]}
    ELSE {[from |-> Payer, to |-> key, amount |-> PaidTo(key)] :
            key \in {k \in AllWallets \ {Payer} : PaidTo(k) > 0}}
ReceiptTellsWhatWasPaid == receipt.built => receipt.transfers = Paid

=============================================================================

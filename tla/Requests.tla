------------------------------ MODULE Requests ------------------------------
(***************************************************************************)
(* How a request for a Railgun contract passes the domain's entry points:  *)
(* InitTransaction and AssembleTransaction for a transaction, InitCall and *)
(* ExecCall for a call. Each of them parses and validates the request anew *)
(* before it hands it to the handler of its function; between them the     *)
(* node resolves the parties the domain names to their addresses.          *)
(* PaymentPath goes on from there.                                         *)
(*                                                                         *)
(* Values are scaled down: CircuitRange stands for 2^120.                  *)
(***************************************************************************)
EXTENDS NoteSelection, AddressCodec, FiniteSets

CONSTANTS
    Parties,        \* the parties of the Paladin network
    MasterKey,      \* the master public key of each; it numbers the wallet
    Sender,         \* of the request, one of the parties
    ChainID,        \* of the domain
    CircuitRange,   \* MAX_TRANSFER_AMOUNT; note values are below it
    MaxInputs,      \* MAX_INPUT_COUNT
    BalanceLimit,   \* Limit(1000) of the balance
    Cases           \* what is asked for, and the available notes of the node

(* Whom a client may name: a party, a wallet by its address, a text he was *)
(* given, or (of an unshield) a public account.                            *)
Payees ==
    [kind : {"party"}, name : STRING] \cup [kind : {"wallet"}, address : Addresses]
        \cup [kind : {"text"}, text : Texts] \cup [kind : {"public"}]
Requested ==
    [entry : {"transaction", "call"}, function : STRING, wellFormed : BOOLEAN,
     signature : STRING, complete : BOOLEAN, payments : Seq([to : Payees, value : Nat])]

ASSUME RequestsAssumption ==
    /\ Parties \subseteq STRING /\ Sender \in Parties
    /\ MasterKey \in [Parties -> 0 .. Power(Base, KeyBytes) - 1]
    /\ \A p, q \in Parties : MasterKey[p] = MasterKey[q] => p = q
    /\ ChainID \in 0 .. Power(Base, IdBytes) - 1
    /\ MaxInputs \in Nat \ {0} /\ BalanceLimit \in Nat \ {0} /\ CircuitRange \in Nat
    /\ \A c \in Cases :
        /\ c.asked \in Requested
        /\ c.asked.function \in {"shield", "unshield", "balanceOf"} => Len(c.asked.payments) = 1
        /\ c.notes \in Seq([owner : Nat, value : 0 .. CircuitRange - 1])

VARIABLES
    asked,      \* the client's request, its payees as he means them
    request,    \* the request as it reaches the domain
    notes,      \* available notes, oldest first
    stage,      \* how far the request has come
    verifiers,  \* the parties the domain asks for, then their addresses
    inputs,     \* the notes it spends
    outputs,    \* the outputs of the assembled transaction
    answer      \* to a call

requestVars == <<asked, request, notes, stage, verifiers, inputs, outputs, answer>>

Transactional == {"shield", "transfer", "unshield"}     \* GetHandler
Callable      == {"balanceOf"}                          \* GetCallHandler
Interface     == Transactional \cup Callable            \* RailgunABI

Party(name)   == [kind |-> "party", name |-> name]
Text(text)    == [kind |-> "text", text |-> text]
From          == Party(Sender)

-----------------------------------------------------------------------------
(* The client writes the addresses of the wallets he pays *)

Wallets(r) == {r.payments[i].to.address : i \in {j \in DOMAIN r.payments : r.payments[j].to.kind = "wallet"}}

Ask ==
    /\ stage = "asked"
    /\ IF \A a \in Wallets(asked) : Encodable(a)
       THEN /\ request' = [asked EXCEPT !.payments =
                  [i \in DOMAIN asked.payments |->
                      LET p == asked.payments[i]
                      IN  IF p.to.kind = "wallet"
                          THEN [p EXCEPT !.to = Text(EncodeRailgunAddress(p.to.address))]
                          ELSE p]]
            /\ stage' = "new"
       ELSE stage' = "unwritable" /\ UNCHANGED request
    /\ UNCHANGED <<asked, notes, verifiers, inputs, outputs, answer>>

-----------------------------------------------------------------------------
(* Validation *)

(* Bug: the sum is not checked.                                            *)
ValidTransferParams_SumUnchecked(payments) ==
    payments # <<>> /\ \A i \in DOMAIN payments : payments[i].value > 0
ValidTransferParams(payments) ==
    /\ payments # <<>>
    /\ \A i \in DOMAIN payments : payments[i].value > 0
    /\ TotalValue(payments) < CircuitRange

(* ValidateParams of the four handlers. A shield and an unshield have one  *)
(* value, a transfer any number, balanceOf none.                           *)
ValidParams(r) ==
    /\ r.complete
    /\ r.function = "transfer" => ValidTransferParams(r.payments)
    /\ r.function \in {"shield", "unshield"} => r.payments[1].value > 0

Handlers(entry) == IF entry = "transaction" THEN Transactional ELSE Callable

(* validateTransactionCommon. The test for a missing handler calls IsNil   *)
(* on the reflection of a nil interface, which panics; it is not reached   *)
(* for a function that is not in the ABI.                                  *)
Validated(r) ==
    CASE ~r.wellFormed -> "error"
      [] r.wellFormed /\ r.function \notin Interface -> "unknownFunction"
      [] r.wellFormed /\ r.function \in Interface \ Handlers(r.entry) -> "panic"
      [] r.wellFormed /\ r.function \in Handlers(r.entry) ->
            IF ValidParams(r) /\ r.signature = "ours" THEN "ok" ELSE "error"

Enter(from, to) ==
    /\ stage = from
    /\ stage' = IF Validated(request) = "ok" THEN to ELSE Validated(request)

-----------------------------------------------------------------------------
(* Parties and addresses *)

IsLiteral(to) == to.kind = "text" /\ IsRailgunAddress(to.text)

(* Init of the handlers: who has to be resolved. A literal address of a    *)
(* transfer is not; everywhere else it is taken for a party.               *)
RequiredVerifiers(r) ==
    LET payees == {r.payments[i].to : i \in DOMAIN r.payments}
    IN  CASE r.function = "transfer" -> {From} \cup {to \in payees : ~IsLiteral(to)}
          [] r.function = "unshield" -> {From}
          [] r.function \in {"shield", "balanceOf"} -> payees

InitRequest(entry) ==
    /\ request.entry = entry
    /\ Enter("new", "initialised")
    /\ verifiers' = IF stage' = "initialised" THEN RequiredVerifiers(request) ELSE {}
    /\ UNCHANGED <<asked, request, notes, inputs, outputs, answer>>

InitTransaction == InitRequest("transaction")
InitCall        == InitRequest("call")

(* GetVerifier of a party's node: the address of the party on our chain.   *)
RailgunAddress(name) ==
    EncodeRailgunAddress([key |-> MasterKey[name], viewing |-> MasterKey[name],
                          chain |-> [type |-> 0, id |-> ChainID]])

(* The node resolves the parties (external); nobody else can be.           *)
ResolveVerifiers ==
    /\ stage = "initialised"
    /\ IF \A lookup \in verifiers : lookup \in {Party(name) : name \in Parties}
       THEN /\ verifiers' = {[lookup |-> l, verifier |-> RailgunAddress(l.name)] : l \in verifiers}
            /\ stage' = "resolved"
       ELSE stage' = "unresolved" /\ UNCHANGED verifiers
    /\ UNCHANGED <<asked, request, notes, inputs, outputs, answer>>

ResolveAddress(lookup) ==
    DecodeRailgunAddress((CHOOSE v \in verifiers : v.lookup = lookup).verifier)

-----------------------------------------------------------------------------
(* Assembly *)

OwnedBy(key) == ElementsAt(notes, {i \in DOMAIN notes : notes[i].owner = key})

(* An output: whose it is, the viewing key it is encrypted to, and the     *)
(* party its note is given to, if any. The withdrawal of an unshield is no *)
(* note; its change has no viewing key in the payload.                     *)
Output(address, value, lookup, encrypted) ==
    [owner |-> address.key, viewing |-> address.viewing, value |-> value,
     lookup |-> lookup, encrypted |-> encrypted]

PaymentOutput(p) ==
    IF IsLiteral(p.to)
    THEN Output(DecodeRailgunAddress(p.to.text), p.value, {}, TRUE)
    ELSE Output(ResolveAddress(p.to), p.value, {p.to}, TRUE)

AssembleShield ==
    /\ request.function = "shield" /\ Enter("resolved", "assembled")
    /\ outputs' = <<Output(ResolveAddress(request.payments[1].to), request.payments[1].value,
                           {request.payments[1].to}, FALSE)>>
    /\ UNCHANGED <<asked, request, notes, verifiers, inputs, answer>>

(* Transfers and unshields. A bad literal is only noticed when the inputs  *)
(* have been found.                                                        *)
AssembleTransact ==
    LET sender   == ResolveAddress(From)
        total    == TotalValue(request.payments)
        selected == SelectInputs(OwnedBy(sender.key), total, MaxInputs)
        change   == RunningSum(OwnedBy(sender.key))[selected.count] - total
        payees   == {request.payments[i].to : i \in DOMAIN request.payments}
    IN  /\ request.function \in {"transfer", "unshield"} /\ stage = "resolved"
        /\ IF selected.result # "ok"
           THEN stage' = "reverted" /\ UNCHANGED <<inputs, outputs>>
           ELSE IF request.function = "transfer"
                   /\ \E to \in payees : IsLiteral(to) /\ ~Readable(to.text)
           THEN stage' = "error" /\ UNCHANGED <<inputs, outputs>>
           ELSE /\ Enter("resolved", "assembled")
                /\ inputs' = SubSeq(OwnedBy(sender.key), 1, selected.count)
                /\ outputs' =
                     IF request.function = "transfer"
                     THEN [i \in DOMAIN request.payments |-> PaymentOutput(request.payments[i])]
                            \o (IF change > 0 THEN <<Output(sender, change, {From}, TRUE)>> ELSE <<>>)
                     ELSE <<Output(sender, change, {From}, FALSE),
                            Output([key |-> -1, viewing |-> -1], total, {}, FALSE)>>
        /\ UNCHANGED <<asked, request, notes, verifiers, answer>>

-----------------------------------------------------------------------------
(* Calls *)

Overflow_Above(count) == count > BalanceLimit       \* bug: off by one
Overflow(count) == count = BalanceLimit

(* The query is limited and not sorted: if the account has more notes than *)
(* the limit, the node may return any of them.                             *)
ExecCall ==
    LET own == OwnedBy(ResolveAddress(request.payments[1].to).key)
    IN  /\ Enter("resolved", "answered")
        /\ request.entry = "call"
        /\ \E found \in SUBSET DOMAIN own :
              /\ Cardinality(found) = IF Len(own) < BalanceLimit THEN Len(own) ELSE BalanceLimit
              /\ answer' = [total |-> TotalValue([i \in DOMAIN own |->
                                         IF i \in found THEN own[i] ELSE [value |-> 0]]),
                            count |-> Cardinality(found), overflow |-> Overflow(Cardinality(found))]
        /\ UNCHANGED <<asked, request, notes, verifiers, inputs, outputs>>

-----------------------------------------------------------------------------
NoAnswer  == [total |-> 0, count |-> 0, overflow |-> FALSE]

RequestInit ==
    /\ \E c \in Cases : asked = c.asked /\ notes = c.notes
    /\ request = asked
    /\ stage = "asked" /\ verifiers = {} /\ inputs = <<>> /\ outputs = <<>> /\ answer = NoAnswer

-----------------------------------------------------------------------------
(* Properties *)

(* An address comes back as it was written: no chain id that is too large, *)
(* no key with leading zeros and no chain is read as another one. The last *)
(* chain of the last type is the one that is written like all chains.      *)
LastChain == [type |-> Base - 1, id |-> Power(Base, IdBytes) - 1]
WrittenIsRead(to, text) ==
    to.address.chain # LastChain => Readable(text) /\ DecodeRailgunAddress(text) = to.address

(* Addresses and texts belong together one to one (address.go): what a     *)
(* client wrote is read as he meant it, and a text that is paid is the one *)
(* its address is written as, so that nobody has two addresses and none of *)
(* another version or format is taken.                                     *)
OneTextPerAddress ==
    /\ stage = "new" =>
        \A i \in DOMAIN asked.payments :
            asked.payments[i].to.kind = "wallet" =>
                WrittenIsRead(asked.payments[i].to, request.payments[i].to.text)
    /\ stage = "assembled" /\ request.function = "transfer" =>
        \A i \in DOMAIN request.payments :
            LET to == request.payments[i].to
            IN  to.kind = "text" => to.text = EncodeRailgunAddress(DecodeRailgunAddress(to.text))

(* Every output of an assembled transfer is in the range of the circuit:   *)
(* each payment, though only their sum is checked, and the change, though  *)
(* the inputs together may be worth more than the range (the selection     *)
(* ends with the note that covers the amount).                             *)
TransferFitsTheCircuit ==
    stage = "assembled" /\ request.function = "transfer" =>
        \A i \in DOMAIN outputs : outputs[i].value < CircuitRange

(* A balance that is not flagged is of all notes of the account, and of no *)
(* others.                                                                 *)
BalanceIsWholeUnlessFlagged ==
    stage = "answered" /\ ~answer.overflow =>
        answer.total = TotalValue(OwnedBy(MasterKey[request.payments[1].to.name]))

=============================================================================

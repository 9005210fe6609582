---------------------------- MODULE MCPaymentPath ----------------------------
(* Bytes of two bits, keys and chain ids of two bytes; the sender, one     *)
(* other party and the wallets of the rest of the world.                   *)
EXTENDS PaymentPath

RailgunMask == <<2, 1, 0>>
Keys == [p \in {"s", "p"} |-> IF p = "s" THEN 1 ELSE 6]

Names    == {Party("s"), Party("p"), Party("stranger")}
Wallet(key, type, id) ==
    [kind |-> "wallet", address |-> [key |-> key, viewing |-> IF key \in AllWallets THEN key ELSE 0,
                                     chain |-> IF type = -1 THEN AllChains ELSE [type |-> type, id |-> id]]]
ByAddress == {Wallet(6, 0, 2), Wallet(11, -1, 0)}
Upper     == [EncodeRailgunAddress(Wallet(11, -1, 0).address) EXCEPT !.format.case = "upper"]

Pay(to, value) == [to |-> to, value |-> value]
Ask1(function, to, value) ==
    [entry |-> "transaction", function |-> function, wellFormed |-> TRUE, signature |-> "ours",
     complete |-> TRUE, payments |-> <<Pay(to, value)>>]

(* Transfers to one, two or three payees.                                  *)
Recipients == Names \cup ByAddress \cup {Text(Upper)}
Transfers ==
    {Ask1("transfer", to, value) : to \in Recipients, value \in {0, 1, 3, 4}}
    \cup {[Ask1("transfer", to, value) EXCEPT !.payments = Append(@, Pay(to2, value2))] :
            to, to2 \in Recipients, value, value2 \in {1, 3}}
    \cup {[Ask1("transfer", Wallet(6, 0, 2), 1) EXCEPT !.payments = @ \o <<Pay(to, 1), Pay(to2, 1)>>] :
            to, to2 \in {Party("s"), Party("p"), Wallet(11, -1, 0)}}

(* The right format, and those wrong in one way.                           *)
SomeFormats ==
    {Standard} \cup {[Standard EXCEPT !.hrp = "bc"], [Standard EXCEPT !.variant = "bech32"]}
               \cup {[Standard EXCEPT !.case = c] : c \in {"upper", "mixed"}}
               \cup {[Standard EXCEPT !.length = n] : n \in {"short", "long"}}
               \cup {[Standard EXCEPT !.version = v] : v \in {0, 2}}

(* Every address, and every text there is for a wallet's viewing key.      *)
EveryAddress ==
    {Ask1("transfer", Wallet(key, type, id), 1) : key \in 0 .. 17, type \in Bytes, id \in 0 .. 17}
    \cup {Ask1("transfer", Wallet(key, -1, 0), 1) : key \in 0 .. 17}
EveryText ==
    {Ask1("transfer", Text([format |-> f, key |-> key, nid |-> nid, viewing |-> 6]), 1) :
        f \in SomeFormats, key \in [1 .. KeyBytes -> Bytes], nid \in [1 .. IdBytes + 1 -> Bytes]}

Public == [kind |-> "public"]
Others ==
    {Ask1("shield", to, value) : to \in Names \cup ByAddress, value \in {0, 1, 6}}
    \cup {Ask1("unshield", Public, value) : value \in {0, 1, 3, 6}}

(* Requests that are wrong in some way, at both entry points.              *)
Entries ==
    {[Ask1(function, Party("s"), 1) EXCEPT !.entry = entry, !.wellFormed = wellFormed,
                                           !.signature = signature, !.complete = complete] :
        function \in {"shield", "transfer", "unshield", "balanceOf", "mint"},
        entry \in {"transaction", "call"}, wellFormed \in BOOLEAN, complete \in BOOLEAN,
        signature \in {"ours", "other"}}

Calls == {[Ask1("balanceOf", to, 0) EXCEPT !.entry = "call"] : to \in Names \cup ByAddress}

Note(owner, value) == [owner |-> owner, value |-> value]
NotesUpTo(n) == UNION {[1 .. k -> {Note(1, 2), Note(1, 3), Note(6, 3)}] : k \in 0 .. n}

SmallCases ==
    [asked : Transfers \cup Others \cup Calls, notes : NotesUpTo(3)]
    \cup [asked : EveryAddress \cup EveryText \cup Entries, notes : {<<Note(1, 2)>>}]

=============================================================================

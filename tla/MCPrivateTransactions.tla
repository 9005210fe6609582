----------------------- MODULE MCPrivateTransactions -----------------------
(* Small instances of PrivateTransactions: two parties who shield, pay     *)
(* each other and unshield.                                                *)
EXTENDS PrivateTransactions

Pay(to, value) == [to |-> to, value |-> value]
Shield(from, to, value) == [type |-> "shield", from |-> from, transfers |-> <<Pay(to, value)>>]
Transfer(from, payments) == [type |-> "transfer", from |-> from, transfers |-> payments]
Unshield(from, value) ==
    [type |-> "unshield", from |-> from, transfers |-> <<Pay(from, value)>>]

ParadeRequests == [t \in {"shieldA", "payBX", "unshieldB"} |->
    CASE t = "shieldA"   -> Shield("a", "a", 3)
      [] t = "payBX"     -> Transfer("a", <<Pay("b", 1), Pay("x", 1)>>)
      [] t = "unshieldB" -> Unshield("b", 1)]

OverlapRequests == [t \in {"shieldA", "shieldB", "unshieldA"} |->
    CASE t = "shieldA"   -> Shield("a", "a", 1)
      [] t = "shieldB"   -> Shield("b", "a", 1)
      [] t = "unshieldA" -> Unshield("a", 1)]

RaceRequests == [t \in {"shieldA", "shieldB", "payA", "unshieldA"} |->
    CASE t = "shieldA"   -> Shield("a", "a", 1)
      [] t = "shieldB"   -> Shield("b", "a", 1)
      [] t = "payA"      -> Transfer("a", <<Pay("b", 1)>>)
      [] t = "unshieldA" -> Unshield("a", 1)]

=============================================================================

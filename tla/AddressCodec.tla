---------------------------- MODULE AddressCodec ----------------------------
(***************************************************************************)
(* The "0zk" address codec (railgunnote/address.go): what one wallet       *)
(* writes and another reads. A byte has ByteBits bits, a master public key *)
(* KeyBytes bytes and a chain id IdBytes, so that small numbers reach the  *)
(* ends of every field.                                                    *)
(*                                                                         *)
(* A text is what bech32 (external) carries: how it is written, the bytes  *)
(* of the key and of the network, and the viewing key as one unit.         *)
(***************************************************************************)
EXTENDS Integers, Sequences

CONSTANTS
    ByteBits,       \* 8 in the code
    KeyBytes,       \* 32
    IdBytes,        \* 7
    Mask            \* "railgun" and a zero: IdBytes + 1 bytes

(* The powers of a number up to the n-th, as a recursive function because  *)
(* the provers do not know ^.                                              *)
Powers(base, n) ==
    LET power[i \in 0 .. n] == IF i = 0 THEN 1 ELSE base * power[i - 1]
    IN  power
Power(base, n) == Powers(base, n)[n]

Base  == Power(2, ByteBits)
Bytes == 0 .. Base - 1

ASSUME AddressCodecAssumption ==
    /\ ByteBits \in Nat \ {0} /\ KeyBytes \in Nat \ {0} /\ IdBytes \in Nat \ {0}
    /\ Mask \in [1 .. IdBytes + 1 -> Bytes]

AllChains == [type |-> -1, id |-> 0]        \* the nil chain
AllChainsNetworkID == [i \in 1 .. IdBytes + 1 |-> Base - 1]

(* How a text may be written: prefix, checksum, case, number of bytes and  *)
(* version. Everything but the one way is somebody else's.                 *)
Formats == [hrp : {"0zk", "bc"}, variant : {"bech32m", "bech32"}, case : {"lower", "upper", "mixed"},
            length : {"exact", "short", "long"}, version : Nat]
Standard == [hrp |-> "0zk", variant |-> "bech32m", case |-> "lower", length |-> "exact", version |-> 1]

Texts == [format : Formats, key : [1 .. KeyBytes -> Bytes], nid : [1 .. IdBytes + 1 -> Bytes],
          viewing : 0 .. Power(Base, KeyBytes) - 1]
Addresses == [key : Nat, viewing : 0 .. Power(Base, KeyBytes) - 1,
              chain : {AllChains} \cup [type : Bytes, id : Nat]]

(* A number shifted right by 0, 1, ... bytes, and the number the first     *)
(* bytes of a sequence make.                                               *)
Shifted(value, width) ==
    LET rest[i \in 0 .. width] == IF i = 0 THEN value ELSE rest[i - 1] \div Base
    IN  rest
Collected(digits) ==
    LET value[i \in 0 .. Len(digits)] ==
            IF i = 0 THEN 0 ELSE Base * value[i - 1] + digits[i]
    IN  value

(* Big-endian digits of a number, and back.                                *)
BigEndian(value, width) == [i \in 1 .. width |-> Shifted(value, width)[width - i] % Base]
FromBigEndian(digits) == Collected(digits)[Len(digits)]

(* Bug, as all operators named X_Y: the number of bits is not checked.     *)
ChainFits_Always(chain) == TRUE
ChainFits(chain) == chain.id < Power(Base, IdBytes)

ChainToNetworkID(chain) ==
    IF chain = AllChains
    THEN AllChainsNetworkID
    ELSE <<chain.type>> \o BigEndian(chain.id, IdBytes)

NetworkIDToChain(nid) ==
    IF nid = AllChainsNetworkID
    THEN AllChains
    ELSE [type |-> Head(nid), id |-> FromBigEndian(Tail(nid))]

(* The exclusive or of the last n bits of two bytes, bit by bit.           *)
Xor ==
    LET xor[n \in 0 .. ByteBits] ==
            [x \in Bytes |-> [y \in Bytes |->
                IF n = 0 THEN 0 ELSE 2 * xor[n - 1][x \div 2][y \div 2] + ((x + y) % 2)]]
    IN  xor
XorNetworkID(nid) == [i \in DOMAIN nid |-> Xor[ByteBits][nid[i]][Mask[i]]]

Encodable(address) == address.key < Power(Base, KeyBytes) /\ ChainFits(address.chain)

EncodeRailgunAddress(address) ==
    [format  |-> Standard,
     key     |-> BigEndian(address.key, KeyBytes),
     nid     |-> XorNetworkID(ChainToNetworkID(address.chain)),
     viewing |-> address.viewing]

(* A test by prefix: "0zk1", in lower case.                                *)
IsRailgunAddress(text) == text.format.hrp = "0zk" /\ text.format.case = "lower"

(* bech32 refuses mixed case and reads upper case like lower.              *)
Accepted == {Standard, [Standard EXCEPT !.case = "upper"]}
Readable_AnyVersion(text) ==            \* bug: another version is read as this one
    [text.format EXCEPT !.version = 1] \in Accepted
Readable(text) == text.format \in Accepted

DecodeRailgunAddress(text) ==
    [key     |-> FromBigEndian(text.key),
     chain   |-> NetworkIDToChain(XorNetworkID(text.nid)),
     viewing |-> text.viewing]

=============================================================================

-------------------------- MODULE PaymentPathProofs --------------------------
(***************************************************************************)
(* Theorems about PaymentPath, for every set of parties and wallets, bytes *)
(* of any number of bits, keys and chain ids of any number of bytes, any   *)
(* range of the circuit and limits, and every request with any number of   *)
(* payments over any notes.                                                *)
(***************************************************************************)
EXTENDS PaymentPath, DomainLemmas

-----------------------------------------------------------------------------
(* Recursion                                                               *)

(* A first value and a step from each value to the next make a sequence of *)
(* values.                                                                 *)
Climbs(f, first, step, m) == f[0] = first /\ \A k \in 1 .. m : f[k] = step[k][f[k - 1]]

LEMMA LevelsExist ==
    ASSUME NEW n \in Nat, NEW V, NEW first \in V, NEW step \in [1 .. n -> [V -> V]]
    PROVE  \E f \in [0 .. n -> V] : Climbs(f, first, step, n)
<1> DEFINE S == {m \in 0 .. n : \E f \in [0 .. m -> V] : Climbs(f, first, step, m)}
<1>1. 0 \in S
    <2> DEFINE f == [k \in 0 .. 0 |-> first]
    <2>1. f \in [0 .. 0 -> V] /\ Climbs(f, first, step, 0) /\ 0 \in 0 .. n
        BY DEF Climbs
    <2> HIDE DEF f
    <2> QED
        BY <2>1
<1>2. ASSUME NEW m \in 0 .. n - 1, m \in S
      PROVE  m + 1 \in S
    <2>1. PICK f \in [0 .. m -> V] : Climbs(f, first, step, m)
        BY <1>2
    <2> DEFINE g == [k \in 0 .. m + 1 |-> IF k = m + 1 THEN step[m + 1][f[m]] ELSE f[k]]
    <2>2. m \in 0 .. m /\ m + 1 \in 1 .. n /\ (m + 1) - 1 = m
        OBVIOUS
    <2>3. step[m + 1][f[m]] \in V
        BY <2>2
    <2>4. g \in [0 .. m + 1 -> V]
        BY <2>3
    <2>5. ASSUME NEW k \in 1 .. m + 1
          PROVE  g[k] = step[k][g[k - 1]]
        <3>1. k - 1 \in 0 .. m /\ g[k - 1] = f[k - 1]
            OBVIOUS
        <3>2. CASE k = m + 1
            <4>1. g[k] = step[m + 1][f[m]] /\ k - 1 = m
                BY <3>2
            <4> QED
                BY <3>1, <3>2, <4>1
        <3>3. CASE k # m + 1
            <4>1. k \in 1 .. m /\ g[k] = f[k]
                BY <3>3
            <4> QED
                BY <2>1, <3>1, <4>1 DEF Climbs
        <3> QED
            BY <3>2, <3>3
    <2>6. g[0] = first
        BY <2>1 DEF Climbs
    <2>7. Climbs(g, first, step, m + 1)
        BY <2>5, <2>6 DEF Climbs
    <2> HIDE DEF g
    <2> QED
        BY <2>2, <2>4, <2>7
<1>3. n \in S
    <2> HIDE DEF S
    <2>1. \A k \in 0 .. n : k \in S
        BY <1>1, <1>2, UpTo
    <2> QED
        BY <2>1
<1> QED
    BY <1>3

-----------------------------------------------------------------------------
(* Numbers and bytes                                                       *)

LEMMA PowersFacts ==
    ASSUME NEW base \in Nat \ {0}, NEW n \in Nat
    PROVE  /\ Powers(base, n)[0] = 1
           /\ \A k \in 0 .. n : Powers(base, n)[k] \in Nat \ {0}
           /\ \A k \in 1 .. n : Powers(base, n)[k] = base * Powers(base, n)[k - 1]
<1> DEFINE step == [k \in 1 .. n |-> [v \in Nat |-> base * v]]
           IsPower(f) == f = [k \in 0 .. n |-> IF k = 0 THEN 1 ELSE base * f[k - 1]]
           F == Powers(base, n)
           S == {k \in 0 .. n : F[k] \in Nat \ {0}}
<1>1. PICK f \in [0 .. n -> Nat] : f[0] = 1 /\ \A k \in 1 .. n : f[k] = step[k][f[k - 1]]
    <2> DEFINE V == Nat
               first == 1
    <2>1. first \in V /\ step \in [1 .. n -> [V -> V]]
        OBVIOUS
    <2> HIDE DEF V, first, step
    <2>2. \E f \in [0 .. n -> V] : Climbs(f, first, step, n)
        BY <2>1, LevelsExist
    <2> QED
        BY <2>2 DEF V, first, Climbs
<1>2. IsPower(f)
    <2>1. ASSUME NEW k \in 1 .. n PROVE f[k] = base * f[k - 1]
        <3>1. f[k - 1] \in Nat /\ f[k] = step[k][f[k - 1]]
            <4>1. k - 1 \in 0 .. n
                OBVIOUS
            <4> QED
                BY <1>1, <4>1
        <3> QED
            BY <3>1
    <2> QED
        BY <1>1, <2>1
<1>3. IsPower(F)
    BY <1>2 DEF Powers
<1>4. F[0] = 1 /\ \A k \in 1 .. n : F[k] = base * F[k - 1]
    <2> HIDE DEF F
    <2> QED
        BY <1>3
<1> HIDE DEF F
<1>5. \A k \in 0 .. n : k \in S
    <2>1. 0 \in S
        BY <1>4
    <2>2. ASSUME NEW k \in 0 .. n - 1, k \in S
          PROVE  k + 1 \in S
        <3>1. k + 1 \in 1 .. n /\ F[k + 1] = base * F[k]
            BY <1>4
        <3> QED
            BY <2>2, <3>1
    <2> HIDE DEF S
    <2> QED
        BY <2>1, <2>2, UpTo
<1> QED
    BY <1>4, <1>5 DEF F

LEMMA PowerFacts ==
    ASSUME NEW base \in Nat \ {0}, NEW n \in Nat
    PROVE  Power(base, n) \in Nat \ {0}
    BY PowersFacts DEF Power

LEMMA BaseFacts == Base \in Nat \ {0, 1}
<1>1. ByteBits \in Nat \ {0} /\ ByteBits \in 1 .. ByteBits /\ ByteBits - 1 \in 0 .. ByteBits
    BY AddressCodecAssumption
<1>2. /\ Powers(2, ByteBits)[ByteBits] = 2 * Powers(2, ByteBits)[ByteBits - 1]
      /\ Powers(2, ByteBits)[ByteBits - 1] \in Nat \ {0}
    BY <1>1, PowersFacts
<1> QED
    BY <1>2 DEF Base, Power

LEMMA DivideByBase ==
    ASSUME NEW x \in Nat
    PROVE  /\ x = (Base * (x \div Base)) + (x % Base)
           /\ x \div Base \in Nat /\ x % Base \in Bytes
           /\ \A p \in Nat : x < Base * p => x \div Base < p
    BY BaseFacts DEF Bytes

LEMMA AddDigit ==
    ASSUME NEW x \in Nat, NEW d \in Bytes
    PROVE  /\ (Base * x) + d \in Nat
           /\ ((Base * x) + d) \div Base = x /\ ((Base * x) + d) % Base = d
           /\ \A p \in Nat : x < p => (Base * x) + d < Base * p
    BY BaseFacts DEF Bytes

LEMMA ShiftedFacts ==
    ASSUME NEW value \in Nat, NEW n \in Nat
    PROVE  /\ Shifted(value, n)[0] = value
           /\ \A k \in 0 .. n : Shifted(value, n)[k] \in Nat
           /\ \A k \in 1 .. n : Shifted(value, n)[k] = Shifted(value, n)[k - 1] \div Base
<1> DEFINE step == [k \in 1 .. n |-> [v \in Nat |-> v \div Base]]
           IsShifted(f) == f = [k \in 0 .. n |-> IF k = 0 THEN value ELSE f[k - 1] \div Base]
           F == Shifted(value, n)
           S == {k \in 0 .. n : F[k] \in Nat}
<1>1. PICK f \in [0 .. n -> Nat] : f[0] = value /\ \A k \in 1 .. n : f[k] = step[k][f[k - 1]]
    <2> DEFINE V == Nat
               first == value
    <2>1. first \in V /\ step \in [1 .. n -> [V -> V]]
        BY DivideByBase
    <2> HIDE DEF V, first, step
    <2>2. \E f \in [0 .. n -> V] : Climbs(f, first, step, n)
        BY <2>1, LevelsExist
    <2> QED
        BY <2>2 DEF V, first, Climbs
<1>2. IsShifted(f)
    <2>1. ASSUME NEW k \in 1 .. n PROVE f[k] = f[k - 1] \div Base
        <3>1. f[k - 1] \in Nat /\ f[k] = step[k][f[k - 1]]
            <4>1. k - 1 \in 0 .. n
                OBVIOUS
            <4> QED
                BY <1>1, <4>1
        <3> QED
            BY <3>1
    <2> QED
        BY <1>1, <2>1
<1>3. IsShifted(F)
    BY <1>2 DEF Shifted
<1>4. F[0] = value /\ \A k \in 1 .. n : F[k] = F[k - 1] \div Base
    <2> HIDE DEF F
    <2> QED
        BY <1>3
<1> HIDE DEF F
<1>5. \A k \in 0 .. n : k \in S
    <2>1. 0 \in S
        BY <1>4
    <2>2. ASSUME NEW k \in 0 .. n - 1, k \in S
          PROVE  k + 1 \in S
        <3>1. k + 1 \in 1 .. n /\ F[k + 1] = F[k] \div Base
            BY <1>4
        <3>2. F[k] \div Base \in Nat
            BY <2>2, DivideByBase
        <3> QED
            BY <3>1, <3>2
    <2> HIDE DEF S
    <2> QED
        BY <2>1, <2>2, UpTo
<1> QED
    BY <1>4, <1>5 DEF F

LEMMA CollectedFacts ==
    ASSUME NEW n \in Nat, NEW digits \in [1 .. n -> Bytes]
    PROVE  /\ Len(digits) = n
           /\ Collected(digits)[0] = 0
           /\ \A k \in 0 .. n : Collected(digits)[k] \in Nat
           /\ \A k \in 1 .. n : Collected(digits)[k] = (Base * Collected(digits)[k - 1]) + digits[k]
<1> DEFINE step == [k \in 1 .. n |-> [v \in Nat |-> (Base * v) + digits[k]]]
           IsCollected(f) == f = [k \in 0 .. n |-> IF k = 0 THEN 0 ELSE (Base * f[k - 1]) + digits[k]]
           F == Collected(digits)
           S == {k \in 0 .. n : F[k] \in Nat}
<1>0. Len(digits) = n
    BY FunctionIsSequence
<1>1. PICK f \in [0 .. n -> Nat] : f[0] = 0 /\ \A k \in 1 .. n : f[k] = step[k][f[k - 1]]
    <2> DEFINE V == Nat
               first == 0
    <2>1. first \in V /\ step \in [1 .. n -> [V -> V]]
        BY AddDigit
    <2> HIDE DEF V, first, step
    <2>2. \E f \in [0 .. n -> V] : Climbs(f, first, step, n)
        BY <2>1, LevelsExist
    <2> QED
        BY <2>2 DEF V, first, Climbs
<1>2. IsCollected(f)
    <2>1. ASSUME NEW k \in 1 .. n PROVE f[k] = (Base * f[k - 1]) + digits[k]
        <3>1. f[k - 1] \in Nat /\ f[k] = step[k][f[k - 1]]
            <4>1. k - 1 \in 0 .. n
                OBVIOUS
            <4> QED
                BY <1>1, <4>1
        <3> QED
            BY <3>1
    <2> QED
        BY <1>1, <2>1
<1>3. IsCollected(F)
    BY <1>0, <1>2 DEF Collected
<1>4. F[0] = 0 /\ \A k \in 1 .. n : F[k] = (Base * F[k - 1]) + digits[k]
    <2> HIDE DEF F
    <2> QED
        BY <1>3
<1> HIDE DEF F
<1>5. \A k \in 0 .. n : k \in S
    <2>1. 0 \in S
        BY <1>4
    <2>2. ASSUME NEW k \in 0 .. n - 1, k \in S
          PROVE  k + 1 \in S
        <3>1. k + 1 \in 1 .. n /\ F[k + 1] = (Base * F[k]) + digits[k + 1]
            BY <1>4
        <3>2. F[k] \in Nat /\ digits[k + 1] \in Bytes
            BY <2>2, <3>1
        <3>3. (Base * F[k]) + digits[k + 1] \in Nat
            BY <3>2, AddDigit
        <3> QED
            BY <3>1, <3>3
    <2> HIDE DEF S
    <2> QED
        BY <2>1, <2>2, UpTo
<1> QED
    BY <1>0, <1>4, <1>5 DEF F

(* A number that fits is what its digits make: from the first digit on,    *)
(* what was collected is what a shift leaves.                              *)
LEMMA NumberFromItsDigits ==
    ASSUME NEW n \in Nat, NEW value \in 0 .. Power(Base, n) - 1
    PROVE  /\ BigEndian(value, n) \in [1 .. n -> Bytes]
           /\ FromBigEndian(BigEndian(value, n)) = value
<1> DEFINE rest == Shifted(value, n)
           power == Powers(Base, n)
           digits == BigEndian(value, n)
           sum == Collected(digits)
<1>0. value \in Nat /\ power[n] \in Nat \ {0} /\ value < power[n]
    BY BaseFacts, PowersFacts DEF Power
<1>1. /\ rest[0] = value
      /\ \A k \in 0 .. n : rest[k] \in Nat
      /\ \A k \in 1 .. n : rest[k] = rest[k - 1] \div Base
    BY <1>0, ShiftedFacts
<1>2. /\ power[0] = 1
      /\ \A k \in 0 .. n : power[k] \in Nat \ {0}
      /\ \A k \in 1 .. n : power[k] = Base * power[k - 1]
    BY BaseFacts, PowersFacts
<1>3. digits = [i \in 1 .. n |-> rest[n - i] % Base]
    BY DEF BigEndian
<1> HIDE DEF rest, power, digits
<1>4. digits \in [1 .. n -> Bytes]
    <2>1. ASSUME NEW i \in 1 .. n PROVE rest[n - i] % Base \in Bytes
        BY <1>1, DivideByBase
    <2> QED
        BY <1>3, <2>1
<1>5. /\ Len(digits) = n /\ sum[0] = 0
      /\ \A k \in 1 .. n : sum[k] = (Base * sum[k - 1]) + digits[k]
    BY <1>4, CollectedFacts
<1> HIDE DEF sum
<1>6. rest[n] = 0
    <2> DEFINE S == {k \in 0 .. n : rest[k] < power[n - k]}
    <2>1. 0 \in S
        BY <1>0, <1>1
    <2>2. ASSUME NEW k \in 0 .. n - 1, k \in S
          PROVE  k + 1 \in S
        <3>1. /\ k + 1 \in 1 .. n /\ (k + 1) - 1 = k
              /\ n - k \in 1 .. n /\ (n - k) - 1 = n - (k + 1) /\ n - (k + 1) \in 0 .. n
            OBVIOUS
        <3>2. rest[k + 1] = rest[k] \div Base /\ rest[k] < Base * power[n - (k + 1)]
            BY <1>1, <1>2, <2>2, <3>1
        <3> QED
            BY <1>1, <1>2, <3>1, <3>2, DivideByBase
    <2> HIDE DEF S
    <2>3. n \in S
        BY <2>1, <2>2, UpTo
    <2> QED
        BY <1>1, <1>2, <2>3 DEF S
<1>7. sum[n] = rest[0]
    <2> DEFINE S == {k \in 0 .. n : sum[k] = rest[n - k]}
    <2>1. 0 \in S
        BY <1>5, <1>6
    <2>2. ASSUME NEW k \in 0 .. n - 1, k \in S
          PROVE  k + 1 \in S
        <3>1. /\ k + 1 \in 1 .. n /\ (k + 1) - 1 = k
              /\ n - k \in 1 .. n /\ (n - k) - 1 = n - (k + 1) /\ n - (k + 1) \in 0 .. n
            OBVIOUS
        <3>2. sum[k + 1] = (Base * sum[k]) + digits[k + 1]
            BY <1>5, <3>1
        <3>3. sum[k] = rest[n - (k + 1)] \div Base
            BY <1>1, <2>2, <3>1
        <3>4. digits[k + 1] = rest[n - (k + 1)] % Base
            BY <1>3, <3>1
        <3> QED
            BY <1>1, <3>1, <3>2, <3>3, <3>4, DivideByBase
    <2> HIDE DEF S
    <2>3. n \in S
        BY <2>1, <2>2, UpTo
    <2> QED
        BY <2>3 DEF S
<1> QED
    BY <1>1, <1>4, <1>5, <1>7 DEF FromBigEndian, sum, digits

(* Digits are those of the number they make.                               *)
LEMMA DigitsFromTheirNumber ==
    ASSUME NEW n \in Nat, NEW digits \in [1 .. n -> Bytes]
    PROVE  /\ FromBigEndian(digits) \in 0 .. Power(Base, n) - 1
           /\ BigEndian(FromBigEndian(digits), n) = digits
<1> DEFINE sum == Collected(digits)
           value == sum[n]
           rest == Shifted(value, n)
           power == Powers(Base, n)
<1>1. /\ Len(digits) = n /\ sum[0] = 0
      /\ \A k \in 0 .. n : sum[k] \in Nat
      /\ \A k \in 1 .. n : sum[k] = (Base * sum[k - 1]) + digits[k]
    BY CollectedFacts
<1>2. /\ power[0] = 1
      /\ \A k \in 0 .. n : power[k] \in Nat \ {0}
      /\ \A k \in 1 .. n : power[k] = Base * power[k - 1]
    BY BaseFacts, PowersFacts
<1>3. value \in Nat
    BY <1>1
<1>4. /\ rest[0] = value
      /\ \A k \in 1 .. n : rest[k] = rest[k - 1] \div Base
    BY <1>3, ShiftedFacts
<1>5. BigEndian(value, n) = [i \in 1 .. n |-> rest[n - i] % Base]
    BY DEF BigEndian
<1>6. FromBigEndian(digits) = value
    BY <1>1 DEF FromBigEndian
<1> HIDE DEF rest, power
<1>7. sum[n] < power[n]
    <2> HIDE DEF sum
    <2> DEFINE S == {k \in 0 .. n : sum[k] < power[k]}
    <2>1. 0 \in S
        BY <1>1, <1>2
    <2>2. ASSUME NEW k \in 0 .. n - 1, k \in S
          PROVE  k + 1 \in S
        <3>1. k + 1 \in 1 .. n /\ (k + 1) - 1 = k
            OBVIOUS
        <3>2. sum[k + 1] = (Base * sum[k]) + digits[k + 1] /\ power[k + 1] = Base * power[k]
            BY <1>1, <1>2, <3>1
        <3>3. digits[k + 1] \in Bytes /\ sum[k] \in Nat /\ power[k] \in Nat
            BY <1>1, <1>2, <3>1
        <3> QED
            BY <2>2, <3>1, <3>2, <3>3, AddDigit
    <2> HIDE DEF S
    <2>3. \A k \in 0 .. n : k \in S
        BY <2>1, <2>2, UpTo
    <2> QED
        BY <2>3 DEF S
<1>8. \A k \in 0 .. n : rest[k] = sum[n - k]
    <2> DEFINE S == {k \in 0 .. n : rest[k] = sum[n - k]}
    <2>1. 0 \in S
        BY <1>4
    <2> HIDE DEF sum
    <2>2. ASSUME NEW k \in 0 .. n - 1, k \in S
          PROVE  k + 1 \in S
        <3>1. /\ k + 1 \in 1 .. n /\ (k + 1) - 1 = k
              /\ n - k \in 1 .. n /\ (n - k) - 1 = n - (k + 1) /\ n - (k + 1) \in 0 .. n
            OBVIOUS
        <3>2. rest[k + 1] = sum[n - k] \div Base
            BY <1>4, <2>2, <3>1
        <3>3. sum[n - k] = (Base * sum[n - (k + 1)]) + digits[n - k]
            BY <1>1, <3>1
        <3>4. digits[n - k] \in Bytes /\ sum[n - (k + 1)] \in Nat
            BY <1>1, <3>1
        <3>5. sum[n - k] \div Base = sum[n - (k + 1)]
            BY <3>3, <3>4, AddDigit
        <3> QED
            BY <3>1, <3>2, <3>5
    <2> HIDE DEF S
    <2>3. \A k \in 0 .. n : k \in S
        BY <2>1, <2>2, UpTo
    <2> QED
        BY <2>3 DEF S
<1>9. ASSUME NEW i \in 1 .. n
      PROVE  rest[n - i] % Base = digits[i]
    <2> HIDE DEF sum
    <2>1. n - i \in 0 .. n /\ n - (n - i) = i /\ i - 1 \in 0 .. n
        OBVIOUS
    <2>2. rest[n - i] = sum[i]
        BY <1>8, <2>1
    <2>3. sum[i] = (Base * sum[i - 1]) + digits[i] /\ sum[i - 1] \in Nat /\ digits[i] \in Bytes
        BY <1>1, <2>1
    <2> QED
        BY <2>2, <2>3, AddDigit
<1>10. BigEndian(value, n) = digits
    <2> HIDE DEF value
    <2> QED
        BY <1>5, <1>9
<1> QED
    BY <1>3, <1>6, <1>7, <1>10, PowerFacts, BaseFacts DEF power, Power

-----------------------------------------------------------------------------
(* The exclusive or of bytes                                               *)

Xors == [Bytes -> [Bytes -> Nat]]

LEMMA HalfAByte ==
    ASSUME NEW x \in Bytes, NEW y \in Bytes
    PROVE  /\ x \div 2 \in Bytes /\ x \in Nat /\ (x + y) % 2 \in 0 .. 1
           /\ x = (2 * (x \div 2)) + (x % 2)
    BY BaseFacts DEF Bytes

LEMMA XorFacts ==
    /\ \A k \in 0 .. ByteBits : Xor[k] \in Xors
    /\ \A x, y \in Bytes : Xor[0][x][y] = 0
    /\ \A k \in 1 .. ByteBits : \A x, y \in Bytes :
            Xor[k][x][y] = (2 * Xor[k - 1][x \div 2][y \div 2]) + ((x + y) % 2)
<1> DEFINE Twice(g) == [x \in Bytes |-> [y \in Bytes |-> (2 * g[x \div 2][y \div 2]) + ((x + y) % 2)]]
           first == [x \in Bytes |-> [y \in Bytes |-> 0]]
           step == [k \in 1 .. ByteBits |-> [g \in Xors |-> Twice(g)]]
           Body(f, n) == [x \in Bytes |-> [y \in Bytes |->
                IF n = 0 THEN 0 ELSE 2 * f[n - 1][x \div 2][y \div 2] + ((x + y) % 2)]]
           IsXor(f) == f = [n \in 0 .. ByteBits |-> Body(f, n)]
           S == {k \in 0 .. ByteBits : Xor[k] \in Xors}
<1>0. ByteBits \in Nat
    BY AddressCodecAssumption
<1>1. ASSUME NEW g \in Xors
      PROVE  Twice(g) \in Xors
    <2> SUFFICES ASSUME NEW x \in Bytes, NEW y \in Bytes
                 PROVE  (2 * g[x \div 2][y \div 2]) + ((x + y) % 2) \in Nat
        BY DEF Xors
    <2>1. x \div 2 \in Bytes /\ y \div 2 \in Bytes /\ (x + y) % 2 \in 0 .. 1
        BY HalfAByte
    <2>2. g[x \div 2][y \div 2] \in Nat
        BY <2>1 DEF Xors
    <2> QED
        BY <2>1, <2>2
<1>2. first \in Xors
    BY DEF Xors
<1>3. step \in [1 .. ByteBits -> [Xors -> Xors]]
    <2> HIDE DEF Twice
    <2> QED
        BY <1>1
<1>4. PICK f \in [0 .. ByteBits -> Xors] : Climbs(f, first, step, ByteBits)
    <2> HIDE DEF first, step
    <2> QED
        BY <1>0, <1>2, <1>3, LevelsExist
<1>5. \A k \in 0 .. ByteBits : f[k] = Body(f, k)
    <2> TAKE k \in 0 .. ByteBits
    <2>1. CASE k = 0
        BY <1>4, <2>1 DEF Climbs
    <2>2. CASE k # 0
        <3>1. k \in 1 .. ByteBits /\ k - 1 \in 0 .. ByteBits
            BY <1>0, <2>2
        <3>2. f[k] = step[k][f[k - 1]] /\ f[k - 1] \in Xors
            BY <1>4, <3>1 DEF Climbs
        <3>3. f[k] = Twice(f[k - 1])
            <4> HIDE DEF Twice
            <4> QED
                BY <3>1, <3>2
        <3> QED
            BY <2>2, <3>3
    <2> QED
        BY <2>1, <2>2
<1>6. IsXor(f)
    <2> HIDE DEF Body
    <2> QED
        BY <1>4, <1>5
<1>7. IsXor(Xor)
    <2>1. Xor = CHOOSE g : IsXor(g)
        BY DEF Xor
    <2> HIDE DEF IsXor
    <2> QED
        BY <1>6, <2>1
<1>8. \A k \in 0 .. ByteBits : Xor[k] = Body(Xor, k)
    <2> HIDE DEF Body
    <2> QED
        BY <1>7
<1>9. Xor[0] = first
    BY <1>0, <1>8
<1>10. ASSUME NEW k \in 1 .. ByteBits
       PROVE  Xor[k] = Twice(Xor[k - 1])
    <2>1. k \in 0 .. ByteBits /\ k # 0
        BY <1>0
    <2> QED
        BY <1>8, <2>1
<1>11. \A k \in 0 .. ByteBits : k \in S
    <2>1. 0 \in S
        BY <1>0, <1>2, <1>9
    <2>2. ASSUME NEW k \in 0 .. ByteBits - 1, k \in S
          PROVE  k + 1 \in S
        <3>1. k + 1 \in 1 .. ByteBits /\ (k + 1) - 1 = k /\ k + 1 \in 0 .. ByteBits
            BY <1>0
        <3> HIDE DEF Twice
        <3>2. Xor[k + 1] = Twice(Xor[k])
            BY <1>10, <3>1
        <3> QED
            BY <1>1, <2>2, <3>1, <3>2
    <2> HIDE DEF S
    <2> QED
        BY <1>0, <2>1, <2>2, UpTo
<1>12. \A x, y \in Bytes : Xor[0][x][y] = 0
    BY <1>9
<1>13. ASSUME NEW k \in 1 .. ByteBits, NEW x \in Bytes, NEW y \in Bytes
       PROVE  Xor[k][x][y] = (2 * Xor[k - 1][x \div 2][y \div 2]) + ((x + y) % 2)
    <2>1. \A g : Twice(g)[x][y] = (2 * g[x \div 2][y \div 2]) + ((x + y) % 2)
        OBVIOUS
    <2> HIDE DEF Twice
    <2> QED
        BY <1>10, <2>1
<1>14. \A k \in 0 .. ByteBits : Xor[k] \in Xors
    BY <1>11
<1> QED
    BY <1>12, <1>13, <1>14

LEMMA PowersGrow ==
    ASSUME NEW n \in Nat
    PROVE  \A k \in 0 .. n : Powers(2, n)[k] <= Powers(2, n)[n]
<1> DEFINE power == Powers(2, n)
           S == {k \in 0 .. n : power[n - k] <= power[n]}
<1>1. /\ \A k \in 0 .. n : power[k] \in Nat \ {0}
      /\ \A k \in 1 .. n : power[k] = 2 * power[k - 1]
    BY PowersFacts
<1> HIDE DEF power
<1>2. 0 \in S
    BY <1>1
<1>3. ASSUME NEW k \in 0 .. n - 1, k \in S
      PROVE  k + 1 \in S
    <2>1. /\ n - k \in 1 .. n /\ (n - k) - 1 = n - (k + 1)
          /\ n - (k + 1) \in 0 .. n /\ k + 1 \in 0 .. n
        OBVIOUS
    <2>2. power[n - k] = 2 * power[n - (k + 1)] /\ power[n - (k + 1)] \in Nat /\ power[n] \in Nat
        BY <1>1, <2>1
    <2> QED
        BY <1>3, <2>1, <2>2
<1>4. \A k \in 0 .. n : k \in S
    <2> HIDE DEF S
    <2> QED
        BY <1>2, <1>3, UpTo
<1>5. ASSUME NEW k \in 0 .. n
      PROVE  power[k] <= power[n]
    <2>1. n - k \in S /\ n - (n - k) = k
        BY <1>4
    <2> QED
        BY <2>1
<1> QED
    BY <1>5 DEF power

(* Masking a byte twice gives it back.                                     *)
LEMMA XorTwice ==
    ASSUME NEW x \in Bytes, NEW y \in Bytes
    PROVE  Xor[ByteBits][x][y] \in Bytes /\ Xor[ByteBits][Xor[ByteBits][x][y]][y] = x
<1> DEFINE power == Powers(2, ByteBits)
           Undone(k, a, b) == Xor[k][a][b] \in 0 .. power[k] - 1 /\ Xor[k][Xor[k][a][b]][b] = a
           S == {k \in 0 .. ByteBits : \A a, b \in Bytes : a < power[k] => Undone(k, a, b)}
<1>0. ByteBits \in Nat
    BY AddressCodecAssumption
<1>1. /\ power[0] = 1
      /\ \A k \in 0 .. ByteBits : power[k] \in Nat \ {0}
      /\ \A k \in 1 .. ByteBits : power[k] = 2 * power[k - 1]
    BY <1>0, PowersFacts
<1>2. Base = power[ByteBits] /\ \A k \in 0 .. ByteBits : power[k] <= Base
    BY <1>0, PowersGrow DEF Base, Power
<1> HIDE DEF power
<1>3. 0 \in S
    <2> SUFFICES ASSUME NEW a \in Bytes, NEW b \in Bytes, a < power[0]
                 PROVE  Undone(0, a, b)
        BY <1>0
    <2>1. a = 0
        BY <1>1 DEF Bytes
    <2> QED
        BY <1>1, <2>1, XorFacts
<1>4. ASSUME NEW k \in 0 .. ByteBits - 1, k \in S
      PROVE  k + 1 \in S
    <2>1. k + 1 \in 1 .. ByteBits /\ (k + 1) - 1 = k /\ k \in 0 .. ByteBits /\ k + 1 \in 0 .. ByteBits
        BY <1>0
    <2> SUFFICES ASSUME NEW a \in Bytes, NEW b \in Bytes, a < power[k + 1]
                 PROVE  Undone(k + 1, a, b)
        BY <2>1
    <2>2. power[k + 1] = 2 * power[k] /\ power[k] \in Nat /\ power[k + 1] <= Base
        BY <1>1, <1>2, <2>1
    <2>3. /\ a \div 2 \in Bytes /\ b \div 2 \in Bytes /\ a \in Nat /\ b \in Nat
          /\ a = (2 * (a \div 2)) + (a % 2)
        BY HalfAByte
    <2> DEFINE half == Xor[k][a \div 2][b \div 2]
               whole == Xor[k + 1][a][b]
    <2>4. half \in 0 .. power[k] - 1 /\ Xor[k][half][b \div 2] = a \div 2
        <3>1. a \div 2 < power[k]
            BY <2>2, <2>3
        <3> QED
            BY <1>4, <2>3, <3>1
    <2>5. whole = (2 * half) + ((a + b) % 2)
        BY <2>1, XorFacts
    <2> HIDE DEF half, whole
    <2>6. whole \in 0 .. power[k + 1] - 1 /\ whole \div 2 = half /\ whole % 2 = (a + b) % 2
        BY <2>2, <2>3, <2>4, <2>5
    <2>7. whole \in Bytes
        BY <2>2, <2>6, BaseFacts DEF Bytes
    <2>8. Xor[k + 1][whole][b] = (2 * (a \div 2)) + ((whole + b) % 2)
        <3>1. Xor[k + 1][whole][b] = (2 * Xor[k][whole \div 2][b \div 2]) + ((whole + b) % 2)
            BY <2>1, <2>7, XorFacts
        <3> QED
            BY <2>4, <2>6, <3>1
    <2>9. (whole + b) % 2 = a % 2
        BY <2>3, <2>6
    <2>10. Xor[k + 1][whole][b] = a
        BY <2>3, <2>8, <2>9
    <2> QED
        BY <2>6, <2>10 DEF whole
<1>5. ByteBits \in S
    <2> HIDE DEF S
    <2>1. \A k \in 0 .. ByteBits : k \in S
        BY <1>0, <1>3, <1>4, UpTo
    <2> QED
        BY <1>0, <2>1
<1>6. x < power[ByteBits]
    BY <1>2, BaseFacts DEF Bytes
<1> QED
    BY <1>2, <1>5, <1>6 DEF Bytes

NetworkIDs == [1 .. IdBytes + 1 -> Bytes]

LEMMA MaskTwice ==
    ASSUME NEW nid \in NetworkIDs
    PROVE  XorNetworkID(nid) \in NetworkIDs /\ XorNetworkID(XorNetworkID(nid)) = nid
<1> DEFINE masked == XorNetworkID(nid)
<1>1. \A i \in 1 .. IdBytes + 1 : nid[i] \in Bytes /\ Mask[i] \in Bytes
    BY AddressCodecAssumption DEF NetworkIDs
<1>2. masked = [i \in 1 .. IdBytes + 1 |-> Xor[ByteBits][nid[i]][Mask[i]]]
    BY DEF XorNetworkID, NetworkIDs
<1>3. \A i \in 1 .. IdBytes + 1 :
         Xor[ByteBits][nid[i]][Mask[i]] \in Bytes /\ Xor[ByteBits][Xor[ByteBits][nid[i]][Mask[i]]][Mask[i]] = nid[i]
    BY <1>1, XorTwice
<1>4. masked \in NetworkIDs
    BY <1>2, <1>3 DEF NetworkIDs
<1>5. XorNetworkID(masked) = [i \in 1 .. IdBytes + 1 |-> Xor[ByteBits][masked[i]][Mask[i]]]
    BY <1>4 DEF XorNetworkID, NetworkIDs
<1>6. XorNetworkID(masked) = nid
    BY <1>2, <1>3, <1>5 DEF NetworkIDs
<1> QED
    BY <1>4, <1>6

-----------------------------------------------------------------------------
(* Addresses                                                               *)

KeyNumbers == 0 .. Power(Base, KeyBytes) - 1
ChainIDs   == 0 .. Power(Base, IdBytes) - 1

LEMMA WidthFacts ==
    /\ KeyBytes \in Nat \ {0} /\ IdBytes \in Nat \ {0}
    /\ Power(Base, KeyBytes) \in Nat \ {0} /\ Power(Base, IdBytes) \in Nat \ {0}
    BY AddressCodecAssumption, PowerFacts, BaseFacts

(* The bytes of a network: the type, and the digits of the id.             *)
LEMMA NetworkOf ==
    ASSUME NEW type \in Bytes, NEW digits \in [1 .. IdBytes -> Bytes]
    PROVE  LET nid == <<type>> \o digits
           IN  nid \in NetworkIDs /\ Head(nid) = type /\ Tail(nid) = digits
<1> DEFINE nid == <<type>> \o digits
<1>0. IdBytes \in Nat \ {0}
    BY WidthFacts
<1>1. digits \in Seq(Bytes) /\ Len(digits) = IdBytes /\ <<type>> \in Seq(Bytes)
    BY <1>0, FunctionIsSequence
<1>2. /\ nid \in Seq(Bytes) /\ Len(nid) = IdBytes + 1
      /\ nid[1] = type /\ \A i \in 2 .. IdBytes + 1 : nid[i] = digits[i - 1]
    BY <1>0, <1>1, ConcatProperties
<1> HIDE DEF nid
<1>3. nid \in NetworkIDs
    BY <1>0, <1>2, LenProperties, ElementOfSeq DEF NetworkIDs
<1>4. nid # <<>> /\ Head(nid) = type
    BY <1>0, <1>2
<1>5. /\ Tail(nid) \in Seq(Bytes) /\ Len(Tail(nid)) = IdBytes
      /\ \A i \in 1 .. IdBytes : Tail(nid)[i] = nid[i + 1]
    BY <1>0, <1>2, <1>4, HeadTailProperties
<1>6. \A i \in 1 .. IdBytes : Tail(nid)[i] = digits[i]
    BY <1>0, <1>2, <1>5
<1>7. Tail(nid) = digits
    BY <1>1, <1>5, <1>6, SeqEqual
<1> QED
    BY <1>3, <1>4, <1>7 DEF nid

LEMMA NetworkBytes ==
    ASSUME NEW nid \in NetworkIDs
    PROVE  /\ Head(nid) \in Bytes /\ Tail(nid) \in [1 .. IdBytes -> Bytes]
           /\ <<Head(nid)>> \o Tail(nid) = nid
<1>0. IdBytes \in Nat \ {0}
    BY WidthFacts
<1>1. nid \in Seq(Bytes) /\ Len(nid) = IdBytes + 1 /\ nid # <<>>
    BY <1>0, FunctionIsSequence, EmptySeq DEF NetworkIDs
<1>2. /\ Head(nid) \in Bytes /\ Tail(nid) \in Seq(Bytes)
      /\ Len(Tail(nid)) = IdBytes /\ <<Head(nid)>> \o Tail(nid) = nid
    BY <1>0, <1>1, HeadTailProperties
<1>3. Tail(nid) \in [1 .. IdBytes -> Bytes]
    BY <1>0, <1>2, LenProperties, ElementOfSeq
<1> QED
    BY <1>2, <1>3

(* The chain of all bytes at their highest is the last one.                *)
LEMMA AllBytesHighest ==
    ASSUME NEW type \in Bytes, NEW id \in ChainIDs,
           <<type>> \o BigEndian(id, IdBytes) = AllChainsNetworkID
    PROVE  [type |-> type, id |-> id] = LastChain
<1> DEFINE digits == BigEndian(id, IdBytes)
           last == Power(Base, IdBytes) - 1
<1>0. IdBytes \in Nat \ {0} /\ Power(Base, IdBytes) \in Nat \ {0}
    BY WidthFacts
<1>1. digits \in [1 .. IdBytes -> Bytes] /\ FromBigEndian(digits) = id
    BY <1>0, NumberFromItsDigits DEF ChainIDs
<1>2. AllChainsNetworkID \in NetworkIDs
    BY BaseFacts DEF AllChainsNetworkID, NetworkIDs, Bytes
<1>3. type = Head(AllChainsNetworkID) /\ digits = Tail(AllChainsNetworkID)
    BY <1>1, NetworkOf
<1>4. Len(AllChainsNetworkID) = IdBytes + 1 /\ AllChainsNetworkID \in Seq(Bytes)
    BY <1>0, <1>2, FunctionIsSequence DEF NetworkIDs
<1>5. type = Base - 1
    BY <1>0, <1>3, <1>4 DEF AllChainsNetworkID
<1>6. \A i \in 1 .. IdBytes : digits[i] = Base - 1
    <2>1. AllChainsNetworkID # <<>>
        BY <1>0, <1>4, EmptySeq
    <2>2. \A i \in 1 .. IdBytes : Tail(AllChainsNetworkID)[i] = AllChainsNetworkID[i + 1]
        BY <1>0, <1>4, <2>1, HeadTailProperties
    <2> QED
        BY <1>0, <1>3, <2>2 DEF AllChainsNetworkID
<1> DEFINE sum == Collected(digits)
           power == Powers(Base, IdBytes)
           S == {k \in 0 .. IdBytes : sum[k] = power[k] - 1}
<1>7. /\ Len(digits) = IdBytes /\ sum[0] = 0
      /\ \A k \in 1 .. IdBytes : sum[k] = (Base * sum[k - 1]) + digits[k]
    BY <1>0, <1>1, CollectedFacts
<1>8. /\ power[0] = 1
      /\ \A k \in 0 .. IdBytes : power[k] \in Nat \ {0}
      /\ \A k \in 1 .. IdBytes : power[k] = Base * power[k - 1]
    BY <1>0, BaseFacts, PowersFacts
<1> HIDE DEF sum, power, digits
<1>9. IdBytes \in S
    <2>1. 0 \in S
        BY <1>0, <1>7, <1>8
    <2>2. ASSUME NEW k \in 0 .. IdBytes - 1, k \in S
          PROVE  k + 1 \in S
        <3>1. k + 1 \in 1 .. IdBytes /\ (k + 1) - 1 = k /\ k + 1 \in 0 .. IdBytes
            BY <1>0
        <3>2. sum[k + 1] = (Base * (power[k] - 1)) + (Base - 1) /\ power[k + 1] = Base * power[k]
            BY <1>6, <1>7, <1>8, <2>2, <3>1
        <3>3. power[k] \in Nat /\ Base \in Nat
            BY <1>0, <1>8, BaseFacts
        <3>4. (Base * (power[k] - 1)) + (Base - 1) = (Base * power[k]) - 1
            BY <3>3
        <3> QED
            BY <3>1, <3>2, <3>4
    <2> HIDE DEF S
    <2>3. \A k \in 0 .. IdBytes : k \in S
        BY <1>0, <2>1, <2>2, UpTo
    <2> QED
        BY <1>0, <2>3
<1>10. id = last
    BY <1>1, <1>7, <1>9 DEF FromBigEndian, sum, power, Power
<1> QED
    BY <1>5, <1>10 DEF LastChain

LEMMA NetworkOfChain ==
    ASSUME NEW chain, chain \in {AllChains} \cup [type : Bytes, id : ChainIDs]
    PROVE  /\ ChainToNetworkID(chain) \in NetworkIDs
           /\ chain # LastChain => NetworkIDToChain(ChainToNetworkID(chain)) = chain
<1>0. IdBytes \in Nat \ {0}
    BY WidthFacts
<1>1. CASE chain = AllChains
    <2>1. ChainToNetworkID(chain) = AllChainsNetworkID
        BY <1>1 DEF ChainToNetworkID
    <2>2. AllChainsNetworkID \in NetworkIDs
        BY BaseFacts DEF AllChainsNetworkID, NetworkIDs, Bytes
    <2> QED
        BY <1>1, <2>1, <2>2 DEF NetworkIDToChain
<1>2. CASE chain # AllChains
    <2>1. /\ chain.type \in Bytes /\ chain.id \in ChainIDs
          /\ chain = [type |-> chain.type, id |-> chain.id]
        BY <1>2
    <2> DEFINE digits == BigEndian(chain.id, IdBytes)
               nid == <<chain.type>> \o digits
    <2>2. digits \in [1 .. IdBytes -> Bytes] /\ FromBigEndian(digits) = chain.id
        BY <1>0, <2>1, NumberFromItsDigits DEF ChainIDs
    <2>3. nid \in NetworkIDs /\ Head(nid) = chain.type /\ Tail(nid) = digits
        BY <2>1, <2>2, NetworkOf
    <2>4. ChainToNetworkID(chain) = nid
        BY <1>2 DEF ChainToNetworkID
    <2>5. chain # LastChain => nid # AllChainsNetworkID
        BY <2>1, AllBytesHighest
    <2>6. chain # LastChain => NetworkIDToChain(nid) = [type |-> Head(nid), id |-> FromBigEndian(Tail(nid))]
        BY <2>5 DEF NetworkIDToChain
    <2> HIDE DEF nid, digits
    <2> QED
        BY <2>1, <2>2, <2>3, <2>4, <2>6
<1> QED
    BY <1>1, <1>2

LEMMA ChainOfNetwork ==
    ASSUME NEW nid \in NetworkIDs
    PROVE  /\ NetworkIDToChain(nid) \in {AllChains} \cup [type : Bytes, id : ChainIDs]
           /\ ChainToNetworkID(NetworkIDToChain(nid)) = nid
<1>0. IdBytes \in Nat \ {0}
    BY WidthFacts
<1>1. CASE nid = AllChainsNetworkID
    BY <1>1 DEF NetworkIDToChain, ChainToNetworkID
<1>2. CASE nid # AllChainsNetworkID
    <2> DEFINE type == Head(nid)
               id == FromBigEndian(Tail(nid))
               chain == [type |-> type, id |-> id]
    <2>1. type \in Bytes /\ Tail(nid) \in [1 .. IdBytes -> Bytes] /\ <<type>> \o Tail(nid) = nid
        BY NetworkBytes
    <2>2. id \in ChainIDs /\ BigEndian(id, IdBytes) = Tail(nid)
        BY <1>0, <2>1, DigitsFromTheirNumber DEF ChainIDs
    <2>3. NetworkIDToChain(nid) = chain
        BY <1>2 DEF NetworkIDToChain
    <2> HIDE DEF type, id
    <2>4. chain # AllChains
        BY <2>1, BaseFacts DEF AllChains, Bytes
    <2>5. ChainToNetworkID(chain) = <<type>> \o BigEndian(id, IdBytes)
        BY <2>4 DEF ChainToNetworkID
    <2> QED
        BY <2>1, <2>2, <2>3, <2>5
<1> QED
    BY <1>1, <1>2

(* What an address is written as, and what is read of it.                  *)
LEMMA AddressIsRead ==
    ASSUME NEW address \in Addresses, Encodable(address)
    PROVE  LET text == EncodeRailgunAddress(address)
               read == DecodeRailgunAddress(text)
           IN  /\ text \in Texts /\ text.format = Standard /\ text.viewing = address.viewing
               /\ read.key = address.key /\ read.viewing = address.viewing
               /\ address.chain # LastChain => read = address
<1> DEFINE digits == BigEndian(address.key, KeyBytes)
           nid == ChainToNetworkID(address.chain)
           text == EncodeRailgunAddress(address)
           read == DecodeRailgunAddress(text)
<1>0. KeyBytes \in Nat /\ IdBytes \in Nat
    BY WidthFacts
<1>1. /\ address.key \in KeyNumbers /\ address.viewing \in KeyNumbers
      /\ address.chain \in {AllChains} \cup [type : Bytes, id : ChainIDs]
      /\ address = [key |-> address.key, viewing |-> address.viewing, chain |-> address.chain]
    BY WidthFacts DEF Addresses, Encodable, ChainFits, KeyNumbers, ChainIDs
<1>2. digits \in [1 .. KeyBytes -> Bytes] /\ FromBigEndian(digits) = address.key
    BY <1>0, <1>1, NumberFromItsDigits DEF KeyNumbers
<1>3. nid \in NetworkIDs /\ (address.chain # LastChain => NetworkIDToChain(nid) = address.chain)
    BY <1>1, NetworkOfChain
<1>4. XorNetworkID(nid) \in NetworkIDs /\ XorNetworkID(XorNetworkID(nid)) = nid
    BY <1>3, MaskTwice
<1>5. Standard \in Formats
    BY DEF Standard, Formats
<1>6. text = [format |-> Standard, key |-> digits, nid |-> XorNetworkID(nid), viewing |-> address.viewing]
    BY DEF EncodeRailgunAddress
<1>7. read = [key |-> FromBigEndian(text.key), chain |-> NetworkIDToChain(XorNetworkID(text.nid)),
              viewing |-> text.viewing]
    BY DEF DecodeRailgunAddress
<1> HIDE DEF digits, nid, text, read
<1>8. text \in Texts
    BY <1>1, <1>2, <1>4, <1>5, <1>6 DEF Texts, NetworkIDs, KeyNumbers
<1>9. read = [key |-> address.key, chain |-> NetworkIDToChain(nid), viewing |-> address.viewing]
    BY <1>2, <1>4, <1>6, <1>7
<1>10. address.chain # LastChain => read = address
    BY <1>1, <1>3, <1>9
<1>11. /\ text.format = Standard /\ text.viewing = address.viewing
       /\ read.key = address.key /\ read.viewing = address.viewing
    BY <1>6, <1>9
<1> QED
    BY <1>8, <1>10, <1>11 DEF text, read

(* What a text is read as, and that it is how that address is written.     *)
LEMMA TextIsWritten ==
    ASSUME NEW text \in Texts, text.format = Standard
    PROVE  LET read == DecodeRailgunAddress(text)
           IN  /\ read \in Addresses /\ Encodable(read) /\ read.viewing = text.viewing
               /\ EncodeRailgunAddress(read) = text
<1> DEFINE key == FromBigEndian(text.key)
           chain == NetworkIDToChain(XorNetworkID(text.nid))
           read == DecodeRailgunAddress(text)
<1>0. KeyBytes \in Nat /\ IdBytes \in Nat
    BY WidthFacts
<1>1. /\ text.key \in [1 .. KeyBytes -> Bytes] /\ text.nid \in NetworkIDs /\ text.viewing \in KeyNumbers
      /\ text = [format |-> Standard, key |-> text.key, nid |-> text.nid, viewing |-> text.viewing]
    BY DEF Texts, NetworkIDs, KeyNumbers
<1>2. key \in KeyNumbers /\ BigEndian(key, KeyBytes) = text.key
    BY <1>0, <1>1, DigitsFromTheirNumber DEF KeyNumbers
<1>3. XorNetworkID(text.nid) \in NetworkIDs /\ XorNetworkID(XorNetworkID(text.nid)) = text.nid
    BY <1>1, MaskTwice
<1>4. /\ chain \in {AllChains} \cup [type : Bytes, id : ChainIDs]
      /\ ChainToNetworkID(chain) = XorNetworkID(text.nid)
    BY <1>3, ChainOfNetwork
<1>5. read = [key |-> key, chain |-> chain, viewing |-> text.viewing]
    BY DEF DecodeRailgunAddress
<1>6. EncodeRailgunAddress(read) =
        [format |-> Standard, key |-> BigEndian(read.key, KeyBytes),
         nid |-> XorNetworkID(ChainToNetworkID(read.chain)), viewing |-> read.viewing]
    BY DEF EncodeRailgunAddress
<1> HIDE DEF key, chain, read
<1>7. EncodeRailgunAddress(read) = text
    BY <1>1, <1>2, <1>3, <1>4, <1>5, <1>6
<1>8. read \in Addresses
    BY <1>1, <1>2, <1>4, <1>5, WidthFacts DEF Addresses, KeyNumbers, ChainIDs
<1>9. Encodable(read)
    <2>1. chain.id < Power(Base, IdBytes)
        BY <1>4, WidthFacts DEF ChainIDs, AllChains
    <2> QED
        BY <1>2, <1>5, <2>1, WidthFacts DEF Encodable, ChainFits, KeyNumbers
<1> QED
    BY <1>5, <1>7, <1>8, <1>9 DEF read

-----------------------------------------------------------------------------
(* The inductive invariant: for each stage, what the variables are made of *)

Named      == {Party(name) : name \in Parties}
NoteValues == 0 .. CircuitRange - 1

(* What the client asked is well typed, and what reaches the domain is     *)
(* what he asked with his wallets as texts.                                *)
Written(p) == IF p.to.kind = "wallet" THEN [p EXCEPT !.to = Text(EncodeRailgunAddress(p.to.address))] ELSE p
RequestWritten ==
    /\ asked \in Requested
    /\ asked.function \in {"shield", "unshield", "balanceOf"} => Len(asked.payments) = 1
    /\ notes \in Seq([owner : Nat, value : NoteValues])
    /\ IF stage \in {"asked", "unwritable"}
       THEN request = asked
       ELSE /\ \A a \in Wallets(asked) : Encodable(a)
            /\ request = [asked EXCEPT !.payments = [i \in DOMAIN asked.payments |-> Written(asked.payments[i])]]

(* Whoever had to be resolved is a party, and resolved to his address.     *)
Assembled == {"assembled", "signed", "prepared", "mined", "handled"}
Resolved  == Assembled \cup {"resolved", "answered"}
PartiesResolved ==
    /\ stage \in Resolved \cup {"initialised"} => Validated(request) = "ok"
    /\ stage = "initialised" => verifiers = RequiredVerifiers(request)
    /\ stage \in Resolved =>
        /\ RequiredVerifiers(request) \subseteq Named
        /\ verifiers = {[lookup |-> l, verifier |-> RailgunAddress(l.name)] : l \in RequiredVerifiers(request)}
    /\ stage \in Assembled => request.function \in Transactional
    /\ stage = "answered"  => request.function = "balanceOf"

(* What an output is to a party, to a text and to nobody in the pool.      *)
ToParty(name, value, encrypted) ==
    [owner |-> MasterKey[name], viewing |-> MasterKey[name], value |-> value,
     lookup |-> {Party(name)}, encrypted |-> encrypted]
ToText(text, value) ==
    [owner |-> DecodeRailgunAddress(text).key, viewing |-> text.viewing, value |-> value,
     lookup |-> {}, encrypted |-> TRUE]
Withdrawal(value) ==
    [owner |-> -1, viewing |-> -1, value |-> value, lookup |-> {}, encrypted |-> FALSE]
Pays(out, p) ==
    \/ IsLiteral(p.to) /\ p.to.text.format = Standard /\ out = ToText(p.to.text, p.value)
    \/ ~IsLiteral(p.to) /\ \E name \in Parties : p.to = Party(name) /\ out = ToParty(name, p.value, TRUE)

(* An assembled transaction spends notes of its sender and pays what was   *)
(* asked; what is left of the inputs is his change.                        *)
Total == TotalValue(request.payments)
Left  == TotalValue(inputs) - Total
OutputRecords ==
    [owner : Nat \cup {-1}, viewing : Int, value : Nat, lookup : SUBSET Named, encrypted : BOOLEAN]
ShieldMade ==
    /\ inputs = <<>>
    /\ \E name \in Parties :
        /\ request.payments[1].to = Party(name)
        /\ outputs = <<ToParty(name, request.payments[1].value, FALSE)>>
TransferMade ==
    /\ inputs # <<>> /\ Left \in NoteValues
    /\ Len(outputs) = Len(request.payments) + (IF Left > 0 THEN 1 ELSE 0)
    /\ \A i \in DOMAIN request.payments : Pays(outputs[i], request.payments[i])
    /\ Left > 0 => outputs[Len(outputs)] = ToParty(Sender, Left, TRUE)
UnshieldMade ==
    /\ inputs # <<>> /\ Left \in Nat
    /\ outputs = <<ToParty(Sender, Left, FALSE), Withdrawal(Total)>>
OutputsMade ==
    IF stage \in Assembled
    THEN /\ inputs \in Seq([owner : {MasterKey[Sender]}, value : NoteValues])
         /\ outputs \in Seq(OutputRecords)
         /\ request.function = "shield"   => ShieldMade
         /\ request.function = "transfer" => TransferMade
         /\ request.function = "unshield" => UnshieldMade
    ELSE inputs = <<>> /\ outputs = <<>>

(* The ciphertexts before the next one are made, those after it are not;   *)
(* what was hashed are all of them, made.                                  *)
LeafCount == IF request.function = "unshield" THEN 1 ELSE Len(outputs)
Blank     == [ec |-> Placeholder, annotation |-> NoTx]
Sealed(i) ==
    [ec |-> IF outputs[i].encrypted
            THEN EncryptTransactNote(MasterKey[Sender], outputs[i].owner, outputs[i].viewing,
                                     Random(i), outputs[i].value)
            ELSE Placeholder,
     annotation |-> TxId]
CiphertextsMade ==
    IF stage \in Assembled /\ request.function # "shield"
    THEN /\ next \in 1 .. LeafCount + 1
         /\ cts = [i \in 1 .. LeafCount |-> IF i < next THEN Sealed(i) ELSE Blank]
         /\ bound # <<>> => bound = cts /\ next = LeafCount + 1
         /\ stage # "assembled" => bound # <<>>
    ELSE cts = <<>> /\ next = 1 /\ bound = <<>>

(* What the contract emits, what the domain makes of it, what the parties  *)
(* hold and what the receipt is made of.                                   *)
Emitted ==
    LET leaves == [k \in 1 .. LeafCount |-> Commitment(k)]
    IN  IF request.function = "shield"
        THEN ShieldEvents(0, TxId, 0, leaves, "ok")
        ELSE TransactEvents(0, TxId, 0, {Nullifier(k) : k \in DOMAIN inputs}, leaves, Unshields)
EventsEmitted == events = IF Published THEN Emitted ELSE <<>>
UpdateIndexed == indexed = IF stage = "handled" THEN HandleEventBatch(events) ELSE NoUpdate
NotesGiven ==
    \A h \in held : \E k \in DOMAIN outputs : \E to \in outputs[k].lookup :
        h = [party |-> to.name, note |-> k, id |-> To32ByteHex(Commitment(k))]
ReceiptMade ==
    \/ receipt = NoReceipt
    \/ stage = "handled" /\ receipt = Receipt(FALSE, InputStates, OutputStates)

Inv ==
    /\ RequestWritten /\ PartiesResolved /\ OutputsMade /\ CiphertextsMade
    /\ EventsEmitted /\ UpdateIndexed /\ NotesGiven /\ ReceiptMade
    /\ BalanceIsWholeUnlessFlagged

-----------------------------------------------------------------------------
(* The request *)

Payments == [to : Payees, value : Nat]

LEMMA PayeeFacts ==
    ASSUME NEW to \in Payees
    PROVE  /\ to.kind \in {"party", "wallet", "text", "public"}
           /\ to.kind = "party" => to.name \in STRING /\ to = Party(to.name)
           /\ to.kind = "wallet" => to.address \in Addresses
           /\ to.kind = "text" => to.text \in Texts /\ to = Text(to.text)
    BY DEF Payees, Party, Text

LEMMA RequestedFacts ==
    ASSUME NEW r \in Requested
    PROVE  /\ r.entry \in {"transaction", "call"} /\ r.function \in STRING
           /\ r.wellFormed \in BOOLEAN /\ r.complete \in BOOLEAN /\ r.signature \in STRING
           /\ r.payments \in Seq(Payments)
           /\ r = [entry |-> r.entry, function |-> r.function, wellFormed |-> r.wellFormed,
                   signature |-> r.signature, complete |-> r.complete, payments |-> r.payments]
    BY DEF Requested, Payments

(* A payment as it reaches the domain: of the same value, and to the same  *)
(* payee or to the text of the wallet's address.                           *)
LEMMA WrittenFacts ==
    ASSUME NEW p \in Payments, p.to.kind = "wallet" => Encodable(p.to.address)
    PROVE  /\ Written(p) \in Payments /\ Written(p).value = p.value
           /\ p.to.kind # "wallet" => Written(p) = p
           /\ p.to.kind = "wallet" =>
                /\ Written(p).to = Text(EncodeRailgunAddress(p.to.address))
                /\ IsLiteral(Written(p).to) /\ Written(p).to.text.format = Standard
<1>1. CASE p.to.kind # "wallet"
    BY <1>1 DEF Written
<1>2. CASE p.to.kind = "wallet"
    <2> DEFINE text == EncodeRailgunAddress(p.to.address)
    <2>1. p.to \in Payees /\ p.value \in Nat /\ p = [to |-> p.to, value |-> p.value]
        BY DEF Payments
    <2>2. p.to.address \in Addresses
        BY <1>2, <2>1, PayeeFacts
    <2>3. text \in Texts /\ text.format = Standard
        BY <1>2, <2>2, AddressIsRead
    <2> HIDE DEF text
    <2>4. Written(p) = [to |-> Text(text), value |-> p.value]
        BY <1>2, <2>1 DEF Written, text
    <2>5. Text(text) \in Payees
        BY <2>3 DEF Text, Payees
    <2>6. Text(text).kind = "text" /\ Text(text).text = text
        BY DEF Text
    <2>7. IsLiteral(Text(text))
        BY <2>3, <2>6 DEF IsLiteral, IsRailgunAddress, Standard
    <2> QED
        BY <1>2, <2>1, <2>3, <2>4, <2>5, <2>6, <2>7 DEF text, Payments
<1> QED
    BY <1>1, <1>2

LEMMA RequestFacts ==
    ASSUME RequestWritten, stage \notin {"asked", "unwritable"}
    PROVE  /\ request.function = asked.function /\ request.entry = asked.entry
           /\ asked.payments \in Seq(Payments) /\ request.payments \in Seq(Payments)
           /\ Len(asked.payments) \in Nat /\ Len(request.payments) = Len(asked.payments)
           /\ DOMAIN request.payments = 1 .. Len(asked.payments)
           /\ DOMAIN asked.payments = 1 .. Len(asked.payments)
           /\ \A i \in 1 .. Len(asked.payments) :
                /\ asked.payments[i] \in Payments
                /\ asked.payments[i].to.kind = "wallet" => Encodable(asked.payments[i].to.address)
                /\ request.payments[i] = Written(asked.payments[i])
           /\ request.function \in {"shield", "unshield", "balanceOf"} => Len(asked.payments) = 1
<1> DEFINE n == Len(asked.payments)
           sent == [i \in DOMAIN asked.payments |-> Written(asked.payments[i])]
<1>1. asked \in Requested
    BY DEF RequestWritten
<1>2. /\ asked.payments \in Seq(Payments) /\ n \in Nat /\ DOMAIN asked.payments = 1 .. n
      /\ \A i \in 1 .. n : asked.payments[i] \in Payments
    BY <1>1, RequestedFacts
<1>3. request = [asked EXCEPT !.payments = sent]
    BY DEF RequestWritten
<1>4. ASSUME NEW i \in 1 .. n, asked.payments[i].to.kind = "wallet"
      PROVE  Encodable(asked.payments[i].to.address)
    <2>1. asked.payments[i].to.address \in Wallets(asked)
        BY <1>2, <1>4 DEF Wallets
    <2> QED
        BY <2>1 DEF RequestWritten
<1>5. sent \in [1 .. n -> Payments]
    BY <1>2, <1>4, WrittenFacts
<1>6. sent \in Seq(Payments) /\ Len(sent) = n /\ DOMAIN sent = 1 .. n
    BY <1>2, <1>5, FunctionIsSequence
<1>7. \A i \in 1 .. n : sent[i] = Written(asked.payments[i])
    BY <1>2
<1>8. request.payments = sent /\ request.function = asked.function /\ request.entry = asked.entry
    <2> HIDE DEF sent
    <2> QED
        BY <1>1, <1>3, RequestedFacts
<1> HIDE DEF sent
<1> QED
    BY <1>2, <1>4, <1>6, <1>7, <1>8 DEF RequestWritten

(* What is paid is what was asked.                                         *)
LEMMA TotalFacts ==
    ASSUME RequestWritten, stage \notin {"asked", "unwritable"}
    PROVE  Total \in Nat /\ Total = TotalValue(asked.payments)
<1>1. \A v \in Payments : v.value \in Nat
    BY DEF Payments
<1>2. /\ Valued(asked.payments) /\ Valued(request.payments)
      /\ TotalValue(request.payments) \in Nat
    BY <1>1, RequestFacts, SequenceIsValued
<1>3. Len(request.payments) = Len(asked.payments)
      /\ \A i \in 1 .. Len(request.payments) : request.payments[i].value = asked.payments[i].value
    BY RequestFacts, WrittenFacts
<1> QED
    BY <1>2, <1>3, TotalOfSameValues DEF Total

-----------------------------------------------------------------------------
(* The parties *)

LEMMA KeyFacts ==
    /\ Sender \in Parties
    /\ \A name \in Parties : name \in STRING /\ MasterKey[name] \in KeyNumbers /\ MasterKey[name] \in AllWallets
    /\ KeyNumbers = AllWallets /\ KeyNumbers \subseteq Nat
    BY RequestsAssumption, WidthFacts DEF KeyNumbers, AllWallets

LEMMA PartyIsNamed ==
    ASSUME NEW p, NEW q, Party(p) = Party(q)
    PROVE  p = q
<1>1. Party(p).name = p /\ Party(q).name = q
    BY DEF Party
<1> QED
    BY <1>1

LEMMA PartyAddress ==
    ASSUME NEW name \in Parties
    PROVE  /\ DecodeRailgunAddress(RailgunAddress(name)).key = MasterKey[name]
           /\ DecodeRailgunAddress(RailgunAddress(name)).viewing = MasterKey[name]
<1> DEFINE chain == [type |-> 0, id |-> ChainID]
           address == [key |-> MasterKey[name], viewing |-> MasterKey[name], chain |-> chain]
<1>1. /\ MasterKey[name] \in KeyNumbers /\ ChainID \in ChainIDs
      /\ \A c \in ChainIDs : c \in Nat /\ c < Power(Base, IdBytes)
      /\ \A k \in KeyNumbers : k \in Nat /\ k < Power(Base, KeyBytes)
    BY KeyFacts, RequestsAssumption, WidthFacts DEF ChainIDs, KeyNumbers
<1>2. chain \in [type : Bytes, id : Nat] /\ chain.id < Power(Base, IdBytes)
    BY <1>1, BaseFacts DEF Bytes
<1>3. address \in Addresses /\ Encodable(address)
    <2>1. address.key < Power(Base, KeyBytes) /\ address.chain = chain
        BY <1>1
    <2>2. chain \in {AllChains} \cup [type : Bytes, id : Nat]
        BY <1>2
    <2>3. MasterKey[name] \in Nat /\ MasterKey[name] \in 0 .. Power(Base, KeyBytes) - 1
        BY <1>1 DEF KeyNumbers
    <2> HIDE DEF chain
    <2>4. address \in Addresses
        BY <2>2, <2>3 DEF Addresses
    <2> QED
        BY <1>2, <2>1, <2>4 DEF Encodable, ChainFits
<1>4. address.key = MasterKey[name] /\ address.viewing = MasterKey[name]
    OBVIOUS
<1>5. RailgunAddress(name) = EncodeRailgunAddress(address)
    BY DEF RailgunAddress
<1> HIDE DEF address
<1> QED
    BY <1>3, <1>4, <1>5, AddressIsRead

LEMMA ResolvedAddress ==
    ASSUME NEW name \in Parties, NEW lookups, Party(name) \in lookups,
           verifiers = {[lookup |-> l, verifier |-> RailgunAddress(l.name)] : l \in lookups}
    PROVE  /\ ResolveAddress(Party(name)).key = MasterKey[name]
           /\ ResolveAddress(Party(name)).viewing = MasterKey[name]
<1> DEFINE v == CHOOSE v \in verifiers : v.lookup = Party(name)
<1>1. \E w \in verifiers : w.lookup = Party(name)
    <2> DEFINE w == [lookup |-> Party(name), verifier |-> RailgunAddress(Party(name).name)]
    <2>1. w \in verifiers
        OBVIOUS
    <2>2. w.lookup = Party(name)
        OBVIOUS
    <2> QED
        BY <2>1, <2>2
<1>2. v \in verifiers /\ v.lookup = Party(name)
    BY <1>1
<1> HIDE DEF v
<1>3. v.verifier = RailgunAddress(v.lookup.name) /\ Party(name).name = name
    BY <1>2 DEF Party
<1>4. ResolveAddress(Party(name)) = DecodeRailgunAddress(RailgunAddress(name))
    BY <1>2, <1>3 DEF ResolveAddress, v
<1> QED
    BY <1>4, PartyAddress

(* What a request that is let through is like.                             *)
LEMMA ValidatedFacts ==
    ASSUME NEW r \in Requested, Validated(r) = "ok"
    PROVE  /\ r.function \in Handlers(r.entry) /\ ValidParams(r)
           /\ r.function \in {"shield", "transfer", "unshield", "balanceOf"}
<1>1. r.wellFormed \in BOOLEAN
    BY RequestedFacts
<1>2. r.wellFormed
    BY <1>1 DEF Validated
<1>3. r.function \in Interface
    <2>1. ASSUME r.function \notin Interface
          PROVE  Validated(r) = "unknownFunction"
        <3>1. r.wellFormed = TRUE /\ r.function \notin Interface \ Handlers(r.entry)
            BY <1>1, <1>2, <2>1
        <3>2. r.function \notin Handlers(r.entry)
            BY <2>1 DEF Handlers, Interface
        <3> QED
            BY <2>1, <3>1, <3>2 DEF Validated
    <2> QED
        BY <2>1
<1>4. r.function \in Handlers(r.entry)
    BY <1>2, <1>3 DEF Validated
<1>5. ValidParams(r)
    BY <1>1, <1>2, <1>4 DEF Validated
<1> QED
    BY <1>4, <1>5 DEF Handlers, Transactional, Callable

LEMMA RequestIsRequested ==
    ASSUME RequestWritten
    PROVE  request \in Requested
<1>1. CASE stage \in {"asked", "unwritable"}
    BY <1>1 DEF RequestWritten
<1>2. CASE stage \notin {"asked", "unwritable"}
    <2> DEFINE sent == [i \in DOMAIN asked.payments |-> Written(asked.payments[i])]
    <2>1. asked \in Requested /\ request = [asked EXCEPT !.payments = sent]
        BY <1>2 DEF RequestWritten
    <2>2. request.payments \in Seq(Payments)
        BY <1>2, RequestFacts
    <2> HIDE DEF sent
    <2>3. request.payments = sent
        BY <2>1, RequestedFacts
    <2> QED
        BY <2>1, <2>2, <2>3 DEF Requested, Payments
<1> QED
    BY <1>1, <1>2

-----------------------------------------------------------------------------
(* The parts a step leaves alone *)

(* Before the assembly nothing is spent, made, emitted or given.           *)
LEMMA NothingYet ==
    ASSUME Inv, stage \notin Assembled, stage' \notin Assembled,
           UNCHANGED <<inputs, outputs, signVars, events, nodeVars>>
    PROVE  /\ OutputsMade' /\ CiphertextsMade' /\ EventsEmitted' /\ UpdateIndexed'
           /\ NotesGiven' /\ ReceiptMade'
<1>0. /\ stage # "handled" /\ stage' # "handled" /\ ~Published /\ ~Published'
      /\ inputs' = inputs /\ outputs' = outputs /\ cts' = cts /\ next' = next /\ bound' = bound
      /\ events' = events /\ held' = held /\ indexed' = indexed /\ receipt' = receipt
    BY DEF Assembled, Published, signVars, nodeVars
<1>1. OutputsMade'
    BY <1>0 DEF Inv, OutputsMade
<1>2. CiphertextsMade'
    BY <1>0 DEF Inv, CiphertextsMade
<1>3. EventsEmitted' /\ UpdateIndexed'
    BY <1>0 DEF Inv, EventsEmitted, UpdateIndexed
<1>4. NotesGiven'
    <2>1. outputs = <<>> /\ held = {}
        BY DEF Inv, OutputsMade, NotesGiven
    <2> QED
        BY <1>0, <2>1 DEF NotesGiven
<1>5. ReceiptMade'
    BY <1>0 DEF Inv, ReceiptMade
<1> QED
    BY <1>1, <1>2, <1>3, <1>4, <1>5

(* From the assembly on the request and its outputs stay.                  *)
LEMMA RequestStays ==
    ASSUME Inv, stage \in Assembled, stage' \in Assembled,
           UNCHANGED <<asked, request, notes, verifiers, inputs, outputs, answer>>
    PROVE  RequestWritten' /\ PartiesResolved' /\ OutputsMade' /\ BalanceIsWholeUnlessFlagged'
<1>0. /\ stage \notin {"asked", "unwritable", "initialised", "answered"}
      /\ stage' \notin {"asked", "unwritable", "initialised", "answered"}
      /\ stage \in Resolved /\ stage' \in Resolved
      /\ asked' = asked /\ request' = request /\ notes' = notes /\ verifiers' = verifiers
      /\ inputs' = inputs /\ outputs' = outputs
    BY DEF Assembled, Resolved
<1>1. RequestWritten'
    BY <1>0 DEF Inv, RequestWritten
<1>2. PartiesResolved'
    BY <1>0 DEF Inv, PartiesResolved
<1>3. OutputsMade'
    <2>1. /\ ShieldMade' = ShieldMade /\ TransferMade' = TransferMade /\ UnshieldMade' = UnshieldMade
        BY <1>0 DEF ShieldMade, TransferMade, UnshieldMade, Left, Total
    <2> QED
        BY <1>0, <2>1 DEF Inv, OutputsMade
<1>4. BalanceIsWholeUnlessFlagged'
    BY <1>0 DEF BalanceIsWholeUnlessFlagged
<1> QED
    BY <1>1, <1>2, <1>3, <1>4

LEMMA CiphertextsStay ==
    ASSUME Inv, stage \in Assembled, stage' \in Assembled, request' = request, outputs' = outputs,
           UNCHANGED signVars, request.function # "shield" /\ stage' # "assembled" => bound # <<>>
    PROVE  CiphertextsMade'
<1>1. cts' = cts /\ next' = next /\ bound' = bound
    BY DEF signVars
<1>2. LeafCount' = LeafCount /\ Blank' = Blank /\ \A i : Sealed(i)' = Sealed(i)
    BY DEF LeafCount, Blank, Sealed
<1> QED
    BY <1>1, <1>2 DEF Inv, CiphertextsMade

LEMMA NodesStay ==
    ASSUME Inv, stage # "handled", request' = request, inputs' = inputs, outputs' = outputs,
           held' = held, receipt' = receipt, Published' => Published /\ stage' # "handled",
           UNCHANGED <<events, indexed>>, Published => Published'
    PROVE  EventsEmitted' /\ UpdateIndexed' /\ NotesGiven' /\ ReceiptMade'
<1>0. stage' # "handled" /\ Published' = Published
    BY DEF Published
<1>1. /\ Emitted' = Emitted /\ \A k : Commitment(k)' = Commitment(k)
      /\ \A k : To32ByteHex(Commitment(k))' = To32ByteHex(Commitment(k))
    BY DEF Emitted, Unshields, LeafCount, Commitment
<1>2. EventsEmitted' /\ UpdateIndexed'
    BY <1>0, <1>1 DEF Inv, EventsEmitted, UpdateIndexed
<1>3. NotesGiven'
    BY <1>1 DEF Inv, NotesGiven
<1>4. ReceiptMade'
    BY <1>0 DEF Inv, ReceiptMade
<1> QED
    BY <1>2, <1>3, <1>4

-----------------------------------------------------------------------------
(* The steps of the request *)

LEMMA InitInv == Init => Inv
<1> SUFFICES ASSUME Init PROVE Inv
    OBVIOUS
<1>0. PICK c \in Cases : asked = c.asked /\ notes = c.notes
    BY DEF Init, RequestInit
<1>1. /\ request = asked /\ stage = "asked" /\ verifiers = {} /\ inputs = <<>> /\ outputs = <<>>
      /\ cts = <<>> /\ next = 1 /\ bound = <<>> /\ events = <<>> /\ held = {}
      /\ indexed = NoUpdate /\ receipt = NoReceipt
    BY DEF Init, RequestInit
<1>2. RequestWritten
    BY <1>0, <1>1, RequestsAssumption DEF RequestWritten, NoteValues
<1>3. stage \notin Resolved \cup {"initialised"} /\ stage \notin Assembled /\ stage # "answered"
    BY <1>1 DEF Resolved, Assembled
<1>4. PartiesResolved /\ OutputsMade /\ CiphertextsMade /\ BalanceIsWholeUnlessFlagged
    BY <1>1, <1>3 DEF PartiesResolved, OutputsMade, CiphertextsMade, BalanceIsWholeUnlessFlagged
<1>5. EventsEmitted /\ UpdateIndexed /\ NotesGiven /\ ReceiptMade
    BY <1>1 DEF EventsEmitted, UpdateIndexed, NotesGiven, ReceiptMade, Published
<1> QED
    BY <1>2, <1>4, <1>5 DEF Inv

LEMMA AskInv ==
    ASSUME Inv, Ask, UNCHANGED <<signVars, events, nodeVars>>
    PROVE  Inv'
<1>0. /\ stage = "asked" /\ stage' \in {"new", "unwritable"}
      /\ asked' = asked /\ notes' = notes /\ verifiers' = verifiers
      /\ inputs' = inputs /\ outputs' = outputs /\ answer' = answer
    BY DEF Ask
<1>1. stage \notin Assembled /\ stage' \notin Resolved \cup {"initialised"} /\ stage' \notin Assembled
    BY <1>0 DEF Assembled, Resolved
<1>2. RequestWritten'
    <2>1. CASE \A a \in Wallets(asked) : Encodable(a)
        <3> DEFINE sent == [i \in DOMAIN asked.payments |-> Written(asked.payments[i])]
        <3>1. stage' = "new" /\ request' = [asked EXCEPT !.payments = sent]
            BY <2>1 DEF Ask, Written
        <3> HIDE DEF sent
        <3>2. sent' = sent
            BY <1>0 DEF sent, Written
        <3>3. \A a \in Wallets(asked)' : Encodable(a)
            BY <1>0, <2>1 DEF Wallets
        <3> QED
            BY <1>0, <3>1, <3>2, <3>3 DEF Inv, RequestWritten, sent
    <2>2. CASE ~\A a \in Wallets(asked) : Encodable(a)
        <3>1. stage' = "unwritable" /\ request' = request
            BY <2>2 DEF Ask
        <3> QED
            BY <1>0, <3>1 DEF Inv, RequestWritten
    <2> QED
        BY <2>1, <2>2
<1>3. PartiesResolved' /\ BalanceIsWholeUnlessFlagged'
    BY <1>0, <1>1 DEF PartiesResolved, BalanceIsWholeUnlessFlagged
<1> QED
    BY <1>0, <1>1, <1>2, <1>3, NothingYet DEF Inv

LEMMA InitRequestInv ==
    ASSUME Inv, NEW entry \in {"transaction", "call"}, InitRequest(entry), UNCHANGED <<signVars, events, nodeVars>>
    PROVE  Inv'
<1>0. /\ stage = "new" /\ stage' = IF Validated(request) = "ok" THEN "initialised" ELSE Validated(request)
      /\ asked' = asked /\ request' = request /\ notes' = notes
      /\ inputs' = inputs /\ outputs' = outputs /\ answer' = answer
      /\ stage' = "initialised" => verifiers' = RequiredVerifiers(request)
    BY DEF InitRequest, Enter
<1>1. Validated(request) \in {"ok", "error", "unknownFunction", "panic"}
    BY RequestIsRequested, RequestedFacts DEF Inv, Validated, Handlers, Interface
<1>2. stage' \in {"initialised", "error", "unknownFunction", "panic"}
    BY <1>0, <1>1
<1>3. stage \notin Assembled /\ stage' \notin Resolved /\ stage' \notin Assembled
      /\ stage' \notin {"asked", "unwritable"} /\ stage \notin {"asked", "unwritable"}
    BY <1>0, <1>2 DEF Assembled, Resolved
<1>4. RequestWritten'
    BY <1>0, <1>3 DEF Inv, RequestWritten
<1>5. PartiesResolved'
    BY <1>0, <1>1, <1>2, <1>3 DEF PartiesResolved
<1>6. BalanceIsWholeUnlessFlagged'
    BY <1>2 DEF BalanceIsWholeUnlessFlagged
<1> QED
    BY <1>0, <1>3, <1>4, <1>5, <1>6, NothingYet DEF Inv

LEMMA ResolveInv ==
    ASSUME Inv, ResolveVerifiers, UNCHANGED <<signVars, events, nodeVars>>
    PROVE  Inv'
<1>0. /\ stage = "initialised" /\ stage' \in {"resolved", "unresolved"}
      /\ asked' = asked /\ request' = request /\ notes' = notes
      /\ inputs' = inputs /\ outputs' = outputs /\ answer' = answer
    BY DEF ResolveVerifiers
<1>1. /\ stage \notin Assembled /\ stage' \notin Assembled
      /\ stage' \notin {"asked", "unwritable", "initialised", "answered"} /\ stage \notin {"asked", "unwritable"}
      /\ stage' = "resolved" => stage' \in Resolved
      /\ stage' # "resolved" => stage' \notin Resolved
    BY <1>0 DEF Assembled, Resolved
<1>2. RequestWritten'
    BY <1>0, <1>1 DEF Inv, RequestWritten
<1>3. PartiesResolved'
    <2>1. CASE stage' = "unresolved"
        BY <1>1, <2>1 DEF PartiesResolved
    <2>2. CASE stage' = "resolved"
        <3>1. /\ \A lookup \in verifiers : lookup \in Named
              /\ verifiers' = {[lookup |-> l, verifier |-> RailgunAddress(l.name)] : l \in verifiers}
            BY <2>2 DEF ResolveVerifiers, Named
        <3>2. verifiers = RequiredVerifiers(request) /\ Validated(request) = "ok"
            BY <1>0 DEF Inv, PartiesResolved
        <3> QED
            BY <1>0, <1>1, <3>1, <3>2 DEF PartiesResolved
    <2> QED
        BY <1>0, <2>1, <2>2
<1>4. BalanceIsWholeUnlessFlagged'
    BY <1>1 DEF BalanceIsWholeUnlessFlagged
<1> QED
    BY <1>0, <1>1, <1>2, <1>3, <1>4, NothingYet DEF Inv

(* The notes of an account are notes of that account.                      *)
LEMMA OwnedFacts ==
    ASSUME RequestWritten, NEW key
    PROVE  OwnedBy(key) \in Seq([owner : {key}, value : NoteValues])
<1> DEFINE V == [owner : Nat, value : NoteValues]
           S == {i \in DOMAIN notes : notes[i].owner = key}
           W == [owner : {key}, value : NoteValues]
           found == ElementsAt(notes, S)
<1>1. notes \in Seq(V)
    BY DEF RequestWritten
<1>2. /\ Len(found) \in Nat /\ DOMAIN found = 1 .. Len(found) /\ found \in Seq(V)
      /\ \A i \in DOMAIN found : \E k \in DOMAIN notes \cap S : found[i] = notes[k]
    <2> HIDE DEF V, S
    <2> QED
        BY <1>1, ElementsAtElements
<1> HIDE DEF found
<1>3. \A i \in 1 .. Len(found) : found[i] \in W
    <2>1. ASSUME NEW k \in DOMAIN notes \cap S
          PROVE  notes[k] \in V /\ notes[k].owner = key
        <3>1. notes[k].owner = key
            OBVIOUS
        <3> HIDE DEF V
        <3>2. notes[k] \in V
            BY <1>1
        <3> QED
            BY <3>1, <3>2
    <2> QED
        BY <1>2, <2>1
<1>4. found \in Seq(W)
    <2>1. found = [i \in 1 .. Len(found) |-> found[i]]
        BY <1>2
    <2>2. found \in [1 .. Len(found) -> W]
        BY <1>3, <2>1
    <2> HIDE DEF W
    <2> QED
        BY <1>2, <2>2, FunctionIsSequence
<1> QED
    BY <1>4 DEF OwnedBy, found

LEMMA ExecCallInv ==
    ASSUME Inv, ExecCall, UNCHANGED <<signVars, events, nodeVars>>
    PROVE  Inv'
<1> DEFINE to == request.payments[1].to
           key == ResolveAddress(to).key
           own == OwnedBy(key)
<1>0. /\ stage = "resolved" /\ request.entry = "call"
      /\ asked' = asked /\ request' = request /\ notes' = notes /\ verifiers' = verifiers
      /\ inputs' = inputs /\ outputs' = outputs
      /\ stage' = IF Validated(request) = "ok" THEN "answered" ELSE Validated(request)
    BY DEF ExecCall, Enter
<1>1. /\ Validated(request) = "ok" /\ RequiredVerifiers(request) \subseteq Named
      /\ verifiers = {[lookup |-> l, verifier |-> RailgunAddress(l.name)] : l \in RequiredVerifiers(request)}
    BY <1>0 DEF Inv, PartiesResolved, Resolved
<1>2. request.function = "balanceOf"
    BY <1>0, <1>1, RequestIsRequested, ValidatedFacts DEF Inv, Handlers, Callable
<1>3. stage' = "answered"
    BY <1>0, <1>1
<1>4. stage \notin Assembled /\ stage' \notin Assembled
    BY <1>0, <1>3 DEF Assembled
<1>5. RequestWritten'
    BY <1>0, <1>3 DEF Inv, RequestWritten
<1>6. PartiesResolved'
    <2>1. stage' \in Resolved /\ stage' \notin Assembled /\ stage' # "initialised"
        BY <1>3 DEF Resolved, Assembled
    <2> QED
        BY <1>0, <1>1, <1>2, <2>1 DEF PartiesResolved
<1>7. PICK name \in Parties : to = Party(name)
    <2>1. DOMAIN request.payments = 1 .. 1
        BY <1>0, <1>2, RequestFacts DEF Inv
    <2>2. to \in RequiredVerifiers(request)
        BY <1>2, <2>1 DEF RequiredVerifiers
    <2> QED
        BY <1>1, <2>2 DEF Named
<1>8. key = MasterKey[name] /\ to.name = name
    <2>1. to \in RequiredVerifiers(request)
        <3>1. DOMAIN request.payments = 1 .. 1
            BY <1>0, <1>2, RequestFacts DEF Inv
        <3> QED
            BY <1>2, <3>1 DEF RequiredVerifiers
    <2>2. key = MasterKey[name]
        BY <1>1, <1>7, <2>1, ResolvedAddress
    <2> QED
        BY <1>7, <2>2 DEF Party
<1>9. own \in Seq([owner : {key}, value : NoteValues]) /\ Len(own) \in Nat /\ DOMAIN own = 1 .. Len(own)
    <2>1. own \in Seq([owner : {key}, value : NoteValues])
        BY OwnedFacts DEF Inv
    <2> QED
        BY <2>1
<1>10. PICK found \in SUBSET DOMAIN own :
        /\ Cardinality(found) = IF Len(own) < BalanceLimit THEN Len(own) ELSE BalanceLimit
        /\ answer' = [total |-> TotalValue([i \in DOMAIN own |->
                                  IF i \in found THEN own[i] ELSE [value |-> 0]]),
                      count |-> Cardinality(found), overflow |-> Overflow(Cardinality(found))]
    BY DEF ExecCall
<1>11. ~answer'.overflow => answer'.total = TotalValue(own)
    <2> SUFFICES ASSUME ~answer'.overflow
                 PROVE  answer'.total = TotalValue(own)
        OBVIOUS
    <2>1. answer'.overflow = Overflow(Cardinality(found))
        BY <1>10
    <2>2. Cardinality(found) # BalanceLimit
        BY <2>1 DEF Overflow
    <2>3. Cardinality(found) = Len(own)
        BY <1>10, <2>2
    <2>4. IsFiniteSet(DOMAIN own) /\ Cardinality(DOMAIN own) = Len(own)
        BY <1>9, FS_Interval
    <2>5. found = DOMAIN own
        BY <2>3, <2>4, FS_Subset
    <2>6. [i \in DOMAIN own |-> IF i \in found THEN own[i] ELSE [value |-> 0]] = own
        BY <1>9, <2>5
    <2> HIDE DEF own
    <2> QED
        BY <1>10, <2>6
<1>12. BalanceIsWholeUnlessFlagged'
    <2>1. own = OwnedBy(MasterKey[to.name])
        BY <1>8
    <2>2. OwnedBy(MasterKey[to.name])' = OwnedBy(MasterKey[to.name])
        BY <1>0 DEF OwnedBy
    <2> HIDE DEF own
    <2> QED
        BY <1>0, <1>11, <2>1, <2>2 DEF BalanceIsWholeUnlessFlagged
<1> QED
    BY <1>0, <1>4, <1>5, <1>6, <1>12, NothingYet DEF Inv

-----------------------------------------------------------------------------
(* Assembly *)

LEMMA NothingGivenYet ==
    ASSUME Inv, stage \notin Assembled, stage' = "assembled", UNCHANGED <<events, nodeVars>>
    PROVE  EventsEmitted' /\ UpdateIndexed' /\ NotesGiven' /\ ReceiptMade'
<1>0. /\ stage # "handled" /\ stage' # "handled" /\ ~Published /\ ~Published'
      /\ events' = events /\ held' = held /\ indexed' = indexed /\ receipt' = receipt
    BY DEF Assembled, Published, nodeVars
<1>1. EventsEmitted' /\ UpdateIndexed'
    BY <1>0 DEF Inv, EventsEmitted, UpdateIndexed
<1>2. outputs = <<>> /\ held = {}
    BY DEF Inv, OutputsMade, NotesGiven
<1>3. NotesGiven' /\ ReceiptMade'
    BY <1>0, <1>2 DEF Inv, NotesGiven, ReceiptMade
<1> QED
    BY <1>1, <1>3

(* No element of a sequence is worth more than all of it.                  *)
LEMMA ElementsWithinTotal ==
    ASSUME NEW seq, Valued(seq)
    PROVE  \A k \in 1 .. Len(seq) : seq[k].value <= TotalValue(seq)
<1> DEFINE n == Len(seq)
           sum == RunningSum(seq)
           S == {m \in 0 .. n : \A k \in 1 .. m : seq[k].value <= sum[m]}
<1>1. /\ n \in Nat /\ \A k \in 0 .. n : sum[k] \in Nat
      /\ \A k \in 1 .. n : sum[k] = sum[k - 1] + seq[k].value /\ seq[k].value \in Nat
    BY RunningSumFacts DEF Valued
<1>2. TotalValue(seq) = sum[n]
    BY DEF TotalValue
<1> HIDE DEF sum, n
<1>3. 0 \in S
    BY <1>1
<1>4. ASSUME NEW m \in 0 .. n - 1, m \in S
      PROVE  m + 1 \in S
    <2>1. m + 1 \in 1 .. n /\ (m + 1) - 1 = m /\ m \in 0 .. n
        BY <1>1
    <2>2. /\ sum[m + 1] = sum[m] + seq[m + 1].value
          /\ seq[m + 1].value \in Nat /\ sum[m] \in Nat /\ sum[m + 1] \in Nat
        BY <1>1, <2>1
    <2>3. ASSUME NEW k \in 1 .. m + 1
          PROVE  seq[k].value <= sum[m + 1]
        <3>1. CASE k = m + 1
            BY <2>2, <3>1
        <3>2. CASE k # m + 1
            <4>1. k \in 1 .. m /\ seq[k].value \in Nat
                BY <1>1, <2>1, <3>2
            <4> QED
                BY <1>4, <2>2, <4>1
        <3> QED
            BY <3>1, <3>2
    <2> QED
        BY <2>1, <2>3
<1> HIDE DEF S
<1>5. \A k \in 0 .. n : k \in S
    BY <1>1, <1>3, <1>4, UpTo
<1>6. n \in S
    BY <1>1, <1>5
<1> QED
    BY <1>2, <1>6 DEF S, n

(* The notes taken for an amount cover it, and without the last they would *)
(* not: what is left is less than one note.                                *)
LEMMA SelectionFits ==
    ASSUME NEW key, NEW own \in Seq([owner : {key}, value : NoteValues]), NEW total \in Nat,
           SelectInputs(own, total, MaxInputs).result = "ok"
    PROVE  LET count == SelectInputs(own, total, MaxInputs).count
               taken == SubSeq(own, 1, count)
           IN  /\ count \in 1 .. Len(own)
               /\ taken \in Seq([owner : {key}, value : NoteValues]) /\ taken # <<>>
               /\ TotalValue(taken) = RunningSum(own)[count]
               /\ TotalValue(taken) - total \in NoteValues
<1> DEFINE V == [owner : {key}, value : NoteValues]
           count == SelectInputs(own, total, MaxInputs).count
           taken == SubSeq(own, 1, count)
           sum == RunningSum(own)
<1>0. CircuitRange \in Nat /\ own \in Seq(V) /\ \A v \in V : v.value \in NoteValues /\ v.value \in Nat
    BY RequestsAssumption DEF NoteValues
<1>1. /\ Len(own) \in Nat /\ count \in 1 .. Len(own) /\ count <= MaxInputs /\ sum[count] >= total
      /\ \A k \in 1 .. Len(own) : k <= MaxInputs /\ sum[k] >= total => count <= k
    <2> HIDE DEF V
    <2> QED
        BY <1>0, SelectInputsFacts
<1>2. /\ taken \in Seq(V) /\ Len(taken) = count /\ TotalValue(taken) = sum[count]
    <2>1. count \in 0 .. Len(own)
        BY <1>1
    <2> HIDE DEF V, count
    <2> QED
        BY <1>0, <2>1, TotalOfFirst DEF taken
<1>3. /\ sum[0] = 0 /\ \A k \in 0 .. Len(own) : sum[k] \in Nat
      /\ \A k \in 1 .. Len(own) : sum[k] = sum[k - 1] + own[k].value
    <2>1. Valued(own)
        <3> HIDE DEF V
        <3> QED
            BY <1>0, SequenceIsValued
    <2> QED
        BY <2>1, RunningSumFacts
<1>4. own[count] \in V
    <2> HIDE DEF V, count
    <2> QED
        BY <1>0, <1>1
<1> HIDE DEF V, taken, sum, count
<1>5. sum[count] - total \in NoteValues
    <2>1. sum[count] = sum[count - 1] + own[count].value /\ sum[count - 1] \in Nat
        BY <1>1, <1>3
    <2>2. own[count].value \in Nat /\ own[count].value < CircuitRange
        BY <1>0, <1>4 DEF NoteValues
    <2>3. MaxInputs \in Nat
        BY RequestsAssumption
    <2>4. sum[count - 1] <= total
        <3>1. CASE count = 1
            BY <1>3, <3>1
        <3>2. CASE count # 1
            <4>1. count - 1 \in 1 .. Len(own) /\ count - 1 <= MaxInputs /\ ~(count <= count - 1)
                BY <1>1, <2>3, <3>2
            <4> QED
                BY <1>1, <2>1, <4>1
        <3> QED
            BY <3>1, <3>2
    <2> QED
        BY <1>0, <1>1, <2>1, <2>2, <2>4 DEF NoteValues
<1>6. taken # <<>>
    BY <1>1, <1>2
<1> QED
    BY <1>1, <1>2, <1>5, <1>6 DEF V, taken, sum, count

(* Short sequences.                                                        *)
LEMMA EmptyIsSequence ==
    ASSUME NEW S
    PROVE  <<>> \in Seq(S) /\ Len(<<>>) = 0
    OBVIOUS

LEMMA OneIsSequence ==
    ASSUME NEW S, NEW x \in S
    PROVE  <<x>> \in Seq(S) /\ Len(<<x>>) = 1 /\ <<x>>[1] = x
    OBVIOUS

LEMMA TwoAreSequence ==
    ASSUME NEW S, NEW x \in S, NEW y \in S
    PROVE  <<x, y>> \in Seq(S) /\ Len(<<x, y>>) = 2 /\ <<x, y>>[1] = x /\ <<x, y>>[2] = y
    OBVIOUS

LEMMA OutputToParty ==
    ASSUME NEW name \in Parties, NEW lookups, Party(name) \in lookups,
           verifiers = {[lookup |-> l, verifier |-> RailgunAddress(l.name)] : l \in lookups},
           NEW value \in Nat, NEW encrypted \in BOOLEAN
    PROVE  /\ Output(ResolveAddress(Party(name)), value, {Party(name)}, encrypted)
                = ToParty(name, value, encrypted)
           /\ ToParty(name, value, encrypted) \in OutputRecords
<1>1. Output(ResolveAddress(Party(name)), value, {Party(name)}, encrypted) = ToParty(name, value, encrypted)
    BY ResolvedAddress DEF Output, ToParty
<1>2. Party(name) \in Named /\ MasterKey[name] \in Nat
    BY KeyFacts DEF Named
<1> QED
    BY <1>1, <1>2 DEF ToParty, OutputRecords

LEMMA LiteralFacts ==
    ASSUME NEW to \in Payees, IsLiteral(to)
    PROVE  /\ to.kind = "text" /\ to.text \in Texts
           /\ Readable(to.text) => to.text.format = Standard
<1>1. to.kind = "text" /\ IsRailgunAddress(to.text)
    BY DEF IsLiteral
<1>2. to.text \in Texts
    BY <1>1, PayeeFacts
<1>3. ASSUME Readable(to.text)
      PROVE  to.text.format = Standard
    <2>1. to.text.format \in {Standard, [Standard EXCEPT !.case = "upper"]} /\ to.text.format.case = "lower"
        BY <1>1, <1>3 DEF Readable, Accepted, IsRailgunAddress
    <2>2. [Standard EXCEPT !.case = "upper"].case = "upper"
        BY DEF Standard
    <2> QED
        BY <2>1, <2>2
<1> QED
    BY <1>1, <1>2, <1>3

(* The output of a payment, to whom it is.                                 *)
LEMMA PaymentOutputFacts ==
    ASSUME NEW p \in Payments, NEW lookups, lookups \subseteq Named, ~IsLiteral(p.to) => p.to \in lookups,
           verifiers = {[lookup |-> l, verifier |-> RailgunAddress(l.name)] : l \in lookups},
           IsLiteral(p.to) => Readable(p.to.text)
    PROVE  Pays(PaymentOutput(p), p) /\ PaymentOutput(p) \in OutputRecords
<1>0. p.to \in Payees /\ p.value \in Nat
    BY DEF Payments
<1>1. CASE IsLiteral(p.to)
    <2> DEFINE text == p.to.text
    <2>1. text \in Texts /\ text.format = Standard
        BY <1>0, <1>1, LiteralFacts
    <2>2. /\ DecodeRailgunAddress(text).key \in Nat
          /\ DecodeRailgunAddress(text).viewing = text.viewing /\ text.viewing \in Int
        <3>1. DecodeRailgunAddress(text) \in Addresses /\ DecodeRailgunAddress(text).viewing = text.viewing
            BY <2>1, TextIsWritten
        <3>2. Power(Base, KeyBytes) \in Nat
            BY WidthFacts
        <3> QED
            BY <2>1, <3>1, <3>2 DEF Addresses, Texts
    <2> HIDE DEF text
    <2>3. PaymentOutput(p) = ToText(text, p.value)
        BY <1>1, <2>2 DEF PaymentOutput, Output, ToText, text
    <2>4. ToText(text, p.value) \in OutputRecords
        BY <1>0, <2>2 DEF ToText, OutputRecords
    <2> QED
        BY <1>1, <2>1, <2>3, <2>4 DEF Pays, text
<1>2. CASE ~IsLiteral(p.to)
    <2>1. PICK name \in Parties : p.to = Party(name)
        BY <1>2 DEF Named
    <2>2. PaymentOutput(p) = Output(ResolveAddress(p.to), p.value, {p.to}, TRUE)
        BY <1>2 DEF PaymentOutput
    <2>3. PaymentOutput(p) = ToParty(name, p.value, TRUE) /\ ToParty(name, p.value, TRUE) \in OutputRecords
        BY <1>0, <1>2, <2>1, <2>2, OutputToParty
    <2> QED
        BY <1>2, <2>1, <2>3 DEF Pays
<1> QED
    BY <1>1, <1>2

LEMMA AssembleShieldInv ==
    ASSUME Inv, AssembleShield, UNCHANGED <<signVars, events, nodeVars>>
    PROVE  Inv'
<1> DEFINE p == request.payments[1]
<1>0. /\ stage = "resolved" /\ request.function = "shield"
      /\ asked' = asked /\ request' = request /\ notes' = notes /\ verifiers' = verifiers
      /\ inputs' = inputs /\ answer' = answer
      /\ stage' = IF Validated(request) = "ok" THEN "assembled" ELSE Validated(request)
      /\ outputs' = <<Output(ResolveAddress(p.to), p.value, {p.to}, FALSE)>>
    BY DEF AssembleShield, Enter
<1>1. /\ Validated(request) = "ok" /\ RequiredVerifiers(request) \subseteq Named
      /\ verifiers = {[lookup |-> l, verifier |-> RailgunAddress(l.name)] : l \in RequiredVerifiers(request)}
    BY <1>0 DEF Inv, PartiesResolved, Resolved
<1>2. stage' = "assembled" /\ stage \notin Assembled /\ stage' \in Assembled /\ stage' \in Resolved
    BY <1>0, <1>1 DEF Assembled, Resolved
<1>3. RequestWritten'
    BY <1>0, <1>2 DEF Inv, RequestWritten
<1>4. PartiesResolved'
    BY <1>0, <1>1, <1>2 DEF PartiesResolved, Transactional
<1>5. p \in Payments /\ p.to \in RequiredVerifiers(request) /\ p.value \in Nat
    <2>1. DOMAIN request.payments = 1 .. 1 /\ request.payments \in Seq(Payments)
        BY <1>0, RequestFacts DEF Inv
    <2>2. p \in Payments
        BY <2>1
    <2>3. p.value \in Nat
        BY <2>2 DEF Payments
    <2>4. RequiredVerifiers(request) = {request.payments[i].to : i \in DOMAIN request.payments}
        BY <1>0 DEF RequiredVerifiers
    <2> QED
        BY <2>1, <2>2, <2>3, <2>4
<1>6. PICK name \in Parties : p.to = Party(name)
    BY <1>1, <1>5 DEF Named
<1>7. outputs' = <<ToParty(name, p.value, FALSE)>> /\ ToParty(name, p.value, FALSE) \in OutputRecords
    BY <1>0, <1>1, <1>5, <1>6, OutputToParty
<1>8. inputs' = <<>>
    BY <1>0, <1>2 DEF Inv, OutputsMade
<1>9. OutputsMade'
    <2>1. ShieldMade'
        BY <1>0, <1>6, <1>7, <1>8 DEF ShieldMade, ToParty
    <2>2. outputs' \in Seq(OutputRecords)
        BY <1>7, OneIsSequence
    <2>3. inputs' \in Seq([owner : {MasterKey[Sender]}, value : NoteValues])
        BY <1>8, EmptyIsSequence
    <2> QED
        BY <1>0, <1>2, <2>1, <2>2, <2>3 DEF OutputsMade, NoteValues, OutputRecords
<1>10. CiphertextsMade'
    BY <1>0, <1>2 DEF Inv, CiphertextsMade, signVars
<1>11. BalanceIsWholeUnlessFlagged'
    BY <1>2 DEF BalanceIsWholeUnlessFlagged
<1> QED
    BY <1>2, <1>3, <1>4, <1>9, <1>10, <1>11, NothingGivenYet DEF Inv

(* An assembly that goes through: the inputs and outputs it makes.         *)
LEMMA TransactMade ==
    ASSUME Inv, AssembleTransact, stage' = "assembled"
    PROVE  /\ inputs' \in Seq([owner : {MasterKey[Sender]}, value : NoteValues])
           /\ outputs' \in Seq(OutputRecords)
           /\ request.function = "transfer" => TransferMade'
           /\ request.function = "unshield" => UnshieldMade'
<1> DEFINE sender   == ResolveAddress(From)
           own      == OwnedBy(sender.key)
           selected == SelectInputs(own, Total, MaxInputs)
           change   == RunningSum(own)[selected.count] - Total
           lookups  == RequiredVerifiers(request)
           n        == Len(request.payments)
           pay      == [i \in DOMAIN request.payments |-> PaymentOutput(request.payments[i])]
           rest     == IF change > 0 THEN <<Output(sender, change, {From}, TRUE)>> ELSE <<>>
<1>0. /\ request.function \in {"transfer", "unshield"} /\ stage = "resolved"
      /\ asked' = asked /\ request' = request /\ verifiers' = verifiers
    BY DEF AssembleTransact
<1>1. /\ lookups \subseteq Named
      /\ verifiers = {[lookup |-> l, verifier |-> RailgunAddress(l.name)] : l \in lookups}
    BY <1>0 DEF Inv, PartiesResolved, Resolved
<1>2. /\ request.payments \in Seq(Payments) /\ n \in Nat /\ DOMAIN request.payments = 1 .. n
      /\ Total \in Nat
    BY <1>0, RequestFacts, TotalFacts DEF Inv
<1>3. From \in lookups /\ From = Party(Sender) /\ Sender \in Parties
    BY <1>0, KeyFacts DEF RequiredVerifiers, From
<1>4. sender.key = MasterKey[Sender]
    BY <1>1, <1>3, ResolvedAddress
<1>5. /\ selected.result = "ok"
      /\ request.function = "transfer" =>
            \A i \in 1 .. n : IsLiteral(request.payments[i].to) => Readable(request.payments[i].to.text)
      /\ inputs' = SubSeq(own, 1, selected.count)
      /\ outputs' = IF request.function = "transfer" THEN pay \o rest
                    ELSE <<Output(sender, change, {From}, FALSE),
                           Output([key |-> -1, viewing |-> -1], Total, {}, FALSE)>>
    BY <1>2 DEF AssembleTransact, Total
<1>6. own \in Seq([owner : {MasterKey[Sender]}, value : NoteValues])
    BY <1>4, OwnedFacts DEF Inv
<1>7. /\ inputs' \in Seq([owner : {MasterKey[Sender]}, value : NoteValues]) /\ inputs' # <<>>
      /\ TotalValue(inputs') = RunningSum(own)[selected.count]
      /\ change \in NoteValues
    <2>1. /\ SubSeq(own, 1, selected.count) \in Seq([owner : {MasterKey[Sender]}, value : NoteValues])
          /\ SubSeq(own, 1, selected.count) # <<>>
          /\ TotalValue(SubSeq(own, 1, selected.count)) = RunningSum(own)[selected.count]
          /\ TotalValue(SubSeq(own, 1, selected.count)) - Total \in NoteValues
        <3> HIDE DEF own
        <3> QED
            BY <1>2, <1>5, <1>6, SelectionFits
    <2> HIDE DEF own, selected
    <2> QED
        BY <1>5, <2>1
<1>8. Left' = change /\ Total' = Total
    BY <1>0, <1>7 DEF Left, Total
<1>9. change \in Nat /\ change \in NoteValues
    BY <1>7, RequestsAssumption DEF NoteValues
<1> HIDE DEF change, own, selected, lookups
<1>10. /\ \A e \in BOOLEAN : Output(sender, change, {From}, e) = ToParty(Sender, change, e)
       /\ \A e \in BOOLEAN : ToParty(Sender, change, e) \in OutputRecords
    BY <1>1, <1>3, <1>9, OutputToParty
<1>11. CASE request.function = "transfer"
    <2>1. ASSUME NEW i \in 1 .. n
          PROVE  /\ Pays(PaymentOutput(request.payments[i]), request.payments[i])
                 /\ PaymentOutput(request.payments[i]) \in OutputRecords
        <3>1. request.payments[i] \in Payments
            BY <1>2
        <3>2. ~IsLiteral(request.payments[i].to) => request.payments[i].to \in lookups
            BY <1>2, <1>11 DEF RequiredVerifiers, lookups
        <3> QED
            BY <1>1, <1>5, <1>11, <3>1, <3>2, PaymentOutputFacts
    <2>2. pay \in Seq(OutputRecords) /\ Len(pay) = n /\ \A i \in 1 .. n : pay[i] = PaymentOutput(request.payments[i])
        <3>1. pay \in [1 .. n -> OutputRecords]
            BY <1>2, <2>1
        <3>2. \A i \in 1 .. n : pay[i] = PaymentOutput(request.payments[i])
            BY <1>2
        <3> HIDE DEF pay
        <3> QED
            BY <1>2, <3>1, <3>2, FunctionIsSequence
    <2>3. /\ rest \in Seq(OutputRecords) /\ Len(rest) = IF change > 0 THEN 1 ELSE 0
          /\ change > 0 => rest[1] = ToParty(Sender, change, TRUE)
        <3>1. CASE change > 0
            <4>1. rest = <<ToParty(Sender, change, TRUE)>>
                BY <1>10, <3>1
            <4> HIDE DEF rest
            <4> QED
                BY <1>10, <3>1, <4>1, OneIsSequence
        <3>2. CASE ~(change > 0)
            <4>1. rest = <<>>
                BY <3>2
            <4> HIDE DEF rest
            <4> QED
                BY <3>2, <4>1, EmptyIsSequence
        <3> QED
            BY <3>1, <3>2
    <2> HIDE DEF pay, rest
    <2>4. /\ outputs' = pay \o rest /\ outputs' \in Seq(OutputRecords)
          /\ Len(outputs') = n + Len(rest)
          /\ \A i \in 1 .. n : outputs'[i] = pay[i]
          /\ change > 0 => outputs'[n + 1] = rest[1]
        <3>1. outputs' = pay \o rest
            BY <1>5, <1>11
        <3>2. Len(rest) \in Nat
            BY <2>3
        <3>3. /\ pay \o rest \in Seq(OutputRecords) /\ Len(pay \o rest) = n + Len(rest)
              /\ \A i \in 1 .. n + Len(rest) : (pay \o rest)[i] = IF i <= n THEN pay[i] ELSE rest[i - n]
            <4>1. /\ pay \o rest \in Seq(OutputRecords) /\ Len(pay \o rest) = Len(pay) + Len(rest)
                  /\ \A i \in 1 .. Len(pay) + Len(rest) :
                        (pay \o rest)[i] = IF i <= Len(pay) THEN pay[i] ELSE rest[i - Len(pay)]
                BY <2>2, <2>3, ConcatProperties
            <4> HIDE DEF n
            <4> QED
                BY <2>2, <4>1
        <3>4. \A i \in 1 .. n : i \in 1 .. n + Len(rest) /\ i <= n
            BY <1>2, <3>2
        <3>5. change > 0 => n + 1 \in 1 .. n + Len(rest) /\ ~(n + 1 <= n) /\ n + 1 - n = 1
            BY <1>2, <2>3
        <3> QED
            BY <3>1, <3>3, <3>4, <3>5
    <2>5. \A i \in 1 .. n : Pays(outputs'[i], request.payments[i])
        BY <2>1, <2>2, <2>4
    <2>6. change > 0 => outputs'[Len(outputs')] = ToParty(Sender, change, TRUE)
        BY <1>2, <2>3, <2>4
    <2>7. Len(outputs') = n + IF change > 0 THEN 1 ELSE 0
        BY <2>3, <2>4
    <2>8. TransferMade'
        BY <1>0, <1>2, <1>7, <1>8, <1>9, <2>5, <2>6, <2>7 DEF TransferMade, Pays, ToParty, ToText, NoteValues
    <2> QED
        BY <1>7, <1>11, <2>4, <2>8
<1>12. CASE request.function = "unshield"
    <2>1. Output([key |-> -1, viewing |-> -1], Total, {}, FALSE) = Withdrawal(Total)
        BY DEF Output, Withdrawal
    <2>2. Withdrawal(Total) \in OutputRecords
        BY <1>2 DEF Withdrawal, OutputRecords
    <2>3. outputs' = <<ToParty(Sender, change, FALSE), Withdrawal(Total)>>
        BY <1>5, <1>10, <1>12, <2>1
    <2>4. outputs' \in Seq(OutputRecords)
        <3>1. ToParty(Sender, change, FALSE) \in OutputRecords
            BY <1>10
        <3> QED
            BY <2>2, <2>3, <3>1, TwoAreSequence
    <2>5. UnshieldMade'
        BY <1>7, <1>8, <1>9, <2>3 DEF UnshieldMade, ToParty, Withdrawal
    <2> QED
        BY <1>7, <1>12, <2>4, <2>5
<1> QED
    BY <1>0, <1>11, <1>12

LEMMA NoPlaceholders == Placeholders(0) = <<>>
    BY DEF Placeholders

LEMMA BuildProvingPayloadInv ==
    ASSUME Inv, BuildProvingPayload
    PROVE  Inv'
<1>0. /\ AssembleTransact /\ stage = "resolved" /\ request.function \in {"transfer", "unshield"}
      /\ cts' = Placeholders(Len(outputs') - (IF Unshields /\ outputs' # <<>> THEN 1 ELSE 0))
      /\ next' = next /\ bound' = bound /\ events' = events
      /\ held' = held /\ indexed' = indexed /\ receipt' = receipt
      /\ asked' = asked /\ request' = request /\ notes' = notes /\ verifiers' = verifiers /\ answer' = answer
    BY DEF BuildProvingPayload, AssembleTransact, nodeVars
<1>1. /\ Validated(request) = "ok" /\ RequiredVerifiers(request) \subseteq Named
      /\ verifiers = {[lookup |-> l, verifier |-> RailgunAddress(l.name)] : l \in RequiredVerifiers(request)}
    BY <1>0 DEF Inv, PartiesResolved, Resolved
<1>2. stage \notin Assembled /\ stage \notin {"asked", "unwritable"}
    BY <1>0 DEF Assembled
<1>3. inputs = <<>> /\ outputs = <<>> /\ cts = <<>> /\ next = 1 /\ bound = <<>>
    BY <1>2 DEF Inv, OutputsMade, CiphertextsMade
<1>4. \/ stage' \in {"reverted", "error"} /\ inputs' = inputs /\ outputs' = outputs
      \/ stage' = "assembled"
    BY <1>0, <1>1 DEF AssembleTransact, Enter
<1>5. CASE stage' \in {"reverted", "error"} /\ inputs' = inputs /\ outputs' = outputs
    <2>1. stage' \notin Assembled /\ stage' \notin Resolved \cup {"initialised", "answered", "asked", "unwritable"}
        BY <1>5 DEF Assembled, Resolved
    <2>2. cts' = cts
        BY <1>0, <1>3, <1>5, NoPlaceholders
    <2>3. UNCHANGED <<inputs, outputs, signVars, events, nodeVars>>
        BY <1>0, <1>5, <2>2 DEF signVars, nodeVars
    <2>4. RequestWritten'
        BY <1>0, <1>2, <2>1 DEF Inv, RequestWritten
    <2>5. PartiesResolved' /\ BalanceIsWholeUnlessFlagged'
        BY <2>1 DEF PartiesResolved, BalanceIsWholeUnlessFlagged
    <2> QED
        BY <1>2, <2>1, <2>3, <2>4, <2>5, NothingYet DEF Inv
<1>6. CASE stage' = "assembled"
    <2>1. stage' \in Assembled /\ stage' \in Resolved
        BY <1>6 DEF Assembled, Resolved
    <2>2. RequestWritten'
        BY <1>0, <1>2, <1>6 DEF Inv, RequestWritten
    <2>3. PartiesResolved'
        BY <1>0, <1>1, <1>6, <2>1 DEF PartiesResolved, Transactional
    <2>4. /\ inputs' \in Seq([owner : {MasterKey[Sender]}, value : NoteValues])
          /\ outputs' \in Seq(OutputRecords)
          /\ request.function = "transfer" => TransferMade'
          /\ request.function = "unshield" => UnshieldMade'
        BY <1>0, <1>6, TransactMade
    <2>5. OutputsMade'
        BY <1>0, <2>1, <2>4 DEF OutputsMade, NoteValues, OutputRecords, Named
    <2>6. CiphertextsMade'
        <3>1. LeafCount' \in Nat /\ cts' = Placeholders(LeafCount')
            <4>1. CASE request.function = "transfer"
                BY <1>0, <2>4, <4>1 DEF LeafCount, Unshields
            <4>2. CASE request.function = "unshield"
                <5>1. Len(outputs') = 2 /\ outputs' # <<>>
                    BY <2>4, <4>2 DEF UnshieldMade
                <5> QED
                    BY <1>0, <4>2, <5>1 DEF LeafCount, Unshields
            <4> QED
                BY <1>0, <4>1, <4>2
        <3>2. cts' = [i \in 1 .. LeafCount' |-> Blank']
            BY <3>1 DEF Placeholders, Blank
        <3>3. cts' = [i \in 1 .. LeafCount' |-> IF i < next' THEN Sealed(i)' ELSE Blank']
            BY <1>0, <1>3, <3>1, <3>2
        <3>4. next' \in 1 .. LeafCount' + 1 /\ bound' = <<>>
            <4>1. next' = 1 /\ bound' = <<>>
                BY <1>0, <1>3
            <4>2. \A m \in Nat : 1 \in 1 .. m + 1
                OBVIOUS
            <4> QED
                BY <3>1, <4>1, <4>2
        <3> QED
            BY <1>0, <1>6, <2>1, <3>3, <3>4 DEF CiphertextsMade
    <2>7. BalanceIsWholeUnlessFlagged'
        BY <1>6 DEF BalanceIsWholeUnlessFlagged
    <2>8. EventsEmitted' /\ UpdateIndexed' /\ NotesGiven' /\ ReceiptMade'
        <3>1. UNCHANGED <<events, nodeVars>>
            BY <1>0 DEF nodeVars
        <3> QED
            BY <1>2, <1>6, <3>1, NothingGivenYet
    <2> QED
        BY <2>2, <2>3, <2>5, <2>6, <2>7, <2>8 DEF Inv
<1> QED
    BY <1>4, <1>5, <1>6

-----------------------------------------------------------------------------
(* Sign, and what comes after                                              *)

LEMMA LeafFacts ==
    ASSUME RequestWritten, PartiesResolved, OutputsMade, stage \in Assembled
    PROVE  /\ request.function \in Transactional
           /\ Len(outputs) \in Nat /\ DOMAIN outputs = 1 .. Len(outputs)
           /\ \A k \in 1 .. Len(outputs) : outputs[k] \in OutputRecords
           /\ LeafCount \in 1 .. Len(outputs)
           /\ LeafCount = Len(outputs) - (IF Unshields THEN 1 ELSE 0)
<1>0. /\ request.function \in Transactional /\ Validated(request) = "ok"
      /\ stage \in Resolved /\ stage \notin {"asked", "unwritable"}
    BY DEF PartiesResolved, Resolved, Assembled
<1>1. /\ Len(outputs) \in Nat /\ DOMAIN outputs = 1 .. Len(outputs)
      /\ \A k \in 1 .. Len(outputs) : outputs[k] \in OutputRecords
    BY DEF OutputsMade
<1>2. ASSUME request.function = "shield"
      PROVE  Len(outputs) = 1 /\ LeafCount = 1 /\ ~Unshields
    <2>1. PICK name \in Parties : outputs = <<ToParty(name, request.payments[1].value, FALSE)>>
        BY <1>2 DEF OutputsMade, ShieldMade
    <2>2. Len(outputs) = 1
        BY <2>1
    <2> QED
        BY <1>2, <2>2 DEF LeafCount, Unshields
<1>3. ASSUME request.function = "unshield"
      PROVE  Len(outputs) = 2 /\ LeafCount = 1 /\ Unshields
    BY <1>3 DEF OutputsMade, UnshieldMade, LeafCount, Unshields
<1>4. ASSUME request.function = "transfer"
      PROVE  Len(outputs) >= 1 /\ LeafCount = Len(outputs) /\ ~Unshields
    <2>1. /\ Len(request.payments) \in Nat /\ request.payments \in Seq(Payments)
          /\ Len(outputs) = Len(request.payments) + (IF Left > 0 THEN 1 ELSE 0)
        BY <1>0, <1>4, RequestFacts DEF OutputsMade, TransferMade
    <2>2. request.payments # <<>>
        BY <1>0, <1>4, RequestIsRequested, ValidatedFacts DEF ValidParams, ValidTransferParams
    <2>3. Len(request.payments) # 0
        BY <2>1, <2>2, EmptySeq
    <2>4. LeafCount = Len(outputs) /\ ~Unshields
        BY <1>4 DEF LeafCount, Unshields
    <2>5. \A n \in Nat : n # 0 => n + (IF Left > 0 THEN 1 ELSE 0) >= 1
        OBVIOUS
    <2> QED
        BY <2>1, <2>3, <2>4, <2>5
<1>5. /\ LeafCount \in 1 .. Len(outputs)
      /\ LeafCount = Len(outputs) - (IF Unshields THEN 1 ELSE 0)
    BY <1>0, <1>1, <1>2, <1>3, <1>4 DEF Transactional
<1> QED
    BY <1>0, <1>1, <1>5

LEMMA EncryptOutputInv ==
    ASSUME Inv, EncryptOutput
    PROVE  Inv'
<1>0. /\ stage = "assembled" /\ stage' = stage /\ next <= Len(cts)
      /\ cts' = [cts EXCEPT ![next] = EncryptedOutput(outputs[next], next)] /\ next' = next + 1
      /\ UNCHANGED <<asked, request, notes, verifiers, inputs, outputs, answer, bound, events, held, indexed, receipt>>
    BY DEF EncryptOutput, requestVars, nodeVars
<1>1. stage \in Assembled /\ stage' \in Assembled /\ stage # "handled" /\ ~Published
    BY <1>0 DEF Assembled, Published
<1>2. RequestWritten' /\ PartiesResolved' /\ OutputsMade' /\ BalanceIsWholeUnlessFlagged'
    BY <1>0, <1>1, RequestStays
<1>3. EventsEmitted' /\ UpdateIndexed' /\ NotesGiven' /\ ReceiptMade'
    <2>1. ~Published'
        BY <1>0, <1>1 DEF Published
    <2> QED
        BY <1>0, <1>1, <2>1, NodesStay
<1>4. request.function # "shield"
    <2>1. Len(<<>>) = 0
        OBVIOUS
    <2>2. request.function = "shield" => cts = <<>> /\ next = 1
        BY DEF Inv, CiphertextsMade
    <2> QED
        BY <1>0, <2>1, <2>2
<1>5. /\ LeafCount \in Nat /\ LeafCount \in 1 .. Len(outputs)
      /\ next \in 1 .. LeafCount + 1
      /\ cts = [i \in 1 .. LeafCount |-> IF i < next THEN Sealed(i) ELSE Blank]
      /\ bound # <<>> => next = LeafCount + 1
    BY <1>1, <1>4, LeafFacts DEF Inv, CiphertextsMade
<1>6. next \in 1 .. LeafCount /\ bound = <<>>
    <2>1. Len(cts) = LeafCount
        BY <1>5
    <2> QED
        BY <1>0, <1>5, <2>1
<1>7. LeafCount' = LeafCount /\ Blank' = Blank /\ \A i : Sealed(i)' = Sealed(i)
    BY <1>0 DEF LeafCount, Blank, Sealed, Random
<1>8. EncryptedOutput(outputs[next], next) = Sealed(next)
    <2>1. cts[next] = Blank
        BY <1>5, <1>6
    <2>2. outputs[next].encrypted \in BOOLEAN
        <3>1. Len(outputs) \in Nat /\ \A k \in 1 .. Len(outputs) : outputs[k] \in OutputRecords
            BY <1>1, LeafFacts DEF Inv
        <3>2. next \in 1 .. Len(outputs)
            BY <1>5, <1>6, <3>1
        <3>3. outputs[next] \in OutputRecords
            BY <3>1, <3>2
        <3> QED
            BY <3>3 DEF OutputRecords
    <2> QED
        BY <2>1, <2>2 DEF EncryptedOutput, Sealed, Blank
<1>9. cts' = [i \in 1 .. LeafCount |-> IF i < next + 1 THEN Sealed(i) ELSE Blank]
    <2>1. cts' = [i \in 1 .. LeafCount |-> IF i = next THEN Sealed(next) ELSE cts[i]]
        BY <1>0, <1>5, <1>8
    <2>2. \A i \in 1 .. LeafCount : cts[i] = IF i < next THEN Sealed(i) ELSE Blank
        BY <1>5
    <2>3. ASSUME NEW i \in 1 .. LeafCount
          PROVE  (IF i = next THEN Sealed(next) ELSE cts[i]) = IF i < next + 1 THEN Sealed(i) ELSE Blank
        <3>1. CASE i = next
            BY <1>6, <3>1
        <3>2. CASE i # next
            <4>1. i < next + 1 <=> i < next
                BY <1>5, <1>6, <3>2
            <4> QED
                BY <2>2, <3>2, <4>1
        <3> QED
            BY <3>1, <3>2
    <2> QED
        BY <2>1, <2>3
<1>10. CiphertextsMade'
    <2>1. next' \in 1 .. LeafCount' + 1
        BY <1>0, <1>5, <1>6, <1>7
    <2>2. cts' = [i \in 1 .. LeafCount' |-> IF i < next' THEN Sealed(i)' ELSE Blank']
        BY <1>0, <1>7, <1>9
    <2>3. bound' = <<>> /\ request' = request /\ stage' = "assembled"
        BY <1>0, <1>6
    <2> QED
        BY <1>1, <1>4, <2>1, <2>2, <2>3 DEF CiphertextsMade
<1> QED
    BY <1>2, <1>3, <1>10 DEF Inv

LEMMA BoundParamsHashInv ==
    ASSUME Inv, BoundParamsHash
    PROVE  Inv'
<1>0. /\ stage = "assembled" /\ stage' = stage /\ cts # <<>> /\ next > Len(cts) /\ bound' = cts
      /\ UNCHANGED <<asked, request, notes, verifiers, inputs, outputs, answer, cts, next, events, held, indexed, receipt>>
    BY DEF BoundParamsHash, Encrypted, requestVars, nodeVars
<1>1. stage \in Assembled /\ stage' \in Assembled /\ stage # "handled" /\ ~Published
    BY <1>0 DEF Assembled, Published
<1>2. RequestWritten' /\ PartiesResolved' /\ OutputsMade' /\ BalanceIsWholeUnlessFlagged'
    BY <1>0, <1>1, RequestStays
<1>3. EventsEmitted' /\ UpdateIndexed' /\ NotesGiven' /\ ReceiptMade'
    <2>1. ~Published'
        BY <1>0, <1>1 DEF Published
    <2> QED
        BY <1>0, <1>1, <2>1, NodesStay
<1>4. request.function # "shield"
    BY <1>0 DEF Inv, CiphertextsMade
<1>5. /\ LeafCount \in Nat /\ next \in 1 .. LeafCount + 1
      /\ cts = [i \in 1 .. LeafCount |-> IF i < next THEN Sealed(i) ELSE Blank]
    BY <1>1, <1>4, LeafFacts DEF Inv, CiphertextsMade
<1>6. next = LeafCount + 1
    <2>1. Len(cts) = LeafCount
        BY <1>5
    <2> QED
        BY <1>0, <1>5, <2>1
<1>7. LeafCount' = LeafCount /\ Blank' = Blank /\ \A i : Sealed(i)' = Sealed(i)
    BY <1>0 DEF LeafCount, Blank, Sealed, Random
<1>8. CiphertextsMade'
    BY <1>0, <1>1, <1>4, <1>5, <1>6, <1>7 DEF CiphertextsMade
<1> QED
    BY <1>2, <1>3, <1>8 DEF Inv

LEMMA ProveInv ==
    ASSUME Inv, Prove
    PROVE  Inv'
<1>0. /\ stage = "assembled" /\ stage' = "signed" /\ bound # <<>>
      /\ UNCHANGED <<asked, request, notes, verifiers, inputs, outputs, answer, signVars, events, held, indexed, receipt>>
    BY DEF Prove, Goes, nodeVars
<1>1. stage \in Assembled /\ stage' \in Assembled /\ stage # "handled" /\ ~Published /\ ~Published'
    BY <1>0 DEF Assembled, Published
<1> QED
    BY <1>0, <1>1, RequestStays, CiphertextsStay, NodesStay DEF Inv

LEMMA PrepareTransactionInv ==
    ASSUME Inv, PrepareTransaction
    PROVE  Inv'
<1>0. /\ stage = IF request.function = "shield" THEN "assembled" ELSE "signed"
      /\ UNCHANGED <<asked, request, notes, verifiers, inputs, outputs, answer, signVars, events, held, indexed, receipt>>
      /\ stage' = IF Validated(request) = "ok" THEN "prepared" ELSE Validated(request)
    BY DEF PrepareTransaction, Enter, nodeVars
<1>1. stage \in Assembled /\ stage \in Resolved /\ stage # "handled" /\ ~Published
    BY <1>0 DEF Assembled, Resolved, Published
<1>2. stage' = "prepared"
    BY <1>0, <1>1 DEF Inv, PartiesResolved
<1>3. stage' \in Assembled /\ ~Published'
    BY <1>2 DEF Assembled, Published
<1>4. request.function # "shield" => bound # <<>>
    BY <1>0, <1>1 DEF Inv, CiphertextsMade
<1> QED
    BY <1>0, <1>1, <1>2, <1>3, <1>4, RequestStays, CiphertextsStay, NodesStay DEF Inv

LEMMA MineInv ==
    ASSUME Inv, Mine
    PROVE  Inv'
<1> DEFINE leaves == [k \in DOMAIN outputs \ (IF Unshields THEN {Len(outputs)} ELSE {}) |-> Commitment(k)]
<1>0. /\ stage = "prepared" /\ stage' = "mined"
      /\ UNCHANGED <<asked, request, notes, verifiers, inputs, outputs, answer, signVars, held, indexed, receipt>>
      /\ events' = IF request.function = "shield"
                   THEN ShieldEvents(0, TxId, 0, leaves, "ok")
                   ELSE TransactEvents(0, cts[1].annotation, 0, {Nullifier(k) : k \in DOMAIN inputs}, leaves, Unshields)
    BY DEF Mine, Goes, nodeVars
<1>1. /\ stage \in Assembled /\ stage' \in Assembled /\ stage # "handled" /\ stage' # "handled"
      /\ stage # "assembled" /\ Published'
    BY <1>0 DEF Assembled, Published
<1>2. RequestWritten' /\ PartiesResolved' /\ OutputsMade' /\ BalanceIsWholeUnlessFlagged'
    BY <1>0, <1>1, RequestStays
<1>3. CiphertextsMade'
    <2>1. request.function # "shield" => bound # <<>>
        BY <1>1 DEF Inv, CiphertextsMade
    <2> QED
        BY <1>0, <1>1, <2>1, CiphertextsStay
<1>4. /\ LeafCount \in 1 .. Len(outputs) /\ Len(outputs) \in Nat /\ DOMAIN outputs = 1 .. Len(outputs)
      /\ LeafCount = Len(outputs) - (IF Unshields THEN 1 ELSE 0)
    BY <1>1, LeafFacts DEF Inv
<1>5. leaves = [k \in 1 .. LeafCount |-> Commitment(k)]
    <2>1. DOMAIN outputs \ (IF Unshields THEN {Len(outputs)} ELSE {}) = 1 .. LeafCount
        <3>1. CASE Unshields
            BY <1>4, <3>1
        <3>2. CASE ~Unshields
            BY <1>4, <3>2
        <3> QED
            BY <3>1, <3>2
    <2> QED
        BY <2>1
<1>6. request.function # "shield" => cts[1].annotation = TxId
    <2> SUFFICES ASSUME request.function # "shield"
                 PROVE  cts[1].annotation = TxId
        OBVIOUS
    <2>1. /\ cts = [i \in 1 .. LeafCount |-> IF i < next THEN Sealed(i) ELSE Blank]
          /\ next = LeafCount + 1
        BY <1>1 DEF Inv, CiphertextsMade
    <2>2. 1 \in 1 .. LeafCount /\ 1 < next
        <3>1. next = LeafCount + 1
            BY <2>1
        <3>2. LeafCount \in Nat /\ LeafCount >= 1
            <4>1. LeafCount \in 1 .. Len(outputs) /\ Len(outputs) \in Nat
                BY <1>4
            <4> QED
                BY <4>1
        <3> QED
            BY <3>1, <3>2
    <2>3. cts[1] = Sealed(1)
        BY <2>1, <2>2
    <2> QED
        BY <2>3 DEF Sealed
<1> HIDE DEF leaves
<1>7. events' = Emitted
    BY <1>0, <1>5, <1>6 DEF Emitted
<1>8. Emitted' = Emitted /\ \A k : Commitment(k)' = Commitment(k)
    BY <1>0 DEF Emitted, Unshields, LeafCount, Commitment
<1>9. EventsEmitted'
    BY <1>1, <1>7, <1>8 DEF EventsEmitted
<1>10. UpdateIndexed' /\ ReceiptMade'
    BY <1>0, <1>1 DEF Inv, UpdateIndexed, ReceiptMade
<1>11. NotesGiven'
    BY <1>0, <1>8 DEF Inv, NotesGiven, To32ByteHex
<1> QED
    BY <1>2, <1>3, <1>9, <1>10, <1>11 DEF Inv

LEMMA HandleEventsInv ==
    ASSUME Inv, HandleEvents
    PROVE  Inv'
<1>0. /\ stage = "mined" /\ stage' = "handled" /\ indexed' = HandleEventBatch(events)
      /\ UNCHANGED <<asked, request, notes, verifiers, inputs, outputs, answer, signVars, events, held, receipt>>
    BY DEF HandleEvents, Goes
<1>1. /\ stage \in Assembled /\ stage' \in Assembled /\ stage # "handled"
      /\ stage # "assembled" /\ Published /\ Published'
    BY <1>0 DEF Assembled, Published
<1>2. RequestWritten' /\ PartiesResolved' /\ OutputsMade' /\ BalanceIsWholeUnlessFlagged'
    BY <1>0, <1>1, RequestStays
<1>3. CiphertextsMade'
    <2>1. request.function # "shield" => bound # <<>>
        BY <1>1 DEF Inv, CiphertextsMade
    <2> QED
        BY <1>0, <1>1, <2>1, CiphertextsStay
<1>4. Emitted' = Emitted /\ \A k : Commitment(k)' = Commitment(k)
    BY <1>0 DEF Emitted, Unshields, LeafCount, Commitment
<1>5. EventsEmitted' /\ UpdateIndexed'
    BY <1>0, <1>1, <1>4 DEF Inv, EventsEmitted, UpdateIndexed
<1>6. NotesGiven'
    BY <1>0, <1>4 DEF Inv, NotesGiven, To32ByteHex
<1>7. ReceiptMade'
    BY <1>0, <1>1 DEF Inv, ReceiptMade
<1> QED
    BY <1>2, <1>3, <1>5, <1>6, <1>7 DEF Inv

(* The parts about the request and the contract, if only nodes do a thing. *)
LEMMA RestStays ==
    ASSUME Inv, UNCHANGED <<requestVars, signVars, events, indexed>>
    PROVE  /\ RequestWritten' /\ PartiesResolved' /\ OutputsMade' /\ CiphertextsMade'
           /\ EventsEmitted' /\ UpdateIndexed' /\ BalanceIsWholeUnlessFlagged'
           /\ outputs' = outputs /\ stage' = stage
<1>0. /\ UNCHANGED <<asked, request, notes, stage, verifiers, inputs, outputs, answer>>
      /\ UNCHANGED <<cts, next, bound>> /\ events' = events /\ indexed' = indexed
    BY DEF requestVars, signVars
<1>1. RequestWritten' /\ PartiesResolved'
    BY <1>0 DEF Inv, RequestWritten, PartiesResolved
<1>2. OutputsMade'
    BY <1>0 DEF Inv, OutputsMade, ShieldMade, TransferMade, UnshieldMade, Left, Total
<1>3. CiphertextsMade'
    BY <1>0 DEF Inv, CiphertextsMade, LeafCount, Sealed, Blank
<1>4. EventsEmitted' /\ UpdateIndexed'
    BY <1>0 DEF Inv, EventsEmitted, UpdateIndexed, Published, Emitted, LeafCount, Commitment, Unshields
<1>5. BalanceIsWholeUnlessFlagged'
    BY <1>0 DEF Inv, BalanceIsWholeUnlessFlagged, OwnedBy
<1> QED
    BY <1>0, <1>1, <1>2, <1>3, <1>4, <1>5

LEMMA ReceiveNoteInv ==
    ASSUME Inv, NEW k \in DOMAIN outputs, ReceiveNote(k)
    PROVE  Inv'
<1> DEFINE id == To32ByteHex(Commitment(k))
<1>0. /\ UNCHANGED <<requestVars, signVars, events, indexed>> /\ receipt' = receipt
      /\ StateID(Commitment(k)) = id
    BY DEF ReceiveNote, StateID
<1>1. /\ RequestWritten' /\ PartiesResolved' /\ OutputsMade' /\ CiphertextsMade'
      /\ EventsEmitted' /\ UpdateIndexed' /\ BalanceIsWholeUnlessFlagged'
      /\ outputs' = outputs /\ stage' = stage
    BY <1>0, RestStays
<1>2. ValidatedID(Commitment(k), id) = id
    <2>1. id.padded = TRUE /\ NoID.padded = FALSE
        BY DEF To32ByteHex, NoID
    <2> QED
        BY <2>1 DEF ValidatedID
<1>3. PICK to \in outputs[k].lookup : held' = held \cup {[party |-> to.name, note |-> k, id |-> id]}
    BY <1>0, <1>2 DEF ReceiveNote
<1>4. \A j : Commitment(j)' = Commitment(j)
    BY <1>1 DEF Commitment
<1>5. NotesGiven'
    BY <1>1, <1>3, <1>4 DEF Inv, NotesGiven, To32ByteHex
<1>6. ReceiptMade'
    BY <1>0, <1>1 DEF Inv, ReceiptMade, InputStates, OutputStates, Commitment, requestVars
<1> QED
    BY <1>1, <1>5, <1>6 DEF Inv

LEMMA BuildReceiptInv ==
    ASSUME Inv, NEW unavailableStates \in BOOLEAN, BuildReceipt(unavailableStates)
    PROVE  Inv'
<1>0. /\ UNCHANGED <<requestVars, signVars, events, indexed>> /\ held' = held /\ stage = "handled"
      /\ receipt' = Receipt(unavailableStates, InputStates, OutputStates)
    BY DEF BuildReceipt
<1>1. /\ RequestWritten' /\ PartiesResolved' /\ OutputsMade' /\ CiphertextsMade'
      /\ EventsEmitted' /\ UpdateIndexed' /\ BalanceIsWholeUnlessFlagged'
      /\ outputs' = outputs /\ stage' = stage
    BY <1>0, RestStays
<1>2. InputStates' = InputStates /\ OutputStates' = OutputStates /\ \A j : Commitment(j)' = Commitment(j)
    BY <1>0, <1>1 DEF InputStates, OutputStates, Commitment, requestVars
<1>3. NotesGiven'
    BY <1>0, <1>1, <1>2 DEF Inv, NotesGiven, To32ByteHex
<1>4. receipt' = NoReceipt \/ receipt' = Receipt(FALSE, InputStates, OutputStates)
    BY <1>0 DEF Receipt
<1>5. ReceiptMade'
    BY <1>0, <1>1, <1>2, <1>4 DEF ReceiptMade
<1> QED
    BY <1>1, <1>3, <1>5 DEF Inv

-----------------------------------------------------------------------------
(* The invariant holds                                                     *)

LEMMA RequestInv ==
    ASSUME Inv, Request
    PROVE  Inv'
<1>0. UNCHANGED <<signVars, events, nodeVars>>
    BY DEF Request
<1>1. CASE Ask
    BY <1>0, <1>1, AskInv
<1>2. CASE ResolveVerifiers
    BY <1>0, <1>2, ResolveInv
<1>3. CASE InitTransaction
    BY <1>0, <1>3, InitRequestInv DEF InitTransaction
<1>4. CASE AssembleShield
    BY <1>0, <1>4, AssembleShieldInv
<1>5. CASE InitCall
    BY <1>0, <1>5, InitRequestInv DEF InitCall
<1>6. CASE ExecCall
    BY <1>0, <1>6, ExecCallInv
<1> QED
    BY <1>1, <1>2, <1>3, <1>4, <1>5, <1>6 DEF Request

LEMMA NextInv == Inv /\ [Next]_vars => Inv'
<1> SUFFICES ASSUME Inv, [Next]_vars PROVE Inv'
    OBVIOUS
<1>1. CASE Request
    BY <1>1, RequestInv
<1>2. CASE BuildProvingPayload
    BY <1>2, BuildProvingPayloadInv
<1>3. CASE Sign
    BY <1>3, EncryptOutputInv, BoundParamsHashInv, ProveInv DEF Sign
<1>4. CASE PrepareTransaction
    BY <1>4, PrepareTransactionInv
<1>5. CASE Mine
    BY <1>5, MineInv
<1>6. CASE HandleEvents
    BY <1>6, HandleEventsInv
<1>7. CASE \E k \in DOMAIN outputs : ReceiveNote(k)
    BY <1>7, ReceiveNoteInv
<1>8. CASE \E unavailableStates \in BOOLEAN : BuildReceipt(unavailableStates)
    BY <1>8, BuildReceiptInv
<1>9. CASE UNCHANGED vars
    <2>1. UNCHANGED <<requestVars, signVars, events, indexed>> /\ held' = held /\ receipt' = receipt
        BY <1>9 DEF vars, nodeVars
    <2>2. /\ RequestWritten' /\ PartiesResolved' /\ OutputsMade' /\ CiphertextsMade'
          /\ EventsEmitted' /\ UpdateIndexed' /\ BalanceIsWholeUnlessFlagged'
          /\ outputs' = outputs /\ stage' = stage
        BY <2>1, RestStays
    <2>3. \A j : Commitment(j)' = Commitment(j)
        BY <2>2 DEF Commitment
    <2>4. InputStates' = InputStates /\ OutputStates' = OutputStates
        BY <2>1, <2>2, <2>3 DEF InputStates, OutputStates, requestVars
    <2>5. NotesGiven'
        BY <2>1, <2>2, <2>3 DEF Inv, NotesGiven, To32ByteHex
    <2>6. ReceiptMade'
        BY <2>1, <2>2, <2>4 DEF Inv, ReceiptMade
    <2> QED
        BY <2>2, <2>5, <2>6 DEF Inv
<1> QED
    BY <1>1, <1>2, <1>3, <1>4, <1>5, <1>6, <1>7, <1>8, <1>9 DEF Next

(* Whatever stage a request is in, its variables are what that stage makes *)
(* of it.                                                                  *)
THEOREM PathInvariant == Spec => []Inv
<1>1. Init => Inv
    BY InitInv
<1>2. Inv /\ [Next]_vars => Inv'
    BY NextInv
<1> QED
    BY <1>1, <1>2, PTL DEF Spec

(* A balance that is not flagged is of all notes of the account.           *)
THEOREM BalanceWhole == Spec => []BalanceIsWholeUnlessFlagged
<1>1. Inv => BalanceIsWholeUnlessFlagged
    BY DEF Inv
<1> QED
    BY <1>1, PathInvariant, PTL

-----------------------------------------------------------------------------
(* What the invariant means                                                *)

LEMMA ValuePaid ==
    ASSUME NEW out, NEW p, Pays(out, p)
    PROVE  out.value = p.value /\ out.encrypted = TRUE
    BY DEF Pays, ToParty, ToText

(* The outputs of a transfer: the payments and, if there is any, the       *)
(* change.                                                                 *)
LEMMA TransferFacts ==
    ASSUME Inv, stage \in Assembled, request.function = "transfer"
    PROVE  LET n == Len(asked.payments)
           IN  /\ n \in Nat \ {0} /\ Left \in NoteValues /\ Left \in Nat
               /\ DOMAIN outputs = 1 .. Len(outputs)
               /\ Len(outputs) = n + (IF Left > 0 THEN 1 ELSE 0)
               /\ \A k \in 1 .. n : /\ k \in DOMAIN outputs
                                    /\ Pays(outputs[k], request.payments[k])
                                    /\ outputs[k].value = asked.payments[k].value
                                    /\ asked.payments[k].value \in Nat /\ asked.payments[k].value > 0
               /\ \A k \in DOMAIN outputs : k \notin 1 .. n =>
                    k = n + 1 /\ Left > 0 /\ outputs[k] = ToParty(Sender, Left, TRUE)
<1> DEFINE n == Len(asked.payments)
<1>1. /\ stage \notin {"asked", "unwritable"} /\ Validated(request) = "ok"
    BY DEF Inv, PartiesResolved, Assembled, Resolved
<1>2. /\ n \in Nat /\ Len(request.payments) = n /\ DOMAIN request.payments = 1 .. n
      /\ \A k \in 1 .. n : /\ asked.payments[k] \in Payments
                           /\ request.payments[k] = Written(asked.payments[k])
                           /\ asked.payments[k].to.kind = "wallet" => Encodable(asked.payments[k].to.address)
    BY <1>1, RequestFacts DEF Inv
<1>3. \A k \in 1 .. n : request.payments[k].value = asked.payments[k].value
    BY <1>2, WrittenFacts
<1>4. ValidTransferParams(request.payments)
    BY <1>1, RequestIsRequested, ValidatedFacts DEF Inv, ValidParams
<1>5. \A k \in 1 .. n : request.payments[k].value > 0
    BY <1>2, <1>4 DEF ValidTransferParams
<1>6. /\ Left \in NoteValues /\ Len(outputs) = n + (IF Left > 0 THEN 1 ELSE 0)
      /\ \A k \in 1 .. n : Pays(outputs[k], request.payments[k])
      /\ Left > 0 => outputs[Len(outputs)] = ToParty(Sender, Left, TRUE)
    BY <1>2 DEF Inv, OutputsMade, TransferMade
<1>7. /\ DOMAIN outputs = 1 .. Len(outputs) /\ Len(outputs) \in 1 .. Len(outputs) /\ LeafCount = Len(outputs)
      /\ Len(outputs) \in Nat
    BY LeafFacts DEF Inv, LeafCount
<1>8. n # 0
    <2>1. request.payments \in Seq(Payments) /\ request.payments # <<>>
        BY <1>1, <1>4, RequestFacts DEF Inv, ValidTransferParams
    <2> QED
        BY <1>2, <2>1, EmptySeq
<1>9. Left \in Nat
    BY <1>6, RequestsAssumption DEF NoteValues
<1> HIDE DEF n
<1>10. ASSUME NEW k \in 1 .. n
       PROVE  /\ k \in DOMAIN outputs /\ Pays(outputs[k], request.payments[k])
              /\ outputs[k].value = asked.payments[k].value
              /\ asked.payments[k].value \in Nat /\ asked.payments[k].value > 0
    <2>1. k \in 1 .. Len(outputs)
        BY <1>2, <1>6, <1>7, <1>9
    <2>2. Pays(outputs[k], request.payments[k])
        BY <1>6
    <2>3. outputs[k].value = asked.payments[k].value
        BY <1>3, <2>2, ValuePaid
    <2>4. asked.payments[k].value \in Nat
        BY <1>2 DEF Payments
    <2>5. asked.payments[k].value > 0
        BY <1>3, <1>5
    <2> QED
        BY <1>7, <2>1, <2>2, <2>3, <2>4, <2>5
<1>11. ASSUME NEW k \in DOMAIN outputs, k \notin 1 .. n
       PROVE  k = n + 1 /\ Left > 0 /\ outputs[k] = ToParty(Sender, Left, TRUE)
    <2>1. k \in 1 .. Len(outputs)
        BY <1>7
    <2>2. k = n + 1 /\ Left > 0 /\ k = Len(outputs)
        BY <1>2, <1>6, <1>9, <1>11, <2>1
    <2> QED
        BY <1>6, <2>2
<1> QED
    BY <1>2, <1>6, <1>7, <1>8, <1>9, <1>10, <1>11 DEF n

(* Every output of an assembled transfer is in the range of the circuit.   *)
THEOREM TransfersFit == Spec => []TransferFitsTheCircuit
<1>1. ASSUME Inv, stage = "assembled", request.function = "transfer", NEW k \in DOMAIN outputs
      PROVE  outputs[k].value < CircuitRange
    <2> DEFINE n == Len(asked.payments)
    <2>1. stage \in Assembled /\ stage \notin {"asked", "unwritable"} /\ Validated(request) = "ok"
        BY <1>1 DEF Inv, PartiesResolved, Assembled, Resolved
    <2>2. CASE k \in 1 .. n
        <3>1. Total < CircuitRange
            BY <1>1, <2>1, RequestIsRequested, ValidatedFacts DEF Inv, ValidParams, ValidTransferParams, Total
        <3>2. Total \in Nat /\ Total = TotalValue(asked.payments)
            BY <1>1, <2>1, TotalFacts DEF Inv
        <3>3. asked.payments \in Seq(Payments)
            BY <1>1, <2>1, RequestFacts DEF Inv
        <3>4. \A v \in Payments : v.value \in Nat
            BY DEF Payments
        <3>5. asked.payments[k].value <= TotalValue(asked.payments)
            BY <2>2, <3>3, <3>4, SequenceIsValued, ElementsWithinTotal
        <3>6. outputs[k].value = asked.payments[k].value /\ asked.payments[k].value \in Nat
            BY <1>1, <2>1, <2>2, TransferFacts
        <3> QED
            BY <3>1, <3>2, <3>5, <3>6, RequestsAssumption
    <2>3. CASE k \notin 1 .. n
        <3>1. outputs[k] = ToParty(Sender, Left, TRUE) /\ Left \in NoteValues
            BY <1>1, <2>1, <2>3, TransferFacts
        <3> QED
            BY <3>1, RequestsAssumption DEF ToParty, NoteValues
    <2> QED
        BY <2>2, <2>3
<1>2. Inv => TransferFitsTheCircuit
    BY <1>1 DEF TransferFitsTheCircuit
<1> QED
    BY <1>2, PathInvariant, PTL

(* Addresses and texts belong together one to one.                         *)
THEOREM OneText == Spec => []OneTextPerAddress
<1>1. ASSUME Inv, stage = "new", NEW i \in DOMAIN asked.payments, asked.payments[i].to.kind = "wallet"
      PROVE  WrittenIsRead(asked.payments[i].to, request.payments[i].to.text)
    <2> DEFINE address == asked.payments[i].to.address
               text == EncodeRailgunAddress(address)
    <2>1. /\ asked.payments[i] \in Payments /\ Encodable(address)
          /\ request.payments[i] = Written(asked.payments[i])
        BY <1>1, RequestFacts DEF Inv
    <2>2. address \in Addresses
        BY <1>1, <2>1, PayeeFacts DEF Payments
    <2>3. request.payments[i].to = Text(text)
        BY <1>1, <2>1, WrittenFacts
    <2>4. text.format = Standard /\ (address.chain # LastChain => DecodeRailgunAddress(text) = address)
        BY <2>1, <2>2, AddressIsRead
    <2> HIDE DEF text, address
    <2>5. request.payments[i].to.text = text
        BY <2>3 DEF Text
    <2>6. Readable(text)
        BY <2>4 DEF Readable, Accepted
    <2> QED
        BY <2>4, <2>5, <2>6 DEF WrittenIsRead, address
<1>2. ASSUME Inv, stage = "assembled", request.function = "transfer", NEW i \in DOMAIN request.payments,
             request.payments[i].to.kind = "text"
      PROVE  request.payments[i].to.text = EncodeRailgunAddress(DecodeRailgunAddress(request.payments[i].to.text))
    <2> DEFINE p == request.payments[i]
    <2>1. stage \in Assembled /\ stage \notin {"asked", "unwritable"}
        BY <1>2 DEF Assembled
    <2>2. p \in Payments
        BY <1>2, <2>1, RequestFacts DEF Inv
    <2>3. Pays(outputs[i], p)
        BY <1>2, <2>1 DEF Inv, OutputsMade, TransferMade
    <2>4. \A name : Party(name).kind = "party"
        BY DEF Party
    <2>5. IsLiteral(p.to) /\ p.to.text.format = Standard
        BY <1>2, <2>3, <2>4 DEF Pays
    <2>6. p.to.text \in Texts
        BY <2>2, <2>5, LiteralFacts DEF Payments
    <2> QED
        BY <2>5, <2>6, TextIsWritten
<1>3. Inv => OneTextPerAddress
    BY <1>1, <1>2 DEF OneTextPerAddress
<1> QED
    BY <1>3, PathInvariant, PTL

(* The parameters that are submitted are those that were proved.           *)
THEOREM ProvedIsSubmitted == Spec => []SubmittedAsProved
<1>1. Inv => SubmittedAsProved
    BY DEF Inv, CiphertextsMade, SubmittedAsProved, Published, Assembled
<1> QED
    BY <1>1, PathInvariant, PTL

-----------------------------------------------------------------------------
(* Who can decrypt                                                         *)

Counted(x, y) == IF x = y THEN 1 ELSE 0
ScalarBag(a, b, c) == [x \in {a, b, c} |-> Counted(x, a) + Counted(x, b) + Counted(x, c)]

LEMMA ThreeScalars ==
    ASSUME NEW a, NEW b, NEW c
    PROVE  Times(Times(Times(EmptyBag, a), b), c) = ScalarBag(a, b, c)
<1>1. Times(EmptyBag, a) = [x \in {a} |-> 1]
    BY DEF Times, EmptyBag, SetToBag, (+)
<1>2. Times(Times(EmptyBag, a), b) = [x \in {a, b} |-> Counted(x, a) + Counted(x, b)]
    BY <1>1 DEF Times, SetToBag, (+), Counted
<1> DEFINE two == [x \in {a, b} |-> Counted(x, a) + Counted(x, b)]
           one == [x \in {c} |-> 1]
<1>3. two (+) one = [x \in {a, b} \cup {c} |-> (IF x \in {a, b} THEN two[x] ELSE 0)
                                            + (IF x \in {c} THEN one[x] ELSE 0)]
    BY DEF (+)
<1>4. Times(two, c) = two (+) one
    BY DEF Times, SetToBag
<1>5. ASSUME NEW x \in {a, b, c}
      PROVE  (IF x \in {a, b} THEN two[x] ELSE 0) + (IF x \in {c} THEN one[x] ELSE 0)
                = Counted(x, a) + Counted(x, b) + Counted(x, c)
    BY DEF Counted
<1>6. {a, b} \cup {c} = {a, b, c}
    OBVIOUS
<1> HIDE DEF two, one
<1>7. Times(two, c) = [x \in {a, b, c} |-> Counted(x, a) + Counted(x, b) + Counted(x, c)]
    BY <1>3, <1>4, <1>5, <1>6
<1> QED
    BY <1>2, <1>7 DEF two, ScalarBag

LEMMA ScalarsDiffer ==
    /\ \A v, w : Viewing(v) = Viewing(w) => v = w
    /\ \A j, k : Random(j) = Random(k) => j = k
    /\ \A k, w : Random(k) # Viewing(w)
<1>1. ASSUME NEW v, NEW w, Viewing(v) = Viewing(w)
      PROVE  v = w
    <2>1. Viewing(v)[2] = v /\ Viewing(w)[2] = w
        BY DEF Viewing
    <2> QED
        BY <1>1, <2>1
<1>2. ASSUME NEW j, NEW k, Random(j) = Random(k)
      PROVE  j = k
    <2>1. Random(j)[2] = j /\ Random(k)[2] = k
        BY DEF Random
    <2> QED
        BY <1>2, <2>1
<1>3. ASSUME NEW k, NEW w
      PROVE  Random(k) # Viewing(w)
    <2>1. Random(k)[1] = "random" /\ Viewing(w)[1] = "viewing"
        BY DEF Random, Viewing
    <2> QED
        BY <2>1
<1> QED
    BY <1>1, <1>2, <1>3

(* Only the wallet it was encrypted to, and that one always.               *)
LEMMA DecryptsFacts ==
    ASSUME NEW sender, NEW receiver, NEW viewing, NEW k, NEW value, NEW wallet
    PROVE  Decrypts(wallet, EncryptTransactNote(sender, receiver, viewing, Random(k), value))
             <=> wallet = viewing
<1> DEFINE ec == EncryptTransactNote(sender, receiver, viewing, Random(k), value)
           S == Viewing(sender)
           V == Viewing(viewing)
           W == Viewing(wallet)
           R == Random(k)
           tried == Times(Times(Times(EmptyBag, S), R), W)
           sealed == Times(Times(Times(EmptyBag, V), R), S)
<1>1. /\ ec.blindedSender = Times(Times(EmptyBag, S), R) /\ ec.ct.sealedWith = sealed
    BY DEF EncryptTransactNote, BlindNoteKeys, ViewingPub, SharedKey, EncryptGCM
<1>2. SharedKey(wallet, ec.blindedSender) = tried
    BY <1>1 DEF SharedKey
<1>3. Decrypts(wallet, ec) <=> tried = sealed
    BY <1>1, <1>2 DEF Decrypts, Opens
<1>4. /\ tried = [x \in {S, R, W} |-> Counted(x, S) + Counted(x, R) + Counted(x, W)]
      /\ sealed = [x \in {V, R, S} |-> Counted(x, V) + Counted(x, R) + Counted(x, S)]
    <2> HIDE DEF S, V, W, R
    <2>1. tried = ScalarBag(S, R, W) /\ sealed = ScalarBag(V, R, S)
        BY ThreeScalars
    <2> QED
        BY <2>1 DEF ScalarBag
<1>5. /\ R # S /\ R # V /\ R # W
      /\ W = V => wallet = viewing
    BY ScalarsDiffer
<1>7. wallet = viewing => W = V
    OBVIOUS
<1> HIDE DEF tried, sealed, S, V, W, R, ec
<1>8. ASSUME tried = sealed
      PROVE  W = V
    <2> SUFFICES ASSUME W # V PROVE FALSE
        OBVIOUS
    <2>1. W \in DOMAIN sealed
        BY <1>4, <1>8
    <2>2. W = S
        BY <1>4, <1>5, <2>1
    <2>3. tried[S] = 2
        BY <1>4, <1>5, <2>2 DEF Counted
    <2>4. sealed[S] = 1
        BY <1>4, <1>5, <2>2 DEF Counted
    <2> QED
        BY <1>8, <2>3, <2>4
<1>9. ASSUME W = V
      PROVE  tried = sealed
    <2>1. {S, R, W} = {V, R, S}
        BY <1>9
    <2>2. ASSUME NEW x
          PROVE  Counted(x, S) + Counted(x, R) + Counted(x, W) = Counted(x, V) + Counted(x, R) + Counted(x, S)
        BY <1>9 DEF Counted
    <2> QED
        BY <1>4, <2>1, <2>2
<1>10. Decrypts(wallet, ec) <=> wallet = viewing
    BY <1>3, <1>5, <1>7, <1>8, <1>9
<1> QED
    BY <1>10 DEF ec

(* And finds in it what was encrypted.                                     *)
LEMMA DecryptedFacts ==
    ASSUME NEW sender, NEW receiver, NEW viewing, NEW k, NEW value, NEW wallet
    PROVE  Decrypted(wallet, EncryptTransactNote(sender, receiver, viewing, Random(k), value))
             = [encodedMPK |-> XorKeys({receiver}, {sender}), random |-> Random(k), value |-> value]
    BY DEF Decrypted, DecryptGCM, EncryptTransactNote, EncryptGCM

LEMMA PlaceholderStaysShut ==
    ASSUME NEW wallet
    PROVE  ~Decrypts(wallet, Placeholder)
<1>1. Placeholder.ct.sealedWith = EmptyBag /\ Placeholder.blindedSender = EmptyBag
    BY DEF Placeholder, EncryptGCM
<1>2. SharedKey(wallet, EmptyBag) = [x \in {Viewing(wallet)} |-> 1]
    BY DEF SharedKey, Times, EmptyBag, SetToBag, (+)
<1>3. DOMAIN EmptyBag = {}
    BY DEF EmptyBag, SetToBag
<1>4. Viewing(wallet) \in DOMAIN SharedKey(wallet, EmptyBag)
    BY <1>2
<1> QED
    BY <1>1, <1>3, <1>4 DEF Decrypts, Opens

(* The secrets of a note can be read by its owner's wallet only.           *)
THEOREM OwnersReadAlone == Spec => []OnlyTheOwnerReads
<1>1. ASSUME Inv, NEW wallet, NEW i \in 1 .. next - 1, Decrypts(wallet, cts[i].ec)
      PROVE  wallet = outputs[i].viewing
    <2>1. stage \in Assembled /\ request.function # "shield"
        <3>1. ~(stage \in Assembled /\ request.function # "shield") => next = 1
            BY <1>1 DEF Inv, CiphertextsMade
        <3>2. 1 .. 1 - 1 = {}
            OBVIOUS
        <3> QED
            BY <3>1, <3>2
    <2>2. /\ LeafCount \in 1 .. Len(outputs) /\ Len(outputs) \in Nat
          /\ \A k \in 1 .. Len(outputs) : outputs[k] \in OutputRecords
        BY <1>1, <2>1, LeafFacts DEF Inv
    <2>3. /\ next \in 1 .. LeafCount + 1
          /\ cts = [j \in 1 .. LeafCount |-> IF j < next THEN Sealed(j) ELSE Blank]
        BY <1>1, <2>1 DEF Inv, CiphertextsMade
    <2>4. i \in 1 .. LeafCount /\ i < next /\ i \in 1 .. Len(outputs)
        BY <2>2, <2>3
    <2>5. cts[i] = Sealed(i)
        BY <2>3, <2>4
    <2>6. outputs[i] \in OutputRecords
        BY <2>2, <2>4
    <2>7. outputs[i].encrypted \in BOOLEAN
        BY <2>6 DEF OutputRecords
    <2>8. CASE outputs[i].encrypted
        <3>1. cts[i].ec = EncryptTransactNote(MasterKey[Sender], outputs[i].owner, outputs[i].viewing,
                                              Random(i), outputs[i].value)
            BY <2>5, <2>8 DEF Sealed
        <3> DEFINE o == outputs[i]
        <3>2. Decrypts(wallet, EncryptTransactNote(MasterKey[Sender], o.owner, o.viewing, Random(i), o.value))
                <=> wallet = o.viewing
            BY DecryptsFacts
        <3> QED
            BY <1>1, <3>1, <3>2
    <2>9. CASE ~outputs[i].encrypted
        <3>1. cts[i].ec = Placeholder
            BY <2>5, <2>9 DEF Sealed
        <3> QED
            BY <1>1, <3>1, PlaceholderStaysShut
    <2> QED
        BY <2>7, <2>8, <2>9
<1>2. Inv => OnlyTheOwnerReads
    BY <1>1 DEF OnlyTheOwnerReads
<1> QED
    BY <1>2, PathInvariant, PTL

-----------------------------------------------------------------------------
(* What the events of the transaction are made of, and what they bring     *)

EventOf(kind, tag, leaves, nullifiers) ==
    [kind |-> kind, hash |-> 0, tag |-> tag, start |-> 0, leaves |-> leaves,
     nullifiers |-> nullifiers, decode |-> "ok"]

(* The last event of a call carries the id and the leaves; those before it *)
(* publish nullifiers, if anything.                                        *)
Untagged(nulls) == {EventOf("nullified", NoTx, <<>>, nulls), EventOf("unshield", NoTx, <<>>, {})}
CallOf(batch, n, kind, leaves, nulls) ==
    /\ DOMAIN batch = 1 .. n
    /\ batch[n] = EventOf(kind, TxId, leaves, {})
    /\ \A i \in 1 .. n - 1 : batch[i] \in Untagged(nulls)
    /\ nulls # {} => n > 1 /\ batch[1] = EventOf("nullified", NoTx, <<>>, nulls)

LEMMA CallHandled ==
    ASSUME NEW batch, NEW n \in Nat \ {0}, NEW kind \in {"shield", "transact"}, NEW leaves, NEW nulls,
           CallOf(batch, n, kind, leaves, nulls)
    PROVE  /\ HandleEventBatch(batch).complete = {TxId}
           /\ HandleEventBatch(batch).confirmed = {[id |-> leaves[j], tx |-> TxId] : j \in DOMAIN leaves}
           /\ HandleEventBatch(batch).spent = {[id |-> x, tx |-> TxId] : x \in nulls}
<1> DEFINE last == EventOf(kind, TxId, leaves, {})
           nul  == EventOf("nullified", NoTx, <<>>, nulls)
           uns  == EventOf("unshield", NoTx, <<>>, {})
           H(i) == HandleEvent(batch[i], TxId)
<1>0. /\ DOMAIN batch = 1 .. n /\ n \in 1 .. n /\ batch[n] = last
      /\ \A i \in 1 .. n : i # n => batch[i] \in {nul, uns}
      /\ nulls # {} => 1 \in 1 .. n /\ batch[1] = nul
    <2>1. \A i \in 1 .. n : i # n => i \in 1 .. n - 1
        OBVIOUS
    <2> QED
        BY <2>1 DEF CallOf, Untagged
<1>1. /\ last.hash = 0 /\ last.tag = TxId /\ last.kind = kind /\ last.decode = "ok"
      /\ last.leaves = leaves /\ last.nullifiers = {}
      /\ nul.hash = 0 /\ nul.tag = NoTx /\ nul.kind = "nullified" /\ nul.decode = "ok"
      /\ nul.nullifiers = nulls
      /\ uns.hash = 0 /\ uns.tag = NoTx /\ uns.kind = "unshield" /\ uns.decode = "ok"
    BY DEF EventOf
<1> HIDE DEF last, nul, uns
<1>2. \A i \in 1 .. n : TxCorrelation(batch, batch[i].hash) = TxId
    <2> DEFINE tagged == {i \in DOMAIN batch : Correlates(batch[i]) /\ batch[i].hash = 0}
    <2>1. \A i \in 1 .. n : batch[i].hash = 0
        BY <1>0, <1>1
    <2>2. tagged = {n}
        <3>1. Correlates(last) /\ ~Correlates(nul) /\ ~Correlates(uns)
            BY <1>1, PaymentPathAssumption DEF Correlates
        <3> QED
            BY <1>0, <2>1, <3>1
    <2> HIDE DEF tagged
    <2>3. (CHOOSE i \in tagged : \A j \in tagged : j <= i) = n
        BY <2>2
    <2>4. TxCorrelation(batch, 0) = batch[n].tag
        BY <2>2, <2>3 DEF TxCorrelation, tagged
    <2> QED
        BY <1>0, <1>1, <2>1, <2>4
<1>3. /\ HandleEvent(last, TxId).complete = {TxId}
      /\ HandleEvent(last, TxId).confirmed = {[id |-> leaves[j], tx |-> TxId] : j \in DOMAIN leaves}
      /\ HandleEvent(last, TxId).spent = {}
    <2>1. HandleEvent(last, TxId) = RecordCommitments(last, TxId)
        BY <1>1 DEF HandleEvent, HandleShieldEvent, HandleTransactEvent
    <2> QED
        BY <1>1, <2>1, PaymentPathAssumption DEF RecordCommitments, RecordComplete, NoUpdate
<1>4. /\ HandleEvent(nul, TxId).complete = {} /\ HandleEvent(nul, TxId).confirmed = {}
      /\ HandleEvent(nul, TxId).spent = {[id |-> x, tx |-> TxId] : x \in nulls}
    <2>1. HandleEvent(nul, TxId) = HandleNullifiedEvent(nul, TxId)
        BY <1>1 DEF HandleEvent
    <2> QED
        BY <1>1, <2>1 DEF HandleNullifiedEvent, NoUpdate
<1>5. /\ HandleEvent(uns, TxId).complete = {} /\ HandleEvent(uns, TxId).confirmed = {}
      /\ HandleEvent(uns, TxId).spent = {}
    <2>1. HandleEvent(uns, TxId) = NoUpdate
        BY <1>1 DEF HandleEvent, HandleUnshieldEvent
    <2> QED
        BY <2>1 DEF NoUpdate
<1> DEFINE updates == {HandleEvent(batch[i], TxCorrelation(batch, batch[i].hash)) : i \in DOMAIN batch}
<1>6. updates = {H(i) : i \in 1 .. n}
    BY <1>0, <1>2
<1>7. /\ HandleEventBatch(batch).complete = UNION {u.complete : u \in updates}
      /\ HandleEventBatch(batch).confirmed = UNION {u.confirmed : u \in updates}
      /\ HandleEventBatch(batch).spent = UNION {u.spent : u \in updates}
    BY DEF HandleEventBatch
<1>8. /\ H(n) \in updates /\ \A u \in updates : u \in {HandleEvent(last, TxId), HandleEvent(nul, TxId), HandleEvent(uns, TxId)}
      /\ HandleEvent(last, TxId) \in updates
      /\ nulls # {} => HandleEvent(nul, TxId) \in updates
    BY <1>0, <1>6
<1> HIDE DEF updates
<1>9. HandleEventBatch(batch).complete = {TxId}
    BY <1>3, <1>4, <1>5, <1>7, <1>8
<1>10. HandleEventBatch(batch).confirmed = {[id |-> leaves[j], tx |-> TxId] : j \in DOMAIN leaves}
    <2> DEFINE C == {[id |-> leaves[j], tx |-> TxId] : j \in DOMAIN leaves}
    <2>1. HandleEvent(last, TxId).confirmed = C
        BY <1>3
    <2> HIDE DEF C
    <2>2. UNION {u.confirmed : u \in updates} = C
        BY <1>4, <1>5, <1>8, <2>1
    <2> QED
        BY <1>7, <2>2 DEF C
<1>11. HandleEventBatch(batch).spent = {[id |-> x, tx |-> TxId] : x \in nulls}
    <2> DEFINE N == {[id |-> x, tx |-> TxId] : x \in nulls}
    <2>1. HandleEvent(nul, TxId).spent = N /\ (nulls = {} => N = {})
        BY <1>4
    <2> HIDE DEF N
    <2>2. UNION {u.spent : u \in updates} = N
        BY <1>3, <1>5, <1>8, <2>1
    <2> QED
        BY <1>7, <2>2 DEF N
<1> QED
    BY <1>9, <1>10, <1>11

(* The events of the transaction, as the contract emits them.              *)
LEMMA TransactMakesCall ==
    ASSUME NEW leaves, leaves # <<>>, NEW nulls
    PROVE  /\ TransactEvents(0, TxId, 0, nulls, leaves, FALSE)
                = <<EventOf("nullified", NoTx, <<>>, nulls), EventOf("transact", TxId, leaves, {})>>
           /\ TransactEvents(0, TxId, 0, nulls, leaves, TRUE)
                = <<EventOf("nullified", NoTx, <<>>, nulls), EventOf("unshield", NoTx, <<>>, {}),
                    EventOf("transact", TxId, leaves, {})>>
<1> DEFINE nul == EventOf("nullified", NoTx, <<>>, nulls)
           uns == EventOf("unshield", NoTx, <<>>, {})
           trs == EventOf("transact", TxId, leaves, {})
<1>1. /\ TransactEvents(0, TxId, 0, nulls, leaves, FALSE) = <<nul>> \o <<>> \o <<trs>>
      /\ TransactEvents(0, TxId, 0, nulls, leaves, TRUE) = <<nul>> \o <<uns>> \o <<trs>>
    BY DEF TransactEvents, EventOf
<1> DEFINE S == {nul, uns, trs}
<1> HIDE DEF nul, uns, trs
<1>2. nul \in S /\ uns \in S /\ trs \in S
    OBVIOUS
<1> HIDE DEF S
<1>3. <<nul>> \o <<>> = <<nul>> /\ <<nul>> \o <<trs>> = <<nul, trs>>
    BY <1>2, JoinTuples
<1>4. <<nul>> \o <<uns>> = <<nul, uns>> /\ <<nul, uns>> \o <<trs>> = <<nul, uns, trs>>
    BY <1>2, JoinTuples
<1>5. /\ TransactEvents(0, TxId, 0, nulls, leaves, FALSE) = <<nul, trs>>
      /\ TransactEvents(0, TxId, 0, nulls, leaves, TRUE) = <<nul, uns, trs>>
    BY <1>1, <1>3, <1>4
<1> QED
    BY <1>5 DEF nul, uns, trs

Leaves     == [k \in 1 .. LeafCount |-> Commitment(k)]
Nullifiers == {Nullifier(k) : k \in DOMAIN inputs}

LEMMA EventsFacts ==
    ASSUME Inv, Published
    PROVE  /\ stage \in Assembled /\ Leaves # <<>> /\ DOMAIN Leaves = 1 .. LeafCount
           /\ request.function = "shield" => events = <<EventOf("shield", TxId, Leaves, {})>> /\ inputs = <<>>
           /\ request.function = "transfer" =>
                events = <<EventOf("nullified", NoTx, <<>>, Nullifiers), EventOf("transact", TxId, Leaves, {})>>
           /\ request.function = "unshield" =>
                events = <<EventOf("nullified", NoTx, <<>>, Nullifiers), EventOf("unshield", NoTx, <<>>, {}),
                           EventOf("transact", TxId, Leaves, {})>>
<1>0. stage \in Assembled
    BY DEF Published, Assembled
<1>1. LeafCount \in 1 .. Len(outputs) /\ Len(outputs) \in Nat
    BY <1>0, LeafFacts DEF Inv
<1>2. DOMAIN Leaves = 1 .. LeafCount /\ 1 \in DOMAIN Leaves
    BY <1>1 DEF Leaves
<1>3. Leaves # <<>>
    <2>1. DOMAIN <<>> = {}
        BY EmptySeq
    <2> QED
        BY <1>2, <2>1
<1>4. events = IF request.function = "shield" THEN ShieldEvents(0, TxId, 0, Leaves, "ok")
               ELSE TransactEvents(0, TxId, 0, Nullifiers, Leaves, Unshields)
    BY DEF Inv, EventsEmitted, Emitted, Leaves, Nullifiers
<1>5. request.function = "shield" => inputs = <<>>
    BY <1>0 DEF Inv, OutputsMade, ShieldMade
<1>6. ShieldEvents(0, TxId, 0, Leaves, "ok") = <<EventOf("shield", TxId, Leaves, {})>>
    BY DEF ShieldEvents, EventOf
<1>7. ASSUME request.function = "transfer"
      PROVE  events = <<EventOf("nullified", NoTx, <<>>, Nullifiers), EventOf("transact", TxId, Leaves, {})>>
    <2>1. Unshields = FALSE /\ request.function # "shield"
        BY <1>7 DEF Unshields
    <2>2. events = TransactEvents(0, TxId, 0, Nullifiers, Leaves, FALSE)
        BY <1>4, <2>1
    <2> QED
        BY <1>3, <2>2, TransactMakesCall
<1>8. ASSUME request.function = "unshield"
      PROVE  events = <<EventOf("nullified", NoTx, <<>>, Nullifiers), EventOf("unshield", NoTx, <<>>, {}),
                        EventOf("transact", TxId, Leaves, {})>>
    <2>1. Unshields = TRUE /\ request.function # "shield"
        BY <1>8 DEF Unshields
    <2>2. events = TransactEvents(0, TxId, 0, Nullifiers, Leaves, TRUE)
        BY <1>4, <2>1
    <2> QED
        BY <1>3, <2>2, TransactMakesCall
<1> QED
    BY <1>0, <1>2, <1>3, <1>4, <1>5, <1>6, <1>7, <1>8

(* The domain finds the transaction in them, every leaf and every spend.   *)
LEMMA HandledFacts ==
    ASSUME Inv, stage = "handled"
    PROVE  /\ indexed.complete = {TxId}
           /\ indexed.confirmed = {[id |-> Commitment(k), tx |-> TxId] : k \in 1 .. LeafCount}
           /\ indexed.spent = {[id |-> Nullifier(k), tx |-> TxId] : k \in DOMAIN inputs}
<1>0. Published /\ stage \in Assembled
    BY DEF Published, Assembled
<1>1. \E n \in Nat \ {0}, kind \in {"shield", "transact"} : CallOf(events, n, kind, Leaves, Nullifiers)
    <2> DEFINE nul == EventOf("nullified", NoTx, <<>>, Nullifiers)
               uns == EventOf("unshield", NoTx, <<>>, {})
               trs == EventOf("transact", TxId, Leaves, {})
    <2>1. CASE request.function = "shield"
        <3>1. events = <<EventOf("shield", TxId, Leaves, {})>> /\ Nullifiers = {}
            <4>1. DOMAIN inputs = {}
                BY <1>0, <2>1, EventsFacts, EmptySeq
            <4> QED
                BY <1>0, <2>1, <4>1, EventsFacts DEF Nullifiers
        <3>2. DOMAIN events = 1 .. 1 /\ events[1] = EventOf("shield", TxId, Leaves, {})
            BY <3>1
        <3>3. CallOf(events, 1, "shield", Leaves, Nullifiers)
            BY <3>1, <3>2 DEF CallOf
        <3> QED
            BY <3>3
    <2>2. CASE request.function = "transfer"
        <3>1. events = <<nul, trs>>
            BY <1>0, <2>2, EventsFacts
        <3> HIDE DEF nul, trs
        <3>2. DOMAIN events = 1 .. 2 /\ events[1] = nul /\ events[2] = trs
            BY <3>1
        <3>3. CallOf(events, 2, "transact", Leaves, Nullifiers)
            BY <3>2 DEF CallOf, Untagged, nul, trs
        <3> QED
            BY <3>3
    <2>3. CASE request.function = "unshield"
        <3>1. events = <<nul, uns, trs>>
            BY <1>0, <2>3, EventsFacts
        <3> HIDE DEF nul, uns, trs
        <3>2. DOMAIN events = 1 .. 3 /\ events[1] = nul /\ events[2] = uns /\ events[3] = trs
            BY <3>1
        <3>3. CallOf(events, 3, "transact", Leaves, Nullifiers)
            BY <3>2 DEF CallOf, Untagged, nul, uns, trs
        <3> QED
            BY <3>3
    <2> QED
        BY <1>0, <2>1, <2>2, <2>3, LeafFacts DEF Inv, Transactional
<1>2. PICK n \in Nat \ {0}, kind \in {"shield", "transact"} : CallOf(events, n, kind, Leaves, Nullifiers)
    BY <1>1
<1>3. indexed = HandleEventBatch(events)
    BY DEF Inv, UpdateIndexed
<1>4. /\ indexed.complete = {TxId}
      /\ indexed.confirmed = {[id |-> Leaves[j], tx |-> TxId] : j \in DOMAIN Leaves}
      /\ indexed.spent = {[id |-> x, tx |-> TxId] : x \in Nullifiers}
    BY <1>2, <1>3, CallHandled
<1>5. DOMAIN Leaves = 1 .. LeafCount /\ \A k \in 1 .. LeafCount : Leaves[k] = Commitment(k)
    BY DEF Leaves
<1>6. indexed.confirmed = {[id |-> Commitment(k), tx |-> TxId] : k \in 1 .. LeafCount}
    BY <1>4, <1>5
<1>7. indexed.spent = {[id |-> Nullifier(k), tx |-> TxId] : k \in DOMAIN inputs}
    BY <1>4 DEF Nullifiers
<1> QED
    BY <1>4, <1>6, <1>7

(* Whatever its outputs, the domain finds the transaction id in the events *)
(* of a transaction.                                                       *)
THEOREM EventsAreFound == Spec => []EventsCarryTheTransaction
<1>1. Inv => EventsCarryTheTransaction
    BY HandledFacts DEF EventsCarryTheTransaction
<1> QED
    BY <1>1, PathInvariant, PTL

-----------------------------------------------------------------------------
(* Whom the client meant, and whose the outputs are                        *)

LEMMA MeansParty ==
    ASSUME NEW name, NEW key, NEW viewing
    PROVE  MeansKeys(Party(name), key, viewing)
             <=> name \in Parties /\ MasterKey[name] = key /\ viewing = key
<1>1. Party(name).kind = "party" /\ Party(name).name = name
    BY DEF Party
<1> HIDE DEF Party
<1> QED
    BY <1>1 DEF MeansKeys

LEMMA MeansWallet ==
    ASSUME NEW to, to.kind = "wallet", NEW key, NEW viewing
    PROVE  MeansKeys(to, key, viewing) <=> to.address.key = key /\ to.address.viewing = viewing
    BY DEF MeansKeys

LEMMA MeansText ==
    ASSUME NEW to, to.kind = "text", to.text \in Texts, to.text.format = Standard,
           NEW key \in AllWallets, NEW viewing \in AllWallets
    PROVE  MeansKeys(to, key, viewing)
             <=> DecodeRailgunAddress(to.text).key = key /\ to.text.viewing = viewing
<1> DEFINE text == to.text
           read == DecodeRailgunAddress(text)
           of(chain) == [key |-> key, viewing |-> viewing, chain |-> chain]
<1>0. /\ AllWallets = KeyNumbers /\ AllWallets = 0 .. Power(Base, KeyBytes) - 1
      /\ Power(Base, KeyBytes) \in Nat /\ Power(Base, IdBytes) \in Nat
    BY KeyFacts, WidthFacts DEF AllWallets
<1>1. MeansKeys(to, key, viewing)
        <=> text.viewing = viewing /\ \E chain \in Chains : text = EncodeRailgunAddress(of(chain))
    BY DEF MeansKeys
<1>2. ASSUME NEW chain \in Chains, text = EncodeRailgunAddress(of(chain))
      PROVE  read.key = key
    <2>1. chain \in {AllChains} \cup [type : Bytes, id : Nat] /\ chain.id < Power(Base, IdBytes)
        <3>1. CASE chain = AllChains
            <4>1. 0 < Power(Base, IdBytes)
                BY WidthFacts
            <4> QED
                BY <3>1, <4>1 DEF AllChains
        <3>2. CASE chain \in [type : Bytes, id : 0 .. Power(Base, IdBytes) - 1]
            BY <1>0, <3>2
        <3> QED
            BY <3>1, <3>2 DEF Chains
    <2>2. key \in Nat /\ key < Power(Base, KeyBytes) /\ viewing \in 0 .. Power(Base, KeyBytes) - 1
        BY <1>0
    <2>3. of(chain).key = key /\ of(chain).chain = chain
        OBVIOUS
    <2>4. of(chain) \in Addresses
        BY <2>1, <2>2 DEF Addresses
    <2> HIDE DEF of
    <2>5. Encodable(of(chain))
        BY <2>1, <2>2, <2>3 DEF Encodable, ChainFits
    <2> QED
        BY <1>2, <2>3, <2>4, <2>5, AddressIsRead
<1>3. ASSUME read.key = key, text.viewing = viewing
      PROVE  \E chain \in Chains : text = EncodeRailgunAddress(of(chain))
    <2>1. read \in Addresses /\ Encodable(read) /\ read.viewing = text.viewing /\ EncodeRailgunAddress(read) = text
        BY TextIsWritten
    <2> HIDE DEF read
    <2>2. read = [key |-> read.key, viewing |-> read.viewing, chain |-> read.chain]
          /\ read.chain \in {AllChains} \cup [type : Bytes, id : Nat]
        BY <2>1 DEF Addresses
    <2>3. read.chain \in Chains
        BY <1>0, <2>1, <2>2 DEF Chains, Encodable, ChainFits
    <2>4. read = of(read.chain)
        BY <1>3, <2>1, <2>2
    <2> QED
        BY <2>1, <2>3, <2>4
<1> QED
    BY <1>1, <1>2, <1>3

(* An output that pays what was asked is of the one who was meant, and is  *)
(* given to the party that was named, if one was.                          *)
LEMMA PaysWhoWasMeant ==
    ASSUME NEW p \in Payments, p.to.kind = "wallet" => Encodable(p.to.address),
           NEW out, Pays(out, Written(p))
    PROVE  /\ out.owner \in AllWallets /\ out.viewing \in AllWallets
           /\ \A key \in AllWallets, viewing \in AllWallets :
                MeansKeys(p.to, key, viewing) <=> out.owner = key /\ out.viewing = viewing
           /\ \A name \in Parties : Party(name) \in out.lookup <=> p.to = Party(name)
           /\ \A name \in Parties : p.to = Party(name) => out.owner = MasterKey[name]
           /\ out.lookup \subseteq Named
<1>0. p.to \in Payees
    BY DEF Payments
<1>1. \A name : Party(name).kind = "party"
    BY DEF Party
<1>2. AllWallets = KeyNumbers /\ AllWallets = 0 .. Power(Base, KeyBytes) - 1
    BY KeyFacts DEF AllWallets
<1>3. CASE p.to.kind = "party" \/ p.to.kind = "public"
    <2>1. Written(p) = p /\ ~IsLiteral(p.to)
        BY <1>3, WrittenFacts DEF IsLiteral
    <2>2. PICK name \in Parties : p.to = Party(name) /\ out = ToParty(name, p.value, TRUE)
        BY <2>1 DEF Pays
    <2>3. /\ out.owner = MasterKey[name] /\ out.viewing = MasterKey[name] /\ out.lookup = {Party(name)}
          /\ MasterKey[name] \in AllWallets
        BY <2>2, KeyFacts DEF ToParty
    <2>4. ASSUME NEW key, NEW viewing
          PROVE  MeansKeys(p.to, key, viewing) <=> out.owner = key /\ out.viewing = viewing
        <3>1. MeansKeys(Party(name), key, viewing) <=> name \in Parties /\ MasterKey[name] = key /\ viewing = key
            BY MeansParty
        <3> QED
            BY <2>2, <2>3, <3>1
    <2>5. Party(name) \in Named
        BY DEF Named
    <2> QED
        BY <2>2, <2>3, <2>4, <2>5, PartyIsNamed
<1>4. CASE p.to.kind = "wallet"
    <2> DEFINE text == EncodeRailgunAddress(p.to.address)
    <2>1. p.to.address \in Addresses
        BY <1>0, <1>4, PayeeFacts
    <2>2. /\ text.viewing = p.to.address.viewing /\ DecodeRailgunAddress(text).key = p.to.address.key
        BY <1>4, <2>1, AddressIsRead
    <2>3. Written(p).to = Text(text) /\ IsLiteral(Written(p).to)
        BY <1>4, WrittenFacts
    <2> HIDE DEF text
    <2>4. Written(p).to.text = text
        BY <2>3 DEF Text
    <2>5. out = ToText(text, Written(p).value)
        BY <2>3, <2>4 DEF Pays
    <2>6. out.owner = p.to.address.key /\ out.viewing = p.to.address.viewing /\ out.lookup = {}
        BY <2>2, <2>5 DEF ToText
    <2>7. p.to.address.key \in AllWallets /\ p.to.address.viewing \in AllWallets
        BY <1>2, <1>4, <2>1, WidthFacts DEF Addresses, Encodable
    <2>8. \A key, viewing : MeansKeys(p.to, key, viewing) <=> out.owner = key /\ out.viewing = viewing
        BY <1>4, <2>6, MeansWallet
    <2> QED
        BY <1>1, <1>4, <2>6, <2>7, <2>8
<1>5. CASE p.to.kind = "text"
    <2>1. Written(p) = p
        BY <1>5, WrittenFacts
    <2>2. p.to.text.format = Standard /\ out = ToText(p.to.text, p.value) /\ p.to.text \in Texts
        BY <1>0, <1>1, <1>5, <2>1, PayeeFacts DEF Pays
    <2>3. out.owner = DecodeRailgunAddress(p.to.text).key /\ out.viewing = p.to.text.viewing /\ out.lookup = {}
        BY <2>2 DEF ToText
    <2>4. out.viewing \in AllWallets
        BY <1>2, <2>2, <2>3 DEF Texts
    <2>5. out.owner \in AllWallets
        <3>1. DecodeRailgunAddress(p.to.text) \in Addresses /\ Encodable(DecodeRailgunAddress(p.to.text))
            BY <2>2, TextIsWritten
        <3> QED
            BY <1>2, <2>3, <3>1, WidthFacts DEF Addresses, Encodable
    <2>6. \A key \in AllWallets, viewing \in AllWallets :
            MeansKeys(p.to, key, viewing) <=> out.owner = key /\ out.viewing = viewing
        BY <1>5, <2>2, <2>3, MeansText
    <2> QED
        BY <1>1, <1>5, <2>3, <2>4, <2>5, <2>6
<1> QED
    BY <1>0, <1>3, <1>4, <1>5, PayeeFacts

(* The same for the outputs of a transfer.                                 *)
LEMMA TransferIsMeant ==
    ASSUME Inv, stage \in Assembled, request.function = "transfer", NEW k \in 1 .. Len(asked.payments)
    PROVE  /\ outputs[k].owner \in AllWallets /\ outputs[k].viewing \in AllWallets
           /\ \A key \in AllWallets, viewing \in AllWallets :
                MeansKeys(asked.payments[k].to, key, viewing)
                  <=> outputs[k].owner = key /\ outputs[k].viewing = viewing
           /\ \A name \in Parties : Party(name) \in outputs[k].lookup <=> asked.payments[k].to = Party(name)
           /\ \A name \in Parties : asked.payments[k].to = Party(name) => outputs[k].owner = MasterKey[name]
           /\ outputs[k].lookup \subseteq Named
<1>1. stage \notin {"asked", "unwritable"}
    BY DEF Assembled
<1>2. /\ asked.payments[k] \in Payments /\ request.payments[k] = Written(asked.payments[k])
      /\ asked.payments[k].to.kind = "wallet" => Encodable(asked.payments[k].to.address)
    BY <1>1, RequestFacts DEF Inv
<1>3. Pays(outputs[k], request.payments[k])
    BY TransferFacts
<1>4. Pays(outputs[k], Written(asked.payments[k]))
    BY <1>2, <1>3
<1> QED
    BY <1>2, <1>4, PaysWhoWasMeant

LEMMA XorTwiceIsNothing ==
    ASSUME NEW owner, NEW sender
    PROVE  XorKeys(XorKeys({owner}, {sender}), {owner}) = {sender}
    BY DEF XorKeys

(* The notes of a transfer a wallet finds are those it owns and can read.  *)
LEMMA FoundFacts ==
    ASSUME Inv, Published, request.function = "transfer", NEW wallet
    PROVE  FoundBy(wallet) = {k \in DOMAIN outputs : outputs[k].owner = wallet /\ outputs[k].viewing = wallet}
<1>0. stage \in Assembled /\ stage # "assembled"
    BY DEF Published, Assembled
<1>1. LeafCount = Len(outputs) /\ DOMAIN outputs = 1 .. Len(outputs) /\ Len(outputs) \in Nat
    BY <1>0, LeafFacts DEF Inv, LeafCount
<1>2. events[TheTransact].leaves = Leaves
    <2> DEFINE nul == EventOf("nullified", NoTx, <<>>, Nullifiers)
               trs == EventOf("transact", TxId, Leaves, {})
    <2>1. nul.kind = "nullified" /\ trs.kind = "transact" /\ trs.leaves = Leaves
        BY DEF EventOf
    <2>2. events = <<nul, trs>>
        BY EventsFacts
    <2> HIDE DEF nul, trs
    <2>3. DOMAIN events = 1 .. 2 /\ events[1] = nul /\ events[2] = trs
        BY <2>2
    <2>4. TheTransact \in DOMAIN events /\ events[TheTransact].kind = "transact"
        <3>1. \E i \in DOMAIN events : events[i].kind = "transact"
            BY <2>1, <2>3
        <3> QED
            BY <3>1 DEF TheTransact
    <2> QED
        BY <2>1, <2>3, <2>4
<1>3. DOMAIN Leaves = 1 .. Len(outputs) /\ \A i \in 1 .. Len(outputs) : Leaves[i] = Commitment(i)
    BY <1>1 DEF Leaves
<1>4. \A i \in 1 .. Len(outputs) : cts[i] = Sealed(i)
    BY <1>0, <1>1 DEF Inv, CiphertextsMade
<1>5. \A i \in 1 .. Len(outputs) : outputs[i].encrypted = TRUE
    <2>1. ASSUME NEW i \in 1 .. Len(outputs)
          PROVE  outputs[i].encrypted = TRUE
        <3>1. CASE i \in 1 .. Len(asked.payments)
            <4>1. Pays(outputs[i], request.payments[i])
                BY <1>0, <3>1, TransferFacts
            <4> QED
                BY <4>1, ValuePaid
        <3>2. CASE i \notin 1 .. Len(asked.payments)
            <4>1. outputs[i] = ToParty(Sender, Left, TRUE)
                BY <1>0, <1>1, <3>2, TransferFacts
            <4> QED
                BY <4>1 DEF ToParty
        <3> QED
            BY <3>1, <3>2
    <2> QED
        BY <2>1
<1>6. ASSUME NEW i \in 1 .. Len(outputs)
      PROVE  /\ Decrypts(wallet, cts[i].ec) <=> outputs[i].viewing = wallet
             /\ LET note == Decrypted(wallet, cts[i].ec)
                IN  (Leaves[i] = <<wallet, note.random, note.value>>
                      /\ XorKeys(note.encodedMPK, {wallet}) = {MasterKey[Sender]})
                    <=> outputs[i].owner = wallet
    <2> DEFINE o == outputs[i]
               ec == EncryptTransactNote(MasterKey[Sender], o.owner, o.viewing, Random(i), o.value)
               note == Decrypted(wallet, ec)
    <2>1. cts[i].ec = ec
        <3>1. outputs[i].encrypted
            BY <1>5
        <3>2. Sealed(i).ec = IF o.encrypted THEN ec ELSE Placeholder
            BY DEF Sealed
        <3> QED
            BY <1>4, <3>1, <3>2
    <2>2. Decrypts(wallet, ec) <=> wallet = o.viewing
        BY DecryptsFacts
    <2>3. note = [encodedMPK |-> XorKeys({o.owner}, {MasterKey[Sender]}), random |-> Random(i), value |-> o.value]
        BY DecryptedFacts
    <2>4. Leaves[i] = <<o.owner, Random(i), o.value>>
        BY <1>3 DEF Commitment
    <2> HIDE DEF ec, note
    <2>5. note.random = Random(i) /\ note.value = o.value
          /\ note.encodedMPK = XorKeys({o.owner}, {MasterKey[Sender]})
        BY <2>3
    <2>6. XorKeys(XorKeys({o.owner}, {MasterKey[Sender]}), {o.owner}) = {MasterKey[Sender]}
        BY XorTwiceIsNothing
    <2>7. (Leaves[i] = <<wallet, note.random, note.value>>
            /\ XorKeys(note.encodedMPK, {wallet}) = {MasterKey[Sender]}) <=> o.owner = wallet
        <3>1. ASSUME Leaves[i] = <<wallet, note.random, note.value>>
              PROVE  o.owner = wallet
            <4>1. <<o.owner, Random(i), o.value>>[1] = <<wallet, note.random, note.value>>[1]
                BY <2>4, <3>1
            <4> QED
                BY <4>1
        <3>2. ASSUME o.owner = wallet
              PROVE  /\ Leaves[i] = <<wallet, note.random, note.value>>
                     /\ XorKeys(note.encodedMPK, {wallet}) = {MasterKey[Sender]}
            BY <2>4, <2>5, <2>6, <3>2
        <3> QED
            BY <3>1, <3>2
    <2> QED
        BY <2>1, <2>2, <2>7 DEF note
<1>7. FoundBy(wallet) =
        {i \in DOMAIN Leaves :
            /\ Decrypts(wallet, cts[i].ec)
            /\ LET note == Decrypted(wallet, cts[i].ec)
               IN  /\ Leaves[i] = <<wallet, note.random, note.value>>
                   /\ XorKeys(note.encodedMPK, {wallet}) = {MasterKey[Sender]}}
    BY <1>2 DEF FoundBy
<1> QED
    BY <1>1, <1>3, <1>6, <1>7

(* Whatever way a wallet was named, it finds exactly the notes of a        *)
(* transfer that were meant for it, the sender his change.                 *)
THEOREM NotesAreFound == Spec => []WalletsFindTheirNotes
<1>1. ASSUME Inv, Published, request.function = "transfer", NEW wallet \in AllWallets
      PROVE  FoundBy(wallet) =
                {k \in DOMAIN outputs : IF Change(k) THEN wallet = MasterKey[Sender]
                                        ELSE Means(asked.payments[k].to, wallet)}
    <2> DEFINE n == Len(asked.payments)
    <2>1. stage \in Assembled /\ n \in Nat
        BY <1>1, TransferFacts DEF Published, Assembled
    <2>2. ASSUME NEW k \in DOMAIN outputs
          PROVE  (outputs[k].owner = wallet /\ outputs[k].viewing = wallet)
                   <=> (IF Change(k) THEN wallet = MasterKey[Sender] ELSE Means(asked.payments[k].to, wallet))
        <3>1. CASE k \in 1 .. n
            <4>1. ~Change(k)
                BY <2>1, <3>1 DEF Change
            <4>2. MeansKeys(asked.payments[k].to, wallet, wallet)
                    <=> outputs[k].owner = wallet /\ outputs[k].viewing = wallet
                BY <1>1, <2>1, <3>1, TransferIsMeant
            <4> QED
                BY <4>1, <4>2 DEF Means
        <3>2. CASE k \notin 1 .. n
            <4>1. k = n + 1 /\ outputs[k] = ToParty(Sender, Left, TRUE)
                BY <1>1, <2>1, <3>2, TransferFacts
            <4>2. outputs[k].owner = MasterKey[Sender] /\ outputs[k].viewing = MasterKey[Sender]
                BY <4>1 DEF ToParty
            <4> QED
                BY <4>1, <4>2 DEF Change
        <3> QED
            BY <3>1, <3>2
    <2>3. FoundBy(wallet) = {k \in DOMAIN outputs : outputs[k].owner = wallet /\ outputs[k].viewing = wallet}
        BY <1>1, FoundFacts
    <2> QED
        BY <2>2, <2>3
<1>2. Inv => WalletsFindTheirNotes
    BY <1>1 DEF WalletsFindTheirNotes
<1> QED
    BY <1>2, PathInvariant, PTL

-----------------------------------------------------------------------------
(* What the parties can spend                                              *)

(* Outputs that are given to a party are the party's, and are leaves.      *)
GivenToOne ==
    \A k \in DOMAIN outputs :
        \/ outputs[k].lookup = {}
        \/ k \in 1 .. LeafCount /\ \E name \in Parties : /\ outputs[k].lookup = {Party(name)}
                                                         /\ outputs[k].owner = MasterKey[name]

LEMMA OutputsAreGivenToOne ==
    ASSUME Inv, stage \in Assembled
    PROVE  GivenToOne
<1>0. /\ LeafCount = Len(outputs) - (IF Unshields THEN 1 ELSE 0) /\ Len(outputs) \in Nat
      /\ DOMAIN outputs = 1 .. Len(outputs) /\ request.function \in Transactional
    BY LeafFacts DEF Inv
<1>1. \A name, value : /\ ToParty(name, value, TRUE).lookup = {Party(name)}
                       /\ ToParty(name, value, TRUE).owner = MasterKey[name]
                       /\ ToParty(name, value, FALSE).lookup = {Party(name)}
                       /\ ToParty(name, value, FALSE).owner = MasterKey[name]
    BY DEF ToParty
<1>2. CASE request.function = "shield"
    <2>1. PICK name \in Parties : outputs = <<ToParty(name, request.payments[1].value, FALSE)>>
        BY <1>2 DEF Inv, OutputsMade, ShieldMade
    <2>2. LeafCount = 1 /\ DOMAIN outputs = 1 .. 1 /\ outputs[1] = ToParty(name, request.payments[1].value, FALSE)
        BY <1>0, <1>2, <2>1 DEF Unshields
    <2>3. outputs[1].lookup = {Party(name)} /\ outputs[1].owner = MasterKey[name]
        BY <1>1, <2>2
    <2>4. \A k \in DOMAIN outputs : k = 1 /\ k \in 1 .. LeafCount
        BY <2>2
    <2> QED
        BY <2>3, <2>4 DEF GivenToOne
<1>3. CASE request.function = "transfer"
    <2>1. LeafCount = Len(outputs)
        BY <1>3 DEF LeafCount
    <2>2. ASSUME NEW k \in DOMAIN outputs
          PROVE  \/ outputs[k].lookup = {}
                 \/ \E name \in Parties : outputs[k].lookup = {Party(name)} /\ outputs[k].owner = MasterKey[name]
        <3>1. CASE k \in 1 .. Len(asked.payments)
            <4> DEFINE p == request.payments[k]
            <4>1. Pays(outputs[k], p)
                BY <1>3, <3>1, TransferFacts
            <4>2. CASE outputs[k] = ToText(p.to.text, p.value)
                BY <4>2 DEF ToText
            <4>3. ASSUME NEW name \in Parties, outputs[k] = ToParty(name, p.value, TRUE)
                  PROVE  outputs[k].lookup = {Party(name)} /\ outputs[k].owner = MasterKey[name]
                BY <1>1, <4>3
            <4> QED
                BY <4>1, <4>2, <4>3 DEF Pays
        <3>2. CASE k \notin 1 .. Len(asked.payments)
            <4>1. outputs[k] = ToParty(Sender, Left, TRUE)
                BY <1>3, <3>2, TransferFacts
            <4>2. outputs[k].lookup = {Party(Sender)} /\ outputs[k].owner = MasterKey[Sender]
                BY <1>1, <4>1
            <4> QED
                BY <4>2, KeyFacts
        <3> QED
            BY <3>1, <3>2
    <2> QED
        BY <1>0, <2>1, <2>2 DEF GivenToOne
<1>4. CASE request.function = "unshield"
    <2>1. outputs = <<ToParty(Sender, Left, FALSE), Withdrawal(Total)>>
        BY <1>4 DEF Inv, OutputsMade, UnshieldMade
    <2>2. /\ DOMAIN outputs = 1 .. 2 /\ outputs[1] = ToParty(Sender, Left, FALSE)
          /\ outputs[2] = Withdrawal(Total) /\ LeafCount = 1
        BY <1>4, <2>1 DEF LeafCount
    <2>3. Withdrawal(Total).lookup = {}
        BY DEF Withdrawal
    <2>4. outputs[1].lookup = {Party(Sender)} /\ outputs[1].owner = MasterKey[Sender] /\ outputs[2].lookup = {}
        BY <1>1, <2>2, <2>3
    <2>5. \A k \in DOMAIN outputs : (k = 1 /\ k \in 1 .. LeafCount) \/ k = 2
        BY <2>2
    <2> QED
        BY <2>4, <2>5, KeyFacts DEF GivenToOne
<1> QED
    BY <1>0, <1>2, <1>3, <1>4 DEF Transactional

AllGiven == \A k \in DOMAIN outputs : outputs[k].lookup # {} => \E h \in held : h.note = k

(* A party can spend the notes that were to be given to it.                *)
LEMMA SpendableFacts ==
    ASSUME Inv, stage = "handled", AllGiven, NEW name \in Parties
    PROVE  Spendable(name) = {k \in DOMAIN outputs : Party(name) \in outputs[k].lookup}
<1>0. stage \in Assembled
    BY DEF Assembled
<1>1. GivenToOne
    BY <1>0, OutputsAreGivenToOne
<1>2. ASSUME NEW h \in held
      PROVE  \E k \in DOMAIN outputs, p \in Parties :
                /\ outputs[k].lookup = {Party(p)} /\ k \in 1 .. LeafCount
                /\ h.party = p /\ h.note = k /\ h.id = To32ByteHex(Commitment(k))
    <2>1. PICK k \in DOMAIN outputs : \E to \in outputs[k].lookup :
              h = [party |-> to.name, note |-> k, id |-> To32ByteHex(Commitment(k))]
        BY DEF Inv, NotesGiven
    <2>2. PICK to \in outputs[k].lookup : h = [party |-> to.name, note |-> k, id |-> To32ByteHex(Commitment(k))]
        BY <2>1
    <2>3. PICK p \in Parties : outputs[k].lookup = {Party(p)} /\ k \in 1 .. LeafCount
        BY <1>1, <2>2 DEF GivenToOne
    <2>4. to.name = p
        BY <2>2, <2>3 DEF Party
    <2> QED
        BY <2>2, <2>3, <2>4
<1>3. \A k \in 1 .. LeafCount : To32ByteHex(Commitment(k)) \in {To32ByteHex(c.id) : c \in indexed.confirmed}
    <2>1. ASSUME NEW k \in 1 .. LeafCount
          PROVE  To32ByteHex(Commitment(k)) \in {To32ByteHex(c.id) : c \in indexed.confirmed}
        <3> DEFINE c == [id |-> Commitment(k), tx |-> TxId]
        <3>1. c \in indexed.confirmed
            BY HandledFacts
        <3>2. c.id = Commitment(k)
            OBVIOUS
        <3> HIDE DEF c
        <3> QED
            BY <3>1, <3>2
    <2> QED
        BY <2>1
<1> DEFINE ids == {To32ByteHex(c.id) : c \in indexed.confirmed}
<1>4. \A k : k \in Spendable(name) <=> \E h \in held : h.party = name /\ h.id \in ids /\ h.note = k
    BY DEF Spendable
<1> HIDE DEF ids
<1>5. ASSUME NEW k \in Spendable(name)
      PROVE  k \in DOMAIN outputs /\ Party(name) \in outputs[k].lookup
    <2>1. PICK h \in held : h.party = name /\ h.note = k
        BY <1>4
    <2> QED
        BY <1>2, <2>1
<1>6. ASSUME NEW k \in DOMAIN outputs, Party(name) \in outputs[k].lookup
      PROVE  k \in Spendable(name)
    <2>1. PICK h \in held : h.note = k
        BY <1>6 DEF AllGiven
    <2>2. PICK j \in DOMAIN outputs, p \in Parties :
              /\ outputs[j].lookup = {Party(p)} /\ j \in 1 .. LeafCount
              /\ h.party = p /\ h.note = j /\ h.id = To32ByteHex(Commitment(j))
        BY <1>2
    <2>3. j = k /\ p = name
        BY <1>6, <2>1, <2>2, PartyIsNamed
    <2>4. h.id \in ids
        BY <1>3, <2>2 DEF ids
    <2> QED
        BY <1>4, <2>1, <2>2, <2>3, <2>4
<1> QED
    BY <1>5, <1>6

(* Which these are.                                                        *)
LEMMA LookupFacts ==
    ASSUME Inv, stage \in Assembled, NEW name \in Parties, NEW k \in DOMAIN outputs
    PROVE  Party(name) \in outputs[k].lookup
             <=> (IF request.function = "unshield" THEN k = 1 /\ name = Sender
                  ELSE IF Change(k) THEN name = Sender
                  ELSE asked.payments[k].to = Party(name))
<1>0. stage \notin {"asked", "unwritable"} /\ request.function \in Transactional
    BY LeafFacts DEF Assembled, Inv
<1>1. \A p, value : /\ Party(name) \in ToParty(p, value, TRUE).lookup <=> p = name
                    /\ Party(name) \in ToParty(p, value, FALSE).lookup <=> p = name
    BY PartyIsNamed DEF ToParty
<1>2. CASE request.function = "shield"
    <2>1. PICK p \in Parties : /\ request.payments[1].to = Party(p)
                               /\ outputs = <<ToParty(p, request.payments[1].value, FALSE)>>
        BY <1>2 DEF Inv, OutputsMade, ShieldMade
    <2>2. k = 1 /\ outputs[k] = ToParty(p, request.payments[1].value, FALSE)
        <3>1. DOMAIN outputs = {1} /\ outputs[1] = ToParty(p, request.payments[1].value, FALSE)
            BY <2>1
        <3> QED
            BY <3>1
    <2>3. /\ Len(asked.payments) = 1 /\ asked.payments[1] \in Payments
          /\ asked.payments[1].to.kind = "wallet" => Encodable(asked.payments[1].to.address)
          /\ request.payments[1] = Written(asked.payments[1])
        BY <1>0, <1>2, RequestFacts DEF Inv
    <2>4. asked.payments[1].to = Party(p)
        <3>1. Text(EncodeRailgunAddress(asked.payments[1].to.address)).kind = "text" /\ Party(p).kind = "party"
            BY DEF Text, Party
        <3> QED
            BY <2>1, <2>3, <3>1, WrittenFacts
    <2>5. ~Change(k)
        BY <2>2, <2>3 DEF Change
    <2> QED
        BY <1>1, <1>2, <2>2, <2>4, <2>5, PartyIsNamed
<1>3. CASE request.function = "transfer"
    <2> DEFINE n == Len(asked.payments)
    <2>0. n \in Nat
        BY <1>3, TransferFacts
    <2>1. CASE k \in 1 .. n
        <3>1. ~Change(k)
            BY <2>0, <2>1 DEF Change
        <3> QED
            BY <1>3, <2>1, <3>1, TransferIsMeant
    <2>2. CASE k \notin 1 .. n
        <3>1. k = n + 1 /\ outputs[k] = ToParty(Sender, Left, TRUE)
            BY <1>3, <2>2, TransferFacts
        <3>2. Change(k)
            BY <3>1 DEF Change
        <3> QED
            BY <1>1, <1>3, <3>1, <3>2
    <2> QED
        BY <2>1, <2>2
<1>4. CASE request.function = "unshield"
    <2>1. outputs = <<ToParty(Sender, Left, FALSE), Withdrawal(Total)>>
        BY <1>4 DEF Inv, OutputsMade, UnshieldMade
    <2>2. /\ k = 1 \/ k = 2
          /\ outputs[1] = ToParty(Sender, Left, FALSE) /\ outputs[2] = Withdrawal(Total)
        BY <2>1
    <2>3. Withdrawal(Total).lookup = {}
        BY DEF Withdrawal
    <2> QED
        BY <1>1, <1>4, <2>2, <2>3
<1> QED
    BY <1>0, <1>2, <1>3, <1>4 DEF Transactional

(* The notes a party can spend once it has been given all are those of the *)
(* payments to the party by name and the change, and they are the party's. *)
THEOREM NotesAreGiven == Spec => []PartiesAreGivenTheirNotes
<1>1. ASSUME Inv, stage = "handled", AllGiven, NEW name \in Parties
      PROVE  /\ Spendable(name) =
                 {k \in DOMAIN outputs :
                    IF request.function = "unshield" THEN k = 1 /\ name = Sender
                    ELSE IF Change(k) THEN name = Sender
                    ELSE asked.payments[k].to = Party(name)}
             /\ \A k \in Spendable(name) : outputs[k].owner = MasterKey[name]
    <2>0. stage \in Assembled
        BY <1>1 DEF Assembled
    <2>1. Spendable(name) = {k \in DOMAIN outputs : Party(name) \in outputs[k].lookup}
        BY <1>1, SpendableFacts
    <2>2. \A k \in DOMAIN outputs :
            Party(name) \in outputs[k].lookup
              <=> (IF request.function = "unshield" THEN k = 1 /\ name = Sender
                   ELSE IF Change(k) THEN name = Sender
                   ELSE asked.payments[k].to = Party(name))
        BY <1>1, <2>0, LookupFacts
    <2>3. ASSUME NEW k \in DOMAIN outputs, Party(name) \in outputs[k].lookup
          PROVE  outputs[k].owner = MasterKey[name]
        <3>1. GivenToOne
            BY <1>1, <2>0, OutputsAreGivenToOne
        <3>2. PICK p \in Parties : outputs[k].lookup = {Party(p)} /\ outputs[k].owner = MasterKey[p]
            BY <2>3, <3>1 DEF GivenToOne
        <3> QED
            BY <2>3, <3>2, PartyIsNamed
    <2> QED
        BY <2>1, <2>2, <2>3
<1>2. Inv => PartiesAreGivenTheirNotes
    BY <1>1 DEF PartiesAreGivenTheirNotes, AllGiven
<1> QED
    BY <1>2, PathInvariant, PTL

-----------------------------------------------------------------------------
(* Sums of the receipt                                                     *)

(* Two sequences with the same values at the positions in T are worth the  *)
(* same there.                                                             *)
LEMMA TotalOfSamePositions ==
    ASSUME NEW V, \A v \in V : v.value \in Nat, NEW seq \in Seq(V),
           NEW W, \A w \in W : w.value \in Nat, NEW listed \in Seq(W),
           NEW T, T \subseteq 1 .. Len(seq), T \subseteq 1 .. Len(listed),
           \A k \in T : listed[k].value = seq[k].value
    PROVE  TotalValue(ElementsAt(seq, T)) = TotalValue(ElementsAt(listed, T))
<1> DEFINE found == ElementsAt(listed, T)
<1>1. DOMAIN listed = 1 .. Len(listed)
    BY LenProperties
<1>2. DOMAIN listed \cap T = T
    BY <1>1
<1>3. found \in Seq(W) /\ Picks(found, listed, T)
    BY <1>2, ElementsAtFacts
<1> HIDE DEF found
<1>4. Len(found) \in Nat
    BY <1>3, LenProperties
<1>5. PICK pos : /\ Enumerates(pos, Len(found), T)
                 /\ \A i \in 1 .. Len(found) : found[i] = listed[pos[i]]
    BY <1>3 DEF Picks
<1>6. /\ pos \in [1 .. Len(found) -> T]
      /\ \A i, j \in 1 .. Len(found) : i < j => pos[i] < pos[j]
      /\ \A x \in T : \E i \in 1 .. Len(found) : pos[i] = x
    BY <1>5 DEF Enumerates
<1>7. \A i, j \in 1 .. Len(found) : pos[i] = pos[j] => i = j
    <2>1. ASSUME NEW i \in 1 .. Len(found), NEW j \in 1 .. Len(found), pos[i] = pos[j]
          PROVE  i = j
        <3>1. ~(pos[i] < pos[j]) /\ ~(pos[j] < pos[i])
            <4>1. pos[i] \in T /\ pos[i] \in 1 .. Len(seq)
                BY <1>6
            <4> QED
                BY <2>1, <4>1
        <3> QED
            BY <1>4, <1>6, <3>1
    <2> QED
        BY <2>1
<1>8. \A i \in 1 .. Len(found) : pos[i] \in T /\ found[i].value = seq[pos[i]].value
    BY <1>5, <1>6
<1>9. pos \in [1 .. Len(found) -> 1 .. Len(seq)]
    BY <1>6
<1>10. Matches(pos, found, seq, T)
    BY <1>6, <1>7, <1>8, <1>9 DEF Matches
<1>11. TotalValue(ElementsAt(seq, T)) = TotalValue(found)
    BY <1>3, <1>10, TotalOfMatching
<1> QED
    BY <1>11 DEF found

(* A sequence is worth what a longer one that begins with its values is at *)
(* its positions.                                                          *)
LEMMA TotalOfBeginning ==
    ASSUME NEW V, \A v \in V : v.value \in Nat, NEW seq \in Seq(V),
           NEW W, \A w \in W : w.value \in Nat, NEW listed \in Seq(W),
           Len(listed) <= Len(seq),
           \A k \in 1 .. Len(listed) : listed[k].value = seq[k].value
    PROVE  TotalValue(ElementsAt(seq, 1 .. Len(listed))) = TotalValue(listed)
<1> DEFINE n   == Len(listed)
           pos == [i \in 1 .. n |-> i]
           T   == 1 .. n
<1>1. n \in Nat /\ Len(seq) \in Nat
    BY LenProperties
<1>2. Matches(pos, listed, seq, T)
    BY <1>1 DEF Matches
<1> HIDE DEF pos
<1>3. TotalValue(ElementsAt(seq, T)) = TotalValue(listed)
    BY <1>2, TotalOfMatching
<1> QED
    BY <1>3

(* Notes that are worth something are together.                            *)
LEMMA TotalIsPositive ==
    ASSUME NEW V, \A v \in V : v.value \in Nat, NEW seq \in Seq(V),
           NEW T, NEW k \in T, k \in 1 .. Len(seq), seq[k].value > 0
    PROVE  TotalValue(ElementsAt(seq, T)) > 0
<1> DEFINE found == ElementsAt(seq, T)
<1>1. k \in DOMAIN seq \cap T
    BY LenProperties
<1>2. found = ElementsAt(seq, T)
    OBVIOUS
<1> HIDE DEF found
<1>7. /\ found \in Seq(V) /\ DOMAIN found = 1 .. Len(found)
      /\ \A j \in DOMAIN seq \cap T : \E i \in DOMAIN found : found[i] = seq[j]
    BY <1>2, ElementsAtElements
<1>3. PICK i \in 1 .. Len(found) : found[i] = seq[k]
    BY <1>1, <1>7
<1>4. Valued(found) /\ TotalValue(found) \in Nat
    BY <1>7, SequenceIsValued
<1>5. found[i].value <= TotalValue(found)
    BY <1>4, ElementsWithinTotal
<1>6. seq[k].value \in Nat
    BY ElementOfSeq
<1> QED
    BY <1>3, <1>4, <1>5, <1>6 DEF found

(* The states of the notes at the positions in T are worth what the notes  *)
(* are, in whatever order they are summed.                                 *)
LEMMA TotalOfStates ==
    ASSUME NEW V, \A v \in V : v.value \in Nat, NEW seq \in Seq(V),
           NEW T, T \subseteq 1 .. Len(seq), NEW St,
           \A j, k \in T : St[j] = St[k] => j = k,
           \A k \in T : St[k].note.value = seq[k].value
    PROVE  TotalOf({St[k] : k \in T}) = TotalValue(ElementsAt(seq, T))
<1> DEFINE S == {St[k] : k \in T}
           W == {St[k].note : k \in T}
           m == Cardinality(S)
           f == [k \in T |-> St[k]]
           order == CHOOSE g \in Injection(1 .. m, S) : TRUE
           summed == [i \in DOMAIN order |-> order[i].note]
<1>0. Len(seq) \in Nat /\ \A k \in 1 .. Len(seq) : seq[k].value \in Nat
    BY LenProperties, ElementOfSeq
<1>1. IsFiniteSet(T)
    <2>1. IsFiniteSet(1 .. Len(seq)) /\ T \in SUBSET (1 .. Len(seq))
        BY <1>0, FS_Interval
    <2> QED
        BY <2>1, FS_Subset
<1>2. f \in Surjection(T, S)
    BY DEF Surjection
<1>3. IsFiniteSet(S)
    BY <1>1, <1>2, FS_Surjection
<1>4. \A s \in S : \E k \in T : s = St[k]
    OBVIOUS
<1>5. \A k \in T : St[k] \in S /\ St[k].note \in W
    OBVIOUS
<1>6. \A w \in W : w.value \in Nat
    BY <1>0
<1>7. TotalOf(S) = TotalValue(summed)
    BY DEF TotalOf
<1> HIDE DEF S, W, f
<1>8. m \in Nat /\ ExistsBijection(1 .. m, S)
    BY <1>3, FS_CardinalityType
<1> HIDE DEF m
<1>9. \E g : g \in Injection(1 .. m, S)
    BY <1>8 DEF ExistsBijection, Bijection
<1>10. order \in Injection(1 .. m, S)
    BY <1>9
<1> HIDE DEF order
<1>11. Cardinality(1 .. m) = m
    BY <1>8, FS_Interval
<1>12. order \in Surjection(1 .. m, S)
    BY <1>3, <1>10, <1>11, FS_Injection DEF m
<1>13. /\ order \in [1 .. m -> S] /\ DOMAIN order = 1 .. m
       /\ \A i, j \in 1 .. m : order[i] = order[j] => i = j
       /\ \A s \in S : \E i \in 1 .. m : order[i] = s
    <2>1. order \in [1 .. m -> S] /\ \A i, j \in 1 .. m : order[i] = order[j] => i = j
        BY <1>10 DEF Injection, IsInjective
    <2>2. \A s \in S : \E i \in 1 .. m : order[i] = s
        BY <1>12 DEF Surjection
    <2> QED
        BY <2>1, <2>2
<1> DEFINE listed == [i \in 1 .. m |-> order[i].note]
           pos == [i \in 1 .. m |-> CHOOSE k \in T : St[k] = order[i]]
<1>14. summed = listed
    BY <1>13
<1> HIDE DEF summed
<1>15. \A i \in 1 .. m : pos[i] \in T /\ St[pos[i]] = order[i]
    <2>1. ASSUME NEW i \in 1 .. m
          PROVE  pos[i] \in T /\ St[pos[i]] = order[i]
        <3>1. \E k \in T : St[k] = order[i]
            BY <1>4, <1>13
        <3> QED
            BY <3>1
    <2> QED
        BY <2>1
<1>16. listed \in [1 .. m -> W]
    BY <1>5, <1>15
<1>17. listed \in Seq(W) /\ Len(listed) = m
    BY <1>8, <1>16, FunctionIsSequence
<1>18. \A i \in 1 .. m : listed[i] = St[pos[i]].note
    BY <1>15
<1>19. pos \in [1 .. m -> 1 .. Len(seq)]
    BY <1>15
<1> HIDE DEF listed, pos
<1>20. \A i \in 1 .. m : listed[i].value = seq[pos[i]].value
    BY <1>15, <1>18
<1>21. \A i, j \in 1 .. m : pos[i] = pos[j] => i = j
    BY <1>13, <1>15
<1>22. \A x \in T : \E i \in 1 .. m : pos[i] = x
    <2>1. ASSUME NEW x \in T
          PROVE  \E i \in 1 .. m : pos[i] = x
        <3>1. PICK i \in 1 .. m : order[i] = St[x]
            BY <1>5, <1>13
        <3>2. St[pos[i]] = St[x] /\ pos[i] \in T
            BY <1>15, <3>1
        <3> QED
            BY <3>2
    <2> QED
        BY <2>1
<1>23. Matches(pos, listed, seq, T)
    BY <1>15, <1>17, <1>19, <1>20, <1>21, <1>22 DEF Matches
<1>24. TotalValue(ElementsAt(seq, T)) = TotalValue(listed)
    BY <1>6, <1>17, <1>23, TotalOfMatching
<1> QED
    BY <1>7, <1>14, <1>24 DEF S

-----------------------------------------------------------------------------
(* The receipt                                                             *)

StatesOf(states, owner)  == {s \in states : s.note.owner = owner}
Recipients(states, from) == {s.note.owner : s \in {x \in states : x.note.value # 0}} \ {from}

Net(ins, outs, from)     == TotalOf(ins) - TotalOf(StatesOf(outs, from))
Told(ins, outs, from) ==
    IF Recipients(outs, from) = {} /\ from # NoOwner /\ Net(ins, outs, from) > 0
    THEN {[from |-> from, to |-> NoOwner, amount |-> Net(ins, outs, from)]}
    ELSE {[from |-> from, to |-> owner, amount |-> TotalOf(StatesOf(outs, owner))] :
             owner \in Recipients(outs, from)}

(* With inputs of one owner, or none.                                      *)
LEMMA TransfersOfOne ==
    ASSUME NEW ins, NEW outs, NEW from,
           \/ ins = {} /\ from = NoOwner
           \/ ins # {} /\ \A s \in ins : s.note.owner = from
    PROVE  ReceiptTransfers(ins, outs) = Told(ins, outs, from)
<1> DEFINE f == IF ins = {} THEN NoOwner ELSE (CHOOSE s \in ins : TRUE).note.owner
<1>1. f = from
    <2>1. ins # {} => (CHOOSE s \in ins : TRUE) \in ins
        OBVIOUS
    <2> QED
        BY <2>1
<1>2. ~(\E s \in ins : s.note.owner # f)
    BY <1>1
<1>3. ReceiptTransfers(ins, outs) = IF \E s \in ins : s.note.owner # f THEN {} ELSE Told(ins, outs, f)
    BY DEF ReceiptTransfers, Told, Net, StatesOf, Recipients
<1> HIDE DEF f
<1> QED
    BY <1>1, <1>2, <1>3

SpentState(k) == [schema |-> "note", id |-> Nullifier(k), note |-> inputs[k]]
MadeState(k)  == [schema |-> "note", id |-> Commitment(k), note |-> outputs[k]]
Spent == {SpentState(k) : k \in DOMAIN inputs}
Made  == {MadeState(k) : k \in 1 .. LeafCount}

LEMMA StatesDiffer ==
    /\ \A j, k : Nullifier(j) = Nullifier(k) => j = k
    /\ \A j, k : Commitment(j) = Commitment(k) => j = k
    /\ \A j, k : SpentState(j) = SpentState(k) => j = k
    /\ \A j, k : MadeState(j) = MadeState(k) => j = k
<1>1. ASSUME NEW j, NEW k, Nullifier(j) = Nullifier(k)
      PROVE  j = k
    <2>1. Nullifier(j)[2] = j /\ Nullifier(k)[2] = k
        BY DEF Nullifier
    <2> QED
        BY <1>1, <2>1
<1>2. ASSUME NEW j, NEW k, Commitment(j) = Commitment(k)
      PROVE  j = k
    <2>1. Commitment(j)[2] = Random(j) /\ Commitment(k)[2] = Random(k)
        BY DEF Commitment
    <2> QED
        BY <1>2, <2>1, ScalarsDiffer
<1>3. ASSUME NEW j, NEW k, SpentState(j) = SpentState(k)
      PROVE  j = k
    <2>1. SpentState(j).id = Nullifier(j) /\ SpentState(k).id = Nullifier(k)
        BY DEF SpentState
    <2> QED
        BY <1>1, <1>3, <2>1
<1>4. ASSUME NEW j, NEW k, MadeState(j) = MadeState(k)
      PROVE  j = k
    <2>1. MadeState(j).id = Commitment(j) /\ MadeState(k).id = Commitment(k)
        BY DEF MadeState
    <2> QED
        BY <1>2, <1>4, <2>1
<1> QED
    BY <1>1, <1>2, <1>3, <1>4

(* The receipt is made of the notes that were spent and those that became  *)
(* leaves.                                                                 *)
LEMMA ReceiptStates ==
    ASSUME Inv, stage = "handled"
    PROVE  /\ FilterSchema(InputStates, "note") = Spent
           /\ FilterSchema(OutputStates, "note") = Made
<1>0. /\ indexed.confirmed = {[id |-> Commitment(k), tx |-> TxId] : k \in 1 .. LeafCount}
      /\ indexed.spent = {[id |-> Nullifier(k), tx |-> TxId] : k \in DOMAIN inputs}
    BY HandledFacts
<1>1. InputStates = Spent
    <2>1. {x \in indexed.spent : x.tx = TxId} = {[id |-> Nullifier(k), tx |-> TxId] : k \in DOMAIN inputs}
        BY <1>0
    <2>2. InputStates = {[schema |-> "note", id |-> s.id, note |-> inputs[s.id[2]]] :
                            s \in {[id |-> Nullifier(k), tx |-> TxId] : k \in DOMAIN inputs}}
        BY <2>1 DEF InputStates
    <2>3. \A k : Nullifier(k)[2] = k
        BY DEF Nullifier
    <2>4. \A k : LET s == [id |-> Nullifier(k), tx |-> TxId]
                 IN  [schema |-> "note", id |-> s.id, note |-> inputs[s.id[2]]] = SpentState(k)
        BY <2>3 DEF SpentState
    <2> QED
        BY <2>2, <2>4 DEF Spent
<1>2. FilterSchema(Spent, "note") = Spent
    <2>1. \A s \in Spent : s.schema = "note"
        BY DEF Spent, SpentState
    <2> QED
        BY <2>1 DEF FilterSchema
<1>3. {x \in DOMAIN outputs : [id |-> Commitment(x), tx |-> TxId] \in indexed.confirmed} = 1 .. LeafCount
    <2>1. 1 .. LeafCount \subseteq DOMAIN outputs
        <3>1. stage \in Assembled
            BY DEF Assembled
        <3> QED
            BY <3>1, LeafFacts DEF Inv
    <2>2. ASSUME NEW x \in DOMAIN outputs, [id |-> Commitment(x), tx |-> TxId] \in indexed.confirmed
          PROVE  x \in 1 .. LeafCount
        <3>1. PICK k \in 1 .. LeafCount : [id |-> Commitment(x), tx |-> TxId] = [id |-> Commitment(k), tx |-> TxId]
            BY <1>0, <2>2
        <3>2. Commitment(x) = Commitment(k)
            BY <3>1
        <3> QED
            BY <3>2, StatesDiffer
    <2>3. \A k \in 1 .. LeafCount : [id |-> Commitment(k), tx |-> TxId] \in indexed.confirmed
        BY <1>0
    <2> QED
        BY <2>1, <2>2, <2>3
<1>4. OutputStates = Made \cup {[schema |-> "leaf", id |-> l.id] : l \in indexed.newStates}
    BY <1>3 DEF OutputStates, Made, MadeState
<1>5. FilterSchema(OutputStates, "note") = Made
    <2> DEFINE rest == {[schema |-> "leaf", id |-> l.id] : l \in indexed.newStates}
    <2>1. \A s \in Made : s.schema = "note"
        BY DEF Made, MadeState
    <2>2. \A s \in rest : s.schema = "leaf"
        OBVIOUS
    <2> HIDE DEF rest
    <2>3. OutputStates = Made \cup rest
        BY <1>4 DEF rest
    <2> QED
        BY <2>1, <2>2, <2>3 DEF FilterSchema
<1> QED
    BY <1>1, <1>2, <1>5

Owned(key) == {k \in 1 .. LeafCount : outputs[k].owner = key}

(* What the states in a receipt are worth.                                 *)
LEMMA WorthFacts ==
    ASSUME Inv, stage = "handled"
    PROVE  /\ TotalOf(Spent) = TotalValue(inputs)
           /\ \A key : TotalOf(StatesOf(Made, key)) = TotalValue(ElementsAt(outputs, Owned(key)))
           /\ \A from : Recipients(Made, from) =
                {outputs[k].owner : k \in {j \in 1 .. LeafCount : outputs[j].value # 0}} \ {from}
<1> DEFINE InputRecords == [owner : {MasterKey[Sender]}, value : NoteValues]
           spent == [k \in DOMAIN inputs |-> SpentState(k)]
           made  == [k \in 1 .. LeafCount |-> MadeState(k)]
<1>0. stage \in Assembled /\ \A k : SpentState(k).note = inputs[k] /\ MadeState(k).note = outputs[k]
    BY DEF Assembled, SpentState, MadeState
<1>1. /\ inputs \in Seq(InputRecords) /\ outputs \in Seq(OutputRecords)
      /\ \A v \in InputRecords : v.value \in Nat
      /\ \A v \in OutputRecords : v.value \in Nat
    BY <1>0, RequestsAssumption DEF Inv, OutputsMade, NoteValues, OutputRecords
<1> HIDE DEF InputRecords
<1>2. LeafCount \in Nat /\ LeafCount <= Len(outputs) /\ 1 .. LeafCount \subseteq 1 .. Len(outputs)
    BY <1>0, LeafFacts DEF Inv
<1>3. DOMAIN inputs = 1 .. Len(inputs) /\ Len(inputs) \in Nat
    BY <1>1, LenProperties
<1>4. TotalOf(Spent) = TotalValue(inputs)
    <2> DEFINE T == 1 .. Len(inputs)
    <2>1. \A j, k \in T : spent[j] = spent[k] => j = k
        BY <1>3, StatesDiffer
    <2>2. \A k \in T : spent[k].note.value = inputs[k].value
        BY <1>0, <1>3
    <2>3. Spent = {spent[k] : k \in T}
        BY <1>3 DEF Spent
    <2>4. TotalOf({spent[k] : k \in T}) = TotalValue(ElementsAt(inputs, T))
        <3>1. T \subseteq 1 .. Len(inputs)
            OBVIOUS
        <3> HIDE DEF spent, T
        <3> QED
            BY <1>1, <2>1, <2>2, <3>1, TotalOfStates
    <2>5. Len(inputs) <= Len(inputs) /\ \A k \in 1 .. Len(inputs) : inputs[k].value = inputs[k].value
        BY <1>3
    <2>6. TotalValue(ElementsAt(inputs, T)) = TotalValue(inputs)
        BY <1>1, <2>5, TotalOfBeginning
    <2> HIDE DEF spent, T
    <2> QED
        BY <2>3, <2>4, <2>6
<1>5. ASSUME NEW key
      PROVE  TotalOf(StatesOf(Made, key)) = TotalValue(ElementsAt(outputs, Owned(key)))
    <2> DEFINE T == Owned(key)
    <2>0. T \subseteq 1 .. LeafCount /\ T \subseteq 1 .. Len(outputs)
        BY <1>2 DEF Owned
    <2>1. \A j, k \in T : made[j] = made[k] => j = k
        BY <2>0, StatesDiffer
    <2>2. \A k \in T : made[k].note.value = outputs[k].value
        BY <1>0, <2>0
    <2>3. StatesOf(Made, key) = {made[k] : k \in T}
        <3>1. \A k \in 1 .. LeafCount : k \in T <=> made[k].note.owner = key
            BY <1>0 DEF Owned
        <3>2. Made = {made[k] : k \in 1 .. LeafCount}
            BY DEF Made
        <3> HIDE DEF made, T
        <3> QED
            BY <2>0, <3>1, <3>2 DEF StatesOf
    <2> HIDE DEF made, T
    <2>4. TotalOf({made[k] : k \in T}) = TotalValue(ElementsAt(outputs, T))
        BY <1>1, <2>0, <2>1, <2>2, TotalOfStates
    <2> QED
        BY <2>3, <2>4 DEF T
<1>6. ASSUME NEW from
      PROVE  Recipients(Made, from) =
                {outputs[k].owner : k \in {j \in 1 .. LeafCount : outputs[j].value # 0}} \ {from}
    <2>1. {x \in Made : x.note.value # 0} = {MadeState(k) : k \in {j \in 1 .. LeafCount : outputs[j].value # 0}}
        BY <1>0 DEF Made
    <2>2. {s.note.owner : s \in {MadeState(k) : k \in {j \in 1 .. LeafCount : outputs[j].value # 0}}}
            = {outputs[k].owner : k \in {j \in 1 .. LeafCount : outputs[j].value # 0}}
        BY <1>0
    <2> QED
        BY <2>1, <2>2 DEF Recipients
<1> QED
    BY <1>4, <1>5, <1>6

OtherOwners == {outputs[k].owner : k \in {j \in 1 .. LeafCount : outputs[j].value # 0}} \ {Payer}
Worth(key) == TotalValue(ElementsAt(outputs, Owned(key)))

(* The payer's inputs count for him and his outputs against him.           *)
LEMMA NetTransfers ==
    ASSUME Inv, stage = "handled"
    PROVE  LET amount == TotalValue(inputs) - Worth(Payer)
           IN  ReceiptTransfers(Spent, Made) =
                 IF OtherOwners = {} /\ Payer # NoOwner /\ amount > 0
                 THEN {[from |-> Payer, to |-> NoOwner, amount |-> amount]}
                 ELSE {[from |-> Payer, to |-> owner, amount |-> Worth(owner)] : owner \in OtherOwners}
<1>0. stage \in Assembled /\ request.function \in Transactional
    BY LeafFacts DEF Assembled, Inv
<1>1. \/ Spent = {} /\ Payer = NoOwner
      \/ Spent # {} /\ \A s \in Spent : s.note.owner = Payer
    <2>1. CASE request.function = "shield"
        <3>1. inputs = <<>>
            BY <1>0, <2>1 DEF Inv, OutputsMade, ShieldMade
        <3>2. DOMAIN inputs = {}
            BY <3>1, EmptySeq
        <3> QED
            BY <2>1, <3>2 DEF Spent, Payer
    <2>2. CASE request.function # "shield"
        <3>1. inputs \in Seq([owner : {MasterKey[Sender]}, value : NoteValues]) /\ inputs # <<>>
            BY <1>0, <2>2 DEF Inv, OutputsMade, TransferMade, UnshieldMade, Transactional
        <3>2. Len(inputs) \in Nat /\ Len(inputs) # 0 /\ DOMAIN inputs = 1 .. Len(inputs)
              /\ \A k \in 1 .. Len(inputs) : inputs[k].owner = MasterKey[Sender]
            <4>1. Len(inputs) \in Nat /\ Len(inputs) # 0 /\ DOMAIN inputs = 1 .. Len(inputs)
                BY <3>1, EmptySeq, LenProperties
            <4>2. \A k \in 1 .. Len(inputs) : inputs[k] \in [owner : {MasterKey[Sender]}, value : NoteValues]
                BY <3>1, ElementOfSeq
            <4> QED
                BY <4>1, <4>2
        <3>3. 1 \in DOMAIN inputs
            BY <3>2
        <3>4. \A k : SpentState(k).note = inputs[k]
            BY DEF SpentState
        <3> QED
            BY <2>2, <3>2, <3>3, <3>4 DEF Spent, Payer
    <2> QED
        BY <2>1, <2>2
<1>2. /\ TotalOf(Spent) = TotalValue(inputs)
      /\ \A key : TotalOf(StatesOf(Made, key)) = Worth(key)
      /\ Recipients(Made, Payer) = OtherOwners
    BY WorthFacts DEF Worth, OtherOwners
<1>3. ReceiptTransfers(Spent, Made) = Told(Spent, Made, Payer)
    BY <1>1, TransfersOfOne
<1>4. Net(Spent, Made, Payer) = TotalValue(inputs) - Worth(Payer)
    BY <1>2 DEF Net
<1> QED
    BY <1>2, <1>3, <1>4 DEF Told

(* The outputs of a shield or a transfer: to each payee what he is paid,   *)
(* and the change.                                                         *)
LEMMA MeantFacts ==
    ASSUME Inv, stage \in Assembled, request.function \in {"shield", "transfer"}
    PROVE  LET n == Len(asked.payments)
           IN  /\ n \in Nat /\ asked.payments \in Seq(Payments) /\ DOMAIN asked.payments = 1 .. n
               /\ LeafCount = Len(outputs) /\ Len(outputs) \in Nat /\ n <= Len(outputs)
               /\ outputs \in Seq(OutputRecords)
               /\ \A k \in 1 .. n : /\ outputs[k].owner \in AllWallets /\ outputs[k].viewing \in AllWallets
                                    /\ outputs[k].value = asked.payments[k].value
                                    /\ asked.payments[k].value \in Nat /\ asked.payments[k].value > 0
               /\ \A k \in 1 .. n : \A key \in AllWallets, viewing \in AllWallets :
                    MeansKeys(asked.payments[k].to, key, viewing)
                      <=> outputs[k].owner = key /\ outputs[k].viewing = viewing
               /\ \A k \in 1 .. LeafCount : k \notin 1 .. n => outputs[k].owner = Payer
<1> DEFINE n == Len(asked.payments)
<1>0. stage \notin {"asked", "unwritable"} /\ Validated(request) = "ok"
    BY DEF Inv, PartiesResolved, Assembled, Resolved
<1>1. /\ n \in Nat /\ asked.payments \in Seq(Payments) /\ DOMAIN asked.payments = 1 .. n
      /\ \A k \in 1 .. n : /\ asked.payments[k] \in Payments /\ asked.payments[k].value \in Nat
                           /\ asked.payments[k].to.kind = "wallet" => Encodable(asked.payments[k].to.address)
                           /\ request.payments[k] = Written(asked.payments[k])
    BY <1>0, RequestFacts DEF Inv, Payments
<1>2. LeafCount = Len(outputs) /\ Len(outputs) \in Nat /\ outputs \in Seq(OutputRecords)
    <2>1. request.function # "unshield"
        OBVIOUS
    <2> QED
        BY <2>1, LeafFacts DEF LeafCount, Inv, OutputsMade
<1>3. CASE request.function = "shield"
    <2>1. PICK p \in Parties : /\ request.payments[1].to = Party(p)
                               /\ outputs = <<ToParty(p, request.payments[1].value, FALSE)>>
        BY <1>3 DEF Inv, OutputsMade, ShieldMade
    <2>2. n = 1 /\ 1 \in 1 .. n /\ Len(outputs) = 1 /\ outputs[1] = ToParty(p, request.payments[1].value, FALSE)
        BY <1>0, <1>3, <2>1, RequestFacts DEF Inv
    <2>3. asked.payments[1].to = Party(p) /\ request.payments[1].value = asked.payments[1].value
        <3>1. Text(EncodeRailgunAddress(asked.payments[1].to.address)).kind = "text" /\ Party(p).kind = "party"
            BY DEF Text, Party
        <3> QED
            BY <1>1, <2>1, <2>2, <3>1, WrittenFacts
    <2>4. /\ outputs[1].owner = MasterKey[p] /\ outputs[1].viewing = MasterKey[p]
          /\ outputs[1].value = asked.payments[1].value /\ MasterKey[p] \in AllWallets
        BY <2>2, <2>3, KeyFacts DEF ToParty
    <2>5. asked.payments[1].value > 0
        <3>1. ValidParams(request)
            BY <1>0, RequestIsRequested, ValidatedFacts DEF Inv
        <3> QED
            BY <1>3, <2>3, <3>1 DEF ValidParams
    <2>6. ASSUME NEW key, NEW viewing
          PROVE  MeansKeys(asked.payments[1].to, key, viewing)
                   <=> outputs[1].owner = key /\ outputs[1].viewing = viewing
        <3>1. MeansKeys(Party(p), key, viewing) <=> p \in Parties /\ MasterKey[p] = key /\ viewing = key
            BY MeansParty
        <3> QED
            BY <2>3, <2>4, <3>1
    <2>7. \A k \in 1 .. n : k = 1
        BY <2>2
    <2>8. \A k \in 1 .. LeafCount : k \in 1 .. n
        BY <1>2, <2>2
    <2>9. n <= Len(outputs)
        BY <2>2
    <2> HIDE DEF n
    <2> QED
        BY <1>1, <1>2, <2>4, <2>5, <2>6, <2>7, <2>8, <2>9 DEF n
<1>4. CASE request.function = "transfer"
    <2>1. /\ \A k \in 1 .. n : k \in DOMAIN outputs /\ outputs[k].value = asked.payments[k].value
                               /\ asked.payments[k].value > 0
          /\ \A k \in DOMAIN outputs : k \notin 1 .. n => outputs[k] = ToParty(Sender, Left, TRUE)
          /\ DOMAIN outputs = 1 .. Len(outputs) /\ Left \in Nat
          /\ Len(outputs) = n + (IF Left > 0 THEN 1 ELSE 0)
        BY <1>4, TransferFacts
    <2>2. n <= Len(outputs)
        <3>1. n \in Nat /\ Len(outputs) = n + (IF Left > 0 THEN 1 ELSE 0)
            BY <1>1, <2>1
        <3> HIDE DEF n
        <3> QED
            BY <3>1
    <2>3. \A k \in 1 .. n : outputs[k].owner \in AllWallets /\ outputs[k].viewing \in AllWallets
        BY <1>4, TransferIsMeant
    <2>4. \A k \in 1 .. n : \A key \in AllWallets, viewing \in AllWallets :
            MeansKeys(asked.payments[k].to, key, viewing)
              <=> outputs[k].owner = key /\ outputs[k].viewing = viewing
        BY <1>4, TransferIsMeant
    <2>5. Payer = MasterKey[Sender] /\ ToParty(Sender, Left, TRUE).owner = MasterKey[Sender]
        BY <1>4 DEF Payer, ToParty
    <2>6. \A k \in 1 .. LeafCount : k \notin 1 .. n => outputs[k].owner = Payer
        BY <1>2, <2>1, <2>5
    <2> HIDE DEF n
    <2> QED
        BY <1>1, <1>2, <2>1, <2>2, <2>3, <2>4, <2>6 DEF n
<1> QED
    BY <1>3, <1>4

(* What each was paid is what his outputs are worth.                       *)
LEMMA PaidIsWorth ==
    ASSUME Inv, stage \in Assembled, request.function \in {"shield", "transfer"},
           NEW key \in AllWallets, key # Payer
    PROVE  /\ PaidTo(key) = Worth(key)
           /\ PaidTo(key) > 0 <=> key \in OtherOwners
<1> DEFINE n == Len(asked.payments)
           T == Owned(key)
<1>1. /\ n \in Nat /\ asked.payments \in Seq(Payments) /\ DOMAIN asked.payments = 1 .. n
      /\ LeafCount = Len(outputs) /\ Len(outputs) \in Nat /\ n <= Len(outputs)
      /\ outputs \in Seq(OutputRecords)
    BY MeantFacts
<1>2. \A k \in 1 .. n : /\ outputs[k].owner \in AllWallets /\ outputs[k].viewing \in AllWallets
                        /\ outputs[k].value = asked.payments[k].value
                        /\ asked.payments[k].value \in Nat /\ asked.payments[k].value > 0
    BY MeantFacts
<1>3. \A k \in 1 .. n : \A viewing \in AllWallets :
        MeansKeys(asked.payments[k].to, key, viewing) <=> outputs[k].owner = key /\ outputs[k].viewing = viewing
    BY MeantFacts
<1>4. \A k \in 1 .. LeafCount : k \notin 1 .. n => outputs[k].owner = Payer
    BY MeantFacts
<1> DEFINE meant == {i \in DOMAIN asked.payments :
                        \E viewing \in AllWallets : MeansKeys(asked.payments[i].to, key, viewing)}
<1>5. PaidTo(key) = TotalValue(ElementsAt(asked.payments, meant))
    BY DEF PaidTo
<1> HIDE DEF n
<1>6. meant = {i \in 1 .. n : outputs[i].owner = key}
    BY <1>1, <1>2, <1>3
<1>7. T = {i \in 1 .. n : outputs[i].owner = key}
    BY <1>1, <1>4 DEF Owned
<1>8. meant = T /\ T \subseteq 1 .. n /\ T \subseteq 1 .. Len(outputs) /\ T \subseteq 1 .. Len(asked.payments)
    BY <1>1, <1>6, <1>7 DEF n
<1> HIDE DEF T, meant
<1>9. /\ \A v \in Payments : v.value \in Nat
      /\ \A v \in OutputRecords : v.value \in Nat
    BY DEF Payments, OutputRecords
<1>10. \A k \in T : asked.payments[k].value = outputs[k].value
    BY <1>2, <1>8
<1>11. TotalValue(ElementsAt(outputs, T)) = TotalValue(ElementsAt(asked.payments, T))
    BY <1>1, <1>8, <1>9, <1>10, TotalOfSamePositions
<1>12. PaidTo(key) = TotalValue(ElementsAt(outputs, T))
    BY <1>5, <1>8, <1>11
<1>13. ASSUME key \in OtherOwners
       PROVE  PaidTo(key) > 0
    <2>1. PICK k \in 1 .. LeafCount : key = outputs[k].owner
        BY <1>13 DEF OtherOwners
    <2>2. k \in T
        BY <2>1 DEF T, Owned
    <2>3. k \in 1 .. Len(outputs) /\ outputs[k].value > 0
        BY <1>2, <1>8, <2>2
    <2> QED
        BY <1>1, <1>9, <1>12, <2>2, <2>3, TotalIsPositive
<1>14. ASSUME PaidTo(key) > 0
       PROVE  key \in OtherOwners
    <2>1. T # {}
        <3>1. ASSUME T = {}
              PROVE  FALSE
            <4>1. TotalValue(ElementsAt(outputs, {})) = 0
                BY <1>1, TotalOfNone
            <4> QED
                BY <1>12, <1>14, <3>1, <4>1
        <3> QED
            BY <3>1
    <2>2. PICK k \in T : TRUE
        BY <2>1
    <2>3. k \in 1 .. LeafCount /\ outputs[k].owner = key
        BY <2>2 DEF T, Owned
    <2>4. outputs[k].value # 0
        BY <1>2, <1>8, <2>2
    <2> QED
        BY <2>3, <2>4 DEF OtherOwners
<1> QED
    BY <1>12, <1>13, <1>14 DEF Worth, T

(* The sender's inputs are worth what he pays and his change: of a transfer *)
(* to himself alone nothing is told.                                       *)
LEMMA TransferIsCovered ==
    ASSUME Inv, stage = "handled", request.function = "transfer"
    PROVE  /\ TotalValue(inputs) \in Nat /\ TotalValue(inputs) = Total + Left
           /\ TotalValue(ElementsAt(outputs, 1 .. LeafCount)) = Total + Left
<1> DEFINE n == Len(asked.payments)
<1>0. stage \in Assembled /\ stage \notin {"asked", "unwritable"}
    BY DEF Assembled
<1>1. /\ n \in Nat /\ asked.payments \in Seq(Payments)
      /\ LeafCount = Len(outputs) /\ Len(outputs) \in Nat /\ n <= Len(outputs)
      /\ outputs \in Seq(OutputRecords)
      /\ \A k \in 1 .. n : outputs[k].value = asked.payments[k].value
    BY <1>0, MeantFacts
<1>2. Total \in Nat /\ Total = TotalValue(asked.payments)
    BY <1>0, TotalFacts DEF Inv
<1>3. /\ DOMAIN outputs = 1 .. Len(outputs) /\ Left \in Nat
      /\ Len(outputs) = n + (IF Left > 0 THEN 1 ELSE 0)
      /\ \A k \in DOMAIN outputs : k \notin 1 .. n => outputs[k] = ToParty(Sender, Left, TRUE)
    BY <1>0, TransferFacts
<1>4. TotalValue(inputs) \in Nat /\ TotalValue(inputs) = Total + Left
    <2>1. inputs \in Seq([owner : {MasterKey[Sender]}, value : NoteValues])
        BY <1>0 DEF Inv, OutputsMade
    <2>2. \A v \in [owner : {MasterKey[Sender]}, value : NoteValues] : v.value \in Nat
        BY RequestsAssumption DEF NoteValues
    <2>3. TotalValue(inputs) \in Nat
        BY <2>1, <2>2, SequenceIsValued
    <2> QED
        BY <1>2, <2>3 DEF Left
<1>5. /\ \A v \in Payments : v.value \in Nat
      /\ \A v \in OutputRecords : v.value \in Nat
    BY DEF Payments, OutputRecords
<1>6. \A k \in 1 .. n : asked.payments[k].value = outputs[k].value
    BY <1>1
<1>7. TotalValue(ElementsAt(outputs, 1 .. n)) = Total
    BY <1>1, <1>2, <1>5, <1>6, TotalOfBeginning
<1> HIDE DEF n
<1>8. CASE Left > 0
    <2>1. n + 1 \in 1 .. Len(outputs) /\ n + 1 \notin 1 .. n /\ LeafCount = n + 1
        BY <1>1, <1>3, <1>8
    <2>2. outputs[n + 1] = ToParty(Sender, Left, TRUE)
        BY <1>3, <2>1
    <2>3. outputs[n + 1].value = Left
        BY <2>2 DEF ToParty
    <2>4. TotalValue(ElementsAt(outputs, (1 .. n) \cup {n + 1}))
            = TotalValue(ElementsAt(outputs, 1 .. n)) + outputs[n + 1].value
        BY <1>1, <1>5, <2>1, TotalWithOneMore
    <2>5. (1 .. n) \cup {n + 1} = 1 .. LeafCount
        BY <1>1, <2>1
    <2> QED
        BY <1>4, <1>7, <2>3, <2>4, <2>5
<1>9. CASE ~(Left > 0)
    <2>1. LeafCount = n /\ Left = 0
        BY <1>1, <1>3, <1>9
    <2> QED
        BY <1>2, <1>4, <1>7, <2>1
<1> QED
    BY <1>8, <1>9

(* What a receipt tells is what was paid.                                  *)
LEMMA ReceiptFacts ==
    ASSUME Inv, stage = "handled"
    PROVE  ReceiptTransfers(Spent, Made) = Paid
<1> DEFINE amount == TotalValue(inputs) - Worth(Payer)
           told == {[from |-> Payer, to |-> owner, amount |-> Worth(owner)] : owner \in OtherOwners}
<1>0. stage \in Assembled /\ stage \notin {"asked", "unwritable"} /\ request.function \in Transactional
      /\ Validated(request) = "ok"
    BY LeafFacts DEF Assembled, Inv, PartiesResolved, Resolved
<1>1. ReceiptTransfers(Spent, Made) =
        IF OtherOwners = {} /\ Payer # NoOwner /\ amount > 0
        THEN {[from |-> Payer, to |-> NoOwner, amount |-> amount]} ELSE told
    BY NetTransfers
<1>2. MasterKey[Sender] \in AllWallets /\ AllWallets \subseteq Nat
    BY KeyFacts
<1>3. ASSUME request.function \in {"shield", "transfer"}
      PROVE  told = Paid
    <2>1. OtherOwners \subseteq AllWallets \ {Payer}
        <3>1. ASSUME NEW k \in 1 .. LeafCount, outputs[k].owner # Payer
              PROVE  outputs[k].owner \in AllWallets
            <4>1. k \in 1 .. Len(asked.payments)
                BY <1>0, <1>3, <3>1, MeantFacts
            <4> QED
                BY <1>0, <1>3, <4>1, MeantFacts
        <3> QED
            BY <3>1 DEF OtherOwners
    <2>2. \A key \in AllWallets \ {Payer} : PaidTo(key) = Worth(key) /\ (PaidTo(key) > 0 <=> key \in OtherOwners)
        BY <1>0, <1>3, PaidIsWorth
    <2>3. OtherOwners = {k \in AllWallets \ {Payer} : PaidTo(k) > 0}
        BY <2>1, <2>2
    <2>4. Paid = {[from |-> Payer, to |-> key, amount |-> PaidTo(key)] : key \in OtherOwners}
        <3>1. request.function # "unshield"
            BY <1>3
        <3> QED
            BY <2>3, <3>1 DEF Paid
    <2>5. \A key \in OtherOwners : PaidTo(key) = Worth(key)
        BY <2>1, <2>2
    <2> QED
        BY <2>4, <2>5
<1>4. CASE request.function = "shield"
    <2>1. Payer = NoOwner
        BY <1>4 DEF Payer
    <2> QED
        BY <1>1, <1>3, <1>4, <2>1
<1>5. CASE request.function = "transfer"
    <2>1. ASSUME OtherOwners = {}
          PROVE  ~(amount > 0)
        <3>1. LeafCount \in Nat /\ \A k \in 1 .. LeafCount : outputs[k].owner = Payer
            <4>1. LeafCount \in Nat /\ \A k \in 1 .. LeafCount : k \notin 1 .. Len(asked.payments) => outputs[k].owner = Payer
                BY <1>0, <1>5, MeantFacts
            <4>2. \A k \in 1 .. Len(asked.payments) : outputs[k].value # 0
                BY <1>0, <1>5, MeantFacts
            <4>3. \A k \in 1 .. LeafCount : outputs[k].value # 0 => outputs[k].owner = Payer
                BY <2>1 DEF OtherOwners
            <4> QED
                BY <4>1, <4>2, <4>3
        <3>2. Owned(Payer) = 1 .. LeafCount
            BY <3>1 DEF Owned
        <3>3. /\ TotalValue(inputs) \in Nat /\ TotalValue(inputs) = Total + Left
              /\ TotalValue(ElementsAt(outputs, 1 .. LeafCount)) = Total + Left
            BY <1>5, TransferIsCovered
        <3>4. Worth(Payer) = TotalValue(inputs)
            BY <3>2, <3>3 DEF Worth
        <3> QED
            BY <3>3, <3>4
    <2> HIDE DEF amount, told
    <2> QED
        BY <1>1, <1>3, <1>5, <2>1
<1>6. CASE request.function = "unshield"
    <2>1. /\ outputs = <<ToParty(Sender, Left, FALSE), Withdrawal(Total)>> /\ Left \in Nat
          /\ inputs \in Seq([owner : {MasterKey[Sender]}, value : NoteValues])
          /\ outputs \in Seq(OutputRecords)
        BY <1>0, <1>6 DEF Inv, OutputsMade, UnshieldMade
    <2>2. Payer = MasterKey[Sender] /\ LeafCount = 1 /\ Payer # NoOwner
        <3>1. Payer = MasterKey[Sender] /\ LeafCount = 1
            BY <1>6 DEF Payer, LeafCount
        <3> QED
            BY <1>2, <3>1 DEF NoOwner
    <2>3. Len(outputs) = 2 /\ outputs[1].owner = Payer /\ outputs[1].value = Left
        <3>1. Len(outputs) = 2 /\ outputs[1] = ToParty(Sender, Left, FALSE)
            BY <2>1
        <3> QED
            BY <2>2, <3>1 DEF ToParty
    <2>4. OtherOwners = {}
        BY <2>2, <2>3 DEF OtherOwners
    <2>5. Owned(Payer) = {} \cup {1}
        BY <2>2, <2>3 DEF Owned
    <2>6. Worth(Payer) = Left
        <3>1. \A v \in OutputRecords : v.value \in Nat
            BY DEF OutputRecords
        <3>2. 1 \in 1 .. Len(outputs) /\ Len(outputs) \in Nat /\ 1 \notin {}
            BY <2>3
        <3>3. TotalValue(ElementsAt(outputs, {} \cup {1})) = TotalValue(ElementsAt(outputs, {})) + outputs[1].value
            BY <2>1, <3>1, <3>2, TotalWithOneMore
        <3>4. TotalValue(ElementsAt(outputs, {})) = 0
            BY <3>2, TotalOfNone
        <3>5. Worth(Payer) = TotalValue(ElementsAt(outputs, {} \cup {1}))
            BY <2>5 DEF Worth
        <3>6. Worth(Payer) = 0 + outputs[1].value
            BY <3>3, <3>4, <3>5
        <3>7. outputs[1].value = Left /\ Left \in Nat
            BY <2>1, <2>3
        <3> QED
            BY <3>6, <3>7
    <2>7. Total \in Nat /\ Total = TotalValue(asked.payments)
        BY <1>0, TotalFacts DEF Inv
    <2>8. amount = Total
        <3>1. \A v \in [owner : {MasterKey[Sender]}, value : NoteValues] : v.value \in Nat
            BY RequestsAssumption DEF NoteValues
        <3>2. TotalValue(inputs) \in Nat
            BY <2>1, <3>1, SequenceIsValued
        <3> QED
            BY <2>6, <2>7, <3>2 DEF Left
    <2>9. Total > 0
        <3>1. /\ Len(asked.payments) = 1 /\ asked.payments \in Seq(Payments)
              /\ asked.payments[1] \in Payments /\ request.payments[1] = Written(asked.payments[1])
              /\ asked.payments[1].to.kind = "wallet" => Encodable(asked.payments[1].to.address)
            BY <1>0, <1>6, RequestFacts DEF Inv
        <3>2. ValidParams(request)
            BY <1>0, RequestIsRequested, ValidatedFacts DEF Inv
        <3>3. request.payments[1].value > 0
            BY <1>6, <3>2 DEF ValidParams
        <3>4. asked.payments[1].value > 0
            BY <3>1, <3>3, WrittenFacts
        <3>5. \A v \in Payments : v.value \in Nat
            BY DEF Payments
        <3>6. Valued(asked.payments)
            BY <3>1, <3>5, SequenceIsValued
        <3>7. asked.payments[1].value <= TotalValue(asked.payments)
            BY <3>1, <3>6, ElementsWithinTotal
        <3>8. asked.payments[1].value \in Nat
            BY <3>1, <3>5
        <3> QED
            BY <2>7, <3>4, <3>7, <3>8
    <2>10. Paid = {[from |-> Payer, to |-> NoOwner, amount |-> Total]}
        BY <1>6, <2>7 DEF Paid
    <2> HIDE DEF amount, told
    <2> QED
        BY <1>1, <2>2, <2>4, <2>8, <2>9, <2>10
<1> QED
    BY <1>0, <1>4, <1>5, <1>6 DEF Transactional

(* The receipt names exactly the keys the client meant to pay, other than  *)
(* the sender's own, and what each was paid in all.                        *)
THEOREM ReceiptIsRight == Spec => []ReceiptTellsWhatWasPaid
<1>1. ASSUME Inv, receipt.built
      PROVE  receipt.transfers = Paid
    <2>1. receipt # NoReceipt
        BY <1>1 DEF NoReceipt
    <2>2. stage = "handled" /\ receipt = Receipt(FALSE, InputStates, OutputStates)
        BY <1>1, <2>1 DEF Inv, ReceiptMade
    <2>3. receipt.transfers
            = ReceiptTransfers(FilterSchema(InputStates, "note"), FilterSchema(OutputStates, "note"))
        BY <2>2 DEF Receipt
    <2> QED
        BY <1>1, <2>2, <2>3, ReceiptStates, ReceiptFacts
<1>2. Inv => ReceiptTellsWhatWasPaid
    BY <1>1 DEF ReceiptTellsWhatWasPaid
<1> QED
    BY <1>2, PathInvariant, PTL

=============================================================================

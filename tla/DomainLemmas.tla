---------------------------- MODULE DomainLemmas ----------------------------
(***************************************************************************)
(* Lemmas about the operators the specifications are built from: the sums  *)
(* and the choice of notes (NoteSelection), the handlers of a batch of     *)
(* events (RailgunEvents), the events of a call (RailgunContract) and the  *)
(* tree a transaction rebuilds (CommitmentTree). They are about any set of *)
(* tags, commitments and nullifiers, so that the proofs of different       *)
(* specifications can cite them.                                           *)
(***************************************************************************)
EXTENDS RailgunContract, CommitmentTree, NoteSelection,
        TLAPS, FiniteSetTheorems, FunctionTheorems, SequenceTheorems, WellFoundedInduction

-----------------------------------------------------------------------------
(* Positions                                                               *)

(* A set of positions of a sequence has a last one. The least number       *)
(* principle, for the distances to the end.                                *)
LEMMA LastPosition ==
    ASSUME NEW n \in Nat, NEW T, T \subseteq 1 .. n, T # {}
    PROVE  \E i \in T : \A j \in T : j <= i
<1> DEFINE D == {n - i : i \in T}
           R == {p \in Nat \X Nat : p[1] < p[2]}
<1>1. D \subseteq Nat /\ D # {}
    <2>1. \A i \in T : n - i \in Nat
        OBVIOUS
    <2>2. PICK i \in T : TRUE
        OBVIOUS
    <2>3. n - i \in D
        OBVIOUS
    <2> QED
        BY <2>1, <2>3
<1>2. IsWellFoundedOn(R, Nat)
    BY NatLessThanWellFounded DEF OpToRel
<1>3. PICK d \in D : \A e \in D : ~(<<e, d>> \in R)
    <2> HIDE DEF D, R
    <2> QED
        BY <1>1, <1>2, WFMin
<1>4. PICK i \in T : d = n - i
    OBVIOUS
<1>5. ASSUME NEW j \in T
      PROVE  j <= i
    <2>1. n - j \in D
        OBVIOUS
    <2>2. ~(<<n - j, n - i>> \in R)
        BY <1>3, <1>4, <2>1
    <2>3. n - j \in Nat /\ n - i \in Nat /\ i \in Int /\ j \in Int /\ n \in Int
        BY <1>4
    <2>4. ~(n - j < n - i)
        BY <2>2, <2>3
    <2> QED
        BY <2>3, <2>4
<1> QED
    BY <1>5

LEMMA FunctionIsSequence ==
    ASSUME NEW S, NEW n \in Nat, NEW f \in [1 .. n -> S]
    PROVE  f \in Seq(S) /\ Len(f) = n /\ DOMAIN f = 1 .. n
    BY SeqDef

(* What holds at 0 and goes from one number to the next holds up to n.     *)
LEMMA UpTo ==
    ASSUME NEW n \in Nat, NEW S, 0 \in S, \A k \in 0 .. n - 1 : k \in S => k + 1 \in S
    PROVE  \A k \in 0 .. n : k \in S
<1> DEFINE D == {k \in 0 .. n : k \notin S}
           R == {p \in Nat \X Nat : p[1] < p[2]}
<1>1. SUFFICES ASSUME D # {} PROVE FALSE
    OBVIOUS
<1>2. D \subseteq Nat
    OBVIOUS
<1>3. IsWellFoundedOn(R, Nat)
    BY NatLessThanWellFounded DEF OpToRel
<1>4. PICK d \in D : \A e \in D : ~(<<e, d>> \in R)
    <2> HIDE DEF D, R
    <2> QED
        BY <1>1, <1>2, <1>3, WFMin
<1>5. d \in 0 .. n /\ d # 0 /\ d \notin S
    OBVIOUS
<1>6. d - 1 \in 0 .. n - 1 /\ d - 1 \in 0 .. n /\ (d - 1) + 1 = d /\ d - 1 < d
    BY <1>5
<1>7. d - 1 \notin D
    BY <1>2, <1>4, <1>6
<1>8. d - 1 \in S
    BY <1>6, <1>7
<1> QED
    BY <1>5, <1>6, <1>8

(* A set of positions has a first one.                                     *)
LEMMA FirstPosition ==
    ASSUME NEW T, T \subseteq Nat, T # {}
    PROVE  \E i \in T : \A j \in T : i <= j
<1> DEFINE R == {p \in Nat \X Nat : p[1] < p[2]}
<1>1. IsWellFoundedOn(R, Nat)
    BY NatLessThanWellFounded DEF OpToRel
<1>2. PICK i \in T : \A j \in T : ~(<<j, i>> \in R)
    <2> HIDE DEF R
    <2> QED
        BY <1>1, WFMin
<1>3. ASSUME NEW j \in T
      PROVE  i <= j
    <2>1. ~(<<j, i>> \in R) /\ i \in Nat /\ j \in Nat
        BY <1>2
    <2>2. ~(j < i)
        BY <2>1
    <2> QED
        BY <2>1, <2>2
<1> QED
    BY <1>3

-----------------------------------------------------------------------------
(* Sums of notes                                                           *)

(* The recursion of RunningSum defines a function.                         *)
LEMMA RunningSumRecursion ==
    ASSUME NEW notes, NEW n \in Nat, Len(notes) = n
    PROVE  RunningSum(notes) =
              [k \in 0 .. n |-> IF k = 0 THEN 0 ELSE RunningSum(notes)[k - 1] + notes[k].value]
<1> DEFINE IsSum(f, m) == f = [k \in 0 .. m |-> IF k = 0 THEN 0 ELSE f[k - 1] + notes[k].value]
           S == {m \in 0 .. n : \E f : IsSum(f, m)}
<1>1. 0 \in S
    <2> DEFINE f == [k \in 0 .. 0 |-> 0]
    <2>1. IsSum(f, 0)
        OBVIOUS
    <2> HIDE DEF IsSum, f
    <2> QED
        BY <2>1
<1>2. ASSUME NEW m \in 0 .. n - 1, m \in S
      PROVE  m + 1 \in S
    <2>1. PICK f : IsSum(f, m)
        BY <1>2
    <2> DEFINE g == [k \in 0 .. m + 1 |-> IF k = m + 1 THEN f[m] + notes[m + 1].value ELSE f[k]]
    <2>2. m \in Nat /\ (m + 1) - 1 = m /\ m + 1 # 0
        OBVIOUS
    <2>3. ASSUME NEW k \in 0 .. m + 1
          PROVE  g[k] = IF k = 0 THEN 0 ELSE g[k - 1] + notes[k].value
        <3>1. CASE k = m + 1
            <4>1. g[m] = f[m]
                BY <2>2
            <4> QED
                BY <2>2, <3>1, <4>1
        <3>2. CASE k # m + 1
            <4>1. k \in 0 .. m /\ (k # 0 => k - 1 \in 0 .. m + 1 /\ k - 1 # m + 1)
                BY <2>2, <3>2
            <4>2. g[k] = f[k] /\ (k # 0 => g[k - 1] = f[k - 1])
                BY <3>2, <4>1
            <4>3. f[k] = IF k = 0 THEN 0 ELSE f[k - 1] + notes[k].value
                BY <2>1, <4>1
            <4> QED
                BY <4>2, <4>3
        <3> QED
            BY <3>1, <3>2
    <2>4. IsSum(g, m + 1)
        BY <2>3
    <2>5. m + 1 \in 0 .. n
        OBVIOUS
    <2> HIDE DEF IsSum, g
    <2> QED
        BY <2>4, <2>5
<1>3. n \in S
    <2> HIDE DEF S
    <2>1. \A k \in 0 .. n : k \in S
        BY <1>1, <1>2, UpTo
    <2> QED
        BY <2>1
<1>4. PICK f : f = [k \in 0 .. n |-> IF k = 0 THEN 0 ELSE f[k - 1] + notes[k].value]
    BY <1>3
<1> QED
    BY <1>4 DEF RunningSum

Valued(notes) == Len(notes) \in Nat /\ \A k \in 1 .. Len(notes) : notes[k].value \in Nat

LEMMA RunningSumFacts ==
    ASSUME NEW notes, Valued(notes)
    PROVE  /\ RunningSum(notes)[0] = 0
           /\ \A k \in 0 .. Len(notes) : RunningSum(notes)[k] \in Nat
           /\ \A k \in 1 .. Len(notes) :
                RunningSum(notes)[k] = RunningSum(notes)[k - 1] + notes[k].value
<1> DEFINE n == Len(notes)
           sum == RunningSum(notes)
           S == {k \in 0 .. n : sum[k] \in Nat}
<1>0. n \in Nat /\ \A k \in 1 .. n : notes[k].value \in Nat
    BY DEF Valued
<1>1. sum = [k \in 0 .. n |-> IF k = 0 THEN 0 ELSE sum[k - 1] + notes[k].value]
    BY <1>0, RunningSumRecursion
<1> HIDE DEF n, sum
<1>2. sum[0] = 0
    BY <1>0, <1>1
<1>3. ASSUME NEW k \in 1 .. n
      PROVE  sum[k] = sum[k - 1] + notes[k].value
    <2>1. k \in 0 .. n /\ k # 0
        BY <1>0
    <2> QED
        BY <1>1, <2>1
<1>4. \A k \in 0 .. n - 1 : k \in S => k + 1 \in S
    <2> SUFFICES ASSUME NEW k \in 0 .. n - 1, sum[k] \in Nat
                 PROVE  k + 1 \in 0 .. n /\ sum[k + 1] \in Nat
        OBVIOUS
    <2>1. k + 1 \in 1 .. n /\ (k + 1) - 1 = k
        BY <1>0
    <2>2. sum[k + 1] = sum[k] + notes[k + 1].value
        BY <1>3, <2>1
    <2> QED
        BY <1>0, <2>1, <2>2
<1>5. 0 \in S
    BY <1>0, <1>2
<1>6. \A k \in 0 .. n : k \in S
    <2> HIDE DEF S
    <2> QED
        BY <1>0, <1>4, <1>5, UpTo
<1> QED
    BY <1>2, <1>3, <1>6 DEF n, sum

(* Sequences that begin with the same values have the same sums there.     *)
LEMMA SameSums ==
    ASSUME NEW a, NEW b, Valued(a), Valued(b), NEW n \in Nat, n <= Len(a), n <= Len(b),
           \A k \in 1 .. n : a[k].value = b[k].value
    PROVE  \A k \in 0 .. n : RunningSum(a)[k] = RunningSum(b)[k]
<1> DEFINE A == RunningSum(a)
           B == RunningSum(b)
           S == {k \in 0 .. n : A[k] = B[k]}
<1>1. /\ A[0] = 0 /\ B[0] = 0
      /\ \A k \in 1 .. Len(a) : A[k] = A[k - 1] + a[k].value
      /\ \A k \in 1 .. Len(b) : B[k] = B[k - 1] + b[k].value
      /\ Len(a) \in Nat /\ Len(b) \in Nat
    BY RunningSumFacts DEF Valued
<1> HIDE DEF A, B
<1>2. \A k \in 0 .. n - 1 : k \in S => k + 1 \in S
    <2> SUFFICES ASSUME NEW k \in 0 .. n - 1, A[k] = B[k]
                 PROVE  k + 1 \in 0 .. n /\ A[k + 1] = B[k + 1]
        OBVIOUS
    <2>1. k + 1 \in 1 .. n /\ k + 1 \in 1 .. Len(a) /\ k + 1 \in 1 .. Len(b) /\ (k + 1) - 1 = k
        BY <1>1
    <2>2. A[k + 1] = A[k] + a[k + 1].value /\ B[k + 1] = B[k] + b[k + 1].value
        BY <1>1, <2>1
    <2> QED
        BY <2>1, <2>2
<1>3. 0 \in S
    BY <1>1
<1>4. \A k \in 0 .. n : k \in S
    <2> HIDE DEF S
    <2> QED
        BY <1>2, <1>3, UpTo
<1> QED
    BY <1>4 DEF A, B

LEMMA SequenceIsValued ==
    ASSUME NEW V, \A v \in V : v.value \in Nat, NEW notes \in Seq(V)
    PROVE  Valued(notes) /\ TotalValue(notes) \in Nat
<1>1. Valued(notes)
    BY LenProperties, ElementOfSeq DEF Valued
<1>2. Len(notes) \in 0 .. Len(notes)
    BY <1>1 DEF Valued
<1> QED
    BY <1>1, <1>2, RunningSumFacts DEF TotalValue

(* The first k notes are worth what the sum after k notes says.            *)
LEMMA TotalOfFirst ==
    ASSUME NEW V, \A v \in V : v.value \in Nat, NEW notes \in Seq(V), NEW k \in 0 .. Len(notes)
    PROVE  SubSeq(notes, 1, k) \in Seq(V) /\ Len(SubSeq(notes, 1, k)) = k
           /\ (\A i \in 1 .. k : SubSeq(notes, 1, k)[i] = notes[i])
           /\ TotalValue(SubSeq(notes, 1, k)) = RunningSum(notes)[k]
<1> DEFINE first == SubSeq(notes, 1, k)
<1>1. Len(notes) \in Nat /\ k \in Nat /\ k <= Len(notes) /\ \A i \in 1 .. k : notes[i] \in V
    BY LenProperties, ElementOfSeq
<1>2. first \in Seq(V) /\ Len(first) = k /\ \A i \in 1 .. k : first[i] = notes[i]
    <2>1. /\ first \in Seq(V)
          /\ Len(first) = (IF 1 <= k THEN k - 1 + 1 ELSE 0)
          /\ \A i \in 1 .. k - 1 + 1 : first[i] = notes[1 + i - 1]
        BY <1>1, SubSeqProperties
    <2>2. k - 1 + 1 = k /\ \A i \in 1 .. k : 1 + i - 1 = i
        BY <1>1
    <2> HIDE DEF first
    <2> QED
        BY <1>1, <2>1, <2>2
<1> HIDE DEF first
<1>3. Valued(notes) /\ Valued(first)
    BY <1>2, SequenceIsValued
<1>4. RunningSum(first)[k] = RunningSum(notes)[k]
    <2>1. \A i \in 1 .. k : first[i].value = notes[i].value
        BY <1>2
    <2>2. \A i \in 0 .. k : RunningSum(first)[i] = RunningSum(notes)[i]
        BY <1>1, <1>2, <1>3, <2>1, SameSums
    <2> QED
        BY <1>1, <2>2
<1> QED
    BY <1>2, <1>4 DEF TotalValue, first

(* One more note adds its value.                                           *)
LEMMA TotalOfAppend ==
    ASSUME NEW V, \A v \in V : v.value \in Nat, NEW notes \in Seq(V), NEW note \in V
    PROVE  TotalValue(Append(notes, note)) = TotalValue(notes) + note.value
<1> DEFINE n == Len(notes)
           long == Append(notes, note)
<1>1. /\ n \in Nat /\ long \in Seq(V) /\ Len(long) = n + 1
      /\ long[n + 1] = note /\ \A i \in 1 .. n : long[i] = notes[i]
    BY AppendProperties, LenProperties
<1>2. Valued(notes) /\ Valued(long)
    BY <1>1, SequenceIsValued
<1> HIDE DEF long, n
<1>3. RunningSum(long)[n] = RunningSum(notes)[n]
    <2>1. \A i \in 1 .. n : long[i].value = notes[i].value
        BY <1>1
    <2>2. \A i \in 0 .. n : RunningSum(long)[i] = RunningSum(notes)[i]
        BY <1>1, <1>2, <2>1, SameSums DEF n
    <2> QED
        BY <1>1, <2>2
<1>4. RunningSum(long)[n + 1] = RunningSum(long)[n] + note.value
    <2>1. n + 1 \in 1 .. Len(long) /\ (n + 1) - 1 = n
        BY <1>1
    <2>2. RunningSum(long)[n + 1] = RunningSum(long)[(n + 1) - 1] + long[n + 1].value
        BY <1>2, <2>1, RunningSumFacts
    <2> QED
        BY <1>1, <2>1, <2>2
<1> QED
    BY <1>1, <1>3, <1>4 DEF TotalValue, n, long

(* The sum of the values of one note.                                      *)
LEMMA TotalOfOne ==
    ASSUME NEW note, note.value \in Nat
    PROVE  TotalValue(<<note>>) = note.value
<1>1. Len(<<note>>) = 1 /\ <<note>>[1] = note
    OBVIOUS
<1>2. Valued(<<note>>)
    BY <1>1 DEF Valued
<1>3. RunningSum(<<note>>)[0] = 0 /\ RunningSum(<<note>>)[1] = RunningSum(<<note>>)[1 - 1] + note.value
    BY <1>1, <1>2, RunningSumFacts
<1> QED
    BY <1>1, <1>3 DEF TotalValue

(* Sequences of one length with the same values are worth the same.        *)
LEMMA TotalOfSameValues ==
    ASSUME NEW a, NEW b, Valued(a), Valued(b), Len(a) = Len(b),
           \A k \in 1 .. Len(a) : a[k].value = b[k].value
    PROVE  TotalValue(a) = TotalValue(b)
<1>1. Len(a) \in Nat /\ Len(a) \in 0 .. Len(a)
    BY DEF Valued
<1>2. \A k \in 0 .. Len(a) : RunningSum(a)[k] = RunningSum(b)[k]
    BY <1>1, SameSums
<1> QED
    BY <1>1, <1>2 DEF TotalValue

(* "ok" comes with the least number of notes that cover the amount, and    *)
(* that number is within the limit; every other answer with no notes.      *)
LEMMA SelectInputsFacts ==
    ASSUME NEW V, \A v \in V : v.value \in Nat, NEW notes \in Seq(V),
           NEW total, NEW maxInputs
    PROVE  LET s == SelectInputs(notes, total, maxInputs)
           IN  /\ s.result \in {"ok", "maxNotes", "insufficient"}
               /\ s.count \in 0 .. Len(notes)
               /\ s.result = "ok" =>
                    /\ s.count \in 1 .. Len(notes) /\ s.count <= maxInputs
                    /\ RunningSum(notes)[s.count] >= total
                    /\ \A k \in 1 .. Len(notes) :
                        k <= maxInputs /\ RunningSum(notes)[k] >= total => s.count <= k
               /\ s.result # "ok" =>
                    /\ s.count = 0
                    /\ ~ \E k \in 1 .. Len(notes) : k <= maxInputs /\ RunningSum(notes)[k] >= total
               /\ s.result = "maxNotes" => Len(notes) >= maxInputs
               /\ s.result = "insufficient" => ~(Len(notes) >= maxInputs)
<1> DEFINE enough == {k \in Covers(notes, total) : k <= maxInputs}
           Least(k) == \A j \in enough : k <= j
           s == SelectInputs(notes, total, maxInputs)
<1>0. Len(notes) \in Nat
    BY LenProperties
<1>1. \A k : k \in enough <=> k \in 1 .. Len(notes) /\ k <= maxInputs /\ RunningSum(notes)[k] >= total
    BY DEF Covers
<1>2. CASE enough # {}
    <2>1. enough \subseteq Nat
        BY <1>0, <1>1
    <2>2. \E k \in enough : Least(k)
        BY <1>2, <2>1, FirstPosition
    <2>3. s = [result |-> "ok", count |-> CHOOSE k \in enough : Least(k)]
        BY <1>2 DEF SelectInputs
    <2>4. s.result = "ok" /\ s.count \in enough /\ Least(s.count)
        BY <2>2, <2>3
    <2> HIDE DEF enough, s
    <2> QED
        BY <1>0, <1>1, <2>4 DEF s
<1>3. CASE enough = {}
    <2>1. s = [result |-> IF Len(notes) >= maxInputs THEN "maxNotes" ELSE "insufficient",
               count  |-> 0]
        BY <1>3 DEF SelectInputs
    <2>2. /\ s.result = IF Len(notes) >= maxInputs THEN "maxNotes" ELSE "insufficient"
          /\ s.count = 0 /\ s.count \in 0 .. Len(notes)
        BY <1>0, <2>1
    <2> HIDE DEF enough, s
    <2> QED
        BY <1>1, <1>3, <2>2 DEF s
<1> QED
    BY <1>2, <1>3

-----------------------------------------------------------------------------
(* Elements at given positions                                             *)

(* The recursion of ElementsAt defines a function, the elements among the  *)
(* first k.                                                                *)
FirstElementsAt(seq, S) ==
    CHOOSE at : at = [k \in 0 .. Len(seq) |->
        IF k = 0 THEN <<>>
        ELSE IF k \in S THEN Append(at[k - 1], seq[k]) ELSE at[k - 1]]

LEMMA ElementsAtRecursion ==
    ASSUME NEW seq, NEW n \in Nat, Len(seq) = n, NEW S
    PROVE  /\ ElementsAt(seq, S) = FirstElementsAt(seq, S)[n]
           /\ FirstElementsAt(seq, S)[0] = <<>>
           /\ \A k \in 1 .. n :
                FirstElementsAt(seq, S)[k] = IF k \in S THEN Append(FirstElementsAt(seq, S)[k - 1], seq[k])
                                             ELSE FirstElementsAt(seq, S)[k - 1]
<1> DEFINE Rec(f, m) == f = [k \in 0 .. m |->
                IF k = 0 THEN <<>>
                ELSE IF k \in S THEN Append(f[k - 1], seq[k]) ELSE f[k - 1]]
           D == {m \in 0 .. n : \E f : Rec(f, m)}
           at == FirstElementsAt(seq, S)
<1>1. 0 \in D
    <2> DEFINE f == [k \in 0 .. 0 |-> <<>>]
    <2>1. Rec(f, 0)
        OBVIOUS
    <2> HIDE DEF Rec, f
    <2> QED
        BY <2>1
<1>2. ASSUME NEW m \in 0 .. n - 1, m \in D
      PROVE  m + 1 \in D
    <2>1. PICK f : Rec(f, m)
        BY <1>2
    <2> DEFINE last == IF m + 1 \in S THEN Append(f[m], seq[m + 1]) ELSE f[m]
               g == [k \in 0 .. m + 1 |-> IF k = m + 1 THEN last ELSE f[k]]
    <2>2. m \in Nat /\ (m + 1) - 1 = m /\ m + 1 # 0
        OBVIOUS
    <2>3. ASSUME NEW k \in 0 .. m + 1
          PROVE  g[k] = IF k = 0 THEN <<>>
                        ELSE IF k \in S THEN Append(g[k - 1], seq[k]) ELSE g[k - 1]
        <3>1. CASE k = m + 1
            <4>1. g[m] = f[m] /\ g[m + 1] = last
                BY <2>2
            <4> HIDE DEF g
            <4> QED
                BY <2>2, <3>1, <4>1
        <3>2. CASE k # m + 1
            <4>1. k \in 0 .. m /\ (k # 0 => k - 1 \in 0 .. m + 1 /\ k - 1 # m + 1)
                BY <2>2, <3>2
            <4>2. g[k] = f[k] /\ (k # 0 => g[k - 1] = f[k - 1])
                BY <3>2, <4>1
            <4>3. f[k] = IF k = 0 THEN <<>>
                         ELSE IF k \in S THEN Append(f[k - 1], seq[k]) ELSE f[k - 1]
                BY <2>1, <4>1
            <4> HIDE DEF g
            <4> QED
                BY <4>2, <4>3
        <3> QED
            BY <3>1, <3>2
    <2>4. Rec(g, m + 1)
        <3> DEFINE h == [k \in 0 .. m + 1 |->
                IF k = 0 THEN <<>>
                ELSE IF k \in S THEN Append(g[k - 1], seq[k]) ELSE g[k - 1]]
        <3>1. g = h
            BY <2>3
        <3> QED
            BY <3>1
    <2>5. m + 1 \in 0 .. n
        OBVIOUS
    <2> HIDE DEF Rec, g
    <2> QED
        BY <2>4, <2>5
<1>3. n \in D
    <2> HIDE DEF D
    <2>1. \A k \in 0 .. n : k \in D
        BY <1>1, <1>2, UpTo
    <2> QED
        BY <2>1
<1>4. \E f : Rec(f, n)
    BY <1>3
<1>5. at = CHOOSE f : Rec(f, n)
    BY DEF FirstElementsAt
<1>6. Rec(at, n)
    BY <1>4, <1>5
<1>7. ElementsAt(seq, S) = at[n]
    BY DEF ElementsAt, FirstElementsAt
<1>8. at[0] = <<>> /\ \A k \in 1 .. n : at[k] = IF k \in S THEN Append(at[k - 1], seq[k]) ELSE at[k - 1]
    <2> HIDE DEF at
    <2>1. \A k \in 0 .. n : at[k] = IF k = 0 THEN <<>>
                                    ELSE IF k \in S THEN Append(at[k - 1], seq[k]) ELSE at[k - 1]
        BY <1>6
    <2> QED
        BY <2>1
<1> QED
    BY <1>7, <1>8 DEF at

(* pos lists the numbers in T in ascending order.                          *)
Enumerates(pos, m, T) ==
    /\ pos \in [1 .. m -> T]
    /\ \A i, j \in 1 .. m : i < j => pos[i] < pos[j]
    /\ \A x \in T : \E i \in 1 .. m : pos[i] = x

(* found is what seq has at the positions in T, in order.                  *)
Picks(found, seq, T) ==
    \E pos : /\ Enumerates(pos, Len(found), T)
             /\ \A i \in 1 .. Len(found) : found[i] = seq[pos[i]]

(* ElementsAt has the elements at the positions in S, in order, and no     *)
(* other.                                                                  *)
LEMMA ElementsAtFacts ==
    ASSUME NEW V, NEW seq \in Seq(V), NEW S
    PROVE  /\ ElementsAt(seq, S) \in Seq(V)
           /\ Picks(ElementsAt(seq, S), seq, DOMAIN seq \cap S)
<1> DEFINE n == Len(seq)
           at == FirstElementsAt(seq, S)
           T(k) == (1 .. k) \cap S
           Good(k) == /\ at[k] \in Seq(V)
                      /\ Picks(at[k], seq, T(k))
           D == {k \in 0 .. n : Good(k)}
<1>1. n \in Nat /\ DOMAIN seq = 1 .. n /\ \A k \in 1 .. n : seq[k] \in V
    BY LenProperties, ElementOfSeq
<1>2. /\ ElementsAt(seq, S) = at[n] /\ at[0] = <<>>
      /\ \A k \in 1 .. n : at[k] = IF k \in S THEN Append(at[k - 1], seq[k]) ELSE at[k - 1]
    BY <1>1, ElementsAtRecursion
<1> HIDE DEF n, at
<1>3. 0 \in D
    <2> DEFINE pos == [i \in {} |-> 0]
    <2>1. at[0] \in Seq(V) /\ Len(at[0]) = 0
        BY <1>2, EmptySeq
    <2>2. 1 .. 0 = {} /\ T(0) = {}
        OBVIOUS
    <2>3. pos \in [1 .. 0 -> T(0)]
        BY <2>2
    <2>4. Enumerates(pos, 0, T(0))
        BY <2>2, <2>3 DEF Enumerates
    <2>5. \A i \in 1 .. 0 : at[0][i] = seq[pos[i]]
        BY <2>2
    <2> HIDE DEF pos, T
    <2>6. Picks(at[0], seq, T(0))
        BY <2>1, <2>4, <2>5 DEF Picks
    <2> QED
        BY <1>1, <2>1, <2>6
<1>4. ASSUME NEW k \in 0 .. n - 1, k \in D
      PROVE  k + 1 \in D
    <2>1. k + 1 \in 1 .. n /\ k + 1 \in 0 .. n /\ (k + 1) - 1 = k /\ k \in Nat
        BY <1>1
    <2>2. Good(k)
        BY <1>4
    <2>3. at[k] \in Seq(V) /\ Len(at[k]) \in Nat
        BY <2>2, LenProperties
    <2>4. PICK pos : /\ Enumerates(pos, Len(at[k]), T(k))
                     /\ \A i \in 1 .. Len(at[k]) : at[k][i] = seq[pos[i]]
        <3> HIDE DEF T
        <3> QED
            BY <2>2 DEF Picks
    <2>5. CASE k + 1 \in S
        <3> DEFINE m == Len(at[k])
                   new == [i \in 1 .. m + 1 |-> IF i = m + 1 THEN k + 1 ELSE pos[i]]
        <3>1. at[k + 1] = Append(at[k], seq[k + 1])
            BY <1>2, <2>1, <2>5
        <3>2. /\ at[k + 1] \in Seq(V) /\ Len(at[k + 1]) = m + 1
              /\ at[k + 1][m + 1] = seq[k + 1] /\ \A i \in 1 .. m : at[k + 1][i] = at[k][i]
            BY <1>1, <2>1, <2>3, <3>1, AppendProperties
        <3>3. T(k + 1) = T(k) \cup {k + 1}
            BY <2>1, <2>5
        <3>4. /\ pos \in [1 .. m -> T(k)]
              /\ \A i, j \in 1 .. m : i < j => pos[i] < pos[j]
              /\ \A x \in T(k) : \E i \in 1 .. m : pos[i] = x
            BY <2>4 DEF Enumerates
        <3>5. \A i \in 1 .. m : pos[i] \in 1 .. k
            BY <3>4
        <3>6. m \in Nat
            BY <2>3
        <3> HIDE DEF T, m
        <3>7. new[m + 1] = k + 1 /\ \A i \in 1 .. m : new[i] = pos[i]
            BY <3>6
        <3>8. \A i \in 1 .. m + 1 : i = m + 1 \/ i \in 1 .. m
            BY <3>6
        <3>9. new \in [1 .. m + 1 -> T(k + 1)]
            BY <3>3, <3>4, <3>8
        <3> HIDE DEF new
        <3>10. \A i, j \in 1 .. m + 1 : i < j => new[i] < new[j]
            <4> SUFFICES ASSUME NEW i \in 1 .. m + 1, NEW j \in 1 .. m + 1, i < j
                         PROVE  new[i] < new[j]
                OBVIOUS
            <4>1. i \in 1 .. m
                BY <3>6
            <4>2. CASE j = m + 1
                BY <2>1, <3>5, <3>7, <4>1, <4>2
            <4>3. CASE j \in 1 .. m
                BY <3>4, <3>7, <4>1, <4>3
            <4> QED
                BY <3>8, <4>2, <4>3
        <3>11. \A x \in T(k + 1) : \E i \in 1 .. m + 1 : new[i] = x
            <4> SUFFICES ASSUME NEW x \in T(k + 1)
                         PROVE  \E i \in 1 .. m + 1 : new[i] = x
                OBVIOUS
            <4>1. m + 1 \in 1 .. m + 1 /\ \A i \in 1 .. m : i \in 1 .. m + 1
                BY <3>6
            <4>2. CASE x = k + 1
                BY <3>7, <4>1, <4>2
            <4>3. CASE x \in T(k)
                BY <3>4, <3>7, <4>1, <4>3
            <4> QED
                BY <3>3, <4>2, <4>3
        <3>12. Enumerates(new, m + 1, T(k + 1))
            BY <3>9, <3>10, <3>11 DEF Enumerates
        <3>13. \A i \in 1 .. m + 1 : at[k + 1][i] = seq[new[i]]
            BY <2>4, <3>2, <3>7, <3>8 DEF m
        <3>14. Picks(at[k + 1], seq, T(k + 1))
            <4> HIDE DEF new, T, m
            <4> QED
                BY <3>2, <3>12, <3>13 DEF Picks
        <3>15. Good(k + 1)
            BY <3>2, <3>14
        <3> QED
            BY <2>1, <3>15
    <2>6. CASE k + 1 \notin S
        <3>1. at[k + 1] = at[k]
            BY <1>2, <2>1, <2>6
        <3>2. T(k + 1) = T(k)
            BY <2>1, <2>6
        <3>3. Good(k + 1)
            <4> HIDE DEF T
            <4> QED
                BY <2>2, <3>1, <3>2
        <3> QED
            BY <2>1, <3>3
    <2> QED
        BY <2>5, <2>6
<1>5. Good(n)
    <2> HIDE DEF D
    <2>1. \A k \in 0 .. n : k \in D
        BY <1>1, <1>3, <1>4, UpTo
    <2>2. n \in D
        BY <1>1, <2>1
    <2> HIDE DEF Good
    <2> QED
        BY <2>2 DEF D
<1> QED
    BY <1>1, <1>2, <1>5

LEMMA ElementsAtElements ==
    ASSUME NEW V, NEW seq \in Seq(V), NEW S, NEW found, found = ElementsAt(seq, S)
    PROVE  /\ found \in Seq(V) /\ Len(found) \in Nat /\ DOMAIN found = 1 .. Len(found)
           /\ \A i \in DOMAIN found : \E k \in DOMAIN seq \cap S : found[i] = seq[k]
           /\ \A k \in DOMAIN seq \cap S : \E i \in DOMAIN found : found[i] = seq[k]
<1>1. found \in Seq(V) /\ Picks(found, seq, DOMAIN seq \cap S)
    BY ElementsAtFacts
<1> DEFINE R == DOMAIN seq \cap S
<1>2. PICK pos : /\ Enumerates(pos, Len(found), R)
                 /\ \A i \in 1 .. Len(found) : found[i] = seq[pos[i]]
    BY <1>1 DEF Picks
<1>3. found \in Seq(V) /\ Len(found) \in Nat /\ DOMAIN found = 1 .. Len(found)
    BY <1>1, LenProperties
<1>4. /\ \A i \in 1 .. Len(found) : pos[i] \in DOMAIN seq \cap S /\ found[i] = seq[pos[i]]
      /\ \A k \in DOMAIN seq \cap S : \E i \in 1 .. Len(found) : pos[i] = k
    <2>1. \A i \in 1 .. Len(found) : pos[i] \in R
        BY <1>2 DEF Enumerates
    <2>2. \A k \in R : \E i \in 1 .. Len(found) : pos[i] = k
        BY <1>2 DEF Enumerates
    <2> QED
        BY <1>2, <2>1, <2>2
<1> QED
    BY <1>3, <1>4

LEMMA TotalOfNone ==
    ASSUME NEW seq, Len(seq) \in Nat
    PROVE  TotalValue(<<>>) = 0 /\ TotalValue(ElementsAt(seq, {})) = 0
<1>1. TotalValue(<<>>) = 0
    <2>1. Len(<<>>) = 0 /\ Valued(<<>>)
        BY DEF Valued
    <2>2. RunningSum(<<>>)[0] = 0
        BY <2>1, RunningSumFacts
    <2> QED
        BY <2>1, <2>2 DEF TotalValue
<1> DEFINE n == Len(seq)
           at == FirstElementsAt(seq, {})
           D  == {k \in 0 .. n : at[k] = <<>>}
<1>2. /\ ElementsAt(seq, {}) = at[n] /\ at[0] = <<>>
      /\ \A k \in 1 .. n : at[k] = at[k - 1]
    <2> DEFINE none == {}
               f    == FirstElementsAt(seq, none)
    <2>1. \A k \in 1 .. n : k \notin none
        OBVIOUS
    <2>2. f = at /\ ElementsAt(seq, none) = ElementsAt(seq, {})
        OBVIOUS
    <2> HIDE DEF none, f, at
    <2>3. /\ ElementsAt(seq, none) = f[n] /\ f[0] = <<>>
          /\ \A k \in 1 .. n : f[k] = IF k \in none THEN Append(f[k - 1], seq[k]) ELSE f[k - 1]
        BY ElementsAtRecursion DEF f
    <2> QED
        BY <2>1, <2>2, <2>3
<1> HIDE DEF at
<1>3. 0 \in D
    BY <1>2
<1>4. ASSUME NEW k \in 0 .. n - 1, k \in D
      PROVE  k + 1 \in D
    <2>1. k + 1 \in 1 .. n /\ (k + 1) - 1 = k /\ k + 1 \in 0 .. n
        OBVIOUS
    <2>2. at[k + 1] = at[(k + 1) - 1]
        BY <1>2, <2>1
    <2> QED
        BY <1>4, <2>1, <2>2
<1>5. n \in D
    <2> HIDE DEF D
    <2>1. \A k \in 0 .. n : k \in D
        BY <1>3, <1>4, UpTo
    <2> QED
        BY <2>1
<1> QED
    BY <1>1, <1>2, <1>5

(* One more position adds the value of the element there.                  *)
LEMMA TotalWithOneMore ==
    ASSUME NEW V, \A v \in V : v.value \in Nat, NEW seq \in Seq(V), NEW S,
           NEW j \in 1 .. Len(seq), j \notin S
    PROVE  TotalValue(ElementsAt(seq, S \cup {j})) = TotalValue(ElementsAt(seq, S)) + seq[j].value
<1> DEFINE n   == Len(seq)
           new == FirstElementsAt(seq, S \cup {j})
           old == FirstElementsAt(seq, S)
           Good(k) == /\ new[k] \in Seq(V) /\ old[k] \in Seq(V)
                      /\ TotalValue(old[k]) \in Nat
                      /\ TotalValue(new[k]) = TotalValue(old[k]) + (IF k >= j THEN seq[j].value ELSE 0)
           D == {k \in 0 .. n : Good(k)}
<1>1. /\ n \in Nat /\ j \in 1 .. n /\ \A k \in 1 .. n : seq[k] \in V /\ seq[k].value \in Nat
    BY LenProperties, ElementOfSeq
<1>2. /\ ElementsAt(seq, S \cup {j}) = new[n] /\ new[0] = <<>>
      /\ \A k \in 1 .. n : new[k] = IF k \in S \cup {j} THEN Append(new[k - 1], seq[k]) ELSE new[k - 1]
    BY <1>1, ElementsAtRecursion
<1>3. /\ ElementsAt(seq, S) = old[n] /\ old[0] = <<>>
      /\ \A k \in 1 .. n : old[k] = IF k \in S THEN Append(old[k - 1], seq[k]) ELSE old[k - 1]
    BY <1>1, ElementsAtRecursion
<1> HIDE DEF n, new, old
<1>4. 0 \in D
    <2>1. TotalValue(<<>>) = 0 /\ <<>> \in Seq(V)
        BY <1>1, TotalOfNone DEF n
    <2>2. Good(0)
        BY <1>1, <1>2, <1>3, <2>1
    <2> QED
        BY <1>1, <2>2
<1>5. ASSUME NEW k \in 0 .. n - 1, Good(k)
      PROVE  Good(k + 1)
    <2>1. k + 1 \in 1 .. n /\ (k + 1) - 1 = k /\ k \in Nat /\ seq[k + 1] \in V /\ seq[k + 1].value \in Nat
        BY <1>1
    <2>2. /\ new[k + 1] = IF k + 1 \in S \cup {j} THEN Append(new[k], seq[k + 1]) ELSE new[k]
          /\ old[k + 1] = IF k + 1 \in S THEN Append(old[k], seq[k + 1]) ELSE old[k]
        BY <1>2, <1>3, <2>1
    <2>3. /\ Append(new[k], seq[k + 1]) \in Seq(V) /\ Append(old[k], seq[k + 1]) \in Seq(V)
          /\ TotalValue(Append(new[k], seq[k + 1])) = TotalValue(new[k]) + seq[k + 1].value
          /\ TotalValue(Append(old[k], seq[k + 1])) = TotalValue(old[k]) + seq[k + 1].value
        BY <1>5, <2>1, TotalOfAppend, AppendProperties
    <2>4. CASE k + 1 \in S
        <3>1. k + 1 # j /\ (k + 1 >= j <=> k >= j)
            BY <1>1, <2>1, <2>4
        <3> QED
            BY <1>1, <1>5, <2>1, <2>2, <2>3, <2>4, <3>1
    <2>5. CASE k + 1 = j
        <3>1. k + 1 \notin S /\ k + 1 >= j /\ ~(k >= j)
            BY <1>1, <2>1, <2>5
        <3> QED
            BY <1>1, <1>5, <2>1, <2>2, <2>3, <2>5, <3>1
    <2>6. CASE k + 1 \notin S /\ k + 1 # j
        <3>1. k + 1 >= j <=> k >= j
            BY <1>1, <2>1, <2>6
        <3> QED
            BY <1>1, <1>5, <2>1, <2>2, <2>6, <3>1
    <2> QED
        BY <2>4, <2>5, <2>6
<1>6. \A k \in 0 .. n - 1 : k \in D => k + 1 \in D
    <2>1. \A k \in 0 .. n - 1 : k + 1 \in 0 .. n
        BY <1>1
    <2> HIDE DEF Good
    <2> QED
        BY <1>5, <2>1
<1>7. Good(n)
    <2> HIDE DEF D
    <2>1. \A k \in 0 .. n : k \in D
        BY <1>1, <1>4, <1>6, UpTo
    <2>2. n \in D
        BY <1>1, <2>1
    <2> HIDE DEF Good
    <2> QED
        BY <2>2 DEF D
<1>8. n >= j
    BY <1>1
<1> QED
    BY <1>2, <1>3, <1>7, <1>8

(* pos takes the positions of notes to those in T, one to one, and keeps   *)
(* the values.                                                             *)
Matches(pos, notes, seq, T) ==
    /\ pos \in [1 .. Len(notes) -> 1 .. Len(seq)]
    /\ \A i, j \in 1 .. Len(notes) : pos[i] = pos[j] => i = j
    /\ \A i \in 1 .. Len(notes) : pos[i] \in T /\ notes[i].value = seq[pos[i]].value
    /\ \A x \in T : \E i \in 1 .. Len(notes) : pos[i] = x

(* Then the notes are worth as much as the elements of seq at T, in        *)
(* whatever order they are.                                                *)
LEMMA TotalOfMatching ==
    ASSUME NEW V, \A v \in V : v.value \in Nat, NEW seq \in Seq(V),
           NEW W, \A w \in W : w.value \in Nat, NEW notes \in Seq(W),
           NEW pos, NEW T, Matches(pos, notes, seq, T)
    PROVE  TotalValue(ElementsAt(seq, T)) = TotalValue(notes)
<1> DEFINE n     == Len(notes)
           sum   == RunningSum(notes)
           At(k) == {pos[i] : i \in 1 .. k}
           D     == {k \in 0 .. n : TotalValue(ElementsAt(seq, At(k))) = sum[k]}
<1>1. n \in Nat /\ Len(seq) \in Nat /\ Valued(notes)
    BY LenProperties, SequenceIsValued
<1>2. /\ \A i \in 1 .. n : pos[i] \in 1 .. Len(seq) /\ notes[i].value = seq[pos[i]].value
      /\ \A i, j \in 1 .. n : pos[i] = pos[j] => i = j
    BY DEF Matches
<1>3. sum[0] = 0 /\ \A k \in 1 .. n : sum[k] = sum[k - 1] + notes[k].value
    BY <1>1, RunningSumFacts
<1>4. 0 \in D
    <2>1. At(0) = {}
        OBVIOUS
    <2> HIDE DEF At
    <2>2. TotalValue(ElementsAt(seq, At(0))) = 0
        BY <1>1, <2>1, TotalOfNone
    <2> QED
        BY <1>1, <1>3, <2>2
<1>5. ASSUME NEW k \in 0 .. n - 1, k \in D
      PROVE  k + 1 \in D
    <2>1. /\ k \in Nat /\ k + 1 \in 1 .. n /\ k + 1 \in 0 .. n /\ (k + 1) - 1 = k
          /\ \A i \in 1 .. k : i \in 1 .. n /\ i # k + 1
          /\ \A i \in 1 .. k + 1 : i \in 1 .. k \/ i = k + 1
          /\ 1 .. k \subseteq 1 .. k + 1 /\ k + 1 \in 1 .. k + 1
        BY <1>1
    <2>2. At(k + 1) = At(k) \cup {pos[k + 1]}
        BY <2>1
    <2>3. /\ pos[k + 1] \in 1 .. Len(seq) /\ pos[k + 1] \notin At(k)
          /\ notes[k + 1].value = seq[pos[k + 1]].value
        BY <1>2, <2>1
    <2> HIDE DEF At
    <2>4. TotalValue(ElementsAt(seq, At(k) \cup {pos[k + 1]}))
            = TotalValue(ElementsAt(seq, At(k))) + seq[pos[k + 1]].value
        BY <2>3, TotalWithOneMore
    <2> QED
        BY <1>3, <1>5, <2>1, <2>2, <2>3, <2>4
<1>6. n \in D
    <2> HIDE DEF D
    <2>1. \A k \in 0 .. n : k \in D
        BY <1>1, <1>4, <1>5, UpTo
    <2> QED
        BY <1>1, <2>1
<1>7. At(n) = T
    BY DEF Matches
<1> HIDE DEF At
<1> QED
    BY <1>6, <1>7 DEF TotalValue

-----------------------------------------------------------------------------
(* What the handlers return                                                *)

(* What every event of the log satisfies, whichever call emitted it.       *)
GoodEvent(ev) ==
    /\ ev.decode # "malformed"
    /\ ev.kind # "shield" => ev.decode = "ok"
    /\ ev.kind \notin {"shield", "transact"} => ev.leaves = <<>> /\ ev.tag = NoTx
    /\ ev.kind # "nullified" => ev.nullifiers = {}

LeafState(leaf) == [id |-> leaf, leafIndex |-> leaf[1], commitment |-> leaf[2]]

(* A batch maps a hash to an id only if an event of that hash carries it.  *)
LEMMA CorrelationComesFromTheHash ==
    ASSUME NEW E, NEW batch \in Seq(E), NEW hash
    PROVE  \/ TxCorrelation(batch, hash) = NoTx
           \/ \E i \in DOMAIN batch :
                /\ Correlates(batch[i]) /\ batch[i].hash = hash
                /\ TxCorrelation(batch, hash) = batch[i].tag
<1> DEFINE tagged == {i \in DOMAIN batch : Correlates(batch[i]) /\ batch[i].hash = hash}
           IsLast(i) == \A j \in tagged : j <= i
<1>1. CASE tagged = {}
    BY <1>1 DEF TxCorrelation
<1>2. CASE tagged # {}
    <2>1. Len(batch) \in Nat /\ tagged \subseteq 1 .. Len(batch)
        BY LenProperties
    <2>2. \E i \in tagged : IsLast(i)
        BY <1>2, <2>1, LastPosition
    <2>3. (CHOOSE i \in tagged : IsLast(i)) \in tagged
        BY <2>2
    <2>4. TxCorrelation(batch, hash) = batch[CHOOSE i \in tagged : IsLast(i)].tag
        BY <1>2 DEF TxCorrelation
    <2> QED
        BY <2>3, <2>4
<1> QED
    BY <1>1, <1>2

LEMMA CorrelationType ==
    ASSUME NEW T, NEW C, NEW N, NoTx \in T,
           NEW batch \in Seq(EventsOver(T, C, N)), NEW hash
    PROVE  TxCorrelation(batch, hash) \in T
<1>1. \A i \in DOMAIN batch : batch[i] \in EventsOver(T, C, N)
    BY LenProperties, ElementOfSeq
<1>2. CASE TxCorrelation(batch, hash) = NoTx
    BY <1>2
<1>3. CASE TxCorrelation(batch, hash) # NoTx
    <2>1. PICK i \in DOMAIN batch : TxCorrelation(batch, hash) = batch[i].tag
        BY <1>3, CorrelationComesFromTheHash
    <2> QED
        BY <1>1, <2>1 DEF EventsOver
<1> QED
    BY <1>2, <1>3

(* A handler that returns no error records every leaf and every nullifier  *)
(* of its event, and completes the transaction of a Shield or a Transact.  *)
LEMMA HandleEventFacts ==
    ASSUME NEW ev, ev.kind \in EventKinds, GoodEvent(ev), NEW txID
    PROVE  /\ HandleEvent(ev, txID).failed \in BOOLEAN
           /\ HandleEvent(ev, txID).complete \subseteq {txID} \ {NoTx}
           /\ HandleEvent(ev, txID).complete # {} => ev.kind \in {"shield", "transact"}
           /\ ~HandleEvent(ev, txID).failed =>
                /\ HandleEvent(ev, txID).newStates = {LeafState(leaf) : leaf \in LeavesOf(ev)}
                /\ HandleEvent(ev, txID).confirmed
                        = {[id |-> ev.leaves[j], tx |-> txID] : j \in DOMAIN ev.leaves}
                /\ HandleEvent(ev, txID).spent = {[id |-> n, tx |-> txID] : n \in ev.nullifiers}
<1>0. ev.kind # "nullified" => {[id |-> n, tx |-> txID] : n \in ev.nullifiers} = {}
    BY DEF GoodEvent
<1> DEFINE r == RecordCommitments(ev, txID)
           states == {[id |-> TreeLeafStateID(ev.start + i - 1, ev.leaves[i]),
                       leafIndex |-> ev.start + i - 1,
                       commitment |-> ev.leaves[i]] : i \in DOMAIN ev.leaves}
<1>a. /\ r.failed = FALSE /\ r.spent = {}
      /\ r.complete = {txID} \ {NoTx}
      /\ r.newStates = states
      /\ r.confirmed = {[id |-> ev.leaves[j], tx |-> txID] : j \in DOMAIN ev.leaves}
    BY DEF RecordCommitments, NoUpdate, RecordComplete
<1>b. states = {LeafState(leaf) : leaf \in LeavesOf(ev)}
    BY DEF LeafState, LeavesOf, TreeLeafStateID
<1> HIDE DEF r, states
<1>1. CASE ev.kind = "shield"
    <2>1. HandleEvent(ev, txID) = HandleShieldEvent(ev, txID)
        BY <1>1 DEF HandleEvent, GoodEvent
    <2>2. CASE ev.decode = "unhashable"
        BY <2>1, <2>2, <1>1 DEF HandleShieldEvent, NoUpdate
    <2>3. CASE ev.decode # "unhashable"
        <3>1. HandleEvent(ev, txID) = r
            BY <2>1, <2>3 DEF HandleShieldEvent, r
        <3> QED
            BY <3>1, <1>0, <1>1, <1>a, <1>b
    <2> QED
        BY <2>2, <2>3
<1>2. CASE ev.kind = "transact"
    <2>1. HandleEvent(ev, txID) = r
        BY <1>2 DEF HandleEvent, HandleTransactEvent, GoodEvent, r
    <2> QED
        BY <2>1, <1>0, <1>2, <1>a, <1>b
<1>3. CASE ev.kind = "nullified"
    <2>1. HandleEvent(ev, txID) = HandleNullifiedEvent(ev, txID)
        BY <1>3 DEF HandleEvent, GoodEvent
    <2> QED
        BY <2>1, <1>3 DEF HandleNullifiedEvent, NoUpdate, GoodEvent, LeavesOf
<1>4. CASE ev.kind = "unshield"
    <2>1. HandleEvent(ev, txID) = NoUpdate
        BY <1>4 DEF HandleEvent, HandleUnshieldEvent, GoodEvent
    <2> QED
        BY <2>1, <1>4 DEF NoUpdate, GoodEvent, LeavesOf
<1> QED
    BY <1>1, <1>2, <1>3, <1>4 DEF EventKinds

(* What a batch that is accepted adds to the node: exactly the leaves of   *)
(* its events, all their notes and nullifiers, and the completion of no    *)
(* transaction but those its events carry the id of.                       *)
LEMMA HandleEventBatchFacts ==
    ASSUME NEW T, NEW C, NEW N, NoTx \in T, NEW batch \in Seq(EventsOver(T, C, N)),
           \A i \in DOMAIN batch : GoodEvent(batch[i]),
           ~HandleEventBatch(batch).failed
    PROVE  /\ HandleEventBatch(batch).newStates
                = {LeafState(leaf) : leaf \in UNION {LeavesOf(batch[i]) : i \in DOMAIN batch}}
           /\ \A i \in DOMAIN batch : \A j \in DOMAIN batch[i].leaves :
                \E c \in HandleEventBatch(batch).confirmed : c.id = batch[i].leaves[j]
           /\ \A i \in DOMAIN batch : \A n \in batch[i].nullifiers :
                \E s \in HandleEventBatch(batch).spent : s.id = n
           /\ \A c \in HandleEventBatch(batch).confirmed :
                \E i \in DOMAIN batch : \E j \in DOMAIN batch[i].leaves : c.id = batch[i].leaves[j]
           /\ \A s \in HandleEventBatch(batch).spent :
                \E i \in DOMAIN batch : s.id \in batch[i].nullifiers
           /\ \A t \in HandleEventBatch(batch).complete :
                \E i \in DOMAIN batch : batch[i].tag = t
           /\ HandleEventBatch(batch).complete \subseteq T \ {NoTx}
           /\ HandleEventBatch(batch).confirmed \subseteq [id : C, tx : T]
           /\ HandleEventBatch(batch).spent \subseteq [id : N, tx : T]
<1> DEFINE res    == HandleEventBatch(batch)
           txID(i) == TxCorrelation(batch, batch[i].hash)
           u(i)    == HandleEvent(batch[i], txID(i))
           updates == {u(i) : i \in DOMAIN batch}
<1>1. /\ res.newStates = UNION {v.newStates : v \in updates}
      /\ res.confirmed = UNION {v.confirmed : v \in updates}
      /\ res.spent = UNION {v.spent : v \in updates}
      /\ res.complete = UNION {v.complete : v \in updates}
      /\ res.failed = \E v \in updates : v.failed
    BY DEF HandleEventBatch
<1>2. \A i \in DOMAIN batch : batch[i] \in EventsOver(T, C, N)
    BY LenProperties, ElementOfSeq
<1>3. \A i \in DOMAIN batch : txID(i) \in T
    BY CorrelationType
<1>4. ASSUME NEW i \in DOMAIN batch
      PROVE  /\ u(i).complete \subseteq {txID(i)} \ {NoTx}
             /\ u(i).newStates = {LeafState(leaf) : leaf \in LeavesOf(batch[i])}
             /\ u(i).confirmed = {[id |-> batch[i].leaves[j], tx |-> txID(i)] : j \in DOMAIN batch[i].leaves}
             /\ u(i).spent = {[id |-> n, tx |-> txID(i)] : n \in batch[i].nullifiers}
    <2>1. ~u(i).failed
        BY <1>1
    <2>2. batch[i].kind \in EventKinds
        BY <1>2 DEF EventsOver
    <2> HIDE DEF txID
    <2> QED
        BY <2>1, <2>2, HandleEventFacts
<1> HIDE DEF u, res
<1>5. res.newStates = {LeafState(leaf) : leaf \in UNION {LeavesOf(batch[i]) : i \in DOMAIN batch}}
    <2>1. \A i \in DOMAIN batch : \A leaf \in LeavesOf(batch[i]) : LeafState(leaf) \in res.newStates
        BY <1>1, <1>4
    <2>2. \A x \in res.newStates : \E i \in DOMAIN batch : \E leaf \in LeavesOf(batch[i]) : x = LeafState(leaf)
        BY <1>1, <1>4
    <2> QED
        BY <2>1, <2>2
<1>6. ASSUME NEW i \in DOMAIN batch, NEW j \in DOMAIN batch[i].leaves
      PROVE  \E c \in res.confirmed : c.id = batch[i].leaves[j]
    <2>1. [id |-> batch[i].leaves[j], tx |-> txID(i)] \in u(i).confirmed
        BY <1>4
    <2> QED
        BY <1>1, <2>1
<1>7. ASSUME NEW i \in DOMAIN batch, NEW n \in batch[i].nullifiers
      PROVE  \E s \in res.spent : s.id = n
    <2>1. [id |-> n, tx |-> txID(i)] \in u(i).spent
        BY <1>4
    <2> QED
        BY <1>1, <2>1
<1>8. ASSUME NEW t \in res.complete
      PROVE  t \in T \ {NoTx} /\ \E i \in DOMAIN batch : batch[i].tag = t
    <2>1. PICK i \in DOMAIN batch : t \in {txID(i)} \ {NoTx}
        BY <1>1, <1>4
    <2>2. t = TxCorrelation(batch, batch[i].hash) /\ t # NoTx
        BY <2>1
    <2>3. \E k \in DOMAIN batch : batch[k].tag = t
        BY <2>2, CorrelationComesFromTheHash
    <2> QED
        BY <1>3, <2>1, <2>3
<1>9. \A c \in res.confirmed :
        \E i \in DOMAIN batch : \E j \in DOMAIN batch[i].leaves : c.id = batch[i].leaves[j]
    <2> HIDE DEF txID
    <2> QED
        BY <1>1, <1>4
<1>10. \A s \in res.spent : \E i \in DOMAIN batch : s.id \in batch[i].nullifiers
    <2> HIDE DEF txID
    <2> QED
        BY <1>1, <1>4
<1>11. res.confirmed \subseteq [id : C, tx : T]
    <2>1. ASSUME NEW x \in res.confirmed
          PROVE  \E i \in DOMAIN batch : \E j \in DOMAIN batch[i].leaves :
                    x = [id |-> batch[i].leaves[j], tx |-> txID(i)]
        BY <1>1, <1>4
    <2>2. \A i \in DOMAIN batch : \A j \in DOMAIN batch[i].leaves : batch[i].leaves[j] \in C
        <3>1. \A i \in DOMAIN batch : batch[i].leaves \in Seq(C)
            BY <1>2 DEF EventsOver
        <3> QED
            BY <3>1, LenProperties, ElementOfSeq
    <2> HIDE DEF txID
    <2> QED
        BY <1>3, <2>1, <2>2
<1>12. res.spent \subseteq [id : N, tx : T]
    <2>1. ASSUME NEW x \in res.spent
          PROVE  \E i \in DOMAIN batch : \E n \in batch[i].nullifiers : x = [id |-> n, tx |-> txID(i)]
        BY <1>1, <1>4
    <2>2. \A i \in DOMAIN batch : batch[i].nullifiers \subseteq N
        BY <1>2 DEF EventsOver
    <2> HIDE DEF txID
    <2> QED
        BY <1>3, <2>1, <2>2
<1> QED
    BY <1>5, <1>6, <1>7, <1>8, <1>9, <1>10, <1>11, <1>12 DEF res

(* A batch whose events can all be decoded is accepted.                    *)
LEMMA DecodedBatchSucceeds ==
    ASSUME NEW batch, \A i \in DOMAIN batch : batch[i].kind \in EventKinds /\ batch[i].decode = "ok"
    PROVE  ~HandleEventBatch(batch).failed
<1>1. ASSUME NEW ev, NEW txID, ev.kind \in EventKinds, ev.decode = "ok"
      PROVE  ~HandleEvent(ev, txID).failed
    <2>1. /\ RecordCommitments(ev, txID).failed = FALSE
          /\ HandleNullifiedEvent(ev, txID).failed = FALSE
          /\ NoUpdate.failed = FALSE
        BY DEF RecordCommitments, HandleNullifiedEvent, NoUpdate
    <2>2. HandleEvent(ev, txID) \in
            {RecordCommitments(ev, txID), HandleNullifiedEvent(ev, txID), NoUpdate}
        BY <1>1 DEF HandleEvent, EventKinds, HandleShieldEvent, HandleTransactEvent, HandleUnshieldEvent
    <2> QED
        BY <2>1, <2>2
<1> QED
    BY <1>1 DEF HandleEventBatch

-----------------------------------------------------------------------------
(* The events of a call                                                    *)

(* The events of one call: all of one hash, the leaves L at position start *)
(* and the id in the last of them.                                         *)
IsCall(E, es, hash, tag, start, L) ==
    /\ es \in Seq(E) /\ Len(es) >= 1
    /\ \A i \in 1 .. Len(es) : GoodEvent(es[i]) /\ es[i].hash = hash
    /\ \A i \in 1 .. Len(es) - 1 : es[i].leaves = <<>> /\ es[i].tag = NoTx
    /\ es[Len(es)].leaves = L
    /\ es[Len(es)].tag \in {tag, NoTx}
    /\ L # <<>> => es[Len(es)].start = start

(* Short sequences put together.                                           *)
LEMMA JoinTuples ==
    ASSUME NEW S, NEW a \in S, NEW b \in S, NEW c \in S
    PROVE  /\ <<a>> \o <<b>> = <<a, b>>
           /\ <<a, b>> \o <<c>> = <<a, b, c>>
           /\ <<a>> \o <<>> = <<a>>
           /\ <<a, b>> \o <<>> = <<a, b>>
<1>1. /\ <<a>> \in Seq(S) /\ <<b>> \in Seq(S) /\ <<c>> \in Seq(S)
      /\ <<a, b>> \in Seq(S) /\ <<a, b, c>> \in Seq(S)
    OBVIOUS
<1>2. <<a>> \o <<b>> = <<a, b>>
    <2>1. /\ <<a>> \o <<b>> \in Seq(S) /\ Len(<<a>> \o <<b>>) = 2
          /\ (<<a>> \o <<b>>)[1] = a /\ (<<a>> \o <<b>>)[2] = b
        BY <1>1, ConcatProperties
    <2>2. \A i \in 1 .. 2 : (<<a>> \o <<b>>)[i] = <<a, b>>[i]
        BY <2>1
    <2>3. Len(<<a, b>>) = 2
        OBVIOUS
    <2> QED
        BY <1>1, <2>1, <2>2, <2>3, SeqEqual
<1>3. <<a, b>> \o <<c>> = <<a, b, c>>
    <2>1. /\ <<a, b>> \o <<c>> \in Seq(S) /\ Len(<<a, b>> \o <<c>>) = 3
          /\ (<<a, b>> \o <<c>>)[1] = a /\ (<<a, b>> \o <<c>>)[2] = b
          /\ (<<a, b>> \o <<c>>)[3] = c
        BY <1>1, ConcatProperties
    <2>2. \A i \in 1 .. 3 : (<<a, b>> \o <<c>>)[i] = <<a, b, c>>[i]
        BY <2>1
    <2>3. Len(<<a, b, c>>) = 3
        OBVIOUS
    <2> QED
        BY <1>1, <2>1, <2>2, <2>3, SeqEqual
<1> QED
    BY <1>1, <1>2, <1>3, ConcatEmptySeq

LEMMA ShieldIsCall ==
    ASSUME NEW T, NEW C, NEW N, NEW hash \in Nat, NEW tag \in T, NEW start \in Nat,
           NEW L \in Seq(C), NEW decode \in Decodings \ {"malformed"}
    PROVE  IsCall(EventsOver(T, C, N), ShieldEvents(hash, tag, start, L, decode), hash, tag, start, L)
<1> DEFINE e == [kind |-> "shield", hash |-> hash, tag |-> tag, start |-> start,
                 leaves |-> L, nullifiers |-> {}, decode |-> decode]
<1>1. e \in EventsOver(T, C, N) /\ GoodEvent(e)
    BY DEF EventsOver, EventKinds, Decodings, GoodEvent
<1>2. ShieldEvents(hash, tag, start, L, decode) = <<e>>
    BY DEF ShieldEvents
<1> HIDE DEF e
<1>3. <<e>> \in Seq(EventsOver(T, C, N)) /\ Len(<<e>>) = 1 /\ <<e>>[1] = e
    BY <1>1
<1>4. e.hash = hash /\ e.leaves = L /\ e.tag = tag /\ e.start = start
    BY DEF e
<1> QED
    BY <1>1, <1>2, <1>3, <1>4 DEF IsCall

LEMMA TransactIsCall ==
    ASSUME NEW T, NEW C, NEW N, NoTx \in T, NEW hash \in Nat, NEW tag \in T, NEW start \in Nat,
           NEW L \in Seq(C), NEW nulls \in SUBSET N, NEW unshields \in BOOLEAN
    PROVE  IsCall(EventsOver(T, C, N), TransactEvents(hash, tag, start, nulls, L, unshields), hash, tag, start, L)
<1> DEFINE nul == [kind |-> "nullified", hash |-> hash, tag |-> NoTx, start |-> 0,
                   leaves |-> <<>>, nullifiers |-> nulls, decode |-> "ok"]
           uns == [kind |-> "unshield", hash |-> hash, tag |-> NoTx, start |-> 0,
                   leaves |-> <<>>, nullifiers |-> {}, decode |-> "ok"]
           trs == [kind |-> "transact", hash |-> hash, tag |-> tag, start |-> start,
                   leaves |-> L, nullifiers |-> {}, decode |-> "ok"]
           es  == TransactEvents(hash, tag, start, nulls, L, unshields)
<1>1. /\ nul \in EventsOver(T, C, N) /\ GoodEvent(nul)
      /\ nul.hash = hash /\ nul.leaves = <<>> /\ nul.tag = NoTx
    BY EmptySeq DEF EventsOver, EventKinds, Decodings, GoodEvent
<1>2. /\ uns \in EventsOver(T, C, N) /\ GoodEvent(uns)
      /\ uns.hash = hash /\ uns.leaves = <<>> /\ uns.tag = NoTx
    BY EmptySeq DEF EventsOver, EventKinds, Decodings, GoodEvent
<1>3. /\ trs \in EventsOver(T, C, N) /\ GoodEvent(trs)
      /\ trs.hash = hash /\ trs.leaves = L /\ trs.tag = tag /\ trs.start = start
    BY DEF EventsOver, EventKinds, Decodings, GoodEvent
<1>4. es = <<nul>> \o (IF unshields THEN <<uns>> ELSE <<>>) \o (IF L = <<>> THEN <<>> ELSE <<trs>>)
    BY DEF TransactEvents
<1> HIDE DEF nul, uns, trs, es
<1>5. CASE unshields /\ L # <<>>
    <2>1. es = <<nul>> \o <<uns>> \o <<trs>>
        BY <1>4, <1>5
    <2>2. <<nul>> \o <<uns>> = <<nul, uns>> /\ <<nul, uns>> \o <<trs>> = <<nul, uns, trs>>
        BY <1>1, <1>2, <1>3, JoinTuples
    <2>3. es = <<nul, uns, trs>>
        BY <2>1, <2>2
    <2> QED
        BY <2>3, <1>1, <1>2, <1>3 DEF IsCall, es
<1>6. CASE unshields /\ L = <<>>
    <2>1. es = <<nul>> \o <<uns>> \o <<>>
        BY <1>4, <1>6
    <2>2. <<nul>> \o <<uns>> = <<nul, uns>> /\ <<nul, uns>> \o <<>> = <<nul, uns>>
        BY <1>1, <1>2, JoinTuples
    <2>3. es = <<nul, uns>>
        BY <2>1, <2>2
    <2> QED
        BY <2>3, <1>6, <1>1, <1>2 DEF IsCall, es
<1>7. CASE ~unshields /\ L # <<>>
    <2>1. es = <<nul>> \o <<>> \o <<trs>>
        BY <1>4, <1>7
    <2>2. <<nul>> \o <<>> = <<nul>> /\ <<nul>> \o <<trs>> = <<nul, trs>>
        BY <1>1, <1>3, JoinTuples
    <2>3. es = <<nul, trs>>
        BY <2>1, <2>2
    <2> QED
        BY <2>3, <1>1, <1>3 DEF IsCall, es
<1>8. CASE ~unshields /\ L = <<>>
    <2>1. es = <<nul>>
        BY <1>4, <1>8
    <2> QED
        BY <2>1, <1>8, <1>1 DEF IsCall, es
<1> QED
    BY <1>5, <1>6, <1>7, <1>8

(* Only the first event of a call publishes nullifiers, those of nulls.    *)
PublishesOnce(es, nulls) ==
    /\ \A i \in 1 .. Len(es) : es[i].leaves # <<>> => es[i].tag # NoTx
    /\ es[1].nullifiers = nulls
    /\ \A i \in 1 .. Len(es) : es[i].nullifiers \subseteq nulls
    /\ \A i \in 1 .. Len(es) : es[i].nullifiers # {} => i = 1

DecodesTo(es, decode) == \A i \in 1 .. Len(es) : es[i].decode = decode

LEMMA ShieldPublishesOnce ==
    ASSUME NEW hash, NEW tag, tag # NoTx, NEW start, NEW L, NEW decode
    PROVE  /\ PublishesOnce(ShieldEvents(hash, tag, start, L, decode), {})
           /\ DecodesTo(ShieldEvents(hash, tag, start, L, decode), decode)
<1> DEFINE e == [kind |-> "shield", hash |-> hash, tag |-> tag, start |-> start,
                 leaves |-> L, nullifiers |-> {}, decode |-> decode]
<1>1. ShieldEvents(hash, tag, start, L, decode) = <<e>>
    BY DEF ShieldEvents
<1>2. e.tag # NoTx /\ e.nullifiers = {} /\ e.decode = decode
    OBVIOUS
<1> HIDE DEF e
<1>3. Len(<<e>>) = 1 /\ <<e>>[1] = e
    OBVIOUS
<1> QED
    BY <1>1, <1>2, <1>3 DEF PublishesOnce, DecodesTo

LEMMA TransactPublishesOnce ==
    ASSUME NEW hash, NEW tag, tag # NoTx, NEW start, NEW L, NEW nulls, NEW unshields \in BOOLEAN
    PROVE  /\ PublishesOnce(TransactEvents(hash, tag, start, nulls, L, unshields), nulls)
           /\ DecodesTo(TransactEvents(hash, tag, start, nulls, L, unshields), "ok")
<1> DEFINE nul == [kind |-> "nullified", hash |-> hash, tag |-> NoTx, start |-> 0,
                   leaves |-> <<>>, nullifiers |-> nulls, decode |-> "ok"]
           uns == [kind |-> "unshield", hash |-> hash, tag |-> NoTx, start |-> 0,
                   leaves |-> <<>>, nullifiers |-> {}, decode |-> "ok"]
           trs == [kind |-> "transact", hash |-> hash, tag |-> tag, start |-> start,
                   leaves |-> L, nullifiers |-> {}, decode |-> "ok"]
           es  == TransactEvents(hash, tag, start, nulls, L, unshields)
           S   == {nul, uns, trs}
<1>1. nul.leaves = <<>> /\ nul.nullifiers = nulls /\ nul.decode = "ok"
    OBVIOUS
<1>2. uns.leaves = <<>> /\ uns.nullifiers = {} /\ uns.decode = "ok"
    OBVIOUS
<1>3. trs.tag # NoTx /\ trs.nullifiers = {} /\ trs.decode = "ok"
    OBVIOUS
<1>4. es = <<nul>> \o (IF unshields THEN <<uns>> ELSE <<>>) \o (IF L = <<>> THEN <<>> ELSE <<trs>>)
    BY DEF TransactEvents
<1>5. nul \in S /\ uns \in S /\ trs \in S
    OBVIOUS
<1> HIDE DEF nul, uns, trs, es, S
<1>6. es \in {<<nul, uns, trs>>, <<nul, uns>>, <<nul, trs>>, <<nul>>}
    <2>1. /\ <<nul>> \o <<uns>> = <<nul, uns>> /\ <<nul, uns>> \o <<trs>> = <<nul, uns, trs>>
          /\ <<nul, uns>> \o <<>> = <<nul, uns>> /\ <<nul>> \o <<>> = <<nul>>
          /\ <<nul>> \o <<trs>> = <<nul, trs>>
        BY <1>5, JoinTuples
    <2>2. CASE unshields
        BY <1>4, <2>1, <2>2
    <2>3. CASE ~unshields
        BY <1>4, <2>1, <2>3
    <2> QED
        BY <2>2, <2>3
<1>7. CASE es = <<nul, uns, trs>>
    BY <1>1, <1>2, <1>3, <1>7 DEF PublishesOnce, DecodesTo, es
<1>8. CASE es = <<nul, uns>>
    BY <1>1, <1>2, <1>8 DEF PublishesOnce, DecodesTo, es
<1>9. CASE es = <<nul, trs>>
    BY <1>1, <1>3, <1>9 DEF PublishesOnce, DecodesTo, es
<1>10. CASE es = <<nul>>
    BY <1>1, <1>10 DEF PublishesOnce, DecodesTo, es
<1> QED
    BY <1>6, <1>7, <1>8, <1>9, <1>10

(* A call adds the leaves of its last event, and only with that event.     *)
LEMMA LeavesOfLongerLog ==
    ASSUME NEW E, NEW l \in Seq(E), NEW es, NEW hash, NEW tag, NEW start, NEW L,
           IsCall(E, es, hash, tag, start, L)
    PROVE  /\ l \o es \in Seq(E) /\ Len(l \o es) = Len(l) + Len(es)
           /\ \A i \in 1 .. Len(l) : (l \o es)[i] = l[i]
           /\ \A i \in 1 .. Len(es) : (l \o es)[Len(l) + i] = es[i]
           /\ \A n \in 0 .. Len(l) : LeavesUpTo(l \o es, n) = LeavesUpTo(l, n)
           /\ \A n \in Len(l) .. Len(l) + Len(es) - 1 :
                LeavesUpTo(l \o es, n) = LeavesUpTo(l, Len(l))
           /\ LeavesUpTo(l \o es, Len(l) + Len(es))
                = LeavesUpTo(l, Len(l)) \cup LeavesOf(es[Len(es)])
<1> DEFINE m == Len(l)
           k == Len(es)
           long == l \o es
<1>0. es \in Seq(E) /\ m \in Nat /\ k \in Nat /\ k >= 1
    BY LenProperties DEF IsCall
<1>1. long \in Seq(E) /\ Len(long) = m + k
    BY <1>0, ConcatProperties
<1>2. \A i \in 1 .. m : long[i] = l[i]
    BY <1>0, ConcatProperties
<1>3. ASSUME NEW i \in 1 .. k
      PROVE  long[m + i] = es[i]
    <2>1. m + i \in 1 .. m + k /\ m + i > m /\ (m + i) - m = i
        BY <1>0
    <2> QED
        BY <1>0, <2>1, ConcatProperties
<1>4. \A i \in 1 .. k - 1 : LeavesOf(es[i]) = {}
    BY DEF IsCall, LeavesOf
<1> HIDE DEF m, k, long
<1>5. ASSUME NEW n \in 0 .. m
      PROVE  LeavesUpTo(long, n) = LeavesUpTo(l, n)
    BY <1>0, <1>2 DEF LeavesUpTo
<1>6. ASSUME NEW n \in m .. m + k - 1
      PROVE  LeavesUpTo(long, n) = LeavesUpTo(l, m)
    <2>1. \A i \in m + 1 .. n : LeavesOf(long[i]) = {}
        <3> SUFFICES ASSUME NEW i \in m + 1 .. n PROVE LeavesOf(long[i]) = {}
            OBVIOUS
        <3>1. i - m \in 1 .. k - 1 /\ i - m \in 1 .. k /\ m + (i - m) = i
            BY <1>0
        <3> QED
            BY <1>3, <1>4, <3>1
    <2>2. \A i \in 1 .. n : i \in 1 .. m \/ i \in m + 1 .. n
        BY <1>0
    <2>3. 1 .. m \subseteq 1 .. n
        BY <1>0
    <2>4. LeavesUpTo(long, n) = LeavesUpTo(long, m)
        BY <2>1, <2>2, <2>3 DEF LeavesUpTo
    <2>5. m \in 0 .. m
        BY <1>0
    <2> QED
        BY <1>5, <2>4, <2>5
<1>7. LeavesUpTo(long, m + k) = LeavesUpTo(l, m) \cup LeavesOf(es[k])
    <2>1. 1 .. m + k = (1 .. m + k - 1) \cup {m + k}
        BY <1>0
    <2>2. LeavesUpTo(long, m + k) = LeavesUpTo(long, m + k - 1) \cup LeavesOf(long[m + k])
        BY <2>1 DEF LeavesUpTo
    <2>3. m + k - 1 \in m .. m + k - 1 /\ k \in 1 .. k
        BY <1>0
    <2> QED
        BY <1>3, <1>6, <2>2, <2>3
<1> QED
    BY <1>1, <1>2, <1>3, <1>5, <1>6, <1>7 DEF m, k, long

(* A call adds the nullifiers it publishes, with its first event.          *)
LEMMA NullifiersOfLongerLog ==
    ASSUME NEW E, NEW l \in Seq(E), NEW es \in Seq(E), Len(es) >= 1,
           NEW nulls, PublishesOnce(es, nulls)
    PROVE  /\ \A n \in 0 .. Len(l) : NullifiersUpTo(l \o es, n) = NullifiersUpTo(l, n)
           /\ \A n \in Len(l) + 1 .. Len(l) + Len(es) :
                NullifiersUpTo(l \o es, n) = NullifiersUpTo(l, Len(l)) \cup nulls
<1> DEFINE m == Len(l)
           k == Len(es)
           long == l \o es
<1>0. m \in Nat /\ k \in Nat /\ k >= 1
    BY LenProperties
<1>1. \A i \in 1 .. m : long[i] = l[i]
    BY <1>0, ConcatProperties
<1>2. ASSUME NEW i \in 1 .. k
      PROVE  long[m + i] = es[i]
    <2>1. m + i \in 1 .. m + k /\ m + i > m /\ (m + i) - m = i
        BY <1>0
    <2> QED
        BY <1>0, <2>1, ConcatProperties
<1>3. es[1].nullifiers = nulls /\ \A i \in 1 .. k : es[i].nullifiers \subseteq nulls
    BY DEF PublishesOnce
<1> HIDE DEF m, k, long
<1>4. ASSUME NEW n \in 0 .. m
      PROVE  NullifiersUpTo(long, n) = NullifiersUpTo(l, n)
    <2>1. \A i \in 1 .. n : long[i] = l[i]
        BY <1>0, <1>1
    <2> QED
        BY <2>1 DEF NullifiersUpTo
<1>5. ASSUME NEW n \in m + 1 .. m + k
      PROVE  NullifiersUpTo(long, n) = NullifiersUpTo(l, m) \cup nulls
    <2>1. \A i \in 1 .. n : i \in 1 .. m \/ (i - m \in 1 .. k /\ m + (i - m) = i)
        BY <1>0
    <2>2. \A i \in 1 .. m : i \in 1 .. n /\ long[i].nullifiers = l[i].nullifiers
        BY <1>0, <1>1
    <2>3. m + 1 \in 1 .. n /\ long[m + 1].nullifiers = nulls
        BY <1>0, <1>2, <1>3
    <2>4. \A i \in 1 .. n : i \in 1 .. m \/ long[i].nullifiers \subseteq nulls
        BY <1>2, <1>3, <2>1
    <2>5. NullifiersUpTo(long, n) \subseteq NullifiersUpTo(l, m) \cup nulls
        <3> SUFFICES ASSUME NEW i \in 1 .. n
                     PROVE  long[i].nullifiers \subseteq NullifiersUpTo(l, m) \cup nulls
            BY DEF NullifiersUpTo
        <3>1. CASE i \in 1 .. m
            BY <2>2, <3>1 DEF NullifiersUpTo
        <3> QED
            BY <2>4, <3>1
    <2>6. NullifiersUpTo(l, m) \subseteq NullifiersUpTo(long, n)
        BY <2>2 DEF NullifiersUpTo
    <2>7. nulls \subseteq NullifiersUpTo(long, n)
        BY <2>3 DEF NullifiersUpTo
    <2> QED
        BY <2>5, <2>6, <2>7
<1> QED
    BY <1>4, <1>5 DEF m, k, long

-----------------------------------------------------------------------------
(* The tree a transaction rebuilds                                         *)

(* Positions and commitments of the first k leaves of the current tree.    *)
FirstLeaves(tree, k) == {<<p - 1, tree[p]>> : p \in 1 .. k}

LEMMA FirstLeavesOfLongerTree ==
    ASSUME NEW C, NEW tree \in Seq(C), NEW L \in Seq(C)
    PROVE  /\ tree \o L \in Seq(C) /\ Len(tree \o L) = Len(tree) + Len(L)
           /\ \A k \in 0 .. Len(tree) : FirstLeaves(tree \o L, k) = FirstLeaves(tree, k)
           /\ FirstLeaves(tree \o L, Len(tree) + Len(L))
                = FirstLeaves(tree, Len(tree)) \cup {<<Len(tree) + j - 1, L[j]>> : j \in 1 .. Len(L)}
<1> DEFINE m == Len(tree)
           k == Len(L)
           long == tree \o L
<1>0. m \in Nat /\ k \in Nat
    BY LenProperties
<1>1. long \in Seq(C) /\ Len(long) = m + k
    BY ConcatProperties
<1>2. \A i \in 1 .. m : long[i] = tree[i]
    BY <1>0, ConcatProperties
<1>3. ASSUME NEW i \in 1 .. k
      PROVE  long[m + i] = L[i]
    <2>1. m + i \in 1 .. m + k /\ m + i > m /\ (m + i) - m = i
        BY <1>0
    <2> QED
        BY <2>1, ConcatProperties
<1> HIDE DEF m, k, long
<1>4. ASSUME NEW n \in 0 .. m
      PROVE  FirstLeaves(long, n) = FirstLeaves(tree, n)
    <2>1. \A i \in 1 .. n : long[i] = tree[i]
        BY <1>0, <1>2
    <2> QED
        BY <2>1 DEF FirstLeaves
<1>5. FirstLeaves(long, m + k) = FirstLeaves(tree, m) \cup {<<m + j - 1, L[j]>> : j \in 1 .. k}
    <2> DEFINE new == {<<m + j - 1, L[j]>> : j \in 1 .. k}
    <2>1. \A i \in 1 .. m : i \in 1 .. m + k /\ <<i - 1, long[i]>> = <<i - 1, tree[i]>>
        BY <1>0, <1>2
    <2>2. \A j \in 1 .. k : m + j \in 1 .. m + k /\ <<(m + j) - 1, long[m + j]>> = <<m + j - 1, L[j]>>
        BY <1>0, <1>3
    <2>3. FirstLeaves(tree, m) \subseteq FirstLeaves(long, m + k)
        BY <2>1 DEF FirstLeaves
    <2>4. new \subseteq FirstLeaves(long, m + k)
        BY <2>2 DEF FirstLeaves
    <2>5. ASSUME NEW i \in 1 .. m + k
          PROVE  <<i - 1, long[i]>> \in FirstLeaves(tree, m) \cup new
        <3>1. CASE i \in 1 .. m
            BY <2>1, <3>1 DEF FirstLeaves
        <3>2. CASE i \notin 1 .. m
            <4>1. i - m \in 1 .. k /\ m + (i - m) = i
                BY <1>0, <3>2
            <4> QED
                BY <2>2, <4>1
        <3> QED
            BY <3>1, <3>2
    <2> HIDE DEF new
    <2>6. FirstLeaves(long, m + k) \subseteq FirstLeaves(tree, m) \cup new
        BY <2>5 DEF FirstLeaves
    <2> QED
        BY <2>3, <2>4, <2>6 DEF new
<1> QED
    BY <1>1, <1>4, <1>5 DEF m, k, long

LEMMA FirstOfLongerTree ==
    ASSUME NEW C, NEW tree \in Seq(C), NEW L \in Seq(C), NEW k \in 0 .. Len(tree)
    PROVE  SubSeq(tree \o L, 1, k) = SubSeq(tree, 1, k)
<1> DEFINE long == tree \o L
<1>1. /\ k \in Int /\ 1 \in Int /\ Len(tree) \in Nat
      /\ \A i \in 1 .. k : tree[i] \in C /\ long[i] = tree[i]
    BY LenProperties, ElementOfSeq, ConcatProperties
<1> HIDE DEF long
<1>2. /\ SubSeq(tree, 1, k) \in Seq(C)
      /\ Len(SubSeq(tree, 1, k)) = (IF 1 <= k THEN k - 1 + 1 ELSE 0)
      /\ \A i \in 1 .. k - 1 + 1 : SubSeq(tree, 1, k)[i] = tree[1 + i - 1]
    BY <1>1, SubSeqProperties
<1>3. /\ SubSeq(long, 1, k) \in Seq(C)
      /\ Len(SubSeq(long, 1, k)) = (IF 1 <= k THEN k - 1 + 1 ELSE 0)
      /\ \A i \in 1 .. k - 1 + 1 : SubSeq(long, 1, k)[i] = long[1 + i - 1]
    <2>1. \A i \in 1 .. k : long[i] \in C
        BY <1>1
    <2> QED
        BY <1>1, <2>1, SubSeqProperties
<1>4. Len(SubSeq(tree, 1, k)) = k /\ Len(SubSeq(long, 1, k)) = k
    BY <1>2, <1>3
<1>5. ASSUME NEW i \in 1 .. k
      PROVE  SubSeq(long, 1, k)[i] = SubSeq(tree, 1, k)[i]
    <2>1. i \in 1 .. k - 1 + 1 /\ 1 + i - 1 = i
        BY <1>1
    <2>2. SubSeq(tree, 1, k)[i] = tree[1 + i - 1] /\ SubSeq(long, 1, k)[i] = long[1 + i - 1]
        BY <1>2, <1>3, <2>1
    <2> QED
        BY <1>1, <2>1, <2>2
<1> QED
    BY <1>2, <1>3, <1>4, <1>5, SeqEqual DEF long

LEMMA FirstLeavesCounted ==
    ASSUME NEW C, NEW tree \in Seq(C), NEW k \in 0 .. Len(tree)
    PROVE  /\ Cardinality(FirstLeaves(tree, k)) = k
           /\ Cardinality({LeafState(leaf) : leaf \in FirstLeaves(tree, k)}) = k
<1>0. k \in Nat
    BY LenProperties
<1>1. IsFiniteSet(1 .. k) /\ Cardinality(1 .. k) = k
    BY <1>0, FS_Interval
<1>2. Cardinality(FirstLeaves(tree, k)) = k
    <2> DEFINE f == [p \in 1 .. k |-> <<p - 1, tree[p]>>]
    <2>1. \A p, q \in 1 .. k : f[p] = f[q] => p = q
        <3> SUFFICES ASSUME NEW p \in 1 .. k, NEW q \in 1 .. k, f[p] = f[q]
                     PROVE  p = q
            OBVIOUS
        <3>1. f[p][1] = p - 1 /\ f[q][1] = q - 1
            OBVIOUS
        <3>2. p - 1 = q - 1
            BY <3>1
        <3> QED
            BY <1>0, <3>2
    <2>2. f \in [1 .. k -> FirstLeaves(tree, k)]
        BY DEF FirstLeaves
    <2>3. \A x \in FirstLeaves(tree, k) : \E p \in 1 .. k : f[p] = x
        BY DEF FirstLeaves
    <2> HIDE DEF f
    <2>4. f \in Bijection(1 .. k, FirstLeaves(tree, k))
        BY <2>1, <2>2, <2>3, Fun_IsBij
    <2>5. ExistsBijection(1 .. k, FirstLeaves(tree, k))
        BY <2>4 DEF ExistsBijection
    <2> QED
        BY <1>1, <2>5, FS_Bijection
<1>3. Cardinality({LeafState(leaf) : leaf \in FirstLeaves(tree, k)}) = k
    <2> DEFINE S == {LeafState(leaf) : leaf \in FirstLeaves(tree, k)}
               f == [p \in 1 .. k |-> LeafState(<<p - 1, tree[p]>>)]
    <2>1. \A p, q \in 1 .. k : f[p] = f[q] => p = q
        <3> SUFFICES ASSUME NEW p \in 1 .. k, NEW q \in 1 .. k, f[p] = f[q]
                     PROVE  p = q
            OBVIOUS
        <3>1. f[p].leafIndex = p - 1 /\ f[q].leafIndex = q - 1
            BY DEF LeafState
        <3>2. p - 1 = q - 1
            BY <3>1
        <3> QED
            BY <1>0, <3>2
    <2>2. f \in [1 .. k -> S]
        BY DEF FirstLeaves
    <2>3. \A x \in S : \E p \in 1 .. k : f[p] = x
        BY DEF FirstLeaves
    <2> HIDE DEF f, S
    <2>4. f \in Bijection(1 .. k, S)
        BY <2>1, <2>2, <2>3, Fun_IsBij
    <2>5. ExistsBijection(1 .. k, S)
        BY <2>4 DEF ExistsBijection
    <2> QED
        BY <1>1, <2>5, FS_Bijection DEF S
<1> QED
    BY <1>2, <1>3

(* loadTree on the states of the first k leaves of a tree returns them,    *)
(* in order: it neither stops early nor skips one.                         *)
LEMMA LoadTreeOfFirstLeaves ==
    ASSUME NEW C, NEW tree \in Seq(C), NEW k \in 0 .. Len(tree)
    PROVE  LoadTree({LeafState(leaf) : leaf \in FirstLeaves(tree, k)}) = SubSeq(tree, 1, k)
<1> DEFINE S == {LeafState(leaf) : leaf \in FirstLeaves(tree, k)}
           the(i) == LeafState(<<i, tree[i + 1]>>)
<1>0. k \in Nat /\ Len(tree) \in Nat
    BY LenProperties
<1>1. \A x \in S : \E p \in 1 .. k : x = LeafState(<<p - 1, tree[p]>>)
    BY DEF FirstLeaves
<1>2. \A p \in 1 .. k : LeafState(<<p - 1, tree[p]>>) \in S
    BY DEF FirstLeaves
<1>3. Cardinality(S) = k
    BY FirstLeavesCounted
<1> HIDE DEF S
<1>4. ASSUME NEW i \in 0 .. k - 1
      PROVE  LeavesAt(S, i) = {the(i)}
    <2>1. i + 1 \in 1 .. k /\ (i + 1) - 1 = i
        BY <1>0
    <2>2. the(i) \in S /\ the(i).leafIndex = i
        BY <1>2, <2>1 DEF LeafState
    <2>3. ASSUME NEW x \in S, x.leafIndex = i
          PROVE  x = the(i)
        <3>1. PICK p \in 1 .. k : x = LeafState(<<p - 1, tree[p]>>)
            BY <1>1
        <3>2. p - 1 = i
            BY <2>3, <3>1 DEF LeafState
        <3>3. p = i + 1
            BY <1>0, <3>2
        <3> QED
            BY <2>1, <3>1, <3>3
    <2> HIDE DEF the
    <2> QED
        BY <2>2, <2>3 DEF LeavesAt
<1>5. LeavesAt(S, k) = {}
    <2> SUFFICES ASSUME NEW x \in S, x.leafIndex = k PROVE FALSE
        BY DEF LeavesAt
    <2>1. PICK p \in 1 .. k : x = LeafState(<<p - 1, tree[p]>>)
        BY <1>1
    <2>2. p - 1 = k
        BY <2>1 DEF LeafState
    <2> QED
        BY <1>0, <2>2
<1> HIDE DEF the
<1>6. ASSUME NEW n \in 0 .. k - 1
      PROVE  ~StopsAt(S, n)
    <2>1. LeavesAt(S, n) # {}
        BY <1>4
    <2>2. n > 0 => LeavesAt(S, n - 1) = {the(n - 1)}
        BY <1>0, <1>4
    <2> QED
        BY <2>1, <2>2 DEF StopsAt
<1>7. StopsAt(S, k)
    BY <1>5 DEF StopsAt
<1>8. NextIndex(S) = k
    <2> DEFINE First(n) == StopsAt(S, n) /\ \A m \in 0 .. n - 1 : ~StopsAt(S, m)
    <2>1. k \in 0 .. k /\ First(k)
        BY <1>0, <1>6, <1>7
    <2>2. ASSUME NEW n \in 0 .. k, First(n)
          PROVE  n = k
        <3>1. n \notin 0 .. k - 1
            BY <1>6, <2>2
        <3> QED
            BY <1>0, <3>1
    <2>3. NextIndex(S) = CHOOSE n \in 0 .. k : First(n)
        BY <1>3 DEF NextIndex
    <2> HIDE DEF First
    <2> QED
        BY <2>1, <2>2, <2>3
<1>9. LoadTree(S) = [i \in 1 .. k |-> (CHOOSE s \in LeavesAt(S, i - 1) : TRUE).commitment]
    BY <1>8 DEF LoadTree
<1>10. ASSUME NEW i \in 1 .. k
       PROVE  (CHOOSE s \in LeavesAt(S, i - 1) : TRUE).commitment = tree[i]
    <2>1. i - 1 \in 0 .. k - 1 /\ (i - 1) + 1 = i
        BY <1>0
    <2>2. LeavesAt(S, i - 1) = {the(i - 1)}
        BY <1>4, <2>1
    <2>3. (CHOOSE s \in LeavesAt(S, i - 1) : TRUE) = the(i - 1)
        BY <2>2
    <2>4. the(i - 1).commitment = tree[(i - 1) + 1]
        BY DEF the, LeafState
    <2>5. the(i - 1).commitment = tree[i]
        BY <2>1, <2>4
    <2> QED
        BY <2>3, <2>5
<1>11. LoadTree(S) = [i \in 1 .. k |-> tree[i]]
    BY <1>9, <1>10
<1>12. SubSeq(tree, 1, k) = [i \in 1 .. k |-> tree[i]]
    <2> DEFINE t == [i \in 1 .. k |-> tree[i]]
    <2>1. \A i \in 1 .. k : tree[i] \in C
        BY <1>0, ElementOfSeq
    <2>2. t \in Seq(C) /\ Len(t) = k
        BY <1>0, <2>1
    <2>3. /\ SubSeq(tree, 1, k) \in Seq(C) /\ Len(SubSeq(tree, 1, k)) = k
          /\ \A i \in 1 .. k : SubSeq(tree, 1, k)[i] = tree[i]
        <3>1. /\ SubSeq(tree, 1, k) \in Seq(C)
              /\ Len(SubSeq(tree, 1, k)) = (IF 1 <= k THEN k - 1 + 1 ELSE 0)
              /\ \A i \in 1 .. k - 1 + 1 : SubSeq(tree, 1, k)[i] = tree[1 + i - 1]
            BY <1>0, <2>1, SubSeqProperties
        <3>2. k - 1 + 1 = k /\ \A i \in 1 .. k : 1 + i - 1 = i
            BY <1>0
        <3> QED
            BY <1>0, <3>1, <3>2
    <2>4. \A i \in 1 .. k : t[i] = tree[i]
        OBVIOUS
    <2> HIDE DEF t
    <2>5. SubSeq(tree, 1, k) = t
        BY <2>2, <2>3, <2>4, SeqEqual
    <2> QED
        BY <2>5 DEF t
<1> QED
    BY <1>11, <1>12 DEF S

=============================================================================

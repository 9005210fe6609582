------------------------ MODULE AssemblyQueriesProofs ------------------------
(***************************************************************************)
(* Theorems about AssemblyQueries, for every page size and limit, any      *)
(* number of notes and leaves, and any creation times.                     *)
(***************************************************************************)
EXTENDS AssemblyQueries, DomainLemmas

Created(i) == notes[i].created
Confirmed(i) == notes[i].status # "unconfirmed"
Met(i) == \E k \in DOMAIN picked : Created(picked[k]) = Created(i)

(* The store: leaves in the order of their times, notes with leaves.       *)
StoreInv ==
    /\ \A i, j \in DOMAIN leaves : i < j => leaves[i] <= leaves[j]
    /\ \A i \in DOMAIN notes : Confirmed(i) => notes[i].leaf \in 0 .. Len(leaves) - 1

(* What was taken is no younger than the cursor of the query for notes,    *)
(* what is left of the page no older, and the page is in order.            *)
PickedInv ==
    /\ NoNoteTwice
    /\ \A k \in DOMAIN picked :
         Confirmed(picked[k]) /\ (pc \in Selecting => Created(picked[k]) <= lastCreated)
PageInv ==
    pc = "takeNotes" =>
        /\ \A k \in DOMAIN page :
             /\ Confirmed(page[k]) /\ Created(page[k]) >= lastCreated
             /\ \A m \in DOMAIN picked : page[k] # picked[m]
        /\ \A j, k \in DOMAIN page :
             j < k => page[j] # page[k] /\ Created(page[j]) <= Created(page[k])

(* Where a note is that was neither taken nor ties with one that was: on   *)
(* the page, or behind all that was asked for.                             *)
SkipInv ==
    ~disturbed =>
        \A i \in DOMAIN notes : IsAvailable(i) =>
            /\ pc = "queryNotes" => Met(i) \/ Created(i) > lastCreated
            /\ pc = "takeNotes" =>
                 \/ Met(i)
                 \/ \E k \in DOMAIN page : page[k] = i
                 \/ Created(i) >= Created(page[Len(page)])
            /\ pc = "insufficient" => Met(i)

(* Without ties, what was collected is what is not behind the cursor.      *)
LeafInv ==
    /\ leavesBefore <= Len(leaves)
    /\ pc \in Selecting => collected = {}
    /\ ~Ties(leaves) =>
         /\ pc = "queryLeaves" =>
              /\ collected = {k \in DOMAIN leaves : leaves[k] <= lastCreated}
              /\ lastCreated = 0 \/ \E k \in DOMAIN leaves : lastCreated = leaves[k]
         /\ pc = "assembled" => collected = DOMAIN leaves

IndInv == TypeOK /\ StoreInv /\ PickedInv /\ PageInv /\ SkipInv /\ LeafInv

Note == [value : Values, token : Tokens, status : {"unconfirmed", "available", "spent"},
         created : Nat \ {0}, leaf : Nat \cup {-1}]

LEMMA TypeFacts ==
    ASSUME TypeOK
    PROVE  /\ Len(notes) \in Nat /\ DOMAIN notes = 1 .. Len(notes)
           /\ \A i \in DOMAIN notes : notes[i] \in Note /\ Created(i) \in Nat \ {0}
           /\ Len(leaves) \in Nat /\ DOMAIN leaves = 1 .. Len(leaves)
           /\ \A k \in DOMAIN leaves : leaves[k] \in Nat \ {0}
           /\ Len(page) \in Nat /\ DOMAIN page = 1 .. Len(page)
           /\ \A k \in DOMAIN page : page[k] \in DOMAIN notes
           /\ Len(picked) \in Nat /\ DOMAIN picked = 1 .. Len(picked)
           /\ \A k \in DOMAIN picked : picked[k] \in DOMAIN notes
           /\ lastCreated \in Nat
<1>1. notes \in Seq(Note) /\ leaves \in Seq(Nat \ {0}) /\ lastCreated \in Nat
      /\ page \in Seq(DOMAIN notes) /\ picked \in Seq(DOMAIN notes)
    BY DEF TypeOK, Note
<1>2. Len(notes) \in Nat /\ DOMAIN notes = 1 .. Len(notes) /\ \A i \in DOMAIN notes : notes[i] \in Note
    BY <1>1, LenProperties, ElementOfSeq
<1>3. Len(leaves) \in Nat /\ DOMAIN leaves = 1 .. Len(leaves) /\ \A k \in DOMAIN leaves : leaves[k] \in Nat \ {0}
    BY <1>1, LenProperties, ElementOfSeq
<1>4. Len(page) \in Nat /\ DOMAIN page = 1 .. Len(page) /\ \A k \in DOMAIN page : page[k] \in DOMAIN notes
    BY <1>1, LenProperties, ElementOfSeq
<1>5. Len(picked) \in Nat /\ DOMAIN picked = 1 .. Len(picked) /\ \A k \in DOMAIN picked : picked[k] \in DOMAIN notes
    BY <1>1, LenProperties, ElementOfSeq
<1>6. \A i \in DOMAIN notes : Created(i) \in Nat \ {0}
    BY <1>2 DEF Created, Note
<1> QED
    BY <1>1, <1>2, <1>3, <1>4, <1>5, <1>6

-----------------------------------------------------------------------------
(* The query for notes *)

LEMMA QueryNotesKeepsInvariant == ASSUME IndInv, QueryNotes PROVE IndInv'
<1> USE DEF IndInv
<1>0. PICK n \in 0 .. PageLimit : \E s \in [1 .. n -> DOMAIN notes] : IsPage(s) /\ page' = s
    BY DEF QueryNotes
<1>1. PICK s \in [1 .. n -> DOMAIN notes] : IsPage(s) /\ page' = s
    BY <1>0
<1>2. /\ pc = "queryNotes" /\ pc' = IF s = <<>> THEN "insufficient" ELSE "takeNotes"
      /\ UNCHANGED <<notes, leaves, total, lastCreated, picked, sum, collected, leavesBefore, disturbed>>
    BY <1>1 DEF QueryNotes, AfterQuery, storeVars, leafVars
<1>3. /\ n \in Nat /\ PageLimit \in Nat \ {0}
      /\ s \in Seq(DOMAIN notes) /\ Len(s) = n /\ DOMAIN s = 1 .. n
    BY AssemblyQueriesAssumption
<1>4. TypeOK'
    BY <1>1, <1>2, <1>3 DEF TypeOK, Running, Selecting, Reverts
<1>5. StoreInv'
    BY <1>2 DEF StoreInv, Confirmed
<1>6. PickedInv'
    BY <1>2 DEF PickedInv, NoNoteTwice, Confirmed, Created, Selecting
<1>7. PageInv'
    <2>1. \A k \in DOMAIN s : Confirmed(s[k]) /\ Created(s[k]) > lastCreated
        BY <1>1 DEF IsPage, IsAvailable, Asked, Confirmed, Created
    <2>2. \A m \in DOMAIN picked : Created(picked[m]) <= lastCreated
        BY <1>2 DEF PickedInv, Selecting
    <2>3. \A k \in DOMAIN s, m \in DOMAIN picked : s[k] # picked[m]
        BY <2>1, <2>2, <1>3, TypeFacts
    <2>4. \A j, k \in DOMAIN s : j < k => s[j] # s[k] /\ Created(s[j]) <= Created(s[k])
        BY <1>1 DEF IsPage, Created
    <2>5. \A k \in DOMAIN s : Created(s[k]) >= lastCreated
        BY <2>1, <1>3, TypeFacts
    <2> QED
        BY <1>1, <1>2, <2>1, <2>3, <2>4, <2>5 DEF PageInv, Confirmed, Created
<1>8. SkipInv'
    <2> SUFFICES ASSUME ~disturbed, NEW i \in DOMAIN notes, IsAvailable(i)
                 PROVE  /\ s = <<>> => Met(i)
                        /\ s # <<>> => \/ Met(i)
                                       \/ \E k \in DOMAIN s : s[k] = i
                                       \/ Created(i) >= Created(s[Len(s)])
        BY <1>1, <1>2 DEF SkipInv, Met, Created, IsAvailable
    <2>1. Met(i) \/ Created(i) > lastCreated
        BY <1>2 DEF SkipInv
    <2>2. CASE \E k \in DOMAIN s : s[k] = i
        BY <2>2
    <2>3. CASE ~ \E k \in DOMAIN s : s[k] = i
        <3>1. ASSUME Created(i) > lastCreated
              PROVE  Len(s) = PageLimit /\ \A k \in DOMAIN s : Created(s[k]) <= Created(i)
            BY <1>1, <2>3, <3>1 DEF IsPage, IsAvailable, Asked, Created
        <3>2. ASSUME Created(i) > lastCreated
              PROVE  s # <<>> /\ Created(i) >= Created(s[Len(s)])
            BY <1>3, <3>1, <3>2, TypeFacts
        <3> QED
            BY <2>1, <3>2
    <2> QED
        BY <2>2, <2>3
<1>9. LeafInv'
    BY <1>2 DEF LeafInv, Ties, Selecting
<1> QED
    BY <1>4, <1>5, <1>6, <1>7, <1>8, <1>9

-----------------------------------------------------------------------------
(* The loop over a page *)

(* What a turn of the loop does to the selection.                          *)
LEMMA TakeNoteFacts ==
    ASSUME IndInv, TakeNote
    PROVE  /\ Head(page) = page[1] /\ page # <<>> /\ Len(page) \in Nat \ {0}
           /\ Tail(page) \in Seq(DOMAIN notes) /\ Len(Tail(page)) = Len(page) - 1
           /\ \A k \in 1 .. Len(page) - 1 : Tail(page)[k] = page[k + 1]
           /\ Tail(page) = <<>> => Len(page) = 1
           /\ Tail(page) # <<>> => Len(page) > 1
           /\ pc = "takeNotes" /\ page[1] \in DOMAIN notes
           /\ sum' = sum + notes[page[1]].value /\ page' = Tail(page) /\ picked' = Append(picked, page[1])
           /\ pc' \in {"queryLeaves", "maxNotes", "queryNotes", "takeNotes"}
           /\ pc' = "queryNotes" => page' = <<>>
           /\ pc' = "takeNotes" => page' # <<>>
           /\ lastCreated' = IF pc' = "queryLeaves" THEN 0 ELSE Created(page[1])
           /\ leavesBefore' = IF pc' = "queryLeaves" THEN Len(leaves) ELSE leavesBefore
           /\ UNCHANGED <<notes, leaves, total, collected, disturbed>>
           /\ pc' = AfterNote(sum', Len(picked'), page')
           /\ Len(picked') = Len(picked) + 1 /\ picked' \in Seq(DOMAIN notes)
           /\ DOMAIN picked' = 1 .. Len(picked) + 1
           /\ \A k \in 1 .. Len(picked) : picked'[k] = picked[k]
           /\ picked'[Len(picked) + 1] = page[1]
<1> USE DEF IndInv
<1> DEFINE note == page[1]
<1>0. /\ Head(page) = note /\ page # <<>> /\ Len(page) \in Nat \ {0}
      /\ Tail(page) \in Seq(DOMAIN notes) /\ Len(Tail(page)) = Len(page) - 1
      /\ \A k \in 1 .. Len(page) - 1 : Tail(page)[k] = page[k + 1]
      /\ Tail(page) = <<>> => Len(page) = 1
      /\ Tail(page) # <<>> => Len(page) > 1
    <2>1. page \in Seq(DOMAIN notes) /\ page # <<>>
        BY DEF TypeOK, TakeNote
    <2>2. Len(page) \in Nat \ {0}
        BY <2>1, EmptySeq
    <2>3. Head(page) = note
        BY <2>1, <2>2
    <2>4. /\ Tail(page) \in Seq(DOMAIN notes) /\ Len(Tail(page)) = Len(page) - 1
          /\ \A k \in 1 .. Len(Tail(page)) : Tail(page)[k] = page[k + 1]
        BY <2>1, HeadTailProperties
    <2>5. Tail(page) = <<>> => Len(Tail(page)) = 0
        BY EmptySeq
    <2>6. Tail(page) # <<>> => Len(Tail(page)) \in Nat \ {0}
        BY <2>4, EmptySeq
    <2> QED
        BY <2>1, <2>2, <2>3, <2>4, <2>5, <2>6
<1>1. /\ pc = "takeNotes" /\ note \in DOMAIN notes
      /\ sum' = sum + notes[note].value /\ page' = Tail(page) /\ picked' = Append(picked, note)
      /\ pc' \in {"queryLeaves", "maxNotes", "queryNotes", "takeNotes"}
      /\ pc' = "queryNotes" => page' = <<>>
      /\ pc' = "takeNotes" => page' # <<>>
      /\ lastCreated' = IF pc' = "queryLeaves" THEN 0 ELSE Created(note)
      /\ leavesBefore' = IF pc' = "queryLeaves" THEN Len(leaves) ELSE leavesBefore
      /\ UNCHANGED <<notes, leaves, total, collected, disturbed>>
    <2>1. /\ pc = "takeNotes" /\ sum' = sum + notes[note].value
          /\ page' = Tail(page) /\ picked' = Append(picked, note)
          /\ UNCHANGED <<notes, leaves, total, collected, disturbed>>
        BY <1>0 DEF TakeNote, storeVars
    <2>2. pc' = AfterNote(sum', Len(picked'), page')
        BY DEF TakeNote
    <2>3. /\ lastCreated' = IF pc' = "queryLeaves" THEN 0 ELSE Created(note)
          /\ leavesBefore' = IF pc' = "queryLeaves" THEN Len(leaves) ELSE leavesBefore
        BY <1>0 DEF TakeNote, Created
    <2>4. note \in DOMAIN notes
        BY <1>0, TypeFacts
    <2> HIDE DEF note
    <2> QED
        BY <2>1, <2>2, <2>3, <2>4 DEF AfterNote
<1>2. /\ Len(picked') = Len(picked) + 1 /\ picked' \in Seq(DOMAIN notes)
      /\ DOMAIN picked' = 1 .. Len(picked) + 1
      /\ \A k \in 1 .. Len(picked) : picked'[k] = picked[k]
      /\ picked'[Len(picked) + 1] = note
    BY <1>1 DEF TypeOK
<1>3. pc' = AfterNote(sum', Len(picked'), page')
    BY DEF TakeNote
<1> QED
    BY <1>0, <1>1, <1>2, <1>3

LEMMA TakeNoteKeepsInvariant == ASSUME IndInv, TakeNote PROVE IndInv'
<1> USE DEF IndInv
<1> DEFINE note == page[1]
<1>0. /\ Head(page) = note /\ page # <<>> /\ Len(page) \in Nat \ {0}
      /\ Tail(page) \in Seq(DOMAIN notes) /\ Len(Tail(page)) = Len(page) - 1
      /\ \A k \in 1 .. Len(page) - 1 : Tail(page)[k] = page[k + 1]
      /\ Tail(page) = <<>> => Len(page) = 1
      /\ Tail(page) # <<>> => Len(page) > 1
    BY TakeNoteFacts
<1>1. /\ pc = "takeNotes" /\ note \in DOMAIN notes
      /\ sum' = sum + notes[note].value /\ page' = Tail(page) /\ picked' = Append(picked, note)
      /\ pc' \in {"queryLeaves", "maxNotes", "queryNotes", "takeNotes"}
      /\ pc' = "queryNotes" => page' = <<>>
      /\ pc' = "takeNotes" => page' # <<>>
      /\ lastCreated' = IF pc' = "queryLeaves" THEN 0 ELSE Created(note)
      /\ leavesBefore' = IF pc' = "queryLeaves" THEN Len(leaves) ELSE leavesBefore
      /\ UNCHANGED <<notes, leaves, total, collected, disturbed>>
    BY TakeNoteFacts
<1>2. /\ Len(picked') = Len(picked) + 1 /\ picked' \in Seq(DOMAIN notes)
      /\ DOMAIN picked' = 1 .. Len(picked) + 1
      /\ \A k \in 1 .. Len(picked) : picked'[k] = picked[k]
      /\ picked'[Len(picked) + 1] = note
    BY TakeNoteFacts
<1> HIDE DEF note
<1>3. Created(note) \in Nat \ {0} /\ notes[note].value \in Nat
    BY <1>1, TypeFacts, AssemblyQueriesAssumption DEF Note
<1>4. TypeOK'
    <2>1. pc' \in Running \cup Reverts \cup {"assembled"}
        BY <1>1 DEF Running, Selecting, Reverts
    <2>2. lastCreated' \in Nat /\ sum' \in Nat /\ leavesBefore' \in Nat
        <3>1. sum \in Nat /\ leavesBefore \in Nat /\ Len(leaves) \in Nat
            BY TypeFacts DEF TypeOK
        <3>2. sum' = sum + notes[note].value
            BY <1>1
        <3> QED
            BY <1>1, <1>3, <3>1, <3>2
    <2> QED
        BY <1>0, <1>1, <1>2, <2>1, <2>2 DEF TypeOK
<1>5. StoreInv'
    BY <1>1 DEF StoreInv, Confirmed
<1>6. PickedInv'
    <2>0. 1 \in DOMAIN page
        BY <1>0, TypeFacts
    <2>1. \A m \in DOMAIN picked : note # picked[m]
        BY <1>1, <2>0 DEF PageInv, note
    <2>2. Confirmed(note) /\ Created(note) >= lastCreated
        BY <1>1, <2>0 DEF PageInv, note
    <2>3. NoNoteTwice'
        <3> SUFFICES ASSUME NEW j \in DOMAIN picked', NEW k \in DOMAIN picked', j # k
                     PROVE  picked'[j] # picked'[k]
            BY DEF NoNoteTwice
        <3>1. DOMAIN picked = 1 .. Len(picked) /\ Len(picked) \in Nat
            BY TypeFacts
        <3>2. \A l \in DOMAIN picked' : l \in DOMAIN picked \/ l = Len(picked) + 1
            BY <1>2, <3>1
        <3>3. \A l \in DOMAIN picked : picked'[l] = picked[l]
            BY <1>2, <3>1
        <3> QED
            BY <1>2, <2>1, <3>2, <3>3 DEF PickedInv, NoNoteTwice
    <2>4. \A m \in DOMAIN picked : Confirmed(picked[m]) /\ Created(picked[m]) <= Created(note)
        BY <1>1, <1>3, <2>2, TypeFacts DEF PickedInv, Selecting
    <2>5. ASSUME NEW k \in DOMAIN picked'
          PROVE  Confirmed(picked'[k]) /\ Created(picked'[k]) <= Created(note)
        <3>1. CASE k \in 1 .. Len(picked)
            BY <1>2, <2>4, <3>1, TypeFacts
        <3>2. CASE k = Len(picked) + 1
            BY <1>2, <1>3, <2>2, <3>2
        <3> QED
            BY <1>2, <3>1, <3>2, TypeFacts
    <2> QED
        BY <1>1, <2>3, <2>5 DEF PickedInv, Confirmed, Created, Selecting
<1>7. PageInv'
    <2> SUFFICES ASSUME pc' = "takeNotes"
                 PROVE  /\ \A k \in DOMAIN page' :
                             /\ Confirmed(page'[k]) /\ Created(page'[k]) >= Created(note)
                             /\ \A m \in DOMAIN picked' : page'[k] # picked'[m]
                        /\ \A j, k \in DOMAIN page' :
                             j < k => page'[j] # page'[k] /\ Created(page'[j]) <= Created(page'[k])
        BY <1>1 DEF PageInv, Confirmed, Created
    <2>1. DOMAIN page' = 1 .. Len(page) - 1
        BY <1>0, <1>1, LenProperties
    <2>2. \A j, k \in DOMAIN page :
             j < k => page[j] # page[k] /\ Created(page[j]) <= Created(page[k])
        BY <1>1 DEF PageInv
    <2>3. ASSUME NEW k \in DOMAIN page'
          PROVE  /\ k + 1 \in DOMAIN page /\ 1 \in DOMAIN page /\ 1 < k + 1 /\ k \in Nat
                 /\ page'[k] = page[k + 1]
        <3>1. DOMAIN page = 1 .. Len(page)
            BY TypeFacts
        <3>2. k \in 1 .. Len(page) - 1
            BY <2>1
        <3>3. page'[k] = page[k + 1]
            BY <1>0, <1>1, <3>2
        <3> QED
            BY <1>0, <3>1, <3>2, <3>3
    <2>4. ASSUME NEW k \in DOMAIN page'
          PROVE  /\ Confirmed(page'[k]) /\ Created(page'[k]) >= Created(note)
                 /\ \A m \in DOMAIN picked' : page'[k] # picked'[m]
        <3>1. Confirmed(page'[k]) /\ \A m \in DOMAIN picked : page'[k] # picked[m]
            BY <1>1, <2>3 DEF PageInv
        <3>2. page'[k] # note /\ Created(note) <= Created(page'[k])
            BY <2>2, <2>3 DEF note
        <3>3. Created(page'[k]) \in Nat
            BY <2>3, TypeFacts
        <3>4. \A m \in DOMAIN picked' : page'[k] # picked'[m]
            <4> SUFFICES ASSUME NEW m \in DOMAIN picked'
                         PROVE  page'[k] # picked'[m]
                OBVIOUS
            <4>1. CASE m \in 1 .. Len(picked)
                BY <1>2, <3>1, <4>1, TypeFacts
            <4>2. CASE m = Len(picked) + 1
                BY <1>2, <3>2, <4>2
            <4> QED
                BY <1>2, <4>1, <4>2, TypeFacts
        <3> QED
            BY <1>3, <3>1, <3>2, <3>3, <3>4
    <2>5. ASSUME NEW j \in DOMAIN page', NEW k \in DOMAIN page', j < k
          PROVE  page'[j] # page'[k] /\ Created(page'[j]) <= Created(page'[k])
        <3>1. j + 1 < k + 1 /\ j + 1 \in DOMAIN page /\ k + 1 \in DOMAIN page
            BY <2>3, <2>5
        <3> QED
            BY <2>2, <2>3, <3>1
    <2> QED
        BY <2>4, <2>5
<1>8. SkipInv'
    <2> SUFFICES ASSUME ~disturbed, NEW i \in DOMAIN notes, IsAvailable(i)
                 PROVE  /\ pc' = "queryNotes" => Met(i)' \/ Created(i) > Created(note)
                        /\ pc' = "takeNotes" =>
                             \/ Met(i)'
                             \/ \E k \in DOMAIN page' : page'[k] = i
                             \/ Created(i) >= Created(page'[Len(page')])
        BY <1>1 DEF SkipInv, IsAvailable, Created
    <2>0. Created(i) \in Nat
        BY TypeFacts
    <2>1. Met(i) => Met(i)'
        BY <1>1, <1>2, TypeFacts DEF Met, Created
    <2>2. Created(i) = Created(note) => Met(i)'
        <3>1. Len(picked) + 1 \in DOMAIN picked'
            BY <1>2, TypeFacts
        <3> QED
            BY <1>1, <1>2, <3>1 DEF Met, Created
    <2>3. \/ Met(i)
          \/ \E k \in DOMAIN page : page[k] = i
          \/ Created(i) >= Created(page[Len(page)])
        BY <1>1 DEF SkipInv
    <2>4. CASE \E k \in DOMAIN page : page[k] = i
        <3>1. PICK k \in 1 .. Len(page) : page[k] = i
            BY <2>4, TypeFacts
        <3>2. CASE k = 1
            BY <2>2, <3>1, <3>2 DEF note
        <3>3. CASE k > 1
            <4>1. k - 1 \in 1 .. Len(page) - 1 /\ (k - 1) + 1 = k
                BY <1>0, <3>3
            <4>2. page'[k - 1] = i /\ k - 1 \in DOMAIN page'
                BY <1>0, <1>1, <3>1, <4>1, LenProperties
            <4>3. pc' # "queryNotes"
                BY <1>0, <1>1, <3>3
            <4> QED
                BY <4>2, <4>3
        <3> QED
            BY <1>0, <3>2, <3>3
    <2>5. CASE Created(i) >= Created(page[Len(page)])
        <3>1. CASE pc' = "queryNotes"
            <4>1. Len(page) = 1
                BY <1>0, <1>1, <3>1
            <4> QED
                BY <1>3, <2>0, <2>2, <2>5, <3>1, <4>1 DEF note
        <3>2. CASE pc' = "takeNotes"
            <4>1. /\ Len(page') = Len(page) - 1 /\ Len(page) - 1 \in 1 .. Len(page) - 1
                  /\ (Len(page) - 1) + 1 = Len(page)
                BY <1>0, <1>1, <3>2
            <4>2. page'[Len(page')] = page[Len(page)]
                BY <1>0, <1>1, <4>1
            <4> QED
                BY <2>5, <3>2, <4>2
        <3> QED
            BY <3>1, <3>2
    <2> QED
        BY <2>1, <2>3, <2>4, <2>5
<1>9. LeafInv'
    <2>1. collected = {}
        BY <1>1 DEF LeafInv, Selecting
    <2>2. leavesBefore' <= Len(leaves')
        BY <1>1, TypeFacts DEF LeafInv
    <2>3. pc' = "queryLeaves" => {k \in DOMAIN leaves : leaves[k] <= lastCreated'} = {}
        BY <1>1, TypeFacts
    <2> QED
        BY <1>1, <2>1, <2>2, <2>3 DEF LeafInv, Ties, Selecting
<1> QED
    BY <1>4, <1>5, <1>6, <1>7, <1>8, <1>9

-----------------------------------------------------------------------------
(* The query for leaves *)

LEMMA QueryLeavesKeepsInvariant == ASSUME IndInv, QueryLeaves PROVE IndInv'
<1> USE DEF IndInv
<1>0. PICK found \in SUBSET DOMAIN leaves :
         /\ IsLeafPage(found)
         /\ collected' = collected \cup found
         /\ IF found = {}
            THEN UNCHANGED lastCreated
            ELSE \E k \in found : lastCreated' = leaves[k] /\ \A j \in found : leaves[j] <= leaves[k]
         /\ pc' = AfterLeafPage(found)
    BY DEF QueryLeaves, Collect
<1>1. /\ pc = "queryLeaves" /\ pc' \in {"assembled", "queryLeaves"}
      /\ UNCHANGED <<notes, leaves, total, page, picked, sum, leavesBefore, disturbed>>
    BY <1>0 DEF QueryLeaves, AfterLeafPage, storeVars, noteVars
<1>2. lastCreated' \in Nat
    BY <1>0, TypeFacts
<1>3. TypeOK'
    <2>1. pc' \in Running \cup Reverts \cup {"assembled"} /\ pc' # "takeNotes"
        BY <1>1 DEF Running
    <2> QED
        BY <1>0, <1>1, <1>2, <2>1 DEF TypeOK
<1>4. StoreInv' /\ PickedInv' /\ PageInv' /\ SkipInv'
    BY <1>1 DEF StoreInv, PickedInv, PageInv, SkipInv, NoNoteTwice, Confirmed, Selecting
<1>5. LeafInv'
    <2>1. leavesBefore' <= Len(leaves') /\ pc' \notin Selecting
        BY <1>1 DEF LeafInv, Selecting
    <2>2. ASSUME ~Ties(leaves)
          PROVE  /\ pc' = "queryLeaves" =>
                      /\ collected' = {k \in DOMAIN leaves : leaves[k] <= lastCreated'}
                      /\ lastCreated' = 0 \/ \E k \in DOMAIN leaves : lastCreated' = leaves[k]
                 /\ pc' = "assembled" => collected' = DOMAIN leaves
        <3>0. \A j, k \in DOMAIN leaves : j # k => leaves[j] # leaves[k]
            BY <2>2 DEF Ties
        <3>1. /\ collected = {k \in DOMAIN leaves : leaves[k] <= lastCreated}
              /\ lastCreated = 0 \/ \E k \in DOMAIN leaves : lastCreated = leaves[k]
            BY <1>1, <2>2 DEF LeafInv
        <3>2. \A k \in DOMAIN leaves : leaves[k] \in Nat
            BY TypeFacts
        <3>3. lastCreated \in Nat
            BY TypeFacts
        <3>4. /\ \A k \in found : leaves[k] > lastCreated
              /\ \A k \in DOMAIN leaves \ found : leaves[k] > lastCreated =>
                    Cardinality(found) = LeafLimit /\ \A j \in found : leaves[j] <= leaves[k]
            BY <1>0 DEF IsLeafPage
        <3>5. LeafLimit \in Nat \ {0}
            BY AssemblyQueriesAssumption
        <3>6. pc' = IF Cardinality(found) < LeafLimit THEN "assembled" ELSE "queryLeaves"
            BY <1>0 DEF AfterLeafPage
        <3>7. CASE pc' = "assembled"
            <4>1. Cardinality(found) < LeafLimit
                BY <3>6, <3>7
            <4>2. Cardinality(found) # LeafLimit
                BY <3>5, <4>1
            <4>3. \A k \in DOMAIN leaves \ found : leaves[k] <= lastCreated
                BY <3>2, <3>3, <3>4, <4>2
            <4>4. DOMAIN leaves \subseteq collected \cup found
                BY <3>1, <4>3
            <4> QED
                BY <1>0, <3>1, <3>7, <4>4
        <3>8. CASE pc' = "queryLeaves"
            <4>1. found # {}
                <5>1. Cardinality({}) = 0
                    BY FS_EmptySet
                <5> QED
                    BY <3>5, <3>6, <3>8, <5>1
            <4>2. PICK l \in found : lastCreated' = leaves[l] /\ \A j \in found : leaves[j] <= leaves[l]
                BY <1>0, <4>1
            <4>3. ASSUME NEW k \in DOMAIN leaves
                  PROVE  k \in collected \cup found <=> leaves[k] <= leaves[l]
                <5>1. CASE k \in found
                    BY <4>2, <5>1
                <5>2. CASE k \notin found /\ leaves[k] <= lastCreated
                    <6>1. leaves[l] > lastCreated /\ l \in DOMAIN leaves
                        BY <3>4
                    <6>2. leaves[k] <= leaves[l]
                        BY <3>2, <3>3, <5>2, <6>1
                    <6> QED
                        BY <3>1, <5>2, <6>2
                <5>3. CASE k \notin found /\ ~(leaves[k] <= lastCreated)
                    <6>1. leaves[k] > lastCreated
                        BY <3>2, <3>3, <5>3
                    <6>2. leaves[l] <= leaves[k]
                        BY <3>4, <5>3, <6>1
                    <6>3. leaves[l] # leaves[k]
                        BY <3>0, <5>3
                    <6>4. ~(leaves[k] <= leaves[l])
                        BY <3>2, <6>2, <6>3
                    <6> QED
                        BY <3>1, <5>3, <6>4
                <5> QED
                    BY <5>1, <5>2, <5>3
            <4>4. collected' = {k \in DOMAIN leaves : leaves[k] <= leaves[l]}
                BY <1>0, <3>1, <4>3
            <4> QED
                BY <3>8, <4>2, <4>4
        <3> QED
            BY <1>1, <3>7, <3>8
    <2>3. Ties(leaves)' <=> Ties(leaves)
        BY <1>1 DEF Ties
    <2> QED
        BY <1>1, <2>1, <2>2, <2>3 DEF LeafInv
<1> QED
    BY <1>3, <1>4, <1>5

-----------------------------------------------------------------------------
(* The store *)

(* Notes may be added and change their status; what was confirmed stays so *)
(* and every note keeps its time and value.                                *)
LEMMA StoreGrows ==
    ASSUME IndInv, StoreStep
    PROVE  /\ Len(notes') >= Len(notes) /\ notes' \in Seq(Note)
           /\ \A i \in DOMAIN notes : /\ notes'[i].created = notes[i].created /\ notes'[i].value = notes[i].value
                                      /\ Confirmed(i) => notes'[i].status # "unconfirmed"
           /\ \A i \in DOMAIN notes' : notes'[i].status # "unconfirmed" =>
                 notes'[i].leaf \in 0 .. Len(leaves') - 1
           /\ leaves' \in Seq(Nat \ {0})
           /\ Len(leaves') >= Len(leaves) /\ \A k \in DOMAIN leaves : leaves'[k] = leaves[k]
           /\ \/ leaves' = leaves
              \/ /\ Len(leaves') = Len(leaves) + 1
                 /\ \A k \in DOMAIN leaves : leaves[k] <= leaves'[Len(leaves) + 1]
<1> USE DEF IndInv
<1>0. /\ notes \in Seq(Note) /\ leaves \in Seq(Nat \ {0})
      /\ Len(notes) \in Nat /\ DOMAIN notes = 1 .. Len(notes)
      /\ Len(leaves) \in Nat /\ DOMAIN leaves = 1 .. Len(leaves)
    BY TypeFacts DEF TypeOK, Note
<1>1. \A i \in DOMAIN notes : notes[i] \in Note /\ notes[i].created \in Nat \ {0}
    BY TypeFacts DEF Created
<1>2. \A i \in DOMAIN notes : Confirmed(i) => notes[i].leaf \in 0 .. Len(leaves) - 1
    BY DEF StoreInv
<1>3. CASE CreateNote
    <2>1. PICK v \in Values, t \in Tokens, tick \in {0, 1} :
             notes' = Append(notes, [value |-> v, token |-> t, status |-> "unconfirmed",
                                     created |-> Clock(NoteTimes) + tick, leaf |-> -1])
        BY <1>3 DEF CreateNote
    <2>2. Clock(NoteTimes) \in Nat \ {0}
        <3>1. NoteTimes \in Seq(Nat \ {0}) /\ Len(NoteTimes) = Len(notes)
            BY <1>0, <1>1 DEF NoteTimes
        <3>2. NoteTimes # <<>> => Len(NoteTimes) \in Nat \ {0}
            BY <3>1, EmptySeq
        <3> QED
            BY <3>1, <3>2, ElementOfSeq DEF Clock
    <2> DEFINE new == [value |-> v, token |-> t, status |-> "unconfirmed",
                       created |-> Clock(NoteTimes) + tick, leaf |-> -1]
    <2>3. new \in Note /\ new.status = "unconfirmed"
        BY <2>2 DEF Note
    <2> HIDE DEF new
    <2>4. /\ notes' \in Seq(Note) /\ Len(notes') = Len(notes) + 1
          /\ DOMAIN notes' = 1 .. Len(notes) + 1
          /\ \A i \in 1 .. Len(notes) : notes'[i] = notes[i]
          /\ notes'[Len(notes) + 1] = new
        BY <1>0, <2>1, <2>3 DEF new
    <2>5. leaves' = leaves
        BY <1>3 DEF CreateNote
    <2>6. \A i \in DOMAIN notes' : notes'[i].status # "unconfirmed" =>
             notes'[i].leaf \in 0 .. Len(leaves') - 1
        BY <1>0, <1>2, <2>3, <2>4, <2>5 DEF Confirmed
    <2> QED
        <3>1. \A i \in DOMAIN notes : /\ notes'[i].created = notes[i].created /\ notes'[i].value = notes[i].value
                                      /\ Confirmed(i) => notes'[i].status # "unconfirmed"
            BY <1>0, <2>4 DEF Confirmed
        <3>2. Len(notes') >= Len(notes)
            BY <1>0, <2>4
        <3>3. Len(leaves') >= Len(leaves)
            BY <1>0, <2>5
        <3> QED
            BY <1>0, <2>4, <2>5, <2>6, <3>1, <3>2, <3>3
<1>4. CASE IndexLeaf
    <2>1. PICK tick \in {0, 1} : leaves' = Append(leaves, Clock(leaves) + tick)
        BY <1>4 DEF IndexLeaf
    <2>2. /\ Clock(leaves) \in Nat \ {0}
          /\ \A k \in DOMAIN leaves : leaves[k] <= Clock(leaves)
        <3>1. CASE leaves = <<>>
            BY <3>1 DEF Clock
        <3>2. CASE leaves # <<>>
            <4>1. Len(leaves) \in DOMAIN leaves /\ Len(leaves) \in Nat \ {0}
                BY <1>0, <3>2, EmptySeq
            <4>2. Clock(leaves) = leaves[Len(leaves)]
                BY <3>2 DEF Clock
            <4>3. \A k \in DOMAIN leaves : leaves[k] \in Nat \ {0}
                BY TypeFacts
            <4>4. \A k \in DOMAIN leaves : k < Len(leaves) => leaves[k] <= leaves[Len(leaves)]
                BY <4>1 DEF StoreInv
            <4> QED
                BY <1>0, <4>1, <4>2, <4>3, <4>4
        <3> QED
            BY <3>1, <3>2
    <2> DEFINE new == Clock(leaves) + tick
    <2>3. new \in Nat \ {0} /\ \A k \in DOMAIN leaves : leaves[k] <= new
        <3>1. \A k \in DOMAIN leaves : leaves[k] \in Nat
            BY TypeFacts
        <3> QED
            BY <2>2, <3>1
    <2> HIDE DEF new
    <2>4. /\ leaves' \in Seq(Nat \ {0}) /\ Len(leaves') = Len(leaves) + 1
          /\ \A k \in 1 .. Len(leaves) : leaves'[k] = leaves[k]
          /\ leaves'[Len(leaves) + 1] = new
        BY <1>0, <2>1, <2>3 DEF new
    <2>5. Len(leaves) \in 0 .. Len(leaves') - 1
        BY <1>0, <2>4
    <2>6. CASE notes' = notes
        BY <1>0, <1>2, <2>3, <2>4, <2>6 DEF Confirmed
    <2>7. ASSUME NEW i \in DOMAIN notes,
                 notes' = [notes EXCEPT ![i].status = "available", ![i].leaf = Len(leaves)]
          PROVE  /\ notes' \in Seq(Note) /\ Len(notes') = Len(notes) /\ DOMAIN notes' = DOMAIN notes
                 /\ \A l \in DOMAIN notes : /\ notes'[l].created = notes[l].created /\ notes'[l].value = notes[l].value
                                            /\ l # i => notes'[l] = notes[l]
                 /\ notes'[i].status = "available" /\ notes'[i].leaf = Len(leaves)
        <3> DEFINE confirmed == [notes[i] EXCEPT !.status = "available", !.leaf = Len(leaves)]
        <3>1. /\ confirmed \in Note /\ confirmed.created = notes[i].created /\ confirmed.value = notes[i].value
              /\ confirmed.status = "available" /\ confirmed.leaf = Len(leaves)
            BY <1>0, <1>1 DEF Note
        <3>2. notes' = [notes EXCEPT ![i] = confirmed]
            BY <2>7
        <3> HIDE DEF confirmed
        <3>3. /\ notes' \in Seq(Note) /\ Len(notes') = Len(notes)
              /\ \A l \in DOMAIN notes : notes'[l] = IF l = i THEN confirmed ELSE notes[l]
            BY <1>0, <3>1, <3>2, ExceptSeq
        <3>4. DOMAIN notes' = DOMAIN notes
            BY <3>2
        <3> QED
            BY <3>1, <3>3, <3>4
    <2>8. CASE \E i \in DOMAIN notes :
                  notes' = [notes EXCEPT ![i].status = "available", ![i].leaf = Len(leaves)]
        <3>1. PICK i \in DOMAIN notes :
                  notes' = [notes EXCEPT ![i].status = "available", ![i].leaf = Len(leaves)]
            BY <2>8
        <3>2. /\ notes' \in Seq(Note) /\ Len(notes') = Len(notes) /\ DOMAIN notes' = DOMAIN notes
              /\ \A l \in DOMAIN notes : /\ notes'[l].created = notes[l].created /\ notes'[l].value = notes[l].value
                                         /\ l # i => notes'[l] = notes[l]
              /\ notes'[i].status = "available" /\ notes'[i].leaf = Len(leaves)
            BY <2>7, <3>1
        <3>3. \A l \in DOMAIN notes : Confirmed(l) => notes'[l].status # "unconfirmed"
            BY <3>2 DEF Confirmed
        <3>4. \A l \in DOMAIN notes : notes'[l].status # "unconfirmed" =>
                 notes'[l].leaf \in 0 .. Len(leaves') - 1
            <4>1. \A l \in DOMAIN notes : l # i => notes'[l] = notes[l]
                BY <3>2
            <4>2. \A l \in DOMAIN notes : l # i /\ notes'[l].status # "unconfirmed" =>
                     notes'[l].leaf \in 0 .. Len(leaves') - 1
                BY <1>0, <1>2, <2>4, <4>1 DEF Confirmed
            <4>3. notes'[i].leaf \in 0 .. Len(leaves') - 1
                BY <2>5, <3>2
            <4> QED
                BY <4>2, <4>3
        <3> QED
            BY <1>0, <2>3, <2>4, <3>2, <3>3, <3>4
    <2> QED
        BY <1>4, <2>6, <2>8 DEF IndexLeaf
<1>5. CASE Spend
    <2>1. PICK i \in DOMAIN notes : IsAvailable(i) /\ notes' = [notes EXCEPT ![i].status = "spent"]
        BY <1>5 DEF Spend
    <2>2. leaves' = leaves
        BY <1>5 DEF Spend
    <2> DEFINE new == [notes[i] EXCEPT !.status = "spent"]
    <2>3. /\ new \in Note /\ new.created = notes[i].created /\ new.value = notes[i].value /\ new.status = "spent"
          /\ new.leaf = notes[i].leaf
        BY <1>1 DEF Note
    <2>4. notes' = [notes EXCEPT ![i] = new]
        BY <2>1
    <2> HIDE DEF new
    <2>5. /\ notes' \in Seq(Note) /\ Len(notes') = Len(notes)
          /\ \A l \in DOMAIN notes : notes'[l] = IF l = i THEN new ELSE notes[l]
        BY <1>0, <2>3, <2>4, ExceptSeq
    <2>6. DOMAIN notes' = DOMAIN notes
        BY <2>4
    <2>7. Confirmed(i)
        BY <2>1 DEF IsAvailable, Confirmed
    <2> QED
        <3>1. \A l \in DOMAIN notes : /\ notes'[l].created = notes[l].created /\ notes'[l].value = notes[l].value
                                      /\ Confirmed(l) => notes'[l].status # "unconfirmed"
            BY <1>0, <2>3, <2>5 DEF Confirmed
        <3>2. ASSUME NEW l \in DOMAIN notes', notes'[l].status # "unconfirmed"
              PROVE  notes'[l].leaf \in 0 .. Len(leaves') - 1
            <4>1. l \in DOMAIN notes /\ notes'[l] = IF l = i THEN new ELSE notes[l]
                BY <1>0, <2>5, <2>6
            <4>2. Confirmed(l)
                BY <2>7, <3>2, <4>1 DEF Confirmed
            <4>3. notes'[l].leaf = notes[l].leaf
                BY <2>3, <4>1
            <4> QED
                BY <1>2, <2>2, <4>1, <4>2, <4>3
        <3>3. Len(leaves') >= Len(leaves) /\ Len(notes') >= Len(notes)
            BY <1>0, <2>2, <2>5
        <3> QED
            BY <1>0, <2>2, <2>5, <3>1, <3>2, <3>3
<1> QED
    BY <1>3, <1>4, <1>5 DEF StoreStep

LEMMA StoreStepKeepsInvariant == ASSUME IndInv, StoreStep PROVE IndInv'
<1> USE DEF IndInv
<1>1. /\ disturbed' = TRUE /\ pc \in Running
      /\ UNCHANGED <<total, pc, lastCreated, page, picked, sum, collected, leavesBefore>>
    BY DEF StoreStep, noteVars, leafVars
<1>2. /\ Len(notes) \in Nat /\ DOMAIN notes = 1 .. Len(notes)
      /\ Len(leaves) \in Nat /\ DOMAIN leaves = 1 .. Len(leaves)
    BY TypeFacts
<1>3. /\ notes' \in Seq(Note) /\ leaves' \in Seq(Nat \ {0})
      /\ DOMAIN notes \subseteq DOMAIN notes' /\ DOMAIN leaves \subseteq DOMAIN leaves'
      /\ DOMAIN leaves' = 1 .. Len(leaves') /\ Len(leaves') \in Nat /\ Len(leaves) <= Len(leaves')
    <2>1. /\ notes' \in Seq(Note) /\ leaves' \in Seq(Nat \ {0})
          /\ Len(notes') >= Len(notes) /\ Len(leaves') >= Len(leaves)
        BY StoreGrows
    <2>2. /\ Len(notes') \in Nat /\ DOMAIN notes' = 1 .. Len(notes')
          /\ Len(leaves') \in Nat /\ DOMAIN leaves' = 1 .. Len(leaves')
        BY <2>1, LenProperties
    <2> QED
        BY <1>2, <2>1, <2>2
<1>4. \A i \in DOMAIN notes : Created(i)' = Created(i) /\ (Confirmed(i) => Confirmed(i)')
    BY StoreGrows DEF Created, Confirmed
<1>5. /\ \A k \in DOMAIN page : page[k] \in DOMAIN notes
      /\ \A k \in DOMAIN picked : picked[k] \in DOMAIN notes
    BY TypeFacts
<1>6. TypeOK'
    <2>1. page \in Seq(DOMAIN notes') /\ picked \in Seq(DOMAIN notes')
        BY <1>3, SeqMonotonic DEF TypeOK
    <2> QED
        BY <1>1, <1>3, <2>1 DEF TypeOK, Note
<1>7. \A k \in DOMAIN leaves : leaves'[k] = leaves[k]
    BY StoreGrows
<1>8. StoreInv'
    <2>1. ASSUME NEW i \in DOMAIN leaves', NEW j \in DOMAIN leaves', i < j
          PROVE  leaves'[i] <= leaves'[j]
        <3>1. CASE j \in DOMAIN leaves
            <4>1. i \in DOMAIN leaves
                BY <1>2, <1>3, <2>1, <3>1
            <4> QED
                BY <1>7, <2>1, <3>1, <4>1 DEF StoreInv
        <3>2. CASE j \notin DOMAIN leaves
            <4>1. /\ Len(leaves') = Len(leaves) + 1
                  /\ \A k \in DOMAIN leaves : leaves[k] <= leaves'[Len(leaves) + 1]
                BY <3>2, StoreGrows
            <4>2. j = Len(leaves) + 1 /\ i \in DOMAIN leaves
                BY <1>2, <1>3, <2>1, <3>2, <4>1
            <4> QED
                BY <1>7, <4>1, <4>2
        <3> QED
            BY <3>1, <3>2
    <2>2. \A i \in DOMAIN notes' : notes'[i].status # "unconfirmed" =>
             notes'[i].leaf \in 0 .. Len(leaves') - 1
        BY StoreGrows
    <2> QED
        BY <2>1, <2>2 DEF StoreInv, Confirmed
<1>9. PickedInv'
    <2>1. NoNoteTwice'
        BY <1>1 DEF PickedInv, NoNoteTwice
    <2>2. \A k \in DOMAIN picked :
             Confirmed(picked[k])' /\ (pc \in Selecting => Created(picked[k])' <= lastCreated)
        BY <1>1, <1>4, <1>5 DEF PickedInv
    <2> QED
        BY <1>1, <2>1, <2>2 DEF PickedInv, Confirmed, Created
<1>10. PageInv'
    <2> SUFFICES ASSUME pc = "takeNotes"
                 PROVE  /\ \A k \in DOMAIN page :
                             /\ Confirmed(page[k])' /\ Created(page[k])' >= lastCreated
                             /\ \A m \in DOMAIN picked : page[k] # picked[m]
                        /\ \A j, k \in DOMAIN page :
                             j < k => page[j] # page[k] /\ Created(page[j])' <= Created(page[k])'
        BY <1>1 DEF PageInv, Confirmed, Created
    <2>1. \A k \in DOMAIN page : Confirmed(page[k])' /\ Created(page[k])' = Created(page[k])
        BY <1>1, <1>4, <1>5 DEF PageInv, Confirmed, Created
    <2> QED
        BY <1>1, <2>1 DEF PageInv
<1>11. SkipInv'
    BY <1>1 DEF SkipInv
<1>12. LeafInv'
    <2>1. leavesBefore' <= Len(leaves')
        BY <1>1, <1>2, <1>3 DEF LeafInv, TypeOK
    <2>2. pc' \in Selecting => collected' = {}
        BY <1>1 DEF LeafInv
    <2>3. pc' # "assembled"
        BY <1>1 DEF Running, Selecting
    <2>4. ASSUME ~Ties(leaves'), pc' = "queryLeaves"
          PROVE  /\ collected = {k \in DOMAIN leaves' : leaves'[k] <= lastCreated}
                 /\ lastCreated = 0 \/ \E k \in DOMAIN leaves' : lastCreated = leaves'[k]
        <3>1. \A j, k \in DOMAIN leaves' : j # k => leaves'[j] # leaves'[k]
            BY <2>4 DEF Ties
        <3>2. ~Ties(leaves)
            BY <1>3, <1>7, <3>1 DEF Ties
        <3>3. /\ collected = {k \in DOMAIN leaves : leaves[k] <= lastCreated}
              /\ lastCreated = 0 \/ \E k \in DOMAIN leaves : lastCreated = leaves[k]
            BY <1>1, <2>4, <3>2 DEF LeafInv
        <3>4. ASSUME NEW k \in DOMAIN leaves', k \notin DOMAIN leaves
              PROVE  ~(leaves'[k] <= lastCreated)
            <4>0. leaves'[k] \in Nat \ {0}
                BY <1>3, ElementOfSeq
            <4>1. /\ Len(leaves') = Len(leaves) + 1
                  /\ \A l \in DOMAIN leaves : leaves[l] <= leaves'[Len(leaves) + 1]
                BY <3>4, StoreGrows
            <4>2. k = Len(leaves) + 1
                BY <1>2, <1>3, <3>4, <4>1
            <4>3. ASSUME NEW l \in DOMAIN leaves
                  PROVE  ~(leaves'[k] <= leaves[l])
                <5>1. leaves[l] # leaves'[k]
                    BY <1>3, <1>7, <3>1, <3>4
                <5>2. leaves[l] \in Nat
                    BY TypeFacts
                <5> QED
                    BY <4>0, <4>1, <4>2, <5>1, <5>2
            <4> QED
                BY <3>3, <4>0, <4>3
        <3>5. collected = {k \in DOMAIN leaves' : leaves'[k] <= lastCreated}
            BY <1>3, <1>7, <3>3, <3>4
        <3> QED
            BY <1>3, <1>7, <3>3, <3>5
    <2>5. Ties(leaves)' <=> Ties(leaves')
        BY DEF Ties
    <2> QED
        BY <1>1, <2>1, <2>2, <2>3, <2>4, <2>5 DEF LeafInv
<1> QED
    BY <1>6, <1>8, <1>9, <1>10, <1>11, <1>12

-----------------------------------------------------------------------------
(* The invariant always holds *)

LEMMA InitEstablishesInvariant == Init => IndInv
<1> SUFFICES ASSUME Init PROVE IndInv
    OBVIOUS
<1>1. PICK store \in Stores : notes = store.notes /\ leaves = store.leaves
    BY DEF Init
<1>2. PICK n \in 0 .. MaxNotes, m \in 0 .. MaxLeaves : store \in StoresOf(n, m)
    BY DEF Stores
<1>3. PICK values \in [1 .. n -> Values], tokens \in [1 .. n -> Tokens],
           times \in TimesOf(n), at \in Places(n, m), leafTimes \in TimesOf(m) :
         store = Store(values, tokens, times, at, leafTimes)
    BY <1>2 DEF StoresOf
<1>4. /\ notes = [i \in 1 .. n |-> [value |-> values[i], token |-> tokens[i], status |-> "available",
                                    created |-> times[i], leaf |-> at[i]]]
      /\ leaves = leafTimes
    <2>1. DOMAIN values = 1 .. n
        BY <1>3
    <2> QED
        BY <1>1, <1>3, <2>1 DEF Store
<1>5. /\ n \in Nat /\ m \in Nat
      /\ times \in [1 .. n -> 1 .. n] /\ at \in [1 .. n -> 0 .. m - 1]
      /\ leafTimes \in [1 .. m -> 1 .. m]
      /\ \A i, j \in 1 .. m : i <= j => leafTimes[j] - leafTimes[i] \in 0 .. j - i
    <2>1. n \in Nat /\ m \in Nat
        BY AssemblyQueriesAssumption
    <2> QED
        BY <2>1, Zenon DEF TimesOf, Places
<1>6. /\ notes \in Seq(Note) /\ DOMAIN notes = 1 .. n
      /\ \A i \in DOMAIN notes : Created(i) \in Nat \ {0} /\ notes[i].leaf \in 0 .. m - 1
    <2>1. \A i \in 1 .. n : times[i] \in Nat \ {0} /\ at[i] \in 0 .. m - 1 /\ 0 .. m - 1 \subseteq Nat
        BY <1>5
    <2>2. \A i \in 1 .. n : /\ notes[i] \in Note /\ notes[i].created \in Nat \ {0}
                            /\ notes[i].leaf \in 0 .. m - 1
        BY <1>4, <2>1 DEF Note
    <2>3. notes \in [1 .. n -> Note]
        BY <1>4, <2>2
    <2> QED
        BY <1>5, <2>2, <2>3, SeqDef DEF Created
<1>7. leaves \in Seq(Nat \ {0}) /\ DOMAIN leaves = 1 .. m /\ Len(leaves) = m
    <2>1. leaves \in [1 .. m -> Nat \ {0}]
        BY <1>4, <1>5
    <2> QED
        BY <1>5, <2>1, SeqDef
<1>8. /\ total \in Amounts /\ pc = "queryNotes" /\ lastCreated = 0 /\ page = <<>> /\ picked = <<>>
      /\ sum = 0 /\ collected = {} /\ leavesBefore = 0 /\ disturbed = FALSE
    BY DEF Init
<1>9. TypeOK
    BY <1>6, <1>7, <1>8, EmptySeq DEF TypeOK, Note, Running, Selecting
<1>10. StoreInv
    <2>1. \A i, j \in 1 .. m : i < j => leafTimes[i] <= leafTimes[j]
        BY <1>5
    <2> QED
        BY <1>4, <1>6, <1>7, <2>1 DEF StoreInv
<1>11. PickedInv /\ PageInv
    BY <1>8 DEF PickedInv, PageInv, NoNoteTwice
<1>12. SkipInv
    BY <1>6, <1>8 DEF SkipInv
<1>13. LeafInv
    BY <1>7, <1>8 DEF LeafInv
<1> QED
    BY <1>9, <1>10, <1>11, <1>12, <1>13 DEF IndInv

LEMMA NextKeepsInvariant == IndInv /\ [Next]_vars => IndInv'
<1> SUFFICES ASSUME IndInv, [Next]_vars PROVE IndInv'
    OBVIOUS
<1>1. CASE QueryNotes
    BY <1>1, QueryNotesKeepsInvariant
<1>2. CASE TakeNote
    BY <1>2, TakeNoteKeepsInvariant
<1>3. CASE QueryLeaves
    BY <1>3, QueryLeavesKeepsInvariant
<1>4. CASE StoreStep
    BY <1>4, StoreStepKeepsInvariant
<1>5. CASE UNCHANGED vars
    <2>1. UNCHANGED <<notes, leaves, total, pc, lastCreated, page, picked, sum, collected, leavesBefore, disturbed>>
        BY <1>5 DEF vars, storeVars, noteVars, leafVars
    <2>2. TypeOK'
        BY <2>1 DEF IndInv, TypeOK
    <2>3. StoreInv' /\ PickedInv' /\ PageInv'
        BY <2>1 DEF IndInv, StoreInv, PickedInv, PageInv, NoNoteTwice, Confirmed, Created
    <2>4. SkipInv'
        BY <2>1 DEF IndInv, SkipInv, Met, Created, IsAvailable
    <2>5. LeafInv'
        BY <2>1 DEF IndInv, LeafInv, Ties
    <2> QED
        BY <2>2, <2>3, <2>4, <2>5 DEF IndInv
<1> QED
    BY <1>1, <1>2, <1>3, <1>4, <1>5 DEF Next

LEMMA InvariantAlways == Spec => []IndInv
<1> QED
    BY InitEstablishesInvariant, NextKeepsInvariant, PTL DEF Spec

(* Every variable keeps its type: a page holds notes there are, and what   *)
(* was collected are positions of leaves.                                  *)
THEOREM TypeCorrect == Spec => []TypeOK
<1>1. IndInv => TypeOK
    BY DEF IndInv
<1> QED
    BY <1>1, InvariantAlways, PTL

(* prepareInputsForTransfer takes no note twice.                           *)
THEOREM NoNoteTwiceTheorem == Spec => []NoNoteTwice
<1>1. IndInv => NoNoteTwice
    BY DEF IndInv, PickedInv
<1> QED
    BY <1>1, InvariantAlways, PTL

(* A transaction is refused for lack of funds only if what was passed over *)
(* ties with what was taken.                                               *)
THEOREM OnlyTiesTheorem == Spec => []OnlyTiesAreSkipped
<1>1. IndInv => OnlyTiesAreSkipped
    <2> SUFFICES ASSUME IndInv, pc = "insufficient", ~disturbed, NEW i \in DOMAIN notes, IsAvailable(i)
                 PROVE  \E k \in DOMAIN picked : picked[k] = i \/ notes[picked[k]].created = notes[i].created
        BY DEF OnlyTiesAreSkipped
    <2>1. Met(i)
        BY DEF IndInv, SkipInv
    <2> QED
        BY <2>1 DEF Met, Created
<1> QED
    BY <1>1, InvariantAlways, PTL

-----------------------------------------------------------------------------
(* The tree *)

(* loadTree on some of the leaves returns the longest beginning of the     *)
(* tree that is among them.                                                *)
LEMMA LoadTreeOfLeaves ==
    ASSUME NEW n \in Nat, NEW S, S \subseteq 1 .. n
    PROVE  \E m \in Nat : /\ LoadTree({Leaf(k) : k \in S}) = [i \in 1 .. m |-> i]
                          /\ 1 .. m \subseteq S /\ m + 1 \notin S
<1> DEFINE stored == {Leaf(k) : k \in S}
           First(m) == StopsAt(stored, m) /\ \A l \in 0 .. m - 1 : ~StopsAt(stored, l)
<1>1. ASSUME NEW i \in Nat
      PROVE  LeavesAt(stored, i) = IF i + 1 \in S THEN {Leaf(i + 1)} ELSE {}
    <2>1. \A k \in S : Leaf(k).leafIndex = i <=> k = i + 1
        BY DEF Leaf
    <2> QED
        BY <2>1 DEF LeavesAt
<1> HIDE DEF stored
<1>2. ASSUME NEW i \in Nat
      PROVE  StopsAt(stored, i) <=> i + 1 \notin S
    <2>1. i > 0 => i - 1 \in Nat
        OBVIOUS
    <2>2. i > 0 => ~ \E s, t \in LeavesAt(stored, i - 1) : s # t
        BY <1>1, <2>1
    <2> QED
        BY <1>1, <2>2 DEF StopsAt
<1>3. \E m \in 0 .. Cardinality(stored) : First(m)
    <2> DEFINE D == {i \in Nat : i + 1 \notin S}
               R == {p \in Nat \X Nat : p[1] < p[2]}
    <2>1. n \in D /\ D \subseteq Nat
        OBVIOUS
    <2>2. IsWellFoundedOn(R, Nat)
        BY NatLessThanWellFounded DEF OpToRel
    <2>3. PICK m \in D : \A i \in D : ~(<<i, m>> \in R)
        <3> HIDE DEF D, R
        <3> QED
            BY <2>1, <2>2, WFMin
    <2>4. m \in Nat /\ m + 1 \notin S
        OBVIOUS
    <2>5. \A i \in Nat : i < m => i + 1 \in S
        BY <2>3, <2>4
    <2>6. First(m)
        BY <1>2, <2>4, <2>5
    <2>7. 1 .. m \subseteq S
        <3>1. \A k \in 1 .. m : k - 1 \in Nat /\ k - 1 < m /\ (k - 1) + 1 = k
            BY <2>4
        <3> QED
            BY <2>5, <3>1
    <2>8. m \in 0 .. Cardinality(stored)
        <3>1. IsFiniteSet(1 .. n) /\ IsFiniteSet(1 .. m) /\ Cardinality(1 .. m) = m
            BY <2>4, FS_Interval
        <3>2. IsFiniteSet(S)
            BY <3>1, FS_Subset
        <3>3. m <= Cardinality(S) /\ Cardinality(S) \in Nat
            BY <2>7, <3>1, <3>2, FS_Subset, FS_CardinalityType
        <3>4. Cardinality(stored) = Cardinality(S)
            <4> DEFINE f == [k \in S |-> Leaf(k)]
            <4>1. \A j, k \in S : f[j] = f[k] => j = k
                BY DEF Leaf
            <4>2. f \in [S -> stored]
                BY DEF stored
            <4>3. \A x \in stored : \E k \in S : f[k] = x
                BY DEF stored
            <4> HIDE DEF f
            <4>4. f \in Bijection(S, stored)
                BY <4>1, <4>2, <4>3, Fun_IsBij
            <4>5. ExistsBijection(S, stored)
                BY <4>4 DEF ExistsBijection
            <4> QED
                BY <3>2, <4>5, FS_Bijection
        <3> QED
            BY <2>4, <3>3, <3>4
    <2> QED
        BY <2>6, <2>8
<1> DEFINE m == NextIndex(stored)
<1>4. m \in 0 .. Cardinality(stored) /\ First(m)
    BY <1>3 DEF NextIndex
<1>5. m \in Nat
    BY <1>4
<1> HIDE DEF m
<1>6. m + 1 \notin S
    BY <1>2, <1>4, <1>5
<1>7. \A i \in 1 .. m : i \in S /\ i - 1 \in Nat /\ (i - 1) + 1 = i
    <2>1. \A i \in 1 .. m : i - 1 \in 0 .. m - 1 /\ i - 1 \in Nat /\ (i - 1) + 1 = i
        BY <1>5
    <2> QED
        BY <1>2, <1>4, <2>1
<1>8. ASSUME NEW i \in 1 .. m
      PROVE  (CHOOSE s \in LeavesAt(stored, i - 1) : TRUE).commitment = i
    <2>1. LeavesAt(stored, i - 1) = {Leaf(i)}
        BY <1>1, <1>7
    <2>2. (CHOOSE s \in LeavesAt(stored, i - 1) : TRUE) = Leaf(i)
        BY <2>1
    <2>3. Leaf(i).commitment = i
        BY DEF Leaf
    <2> QED
        BY <2>2, <2>3
<1>9. LoadTree(stored) = [i \in 1 .. m |-> i]
    BY <1>8 DEF LoadTree, m
<1> QED
    BY <1>5, <1>6, <1>7, <1>9 DEF stored

LEMMA TreeFacts ==
    ASSUME IndInv
    PROVE  \E m \in Nat : /\ Tree = [i \in 1 .. m |-> i] /\ DOMAIN Tree = 1 .. m /\ Len(Tree) = m
                          /\ collected = DOMAIN leaves => m >= Len(leaves)
<1>1. Len(leaves) \in Nat /\ DOMAIN leaves = 1 .. Len(leaves) /\ collected \subseteq 1 .. Len(leaves)
    BY TypeFacts DEF IndInv, TypeOK
<1>2. PICK m \in Nat : /\ LoadTree({Leaf(k) : k \in collected}) = [i \in 1 .. m |-> i]
                       /\ 1 .. m \subseteq collected /\ m + 1 \notin collected
    BY <1>1, LoadTreeOfLeaves
<1>3. Tree = [i \in 1 .. m |-> i]
    BY <1>2 DEF Tree
<1>4. DOMAIN Tree = 1 .. m /\ Len(Tree) = m
    BY <1>3
<1>5. collected = DOMAIN leaves => m >= Len(leaves)
    BY <1>1, <1>2
<1> QED
    BY <1>3, <1>4, <1>5

(* The tree loadTree returns is one the contract has had, and without ties *)
(* it has all leaves that were stored when the load began.                 *)
THEOREM TreeTheorem == Spec => []TreeIsWhatWasStored
<1>1. IndInv => TreeIsWhatWasStored
    <2> SUFFICES ASSUME IndInv, pc = "assembled"
                 PROVE  /\ \A k \in DOMAIN Tree : Tree[k] = k
                        /\ ~Ties(leaves) => Len(Tree) >= leavesBefore
        BY DEF TreeIsWhatWasStored
    <2>1. PICK m \in Nat : /\ Tree = [i \in 1 .. m |-> i] /\ DOMAIN Tree = 1 .. m /\ Len(Tree) = m
                           /\ collected = DOMAIN leaves => m >= Len(leaves)
        BY TreeFacts
    <2>2. ~Ties(leaves) => collected = DOMAIN leaves
        BY DEF IndInv, LeafInv
    <2>3. leavesBefore <= Len(leaves) /\ leavesBefore \in Nat /\ Len(leaves) \in Nat
        BY TypeFacts DEF IndInv, LeafInv, TypeOK
    <2> QED
        BY <2>1, <2>2, <2>3
<1> QED
    BY <1>1, InvariantAlways, PTL

(* Without ties every input of an assembled transaction is in the tree it  *)
(* is proved against, whatever was stored between the pages.               *)
THEOREM InputsTheorem == Spec => []InputsAreInTheTree
<1>1. IndInv => InputsAreInTheTree
    <2> SUFFICES ASSUME IndInv, pc = "assembled", ~Ties(leaves), NEW k \in DOMAIN picked
                 PROVE  notes[picked[k]].leaf \in 0 .. Len(Tree) - 1
        BY DEF InputsAreInTheTree
    <2>1. PICK m \in Nat : Len(Tree) = m /\ (collected = DOMAIN leaves => m >= Len(leaves))
        BY TreeFacts
    <2>2. collected = DOMAIN leaves
        BY DEF IndInv, LeafInv
    <2>3. picked[k] \in DOMAIN notes /\ Confirmed(picked[k]) /\ Len(leaves) \in Nat
        BY TypeFacts DEF IndInv, PickedInv
    <2>4. notes[picked[k]].leaf \in 0 .. Len(leaves) - 1
        BY <2>3 DEF IndInv, StoreInv
    <2> QED
        BY <2>1, <2>2, <2>3, <2>4
<1> QED
    BY <1>1, InvariantAlways, PTL

-----------------------------------------------------------------------------
(* The sums, and what one look at the store would select                   *)

CreatedInv == \A i, j \in DOMAIN notes : i < j => Created(i) <= Created(j)

(* No sum before the last note covers the amount; the last one does if the *)
(* selection ended well, and then the notes are no more than allowed.      *)
Enough == {"queryLeaves", "assembled"}
PickedNotes == [k \in DOMAIN picked |-> notes[picked[k]]]
SumInv ==
    /\ PickedValue[Len(picked)] = sum
    /\ \A k \in 0 .. Len(picked) : PickedValue[k] >= total => k = Len(picked) /\ pc \in Enough
    /\ pc \in Enough => sum >= total /\ Len(picked) <= MaxInputs
    /\ pc \in Selecting \cup {"insufficient"} => Len(picked) < MaxInputs
    /\ pc = "maxNotes" => Len(picked) >= MaxInputs

(* Without ties, and as long as the store is what it was, the notes taken  *)
(* are the first of the available ones.                                    *)
FirstAvailable ==
    /\ \A k \in DOMAIN picked : IsAvailable(picked[k])
    /\ \A j, k \in DOMAIN picked : j < k => picked[j] < picked[k]
    /\ \A k \in DOMAIN picked, i \in DOMAIN notes :
         i <= picked[k] /\ IsAvailable(i) => \E m \in DOMAIN picked : picked[m] = i
OrderInv ==
    ~disturbed /\ ~Ties(NoteTimes) =>
        /\ FirstAvailable
        /\ pc = "takeNotes" => \A k \in DOMAIN page : IsAvailable(page[k])

SelectionInv == CreatedInv /\ SumInv /\ OrderInv

LEMMA NotesAreValued == \A v \in Note : v.value \in Nat
    BY AssemblyQueriesAssumption DEF Note

(* Elements of a sequence of notes, taken in any order.                    *)
LEMMA ChosenFacts ==
    ASSUME NEW store \in Seq(Note), NEW chosen \in Seq(DOMAIN store),
           NEW these, these = [k \in DOMAIN chosen |-> store[chosen[k]]]
    PROVE  /\ these \in Seq(Note) /\ Len(these) = Len(chosen) /\ Valued(these)
           /\ \A k \in 1 .. Len(chosen) : these[k] = store[chosen[k]]
           /\ \A k \in 0 .. Len(chosen) : RunningSum(these)[k] \in Nat
           /\ RunningSum(these)[0] = 0
<1>1. /\ Len(chosen) \in Nat /\ DOMAIN chosen = 1 .. Len(chosen)
      /\ \A k \in DOMAIN chosen : chosen[k] \in DOMAIN store
      /\ \A i \in DOMAIN store : store[i] \in Note
    BY LenProperties, ElementOfSeq
<1>2. these \in [1 .. Len(chosen) -> Note]
    BY <1>1
<1>3. these \in Seq(Note) /\ Len(these) = Len(chosen)
    BY <1>1, <1>2, FunctionIsSequence
<1>4. Valued(these)
    BY <1>3, NotesAreValued, SequenceIsValued
<1>5. /\ RunningSum(these)[0] = 0
      /\ \A k \in 0 .. Len(chosen) : RunningSum(these)[k] \in Nat
    BY <1>3, <1>4, RunningSumFacts
<1> QED
    BY <1>1, <1>3, <1>4, <1>5

LEMMA PickedFacts ==
    ASSUME TypeOK
    PROVE  /\ PickedNotes \in Seq(Note) /\ Len(PickedNotes) = Len(picked) /\ Valued(PickedNotes)
           /\ \A k \in 1 .. Len(picked) : PickedNotes[k] = notes[picked[k]]
           /\ PickedValue = RunningSum(PickedNotes)
           /\ \A k \in 0 .. Len(picked) : PickedValue[k] \in Nat
           /\ PickedValue[0] = 0
<1>1. notes \in Seq(Note) /\ picked \in Seq(DOMAIN notes)
    BY DEF TypeOK, Note
<1>2. PickedValue = RunningSum(PickedNotes)
    BY DEF PickedValue, PickedNotes
<1> QED
    BY <1>1, <1>2, ChosenFacts DEF PickedNotes

(* The times of notes without ties order them.                             *)
LEMMA TimesOrderNotes ==
    ASSUME TypeOK, CreatedInv, ~Ties(NoteTimes), NEW i \in DOMAIN notes, NEW j \in DOMAIN notes
    PROVE  /\ Created(i) = Created(j) => i = j
           /\ Created(i) <= Created(j) => i <= j
<1>1. DOMAIN NoteTimes = DOMAIN notes /\ NoteTimes[i] = Created(i) /\ NoteTimes[j] = Created(j)
    BY DEF NoteTimes, Created
<1>2. Created(i) = Created(j) => i = j
    BY <1>1 DEF Ties
<1>3. /\ i \in Nat /\ j \in Nat /\ Created(i) \in Nat /\ Created(j) \in Nat
    BY TypeFacts
<1>4. j < i => Created(j) <= Created(i)
    BY DEF CreatedInv
<1> QED
    BY <1>2, <1>3, <1>4

LEMMA QueryNotesKeepsSelection == ASSUME IndInv, SelectionInv, QueryNotes PROVE SelectionInv'
<1>1. PICK s : /\ page' = s /\ IsPage(s)
               /\ pc = "queryNotes" /\ pc' = IF s = <<>> THEN "insufficient" ELSE "takeNotes"
               /\ UNCHANGED <<notes, leaves, total, picked, sum, disturbed>>
    BY DEF QueryNotes, AfterQuery, storeVars
<1>2. CreatedInv'
    BY <1>1 DEF SelectionInv, CreatedInv, Created
<1>3. SumInv'
    <2>1. PickedValue' = PickedValue
        BY <1>1 DEF PickedValue
    <2>2. pc' \notin Enough /\ pc \notin Enough /\ pc' # "maxNotes" /\ pc \in Selecting
        BY <1>1 DEF Enough, Selecting
    <2> QED
        BY <1>1, <2>1, <2>2 DEF SelectionInv, SumInv
<1>4. OrderInv'
    <2>1. \A k \in DOMAIN s : IsAvailable(s[k])
        BY <1>1 DEF IsPage
    <2> QED
        BY <1>1, <2>1 DEF SelectionInv, OrderInv, FirstAvailable, IsAvailable, NoteTimes, Ties
<1> QED
    BY <1>2, <1>3, <1>4 DEF SelectionInv

(* The amount is compared after each note, and then the number of notes.   *)
LEMMA TakeNoteKeepsSums == ASSUME IndInv, SumInv, TakeNote PROVE SumInv'
<1> DEFINE n == Len(picked)
<1>1. /\ pc = "takeNotes" /\ page[1] \in DOMAIN notes
      /\ sum' = sum + notes[page[1]].value
      /\ UNCHANGED <<notes, total>>
      /\ pc' = AfterNote(sum', Len(picked'), page')
      /\ Len(picked') = n + 1 /\ picked' \in Seq(DOMAIN notes)
      /\ \A k \in 1 .. n : picked'[k] = picked[k]
      /\ picked'[n + 1] = page[1]
    BY TakeNoteFacts
<1>2. TypeOK /\ TypeOK'
    BY TakeNoteKeepsInvariant DEF IndInv
<1>3. n \in Nat /\ sum' \in Nat /\ total \in Nat \ {0} /\ MaxInputs \in Nat
    BY <1>2, TypeFacts, AssemblyQueriesAssumption DEF TypeOK
<1>4. /\ Len(PickedNotes) = n /\ Valued(PickedNotes) /\ PickedValue = RunningSum(PickedNotes)
      /\ \A k \in 1 .. n : PickedNotes[k] = notes[picked[k]]
    BY <1>2, PickedFacts
<1>5. /\ Len(PickedNotes') = n + 1 /\ Valued(PickedNotes') /\ PickedValue' = RunningSum(PickedNotes')
      /\ \A k \in 1 .. n + 1 : PickedNotes'[k] = notes[picked'[k]]
    <2>1. notes' \in Seq(Note) /\ picked' \in Seq(DOMAIN notes') /\ notes' = notes
        BY <1>1, <1>2 DEF TypeOK, Note
    <2>2. PickedNotes' = [k \in DOMAIN picked' |-> notes'[picked'[k]]]
        BY DEF PickedNotes
    <2>3. /\ Len(PickedNotes') = Len(picked') /\ Valued(PickedNotes')
          /\ \A k \in 1 .. Len(picked') : PickedNotes'[k] = notes'[picked'[k]]
        BY <2>1, <2>2, ChosenFacts
    <2>4. PickedValue' = RunningSum(PickedNotes')
        BY DEF PickedValue, PickedNotes
    <2> QED
        BY <1>1, <2>1, <2>3, <2>4
<1> HIDE DEF n
<1>6. \A k \in 0 .. n : PickedValue'[k] = PickedValue[k]
    <2>1. \A k \in 1 .. n : PickedNotes'[k].value = PickedNotes[k].value
        BY <1>1, <1>3, <1>4, <1>5
    <2>2. \A k \in 0 .. n : RunningSum(PickedNotes')[k] = RunningSum(PickedNotes)[k]
        BY <1>3, <1>4, <1>5, <2>1, SameSums
    <2> QED
        BY <1>4, <1>5, <2>2
<1>7. PickedValue'[n + 1] = sum'
    <2>1. n + 1 \in 1 .. n + 1 /\ (n + 1) - 1 = n /\ n \in 0 .. n
        BY <1>3
    <2>2. RunningSum(PickedNotes')[n + 1]
             = RunningSum(PickedNotes')[(n + 1) - 1] + PickedNotes'[n + 1].value
        BY <1>5, <2>1, RunningSumFacts
    <2>3. PickedValue[n] = sum
        BY DEF SumInv, n
    <2>4. PickedNotes'[n + 1] = notes[page[1]]
        BY <1>1, <1>5, <2>1
    <2> QED
        BY <1>1, <1>5, <1>6, <2>1, <2>2, <2>3, <2>4
<1>8. \A k \in 0 .. n : ~(PickedValue[k] >= total)
    BY <1>1 DEF SumInv, n, Enough
<1>9. n < MaxInputs
    BY <1>1 DEF SumInv, n, Selecting
<1>10. /\ pc' \in Enough <=> sum' >= total
       /\ pc' = "maxNotes" => n + 1 >= MaxInputs
       /\ pc' \in Selecting => n + 1 < MaxInputs
       /\ pc' # "insufficient"
    BY <1>1, <1>3 DEF AfterNote, Enough, Selecting
<1>11. \A k \in 0 .. n + 1 : PickedValue'[k] >= total => k = n + 1 /\ pc' \in Enough
    <2> SUFFICES ASSUME NEW k \in 0 .. n + 1, PickedValue'[k] >= total
                 PROVE  k = n + 1 /\ pc' \in Enough
        OBVIOUS
    <2>1. k \notin 0 .. n
        BY <1>6, <1>8
    <2>2. k = n + 1
        BY <1>3, <2>1
    <2> QED
        BY <1>7, <1>10, <2>2
<1> QED
    <2>1. n + 1 <= MaxInputs
        BY <1>3, <1>9
    <2> QED
        BY <1>1, <1>7, <1>10, <1>11, <2>1 DEF SumInv

(* The next note of the page is the next available one.                    *)
LEMMA TakeNoteKeepsOrder ==
    ASSUME IndInv, CreatedInv, OrderInv, TakeNote
    PROVE  OrderInv'
<1> SUFFICES ASSUME ~disturbed, ~Ties(NoteTimes)
             PROVE  /\ FirstAvailable'
                    /\ pc' = "takeNotes" => \A k \in DOMAIN page' : IsAvailable(page'[k])
    BY TakeNoteFacts DEF OrderInv, IsAvailable, NoteTimes, Ties
<1> DEFINE n == Len(picked)
           note == page[1]
<1>0. TypeOK
    BY DEF IndInv
<1>1. /\ pc = "takeNotes" /\ note \in DOMAIN notes /\ UNCHANGED <<notes>>
      /\ page' = Tail(page) /\ Len(page) \in Nat \ {0}
      /\ Tail(page) \in Seq(DOMAIN notes) /\ Len(Tail(page)) = Len(page) - 1
      /\ \A k \in 1 .. Len(page) - 1 : Tail(page)[k] = page[k + 1]
      /\ DOMAIN picked' = 1 .. n + 1
      /\ \A k \in 1 .. n : picked'[k] = picked[k]
      /\ picked'[n + 1] = note
    BY TakeNoteFacts
<1>2. /\ n \in Nat /\ DOMAIN picked = 1 .. n /\ DOMAIN page = 1 .. Len(page)
      /\ 1 \in DOMAIN page /\ Len(page) \in DOMAIN page
      /\ \A i \in DOMAIN notes : i \in Nat /\ Created(i) \in Nat
      /\ \A k \in DOMAIN picked : picked[k] \in DOMAIN notes
      /\ \A k \in DOMAIN page : page[k] \in DOMAIN notes
      /\ lastCreated \in Nat
    BY <1>0, <1>1, TypeFacts
<1>3. /\ FirstAvailable
      /\ \A k \in DOMAIN page : IsAvailable(page[k])
    BY <1>1 DEF OrderInv
<1>4. /\ Created(note) >= lastCreated /\ \A m \in DOMAIN picked : note # picked[m]
      /\ \A k \in DOMAIN page : Created(note) <= Created(page[k])
    <2>1. Created(note) >= lastCreated /\ \A m \in DOMAIN picked : note # picked[m]
        BY <1>1, <1>2 DEF IndInv, PageInv
    <2>2. \A k \in DOMAIN page : 1 < k => Created(note) <= Created(page[k])
        BY <1>1, <1>2 DEF IndInv, PageInv
    <2> QED
        BY <1>1, <1>2, <2>1, <2>2
<1> HIDE DEF n, note
<1>5. \A m \in DOMAIN picked : picked[m] < note
    <2> SUFFICES ASSUME NEW m \in DOMAIN picked PROVE picked[m] < note
        OBVIOUS
    <2>1. Created(picked[m]) <= lastCreated
        BY <1>1 DEF IndInv, PickedInv, Selecting
    <2>2. Created(picked[m]) <= Created(note)
        BY <1>1, <1>2, <1>4, <2>1
    <2>3. picked[m] <= note
        BY <1>0, <1>1, <1>2, <2>2, TimesOrderNotes
    <2> QED
        BY <1>1, <1>2, <1>4, <2>3
<1>6. ASSUME NEW i \in DOMAIN notes, i <= note, IsAvailable(i)
      PROVE  i = note \/ \E m \in DOMAIN picked : picked[m] = i
    <2>1. \/ Met(i)
          \/ \E k \in DOMAIN page : page[k] = i
          \/ Created(i) >= Created(page[Len(page)])
        BY <1>1, <1>6 DEF IndInv, SkipInv
    <2>2. CASE Met(i)
        <3>1. PICK m \in DOMAIN picked : Created(picked[m]) = Created(i)
            BY <2>2 DEF Met
        <3>2. picked[m] = i
            BY <1>0, <1>2, <3>1, TimesOrderNotes
        <3> QED
            BY <3>2
    <2>3. ASSUME Created(note) <= Created(i)
          PROVE  i = note
        <3>1. note <= i
            BY <1>0, <1>1, <2>3, TimesOrderNotes
        <3> QED
            BY <1>1, <1>2, <1>6, <3>1
    <2>4. CASE \E k \in DOMAIN page : page[k] = i
        BY <1>4, <2>3, <2>4
    <2>5. CASE Created(i) >= Created(page[Len(page)])
        <3>1. Created(note) <= Created(page[Len(page)])
            BY <1>2, <1>4
        <3>2. Created(note) <= Created(i)
            BY <1>1, <1>2, <2>5, <3>1
        <3> QED
            BY <2>3, <3>2
    <2> QED
        BY <2>1, <2>2, <2>4, <2>5
<1>7. \A k \in DOMAIN picked' : (k \in DOMAIN picked /\ picked'[k] = picked[k]) \/ (k = n + 1 /\ picked'[k] = note)
    BY <1>1, <1>2
<1>8. \A k \in DOMAIN picked : k \in DOMAIN picked' /\ picked'[k] = picked[k] /\ k <= n
    BY <1>1, <1>2
<1>9. n + 1 \in DOMAIN picked' /\ picked'[n + 1] = note
    BY <1>1, <1>2
<1>10. IsAvailable(note)
    BY <1>2, <1>3 DEF note
<1>11. \A k \in DOMAIN picked' : IsAvailable(picked'[k])
    BY <1>3, <1>7, <1>10 DEF FirstAvailable
<1>12. ASSUME NEW j \in DOMAIN picked', NEW k \in DOMAIN picked', j < k
       PROVE  picked'[j] < picked'[k]
    <2>1. j \in DOMAIN picked /\ picked'[j] = picked[j]
        BY <1>1, <1>2, <1>12
    <2>2. CASE k \in DOMAIN picked
        BY <1>3, <1>8, <1>12, <2>1, <2>2 DEF FirstAvailable
    <2>3. CASE k = n + 1
        BY <1>5, <1>9, <2>1, <2>3
    <2> QED
        BY <1>7, <2>2, <2>3
<1>13. ASSUME NEW k \in DOMAIN picked', NEW i \in DOMAIN notes, i <= picked'[k], IsAvailable(i)
       PROVE  \E m \in DOMAIN picked' : picked'[m] = i
    <2>1. CASE k \in DOMAIN picked
        <3>1. i <= picked[k]
            BY <1>8, <1>13, <2>1
        <3>2. PICK m \in DOMAIN picked : picked[m] = i
            BY <1>3, <1>13, <2>1, <3>1 DEF FirstAvailable
        <3> QED
            BY <1>8, <3>2
    <2>2. CASE k = n + 1
        <3>1. i = note \/ \E m \in DOMAIN picked : picked[m] = i
            BY <1>6, <1>9, <1>13, <2>2
        <3> QED
            BY <1>8, <1>9, <3>1
    <2> QED
        BY <1>7, <2>1, <2>2
<1>14. FirstAvailable'
    BY <1>1, <1>11, <1>12, <1>13 DEF FirstAvailable, IsAvailable
<1>15. \A k \in DOMAIN page' : IsAvailable(page'[k])
    <2> SUFFICES ASSUME NEW k \in DOMAIN page' PROVE IsAvailable(page'[k])
        OBVIOUS
    <2>1. DOMAIN page' = 1 .. Len(page) - 1
        BY <1>1, LenProperties
    <2>2. k + 1 \in DOMAIN page /\ page'[k] = page[k + 1]
        BY <1>1, <1>2, <2>1
    <2> QED
        BY <1>3, <2>2
<1> QED
    BY <1>14, <1>15

LEMMA QueryLeavesKeepsSelection == ASSUME IndInv, SelectionInv, QueryLeaves PROVE SelectionInv'
<1>1. /\ pc = "queryLeaves" /\ pc' \in Enough
      /\ UNCHANGED <<notes, total, picked, sum, disturbed>>
    BY DEF QueryLeaves, AfterLeafPage, storeVars, noteVars, Enough
<1>2. CreatedInv'
    BY <1>1 DEF SelectionInv, CreatedInv, Created
<1>3. SumInv'
    <2>1. PickedValue' = PickedValue
        BY <1>1 DEF PickedValue
    <2>2. pc \in Enough /\ pc' \notin Selecting \cup {"insufficient", "maxNotes"}
        BY <1>1 DEF Enough, Selecting
    <2> QED
        BY <1>1, <2>1, <2>2 DEF SelectionInv, SumInv
<1>4. OrderInv'
    <2>1. pc' # "takeNotes"
        BY <1>1 DEF Enough
    <2> QED
        BY <1>1, <2>1 DEF SelectionInv, OrderInv, FirstAvailable, IsAvailable, NoteTimes, Ties
<1> QED
    BY <1>2, <1>3, <1>4 DEF SelectionInv

(* A new note is no older than the others, and no note changes its value.  *)
LEMMA StoreStepKeepsSelection == ASSUME IndInv, SelectionInv, StoreStep PROVE SelectionInv'
<1>0. TypeOK /\ TypeOK'
    BY StoreStepKeepsInvariant DEF IndInv
<1>1. disturbed' = TRUE /\ UNCHANGED <<total, pc, picked, sum>>
    BY DEF StoreStep, noteVars
<1>2. /\ Len(notes) \in Nat /\ DOMAIN notes = 1 .. Len(notes)
      /\ \A i \in DOMAIN notes : Created(i) \in Nat \ {0}
      /\ \A k \in DOMAIN picked : picked[k] \in DOMAIN notes
      /\ DOMAIN picked = 1 .. Len(picked) /\ Len(picked) \in Nat
    BY <1>0, TypeFacts
<1>3. \A i \in DOMAIN notes : /\ Created(i)' = Created(i) /\ notes'[i].value = notes[i].value
    BY StoreGrows DEF Created
<1>4. ASSUME DOMAIN notes' = DOMAIN notes PROVE CreatedInv'
    BY <1>3, <1>4 DEF SelectionInv, CreatedInv, Created
<1>5. ASSUME CreateNote PROVE CreatedInv'
    <2>1. PICK v \in Values, t \in Tokens, tick \in {0, 1} :
             notes' = Append(notes, [value |-> v, token |-> t, status |-> "unconfirmed",
                                     created |-> Clock(NoteTimes) + tick, leaf |-> -1])
        BY <1>5 DEF CreateNote
    <2>2. Clock(NoteTimes) \in Nat /\ \A i \in DOMAIN notes : Created(i) <= Clock(NoteTimes)
        <3>1. /\ Len(NoteTimes) = Len(notes) /\ NoteTimes \in Seq(Nat)
              /\ \A i \in DOMAIN notes : NoteTimes[i] = Created(i)
            <4>1. NoteTimes \in [1 .. Len(notes) -> Nat]
                BY <1>2 DEF NoteTimes, Created
            <4> QED
                BY <1>2, <4>1, FunctionIsSequence DEF NoteTimes, Created
        <3>2. CASE NoteTimes = <<>>
            BY <1>2, <3>1, <3>2, EmptySeq DEF Clock
        <3>3. CASE NoteTimes # <<>>
            <4>1. Len(notes) \in DOMAIN notes
                BY <1>2, <3>1, <3>3, EmptySeq
            <4>2. Clock(NoteTimes) = Created(Len(notes))
                BY <3>1, <3>3, <4>1 DEF Clock
            <4>3. \A i \in DOMAIN notes : i < Len(notes) => Created(i) <= Created(Len(notes))
                BY <4>1 DEF SelectionInv, CreatedInv
            <4> QED
                BY <1>2, <4>1, <4>2, <4>3
        <3> QED
            BY <3>2, <3>3
    <2> DEFINE new == [value |-> v, token |-> t, status |-> "unconfirmed",
                       created |-> Clock(NoteTimes) + tick, leaf |-> -1]
    <2>3. \A i \in DOMAIN notes : Created(i) <= new.created
        BY <1>2, <2>2
    <2>4. notes' = Append(notes, new) /\ notes \in Seq(Note)
        BY <1>0, <2>1 DEF TypeOK, Note
    <2> HIDE DEF new
    <2>5. DOMAIN notes' = 1 .. Len(notes) + 1 /\ notes'[Len(notes) + 1] = new
        BY <2>4
    <2> SUFFICES ASSUME NEW i \in DOMAIN notes', NEW j \in DOMAIN notes', i < j
                 PROVE  notes'[i].created <= notes'[j].created
        BY DEF CreatedInv, Created
    <2>6. i \in DOMAIN notes /\ notes'[i].created = Created(i)
        BY <1>2, <1>3, <2>5 DEF Created
    <2>7. CASE j \in DOMAIN notes
        BY <1>3, <2>6, <2>7 DEF SelectionInv, CreatedInv, Created
    <2>8. CASE j = Len(notes) + 1
        BY <2>3, <2>5, <2>6, <2>8
    <2> QED
        BY <1>2, <2>5, <2>7, <2>8
<1>6. CreatedInv'
    <2>1. IndexLeaf \/ Spend => DOMAIN notes' = DOMAIN notes
        BY DEF IndexLeaf, Spend
    <2> QED
        BY <1>4, <1>5, <2>1 DEF StoreStep
<1>7. SumInv'
    <2>1. \A k \in 0 .. Len(picked) : PickedValue'[k] = PickedValue[k]
        <3>1. notes' \in Seq(Note) /\ picked \in Seq(DOMAIN notes')
            BY <1>0, <1>1 DEF TypeOK, Note
        <3>2. PickedNotes' = [k \in DOMAIN picked |-> notes'[picked[k]]]
            BY <1>1 DEF PickedNotes
        <3>3. /\ Len(PickedNotes') = Len(picked) /\ Valued(PickedNotes')
              /\ \A k \in 1 .. Len(picked) : PickedNotes'[k] = notes'[picked[k]]
            BY <3>1, <3>2, ChosenFacts
        <3>4. /\ Len(PickedNotes) = Len(picked) /\ Valued(PickedNotes)
              /\ \A k \in 1 .. Len(picked) : PickedNotes[k] = notes[picked[k]]
              /\ PickedValue = RunningSum(PickedNotes)
            BY <1>0, PickedFacts
        <3>5. PickedValue' = RunningSum(PickedNotes')
            BY DEF PickedValue, PickedNotes
        <3>6. \A k \in 1 .. Len(picked) : PickedNotes'[k].value = PickedNotes[k].value
            BY <1>2, <1>3, <3>3, <3>4
        <3>7. \A k \in 0 .. Len(picked) : RunningSum(PickedNotes')[k] = RunningSum(PickedNotes)[k]
            BY <1>2, <3>3, <3>4, <3>6, SameSums
        <3> QED
            BY <3>4, <3>5, <3>7
    <2>2. Len(picked) \in 0 .. Len(picked)
        BY <1>2
    <2> QED
        BY <1>1, <2>1, <2>2 DEF SelectionInv, SumInv
<1>8. OrderInv'
    BY <1>1 DEF OrderInv
<1> QED
    BY <1>6, <1>7, <1>8 DEF SelectionInv

LEMMA InitEstablishesSelection == Init => SelectionInv
<1> SUFFICES ASSUME Init PROVE SelectionInv
    OBVIOUS
<1>1. PICK store \in Stores : notes = store.notes /\ leaves = store.leaves
    BY DEF Init
<1>2. PICK n \in 0 .. MaxNotes, m \in 0 .. MaxLeaves : store \in StoresOf(n, m)
    BY <1>1 DEF Stores
<1>3. PICK values \in [1 .. n -> Values], tokens \in [1 .. n -> Tokens],
           times \in TimesOf(n), at \in Places(n, m), leafTimes \in TimesOf(m) :
         store = Store(values, tokens, times, at, leafTimes)
    BY <1>2 DEF StoresOf
<1>4. notes = [i \in 1 .. n |-> [value |-> values[i], token |-> tokens[i], status |-> "available",
                                 created |-> times[i], leaf |-> at[i]]]
    <2>1. DOMAIN values = 1 .. n
        BY <1>3
    <2> QED
        BY <1>1, <1>3, <2>1 DEF Store
<1>5. /\ total \in Amounts /\ pc = "queryNotes" /\ picked = <<>> /\ sum = 0
    BY DEF Init
<1>6. TypeOK
    BY InitEstablishesInvariant DEF IndInv
<1>7. CreatedInv
    <2>1. n \in Nat /\ times \in [1 .. n -> 1 .. n]
          /\ \A i, j \in 1 .. n : i <= j => times[j] - times[i] \in 0 .. j - i
        <3>1. n \in Nat
            BY AssemblyQueriesAssumption
        <3> QED
            BY <3>1, Zenon DEF TimesOf
    <2>2. \A i, j \in 1 .. n : i < j => times[i] <= times[j]
        BY <2>1
    <2>3. DOMAIN notes = 1 .. n /\ \A i \in 1 .. n : Created(i) = times[i]
        BY <1>4 DEF Created
    <2> QED
        BY <2>2, <2>3 DEF CreatedInv
<1>8. SumInv
    <2>1. Len(picked) = 0 /\ PickedValue[0] = 0
        BY <1>5, <1>6, PickedFacts, EmptySeq
    <2>2. total \in Nat \ {0} /\ MaxInputs \in Nat \ {0}
        BY <1>5, AssemblyQueriesAssumption
    <2>3. \A k \in 0 .. Len(picked) : ~(PickedValue[k] >= total)
        BY <2>1, <2>2
    <2>4. pc \notin Enough /\ pc # "maxNotes"
        BY <1>5 DEF Enough
    <2> QED
        BY <1>5, <2>1, <2>2, <2>3, <2>4 DEF SumInv
<1>9. OrderInv
    BY <1>5 DEF OrderInv, FirstAvailable
<1> QED
    BY <1>7, <1>8, <1>9 DEF SelectionInv

LEMMA NextKeepsSelection == IndInv /\ SelectionInv /\ [Next]_vars => SelectionInv'
<1> SUFFICES ASSUME IndInv, SelectionInv, [Next]_vars PROVE SelectionInv'
    OBVIOUS
<1>1. CASE TakeNote
    <2>1. CreatedInv'
        BY <1>1, TakeNoteFacts DEF SelectionInv, CreatedInv, Created
    <2> QED
        BY <1>1, <2>1, TakeNoteKeepsSums, TakeNoteKeepsOrder DEF SelectionInv
<1>2. CASE UNCHANGED vars
    <2>1. UNCHANGED <<notes, total, pc, page, picked, sum, disturbed>>
        BY <1>2 DEF vars, storeVars, noteVars
    <2>2. PickedValue' = PickedValue
        BY <2>1 DEF PickedValue
    <2>3. SumInv'
        BY <2>1, <2>2 DEF SelectionInv, SumInv
    <2>4. CreatedInv' /\ OrderInv'
        BY <2>1 DEF SelectionInv, CreatedInv, Created, OrderInv, FirstAvailable, IsAvailable, NoteTimes, Ties
    <2> QED
        BY <2>3, <2>4 DEF SelectionInv
<1> QED
    BY <1>1, <1>2, QueryNotesKeepsSelection, QueryLeavesKeepsSelection, StoreStepKeepsSelection DEF Next

LEMMA SelectionAlways == Spec => [](IndInv /\ SelectionInv)
<1>1. Init => IndInv /\ SelectionInv
    BY InitEstablishesInvariant, InitEstablishesSelection
<1>2. (IndInv /\ SelectionInv) /\ [Next]_vars => (IndInv /\ SelectionInv)'
    BY NextKeepsInvariant, NextKeepsSelection
<1> QED
    BY <1>1, <1>2, PTL DEF Spec

(* The inputs of an assembled transaction cover the amount, would not      *)
(* without the last of them, and are no more than the circuit takes.       *)
THEOREM CoverageTheorem == Spec => []CoversAndNoMore
<1>1. IndInv /\ SelectionInv => CoversAndNoMore
    <2> SUFFICES ASSUME IndInv, SelectionInv, pc \in Enough
                 PROVE  /\ PickedValue[Len(picked)] = sum /\ sum >= total
                        /\ PickedValue[Len(picked) - 1] < total
                        /\ Len(picked) <= MaxInputs
        BY DEF CoversAndNoMore, Enough
    <2>1. /\ PickedValue[Len(picked)] = sum /\ sum >= total /\ Len(picked) <= MaxInputs
          /\ \A k \in 0 .. Len(picked) : PickedValue[k] >= total => k = Len(picked)
        BY DEF SelectionInv, SumInv
    <2>2. /\ Len(picked) \in Nat /\ total \in Nat \ {0} /\ PickedValue[0] = 0
          /\ \A k \in 0 .. Len(picked) : PickedValue[k] \in Nat
        BY TypeFacts, PickedFacts, AssemblyQueriesAssumption DEF IndInv, TypeOK
    <2>3. Len(picked) # 0
        BY <2>1, <2>2
    <2>4. Len(picked) - 1 \in 0 .. Len(picked) /\ Len(picked) - 1 # Len(picked)
        BY <2>2, <2>3
    <2>5. ~(PickedValue[Len(picked) - 1] >= total) /\ PickedValue[Len(picked) - 1] \in Nat
        BY <2>1, <2>2, <2>4
    <2>6. PickedValue[Len(picked) - 1] < total
        BY <2>2, <2>5
    <2> QED
        BY <2>1, <2>6
<1> QED
    BY <1>1, SelectionAlways, PTL

(* What was taken is then what one pass over the available notes meets     *)
(* first: both list available notes in ascending order, and neither leaves *)
(* one out.                                                                *)
LEMMA PickedComeFirst ==
    ASSUME TypeOK, FirstAvailable
    PROVE  /\ AllAvailable \in Seq(Note) /\ Len(picked) <= Len(AllAvailable)
           /\ \A k \in 1 .. Len(picked) : AllAvailable[k] = notes[picked[k]]
           /\ (\A i \in DOMAIN notes : IsAvailable(i) => \E m \in DOMAIN picked : picked[m] = i) =>
                 Len(AllAvailable) = Len(picked)
<1> DEFINE S == {i \in DOMAIN notes : IsAvailable(i)}
           N == Len(AllAvailable)
           n == Len(picked)
<1>1. /\ n \in Nat /\ DOMAIN picked = 1 .. n /\ DOMAIN notes \subseteq Nat
      /\ \A k \in 1 .. n : picked[k] \in S
      /\ \A j, k \in 1 .. n : j < k => picked[j] < picked[k]
    <2>1. n \in Nat /\ DOMAIN picked = 1 .. n /\ DOMAIN notes = 1 .. Len(notes) /\ Len(notes) \in Nat
        BY TypeFacts
    <2>2. \A k \in DOMAIN picked : picked[k] \in DOMAIN notes
        BY TypeFacts
    <2> HIDE DEF n
    <2>3. \A k \in 1 .. n : picked[k] \in S
        BY <2>1, <2>2 DEF FirstAvailable
    <2>4. \A j, k \in 1 .. n : j < k => picked[j] < picked[k]
        BY <2>1 DEF FirstAvailable
    <2> QED
        BY <2>1, <2>3, <2>4
<1>2. /\ AllAvailable \in Seq(Note) /\ Picks(AllAvailable, notes, S)
    <2>1. notes \in Seq(Note) /\ DOMAIN notes \cap S = S
        BY DEF TypeOK, Note
    <2>2. ElementsAt(notes, S) \in Seq(Note) /\ Picks(ElementsAt(notes, S), notes, S)
        BY <2>1, ElementsAtFacts
    <2> QED
        BY <2>2 DEF AllAvailable
<1>3. N \in Nat
    BY <1>2, LenProperties
<1>4. PICK pos : Enumerates(pos, N, S) /\ \A i \in 1 .. N : AllAvailable[i] = notes[pos[i]]
    BY <1>2 DEF Picks
<1>5. /\ \A i \in 1 .. N : pos[i] \in S
      /\ \A i, j \in 1 .. N : i < j => pos[i] < pos[j]
      /\ \A x \in S : \E i \in 1 .. N : pos[i] = x
    BY <1>4 DEF Enumerates
<1>6. ASSUME NEW k \in 1 .. n, NEW x \in S, x <= picked[k]
      PROVE  \E m \in 1 .. n : picked[m] = x
    BY <1>1, <1>6 DEF FirstAvailable
<1>7. S \subseteq Nat
    BY <1>1
<1>8. (\A i \in DOMAIN notes : IsAvailable(i) => \E m \in DOMAIN picked : picked[m] = i) =>
         \A x \in S : \E m \in 1 .. n : picked[m] = x
    BY <1>1
<1> DEFINE Same(k) == k <= N /\ \A j \in 1 .. k : pos[j] = picked[j]
           D == {k \in 0 .. n : Same(k)}
<1> HIDE DEF S, N, n
<1>9. ASSUME NEW k \in 0 .. n - 1, Same(k)
      PROVE  k + 1 \in 0 .. n /\ Same(k + 1)
    <2>1. k \in Nat /\ k + 1 \in 1 .. n /\ k + 1 \in 0 .. n /\ 1 .. k \subseteq 1 .. n /\ 1 .. k \subseteq 1 .. N
        BY <1>1, <1>3, <1>9
    <2>2. PICK m \in 1 .. N : pos[m] = picked[k + 1]
        BY <1>1, <1>5, <2>1
    <2>3. k + 1 <= m
        <3>1. ASSUME m \in 1 .. k PROVE FALSE
            <4>1. pos[m] = picked[m] /\ m < k + 1 /\ m \in 1 .. n
                BY <1>9, <2>1, <3>1
            <4>2. picked[m] < picked[k + 1] /\ picked[m] \in Nat /\ picked[k + 1] \in Nat
                BY <1>1, <1>7, <2>1, <4>1
            <4> QED
                BY <2>2, <4>1, <4>2
        <3> QED
            BY <1>3, <2>1, <3>1
    <2>4. k + 1 \in 1 .. N
        BY <1>3, <2>1, <2>3
    <2>5. pos[k + 1] <= picked[k + 1]
        <3>1. k + 1 = m \/ k + 1 < m
            BY <2>1, <2>3
        <3>2. k + 1 < m => pos[k + 1] < pos[m]
            BY <1>5, <2>4
        <3>3. pos[k + 1] \in Nat /\ pos[m] \in Nat
            BY <1>5, <1>7, <2>4
        <3> QED
            BY <2>2, <3>1, <3>2, <3>3
    <2>6. PICK j \in 1 .. n : picked[j] = pos[k + 1]
        BY <1>5, <1>6, <2>1, <2>4, <2>5
    <2>7. k + 1 <= j
        <3>1. ASSUME j \in 1 .. k PROVE FALSE
            <4>1. pos[j] = picked[j] /\ j < k + 1 /\ j \in 1 .. N
                BY <1>9, <2>1, <3>1
            <4>2. pos[j] < pos[k + 1] /\ pos[j] \in Nat /\ pos[k + 1] \in Nat
                BY <1>5, <1>7, <2>4, <4>1
            <4> QED
                BY <2>6, <4>1, <4>2
        <3> QED
            BY <1>1, <2>1, <3>1
    <2>8. picked[k + 1] <= pos[k + 1]
        <3>1. k + 1 = j \/ k + 1 < j
            BY <1>1, <2>1, <2>7
        <3>2. k + 1 < j => picked[k + 1] < picked[j]
            BY <1>1, <2>1
        <3>3. picked[k + 1] \in Nat /\ picked[j] \in Nat
            BY <1>1, <1>7, <2>1
        <3> QED
            BY <2>6, <3>1, <3>2, <3>3
    <2>9. pos[k + 1] = picked[k + 1]
        <3>1. pos[k + 1] \in Nat /\ picked[k + 1] \in Nat
            BY <1>1, <1>5, <1>7, <2>1, <2>4
        <3> QED
            BY <2>5, <2>8, <3>1
    <2>10. \A i \in 1 .. k + 1 : i \in 1 .. k \/ i = k + 1
        BY <2>1
    <2> QED
        BY <1>3, <1>9, <2>1, <2>4, <2>9, <2>10
<1>10. Same(n)
    <2>1. 0 \in D
        BY <1>1, <1>3
    <2>2. \A k \in 0 .. n - 1 : k \in D => k + 1 \in D
        BY <1>9
    <2>3. \A k \in 0 .. n : k \in D
        <3> HIDE DEF D
        <3> QED
            BY <1>1, <2>1, <2>2, UpTo
    <2>4. n \in D
        BY <1>1, <2>3
    <2> QED
        BY <2>4
<1>11. \A k \in 1 .. n : AllAvailable[k] = notes[picked[k]]
    <2> SUFFICES ASSUME NEW k \in 1 .. n PROVE AllAvailable[k] = notes[picked[k]]
        OBVIOUS
    <2>1. k \in 1 .. N /\ pos[k] = picked[k]
        BY <1>1, <1>3, <1>10
    <2> QED
        BY <1>4, <2>1
<1>12. ASSUME \A x \in S : \E m \in 1 .. n : picked[m] = x
       PROVE  N = n
    <2>1. ASSUME n + 1 \in 1 .. N PROVE FALSE
        <3>1. PICK m \in 1 .. n : picked[m] = pos[n + 1]
            BY <1>5, <1>12, <2>1
        <3>2. pos[m] = picked[m] /\ m < n + 1 /\ m \in 1 .. N
            BY <1>1, <1>3, <1>10
        <3>3. pos[m] < pos[n + 1] /\ pos[m] \in Nat /\ pos[n + 1] \in Nat
            BY <1>5, <1>7, <2>1, <3>2
        <3> QED
            BY <3>1, <3>2, <3>3
    <2> QED
        BY <1>1, <1>3, <1>10, <2>1
<1> QED
    BY <1>2, <1>8, <1>10, <1>11, <1>12 DEF N, n

(* Without ties, and as long as the store is what it was, the pages select *)
(* what one pass over all available notes selects, and fail as it fails.   *)
THEOREM PagesTheorem == Spec => []PagesDoNotMatter
<1>1. IndInv /\ SelectionInv => PagesDoNotMatter
    <2> DEFINE n == Len(picked)
               N == Len(AllAvailable)
               whole == SelectInputs(AllAvailable, total, MaxInputs)
               sums == RunningSum(AllAvailable)
    <2> SUFFICES ASSUME IndInv, SelectionInv, pc \notin Selecting, ~disturbed, ~Ties(NoteTimes)
                 PROVE  IF whole.result = "ok" THEN pc \notin Reverts /\ whole.count = n
                        ELSE pc = whole.result
        BY DEF PagesDoNotMatter
    <2>0. TypeOK
        BY DEF IndInv
    <2>1. FirstAvailable
        BY DEF SelectionInv, OrderInv
    <2>2. /\ AllAvailable \in Seq(Note) /\ n <= N /\ Valued(AllAvailable)
          /\ \A k \in 1 .. n : AllAvailable[k] = notes[picked[k]]
        BY <2>0, <2>1, PickedComeFirst, NotesAreValued, SequenceIsValued
    <2>3. n \in Nat /\ N \in Nat /\ total \in Nat \ {0} /\ MaxInputs \in Nat \ {0}
        BY <2>0, <2>2, TypeFacts, AssemblyQueriesAssumption DEF Valued, TypeOK
    <2>4. \A k \in 0 .. n : sums[k] = PickedValue[k]
        <3>1. /\ Len(PickedNotes) = n /\ Valued(PickedNotes) /\ PickedValue = RunningSum(PickedNotes)
              /\ \A k \in 1 .. n : PickedNotes[k] = notes[picked[k]]
            BY <2>0, PickedFacts
        <3>2. \A k \in 1 .. n : AllAvailable[k].value = PickedNotes[k].value
            BY <2>2, <3>1
        <3>3. \A k \in 0 .. n : RunningSum(AllAvailable)[k] = RunningSum(PickedNotes)[k]
            BY <2>2, <2>3, <3>1, <3>2, SameSums
        <3> QED
            BY <3>1, <3>3
    <2>5. /\ PickedValue[n] = sum
          /\ \A k \in 0 .. n : PickedValue[k] >= total => k = n /\ pc \in Enough
          /\ pc \in Enough => sum >= total /\ n <= MaxInputs
          /\ pc = "insufficient" => n < MaxInputs
          /\ pc = "maxNotes" => n >= MaxInputs
        BY DEF SelectionInv, SumInv
    <2>6. /\ whole.result = "ok" =>
               /\ whole.count \in 1 .. N /\ whole.count <= MaxInputs
               /\ sums[whole.count] >= total
               /\ \A k \in 1 .. N : k <= MaxInputs /\ sums[k] >= total => whole.count <= k
          /\ whole.result # "ok" => ~ \E k \in 1 .. N : k <= MaxInputs /\ sums[k] >= total
          /\ whole.result = "maxNotes" => N >= MaxInputs
          /\ whole.result = "insufficient" => ~(N >= MaxInputs)
          /\ whole.result \in {"ok", "maxNotes", "insufficient"}
        BY <2>2, NotesAreValued, SelectInputsFacts
    <2>7. pc = "insufficient" => N = n
        <3> SUFFICES ASSUME pc = "insufficient" PROVE N = n
            OBVIOUS
        <3>1. ASSUME NEW i \in DOMAIN notes, IsAvailable(i)
              PROVE  \E m \in DOMAIN picked : picked[m] = i
            <4>1. PICK m \in DOMAIN picked : Created(picked[m]) = Created(i)
                BY <3>1 DEF IndInv, SkipInv, Met
            <4>2. picked[m] \in DOMAIN notes
                BY <2>0, TypeFacts
            <4>3. picked[m] = i
                BY <2>0, <4>1, <4>2, TimesOrderNotes DEF SelectionInv
            <4> QED
                BY <4>3
        <3> QED
            BY <2>0, <2>1, <3>1, PickedComeFirst
    <2>8. pc \in Enough \/ pc = "insufficient" \/ pc = "maxNotes"
        BY <2>0 DEF TypeOK, Running, Reverts, Selecting, Enough
    <2> HIDE DEF n, N, whole, sums
    <2>9. CASE pc \in Enough
        <3>1. n # 0
            <4>1. PickedValue[0] = 0
                BY <2>0, PickedFacts
            <4> QED
                BY <2>3, <2>5, <2>9, <4>1
        <3>2. n \in 1 .. N /\ n <= MaxInputs /\ sums[n] >= total
            <4>1. n \in 0 .. n
                BY <2>3
            <4> QED
                BY <2>2, <2>3, <2>4, <2>5, <2>9, <3>1, <4>1
        <3>3. whole.result = "ok" /\ whole.count <= n /\ whole.count \in 1 .. N /\ sums[whole.count] >= total
            BY <2>6, <3>2
        <3>4. whole.count \in 0 .. n
            BY <2>3, <3>3
        <3>5. whole.count = n
            BY <2>4, <2>5, <3>3, <3>4
        <3>6. pc \notin Reverts
            BY <2>9 DEF Enough, Reverts
        <3> QED
            BY <3>3, <3>5, <3>6
    <2>10. ASSUME pc \notin Enough, NEW k \in 1 .. N, k <= n
           PROVE  ~(sums[k] >= total)
        <3>1. k \in 0 .. n
            BY <2>3, <2>10
        <3> QED
            BY <2>4, <2>5, <2>10, <3>1
    <2>11. CASE pc = "insufficient"
        <3>1. pc \notin Enough
            BY <2>11 DEF Enough
        <3>2. \A k \in 1 .. N : k <= n
            BY <2>3, <2>7, <2>11
        <3>3. whole.result # "ok"
            BY <2>6, <2>10, <3>1, <3>2
        <3>4. ~(N >= MaxInputs)
            BY <2>3, <2>5, <2>7, <2>11
        <3> QED
            BY <2>6, <2>11, <3>3, <3>4
    <2>12. CASE pc = "maxNotes"
        <3>1. pc \notin Enough
            BY <2>12 DEF Enough
        <3>2. whole.result # "ok"
            <4>1. ASSUME whole.result = "ok" PROVE FALSE
                <5>1. whole.count \in 1 .. N /\ whole.count <= MaxInputs /\ sums[whole.count] >= total
                    BY <2>6, <4>1
                <5>2. whole.count <= n
                    BY <2>3, <2>5, <2>12, <5>1
                <5> QED
                    BY <2>10, <3>1, <5>1, <5>2
            <4> QED
                BY <4>1
        <3>3. N >= MaxInputs
            BY <2>2, <2>3, <2>5, <2>12
        <3> QED
            BY <2>6, <2>12, <3>2, <3>3
    <2> QED
        BY <2>8, <2>9, <2>11, <2>12
<1> QED
    BY <1>1, SelectionAlways, PTL

=============================================================================

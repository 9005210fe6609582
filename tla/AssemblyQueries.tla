--------------------------- MODULE AssemblyQueries ---------------------------
(***************************************************************************)
(* The two paged queries of an assembly as they run: prepareInputsForTrans-*)
(* fer takes available notes page by page until they cover the amount, and *)
(* loadTree then collects the leaf states page by page, while the node     *)
(* goes on creating, confirming and spending notes and storing leaves.     *)
(*                                                                         *)
(* A page asks for what was created after the last state of the one before.*)
(* The times are the node's: they never go back, and two states may have   *)
(* the same.                                                               *)
(***************************************************************************)
EXTENDS NoteSelection, CommitmentTree

CONSTANTS
    Values, Tokens,     \* of the notes of the sender
    Amounts, Token,     \* what may be asked for
    PageLimit,          \* Limit(10) of the query for notes
    LeafLimit,          \* Limit(100) of the query for leaves
    MaxInputs,          \* MAX_INPUT_COUNT
    MaxNotes, MaxLeaves \* bounds: notes and leaves the node ever has

ASSUME AssemblyQueriesAssumption ==
    /\ Values \subseteq Nat /\ Token \in Tokens
    /\ Amounts \subseteq Nat \ {0}
    /\ PageLimit \in Nat \ {0} /\ LeafLimit \in Nat \ {0}
    /\ MaxInputs \in Nat \ {0}
    /\ MaxNotes \in Nat /\ MaxLeaves \in Nat

VARIABLES
    notes,          \* the sender's notes, in the order of their creation
    leaves,         \* creation times of the leaf states, in tree order
    total,          \* the amount asked for
    pc,             \* which query runs, or how the assembly ended
    lastCreated,    \* of the last state seen by the query that runs
    page,           \* what is left of the current page of notes
    picked, sum,    \* the notes taken and their value
    collected,      \* positions of the leaves collected
    disturbed,      \* the store changed since the assembly began
    leavesBefore    \* leaves stored when loadTree began

storeVars == <<notes, leaves>>
noteVars  == <<page, picked, sum>>
leafVars  == <<collected, leavesBefore>>
vars      == <<storeVars, total, pc, lastCreated, noteVars, leafVars, disturbed>>

Selecting == {"queryNotes", "takeNotes"}
Reverts   == {"insufficient", "maxNotes"}
Running   == Selecting \cup {"queryLeaves"}

-----------------------------------------------------------------------------
(* The node's store (external) *)

IsAvailable(i) == notes[i].status = "available"

(* A new state is no older than the ones there are.                        *)
Clock(times) == IF times = <<>> THEN 1 ELSE times[Len(times)]
NoteTimes == [i \in DOMAIN notes |-> notes[i].created]

CreateNote ==
    /\ Len(notes) < MaxNotes
    /\ \E v \in Values, t \in Tokens, tick \in {0, 1} :
         notes' = Append(notes, [value |-> v, token |-> t, status |-> "unconfirmed",
                                 created |-> Clock(NoteTimes) + tick, leaf |-> -1])
    /\ UNCHANGED leaves

(* A batch of events with one leaf: another wallet's, or one of the notes, *)
(* which it confirms. Leaves of one batch may have one creation time.      *)
IndexLeaf ==
    /\ Len(leaves) < MaxLeaves
    /\ \E tick \in {0, 1} : leaves' = Append(leaves, Clock(leaves) + tick)
    /\ \/ UNCHANGED notes
       \/ \E i \in DOMAIN notes :
            /\ notes[i].status = "unconfirmed"
            /\ notes' = [notes EXCEPT ![i].status = "available", ![i].leaf = Len(leaves)]

Spend ==
    /\ \E i \in DOMAIN notes :
         IsAvailable(i) /\ notes' = [notes EXCEPT ![i].status = "spent"]
    /\ UNCHANGED leaves

StoreStep ==
    /\ CreateNote \/ IndexLeaf \/ Spend
    /\ disturbed' = TRUE
    /\ pc \in Running
    /\ UNCHANGED <<total, pc, lastCreated, noteVars, leafVars>>

-----------------------------------------------------------------------------
(* prepareInputsForTransfer *)

(* Bug, as all operators named X_Y: each query starts at the oldest note.  *)
Asked_FromTheStart(created) == TRUE
Asked(created) == created > lastCreated

(* A page of the notes that are asked for: no more than PageLimit, oldest  *)
(* first, and if not all of them, then none that is older than one left    *)
(* out. Which of several notes of one time, is up to the database.         *)
IsPage_Unsorted(s) ==                               \* bug: the query is not sorted
    /\ \A k \in DOMAIN s : IsAvailable(s[k]) /\ Asked(notes[s[k]].created)
    /\ \A j, k \in DOMAIN s : j < k => s[j] # s[k]
    /\ Len(s) < PageLimit =>
         \A i \in DOMAIN notes : IsAvailable(i) /\ Asked(notes[i].created) =>
            \E k \in DOMAIN s : s[k] = i
IsPage(s) ==
    LET inPage == {s[k] : k \in DOMAIN s}
    IN  /\ \A k \in DOMAIN s : IsAvailable(s[k]) /\ Asked(notes[s[k]].created)
        /\ \A j, k \in DOMAIN s : j < k => s[j] # s[k] /\ notes[s[j]].created <= notes[s[k]].created
        /\ \A i \in DOMAIN notes \ inPage :
             IsAvailable(i) /\ Asked(notes[i].created) =>
                /\ Len(s) = PageLimit
                /\ \A k \in DOMAIN s : notes[s[k]].created <= notes[i].created

(* What becomes of the selection after a query.                            *)
AfterQuery_Unchecked(found) == "takeNotes"          \* bug: no test for an empty page
AfterQuery_Waits(found) ==                          \* bug: asks again for notes to come
    IF found = <<>> THEN "queryNotes" ELSE "takeNotes"
AfterQuery(found) == IF found = <<>> THEN "insufficient" ELSE "takeNotes"

QueryNotes ==
    /\ pc = "queryNotes"
    /\ \E n \in 0 .. PageLimit : \E s \in [1 .. n -> DOMAIN notes] : IsPage(s) /\ page' = s
    /\ pc' = AfterQuery(page')
    /\ UNCHANGED <<storeVars, total, lastCreated, picked, sum, leafVars, disturbed>>

(* What becomes of it after count notes worth value, with rest left of the *)
(* page. The amount is compared before the number of notes, so the last    *)
(* note allowed may be the one that covers it.                             *)
AfterNote_MoreThan(value, count, rest) ==           \* bug: exactly enough is not enough
    IF value > total THEN "queryLeaves"
    ELSE IF count >= MaxInputs THEN "maxNotes"
    ELSE IF rest = <<>> THEN "queryNotes" ELSE "takeNotes"
AfterNote_CountFirst(value, count, rest) ==         \* bug: the tests are swapped
    IF count >= MaxInputs THEN "maxNotes"
    ELSE IF value >= total THEN "queryLeaves"
    ELSE IF rest = <<>> THEN "queryNotes" ELSE "takeNotes"
AfterNote(value, count, rest) ==
    IF value >= total THEN "queryLeaves"
    ELSE IF count >= MaxInputs THEN "maxNotes"
    ELSE IF rest = <<>> THEN "queryNotes" ELSE "takeNotes"

(* One turn of the loop over a page. When it was the last, loadTree begins *)
(* with a cursor of its own.                                               *)
TakeNote ==
    LET note == Head(page)
    IN  /\ pc = "takeNotes" /\ page # <<>>
        /\ sum' = sum + notes[note].value
        /\ picked' = Append(picked, note)
        /\ page' = Tail(page)
        /\ pc' = AfterNote(sum', Len(picked'), page')
        /\ lastCreated' = IF pc' = "queryLeaves" THEN 0 ELSE notes[note].created
        /\ leavesBefore' = IF pc' = "queryLeaves" THEN Len(leaves) ELSE leavesBefore
        /\ UNCHANGED <<storeVars, total, collected, disturbed>>

-----------------------------------------------------------------------------
(* loadTree *)

(* A page of the leaf states that are asked for, as a set: their order     *)
(* within it does not matter, for all that is collected is sorted.         *)
IsLeafPage(found) ==
    /\ Cardinality(found) <= LeafLimit
    /\ \A k \in found : leaves[k] > lastCreated
    /\ \A k \in DOMAIN leaves \ found :
         leaves[k] > lastCreated =>
            Cardinality(found) = LeafLimit /\ \A j \in found : leaves[j] <= leaves[k]

(* A page that is not full is the last.                                    *)
AfterLeafPage_OnePage(found) == "assembled"         \* bug: there is no second page
AfterLeafPage(found) == IF Cardinality(found) < LeafLimit THEN "assembled" ELSE "queryLeaves"

Collect_LastPage(found) == found                    \* bug: the pages before are lost
Collect(found) == collected \cup found

QueryLeaves ==
    /\ pc = "queryLeaves"
    /\ \E found \in SUBSET DOMAIN leaves :
         /\ IsLeafPage(found)
         /\ collected' = Collect(found)
         /\ IF found = {}
            THEN UNCHANGED lastCreated
            ELSE \E k \in found : lastCreated' = leaves[k] /\ \A j \in found : leaves[j] <= leaves[k]
         /\ pc' = AfterLeafPage(found)
    /\ UNCHANGED <<storeVars, total, noteVars, leavesBefore, disturbed>>

(* The leaf states collected; a commitment is known by its position.       *)
Leaf(k) == [leafIndex |-> k - 1, commitment |-> k]
Tree == LoadTree({Leaf(k) : k \in collected})

-----------------------------------------------------------------------------
TimesOf(n) == {t \in [1 .. n -> 1 .. n] :
                  (n > 0 => t[1] = 1) /\ \A i, j \in 1 .. n : i <= j => t[j] - t[i] \in 0 .. j - i}

Store(values, tokens, times, at, leafTimes) ==
    [notes  |-> [i \in DOMAIN values |->
                    [value |-> values[i], token |-> tokens[i], status |-> "available",
                     created |-> times[i], leaf |-> at[i]]],
     leaves |-> leafTimes]

(* Notes that are there when the assembly begins have leaves.              *)
Places(n, m) == {at \in [1 .. n -> 0 .. m - 1] : \A i, j \in 1 .. n : i # j => at[i] # at[j]}
StoresOf(n, m) ==
    {Store(values, tokens, times, at, leafTimes) :
        values \in [1 .. n -> Values], tokens \in [1 .. n -> Tokens],
        times \in TimesOf(n), at \in Places(n, m), leafTimes \in TimesOf(m)}
Stores == UNION {StoresOf(n, m) : n \in 0 .. MaxNotes, m \in 0 .. MaxLeaves}

Init ==
    /\ \E store \in Stores : notes = store.notes /\ leaves = store.leaves
    /\ total \in Amounts
    /\ pc = "queryNotes" /\ lastCreated = 0 /\ page = <<>>
    /\ picked = <<>> /\ sum = 0
    /\ collected = {} /\ leavesBefore = 0
    /\ disturbed = FALSE

Next == QueryNotes \/ TakeNote \/ QueryLeaves \/ StoreStep

Spec == Init /\ [][Next]_vars

(* The transaction being assembled goes on; the store need not change.     *)
FairSpec == Spec /\ WF_vars(QueryNotes) /\ WF_vars(TakeNote)

-----------------------------------------------------------------------------
(* Properties *)

(* The type of the variables; the loop over a page runs on one with notes. *)
TypeOK ==
    /\ notes \in Seq([value : Values, token : Tokens, status : {"unconfirmed", "available", "spent"},
                      created : Nat \ {0}, leaf : Nat \cup {-1}])
    /\ leaves \in Seq(Nat \ {0})
    /\ total \in Amounts
    /\ pc \in Running \cup Reverts \cup {"assembled"}
    /\ lastCreated \in Nat
    /\ page \in Seq(DOMAIN notes) /\ (pc = "takeNotes" => page # <<>>)
    /\ picked \in Seq(DOMAIN notes)
    /\ sum \in Nat
    /\ collected \subseteq DOMAIN leaves
    /\ disturbed \in BOOLEAN
    /\ leavesBefore \in Nat

PickedValue == RunningSum([k \in DOMAIN picked |-> notes[picked[k]]])

(* The inputs of an assembled transaction cover the amount, would not      *)
(* without the last one, and are no more than the circuit takes: the       *)
(* change is less than one note, never negative.                           *)
CoversAndNoMore ==
    pc \in {"queryLeaves", "assembled"} =>
        /\ PickedValue[Len(picked)] = sum /\ sum >= total
        /\ PickedValue[Len(picked) - 1] < total
        /\ Len(picked) <= MaxInputs

(* No note is taken twice, however the pages were cut, whatever became     *)
(* available or was spent between two queries, and whatever times the      *)
(* notes were created at.                                                  *)
NoNoteTwice == \A j, k \in DOMAIN picked : j # k => picked[j] # picked[k]

Ties(times) == \E i, j \in DOMAIN times : i # j /\ times[i] = times[j]
AllAvailable == ElementsAt(notes, {i \in DOMAIN notes : IsAvailable(i)})

(* If no two notes were created at one time and the store did not change   *)
(* meanwhile, the pages select what one pass over all available notes,     *)
(* oldest first, selects, with the same outcome.                           *)
PagesDoNotMatter ==
    pc \notin Selecting /\ ~disturbed /\ ~Ties(NoteTimes) =>
        LET whole == SelectInputs(AllAvailable, total, MaxInputs)
        IN  IF whole.result = "ok" THEN pc \notin Reverts /\ whole.count = Len(picked)
            ELSE pc = whole.result

(* With ties the pages may pass over a note, but over none that was not    *)
(* created at the same time as one that was taken: a transaction is        *)
(* refused for lack of funds only if the rest ties.                        *)
OnlyTiesAreSkipped ==
    pc = "insufficient" /\ ~disturbed =>
        \A i \in DOMAIN notes : IsAvailable(i) =>
            \E k \in DOMAIN picked : picked[k] = i \/ notes[picked[k]].created = notes[i].created

(* Whatever the times, the tree is one the contract has had: its leaves    *)
(* are at their positions from the first. If no two leaf states were       *)
(* created at one time, it has all leaves that were stored when the load   *)
(* began, however many arrive meanwhile.                                   *)
TreeIsWhatWasStored ==
    pc = "assembled" =>
        /\ \A k \in DOMAIN Tree : Tree[k] = k
        /\ ~Ties(leaves) => Len(Tree) >= leavesBefore

(* The tree is loaded after the inputs: each of them can be proved to be   *)
(* in it, although its leaf may have been stored between two pages.        *)
InputsAreInTheTree ==
    pc = "assembled" /\ ~Ties(leaves) =>
        \A k \in DOMAIN picked : notes[picked[k]].leaf \in 0 .. Len(Tree) - 1

(* witness.go: all inputs share one token. The code's queries ask for the  *)
(* owner's notes of any token, and the inputs may be of another one.       *)
InputsShareTheToken ==
    pc = "assembled" => \A k \in DOMAIN picked : notes[picked[k]].token = Token

(* The selection ends, although notes keep arriving while it runs.         *)
SelectionEnds == <>(pc \notin Selecting)

=============================================================================

-------------------------- MODULE ProverCacheProofs --------------------------
(***************************************************************************)
(* Theorems about ProverCache, for every set of calls and circuits.        *)
(***************************************************************************)
EXTENDS ProverCache, TLAPS

(* Who is inside load; and whose calculator call c may not overwrite.      *)
InLoad(c)   == pc[c] \in {"lookup", "read", "build"}
Building(c) == pc[c] \in {"read", "build"}

MineType == mine \in [Calls -> [calc : Calls \cup {Nobody}, zkey : Circuits \cup {Nobody}]]

(* What is cached is a calculator of the circuit, with its key.            *)
CacheInv ==
    \A k \in Circuits : calcs[k] # Nobody => CircuitOf[calcs[k]] = k /\ zkeys[k] = k

(* Who found the cache empty finds it empty until it has filled it.        *)
EmptyInv == \A c \in Calls : Building(c) => calcs[CircuitOf[c]] = Nobody

(* What a call works with is what the cache has.                           *)
MineInv ==
    /\ OneCalculatorPerCircuit
    /\ \A c \in Calls : mine[c].calc # Nobody => mine[c].zkey = CircuitOf[c]
    /\ \A c \in Calls : pc[c] \in {"loaded", "computing"} => mine[c].calc # Nobody

IndInv == TypeOK /\ MineType /\ CacheInv /\ EmptyInv /\ MineInv

(* Every call is for a circuit.                                            *)
LEMMA CircuitOfCall == \A c \in Calls : CircuitOf[c] \in Circuits
    BY DEF Circuits

(* A call that leaves load frees the mutex, which nobody else can hold.    *)
LEMMA UnlockFrees ==
    ASSUME TypeOK, NEW c \in Calls, InLoad(c), Unlock(c),
           NEW step \in {"loaded", "failed"}, pc' = [pc EXCEPT ![c] = step]
    PROVE  /\ \A d \in Calls : mu' = d <=> InLoad(d)'
           /\ pc' \in [Calls -> {"start", "lookup", "read", "build", "loaded", "computing",
                                 "proved", "failed"}]
<1>1. mu = c
    BY DEF TypeOK, InLoad
<1>2. mu' = Nobody
    BY <1>1 DEF Unlock
<1>3. \A d \in Calls : mu' # d
    BY <1>2, ProverCacheAssumption
<1>4. ASSUME NEW d \in Calls PROVE ~InLoad(d)'
    BY <1>1 DEF TypeOK, InLoad
<1> QED
    BY <1>3, <1>4 DEF TypeOK

LEMMA InitEstablishesInvariant == Init => IndInv
    BY CircuitOfCall, ProverCacheAssumption
    DEF Init, IndInv, TypeOK, MineType, CacheInv, EmptyInv, MineInv, OneCalculatorPerCircuit,
        Building, Nothing

LEMMA LockKeepsInvariant == ASSUME IndInv, NEW c \in Calls, Lock(c) PROVE IndInv'
<1> USE DEF Lock, IndInv
<1>1. TypeOK'
    BY ProverCacheAssumption DEF TypeOK
<1>2. MineType' /\ CacheInv' /\ EmptyInv' /\ MineInv'
    BY DEF TypeOK, MineType, CacheInv, EmptyInv, MineInv, OneCalculatorPerCircuit, Building
<1> QED
    BY <1>1, <1>2

LEMMA LookUpKeepsInvariant == ASSUME IndInv, NEW c \in Calls, LookUp(c) PROVE IndInv'
<1> DEFINE k == CircuitOf[c]
<1>1. k \in Circuits
    BY CircuitOfCall
<1>2. CASE calcs[k] # Nobody
    <2>1. /\ mine' = [mine EXCEPT ![c] = [calc |-> calcs[k], zkey |-> zkeys[k]]]
          /\ pc' = [pc EXCEPT ![c] = "loaded"] /\ Unlock(c)
          /\ UNCHANGED <<files, calcs, zkeys>>
        BY <1>2 DEF LookUp
    <2>2. InLoad(c)
        BY DEF LookUp, InLoad
    <2>3. TypeOK'
        BY <2>1, <2>2, UnlockFrees DEF IndInv, TypeOK, InLoad
    <2>4. zkeys[k] = k /\ mine'[c].calc = calcs[k] /\ mine'[c].zkey = k
        BY <1>1, <1>2, <2>1 DEF IndInv, CacheInv, MineType
    <2>5. MineType'
        BY <1>1, <2>1 DEF IndInv, TypeOK, MineType
    <2>6. CacheInv' /\ EmptyInv'
        BY <2>1 DEF IndInv, CacheInv, EmptyInv, Building, TypeOK
    <2>7. \A d \in Calls \ {c} : mine'[d] = mine[d] /\ pc'[d] = pc[d]
        BY <2>1 DEF IndInv, MineType, TypeOK
    <2>8. MineInv'
        BY <1>2, <2>1, <2>4, <2>7 DEF IndInv, MineInv, OneCalculatorPerCircuit
    <2> QED
        BY <2>3, <2>5, <2>6, <2>8 DEF IndInv
<1>3. CASE calcs[k] = Nobody
    <2>1. /\ pc' = [pc EXCEPT ![c] = "read"] /\ UNCHANGED <<files, calcs, zkeys, mine, mu>>
          /\ pc[c] = "lookup"
        BY <1>3 DEF LookUp
    <2>2. TypeOK' /\ MineType' /\ CacheInv'
        BY <2>1 DEF IndInv, TypeOK, MineType, CacheInv
    <2>3. EmptyInv' /\ MineInv'
        BY <1>3, <2>1 DEF IndInv, TypeOK, EmptyInv, Building, MineInv, OneCalculatorPerCircuit
    <2> QED
        BY <2>2, <2>3 DEF IndInv
<1> QED
    BY <1>2, <1>3

LEMMA ReadFilesKeepsInvariant == ASSUME IndInv, NEW c \in Calls, ReadFiles(c) PROVE IndInv'
<1>1. /\ pc[c] = "read" /\ InLoad(c)
      /\ UNCHANGED <<files, calcs, zkeys, mine>>
      /\ \/ pc' = [pc EXCEPT ![c] = "build"] /\ UNCHANGED mu
         \/ pc' = [pc EXCEPT ![c] = "failed"] /\ Unlock(c)
    BY DEF ReadFiles, InLoad
<1>2. CASE pc' = [pc EXCEPT ![c] = "build"] /\ UNCHANGED mu
    BY <1>1, <1>2 DEF IndInv, TypeOK, MineType, CacheInv, EmptyInv, MineInv, Building,
                      OneCalculatorPerCircuit
<1>3. CASE pc' = [pc EXCEPT ![c] = "failed"] /\ Unlock(c)
    <2>1. TypeOK'
        BY <1>1, <1>3, UnlockFrees DEF IndInv, TypeOK, InLoad
    <2>2. MineType' /\ CacheInv' /\ EmptyInv' /\ MineInv'
        BY <1>1, <1>3 DEF IndInv, TypeOK, MineType, CacheInv, EmptyInv, MineInv, Building,
                          OneCalculatorPerCircuit
    <2> QED
        BY <2>1, <2>2 DEF IndInv
<1> QED
    BY <1>1, <1>2, <1>3

(* The step that needs the mutex: nobody works with another calculator of  *)
(* the circuit, and nobody else is about to make one.                      *)
LEMMA BuildKeepsInvariant == ASSUME IndInv, NEW c \in Calls, Build(c) PROVE IndInv'
<1> DEFINE k == CircuitOf[c]
<1>1. k \in Circuits
    BY CircuitOfCall
<1>2. /\ calcs' = [calcs EXCEPT ![k] = c] /\ zkeys' = [zkeys EXCEPT ![k] = k]
      /\ mine' = [mine EXCEPT ![c] = [calc |-> c, zkey |-> k]]
      /\ pc' = [pc EXCEPT ![c] = "loaded"] /\ Unlock(c)
      /\ pc[c] = "build" /\ UNCHANGED files
    BY DEF Build
<1>3. InLoad(c) /\ calcs[k] = Nobody
    BY <1>2 DEF InLoad, IndInv, EmptyInv, Building
<1>4. TypeOK'
    BY <1>1, <1>2, <1>3, UnlockFrees DEF IndInv, TypeOK, InLoad
<1>5. MineType'
    BY <1>1, <1>2 DEF IndInv, MineType
<1>6. CacheInv'
    BY <1>1, <1>2 DEF IndInv, CacheInv, TypeOK
<1>7. \A d \in Calls \ {c} : ~Building(d) /\ pc'[d] = pc[d] /\ mine'[d] = mine[d]
    BY <1>2 DEF IndInv, TypeOK, MineType, Building
<1>8. EmptyInv'
    BY <1>2, <1>7 DEF IndInv, TypeOK, EmptyInv, Building
<1>9. \A d \in Calls \ {c} : mine[d].calc # Nobody => CircuitOf[d] # k
    BY <1>3 DEF IndInv, MineInv, OneCalculatorPerCircuit
<1>10. mine'[c].calc = c /\ mine'[c].zkey = k /\ calcs'[k] = c /\ c # Nobody
    BY <1>1, <1>2, ProverCacheAssumption DEF IndInv, MineType, TypeOK
<1>11. \A d \in Calls : CircuitOf[d] # k => calcs'[CircuitOf[d]] = calcs[CircuitOf[d]]
    BY <1>2, CircuitOfCall DEF IndInv, TypeOK
<1>12. MineInv'
    BY <1>7, <1>9, <1>10, <1>11 DEF IndInv, MineInv, OneCalculatorPerCircuit
<1> QED
    BY <1>4, <1>5, <1>6, <1>8, <1>12 DEF IndInv

LEMMA WitnessKeepsInvariant ==
    ASSUME IndInv, NEW c \in Calls, SetInputs(c) \/ ComputeWitness(c) PROVE IndInv'
<1>1. /\ UNCHANGED <<files, mu, calcs, zkeys, mine>>
      /\ \/ pc[c] = "loaded" /\ pc' = [pc EXCEPT ![c] = "computing"]
         \/ pc[c] = "computing" /\ pc' = [pc EXCEPT ![c] = "proved"]
    BY DEF SetInputs, ComputeWitness
<1> QED
    BY <1>1 DEF IndInv, TypeOK, MineType, CacheInv, EmptyInv, MineInv, Building,
                OneCalculatorPerCircuit

LEMMA NextKeepsInvariant == IndInv /\ [Next]_vars => IndInv'
<1> SUFFICES ASSUME IndInv, [Next]_vars PROVE IndInv'
    OBVIOUS
<1>1. ASSUME NEW k \in Circuits, Install(k) PROVE IndInv'
    <2>1. /\ files' \in [Circuits -> SUBSET {"wasm", "zkey"}]
          /\ UNCHANGED <<mu, calcs, zkeys, pc, mine>>
        BY <1>1 DEF Install, IndInv, TypeOK
    <2> QED
        BY <2>1 DEF IndInv, TypeOK, MineType, CacheInv, EmptyInv, MineInv, Building,
                    OneCalculatorPerCircuit
<1>2. ASSUME NEW c \in Calls, Prove(c) PROVE IndInv'
    BY <1>2, LockKeepsInvariant, LookUpKeepsInvariant, ReadFilesKeepsInvariant,
       BuildKeepsInvariant, WitnessKeepsInvariant DEF Prove
<1>3. CASE UNCHANGED vars
    BY <1>3 DEF vars, IndInv, TypeOK, MineType, CacheInv, EmptyInv, MineInv, Building,
                OneCalculatorPerCircuit
<1> QED
    BY <1>1, <1>2, <1>3 DEF Next

(* Every variable keeps its type, and the mutex of load is held by whoever *)
(* is inside load and by nobody else: no path out of it forgets to unlock. *)
THEOREM TypeCorrect == Spec => []TypeOK
<1>1. IndInv => TypeOK
    BY DEF IndInv
<1> QED
    BY <1>1, InitEstablishesInvariant, NextKeepsInvariant, PTL DEF Spec

(* A circuit is loaded once, however many calls ask for it and however     *)
(* they interleave: Prover.load holds its mutex throughout.                *)
THEOREM OneCalculatorTheorem == Spec => []OneCalculatorPerCircuit
<1>1. IndInv => OneCalculatorPerCircuit
    BY DEF IndInv, MineInv
<1> QED
    BY <1>1, InitEstablishesInvariant, NextKeepsInvariant, PTL DEF Spec

(* No call proves with half a circuit or another's, whatever files were    *)
(* missing when others tried: Prover.load caches only what is complete.    *)
THEOREM LoadedIsCompleteTheorem == Spec => []LoadedIsComplete
<1>1. ASSUME IndInv, NEW c \in Calls, pc[c] \in {"loaded", "computing"}
      PROVE  CircuitOf[mine[c].calc] = CircuitOf[c] /\ mine[c].zkey = CircuitOf[c]
    <2>1. mine[c].calc # Nobody /\ mine[c].calc = calcs[CircuitOf[c]]
        BY <1>1 DEF IndInv, MineInv, OneCalculatorPerCircuit
    <2> QED
        BY <1>1, <2>1, CircuitOfCall DEF IndInv, MineInv, CacheInv
<1>2. IndInv => LoadedIsComplete
    BY <1>1 DEF LoadedIsComplete
<1> QED
    BY <1>2, InitEstablishesInvariant, NextKeepsInvariant, PTL DEF Spec

=============================================================================

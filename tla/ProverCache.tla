----------------------------- MODULE ProverCache -----------------------------
(***************************************************************************)
(* The prover of a domain (railgunprover/prover.go) under concurrent Sign  *)
(* requests: circuits are loaded from disk under a mutex and cached, and   *)
(* the proof is made outside of it with what the cache returned. The files *)
(* of a circuit are put in place while the domain is running.              *)
(*                                                                         *)
(* A calculator (external) is an instance of the circuit's WASM program:   *)
(* it is given the inputs, keeps them in its memory and computes the       *)
(* witness from there.                                                     *)
(***************************************************************************)
EXTENDS Naturals, FiniteSets

CONSTANTS
    Calls,          \* calls of Prove
    CircuitOf,      \* the circuit each of them is for
    Nobody          \* holder of a free mutex; nothing in a cache

Circuits == {CircuitOf[c] : c \in Calls}

ASSUME ProverCacheAssumption == Nobody \notin Calls

VARIABLES
    files,          \* per circuit: which of its files are on disk
    mu,             \* who holds the mutex
    calcs, zkeys,   \* the caches: who built the calculator, and the key
    pc,             \* where each call is
    mine,           \* the calculator and the key each call works with
    memory,         \* per calculator: whose inputs it holds
    witness         \* per call: whose inputs its witness was computed from

vars == <<files, mu, calcs, zkeys, pc, mine, memory, witness>>

Nothing == [calc |-> Nobody, zkey |-> Nobody]

-----------------------------------------------------------------------------
(* The operator of the node installs circuits, one file after the other.   *)
Install(k) ==
    /\ \E file \in {"wasm", "zkey"} \ files[k] : files' = [files EXCEPT ![k] = @ \cup {file}]
    /\ UNCHANGED <<mu, calcs, zkeys, pc, mine, memory, witness>>

-----------------------------------------------------------------------------
(* load *)

(* Bug, as all operators named X_Y: the mutex is forgotten.                *)
Lock_NoMutex(c) ==
    /\ pc[c] = "start"
    /\ pc' = [pc EXCEPT ![c] = "lookup"]
    /\ UNCHANGED <<files, mu, calcs, zkeys, mine, memory, witness>>

Lock(c) ==
    /\ pc[c] = "start" /\ mu = Nobody
    /\ mu' = c
    /\ pc' = [pc EXCEPT ![c] = "lookup"]
    /\ UNCHANGED <<files, calcs, zkeys, mine, memory, witness>>

(* The mutex is given back however load ends.                              *)
Unlock(c) == mu' = IF mu = c THEN Nobody ELSE mu

LookUp(c) ==
    LET k == CircuitOf[c]
    IN  /\ pc[c] = "lookup"
        /\ IF calcs[k] # Nobody
           THEN /\ mine' = [mine EXCEPT ![c] = [calc |-> calcs[k], zkey |-> zkeys[k]]]
                /\ pc' = [pc EXCEPT ![c] = "loaded"]
                /\ Unlock(c)
           ELSE pc' = [pc EXCEPT ![c] = "read"] /\ UNCHANGED <<mine, mu>>
        /\ UNCHANGED <<files, calcs, zkeys, memory, witness>>

(* Bug: the error path leaves without giving the mutex back.               *)
ReadFiles_KeepsMutex(c) ==
    /\ pc[c] = "read"
    /\ pc' = [pc EXCEPT ![c] = IF files[CircuitOf[c]] = {"wasm", "zkey"} THEN "build" ELSE "failed"]
    /\ UNCHANGED <<files, mu, calcs, zkeys, mine, memory, witness>>

(* Bug: the calculator is cached before the key is known to be there.      *)
ReadFiles_CachesCalculator(c) ==
    LET k == CircuitOf[c]
    IN  /\ pc[c] = "read"
        /\ calcs' = IF "wasm" \in files[k] THEN [calcs EXCEPT ![k] = c] ELSE calcs
        /\ IF files[k] = {"wasm", "zkey"}
           THEN pc' = [pc EXCEPT ![c] = "build"] /\ UNCHANGED mu
           ELSE pc' = [pc EXCEPT ![c] = "failed"] /\ Unlock(c)
        /\ UNCHANGED <<files, zkeys, mine, memory, witness>>

ReadFiles(c) ==
    /\ pc[c] = "read"
    /\ IF files[CircuitOf[c]] = {"wasm", "zkey"}
       THEN pc' = [pc EXCEPT ![c] = "build"] /\ UNCHANGED mu
       ELSE pc' = [pc EXCEPT ![c] = "failed"] /\ Unlock(c)
    /\ UNCHANGED <<files, calcs, zkeys, mine, memory, witness>>

Build(c) ==
    LET k == CircuitOf[c]
    IN  /\ pc[c] = "build"
        /\ calcs' = [calcs EXCEPT ![k] = c]
        /\ zkeys' = [zkeys EXCEPT ![k] = k]
        /\ mine' = [mine EXCEPT ![c] = [calc |-> c, zkey |-> k]]
        /\ pc' = [pc EXCEPT ![c] = "loaded"]
        /\ Unlock(c)
        /\ UNCHANGED <<files, memory, witness>>

-----------------------------------------------------------------------------
(* The rest of Prove: the two halves of CalculateWTNSBin, and the proof.   *)

SetInputs(c) ==
    /\ pc[c] = "loaded"
    /\ memory' = [memory EXCEPT ![mine[c].calc] = c]
    /\ pc' = [pc EXCEPT ![c] = "computing"]
    /\ UNCHANGED <<files, mu, calcs, zkeys, mine, witness>>

ComputeWitness(c) ==
    /\ pc[c] = "computing"
    /\ witness' = [witness EXCEPT ![c] = memory[mine[c].calc]]
    /\ pc' = [pc EXCEPT ![c] = "proved"]
    /\ UNCHANGED <<files, mu, calcs, zkeys, mine, memory>>

-----------------------------------------------------------------------------
Init ==
    /\ files = [k \in Circuits |-> {}]
    /\ mu = Nobody
    /\ calcs = [k \in Circuits |-> Nobody] /\ zkeys = [k \in Circuits |-> Nobody]
    /\ pc = [c \in Calls |-> "start"]
    /\ mine = [c \in Calls |-> Nothing]
    /\ memory = [c \in Calls |-> Nobody]
    /\ witness = [c \in Calls |-> Nobody]

Prove(c) ==
    \/ Lock(c) \/ LookUp(c) \/ ReadFiles(c) \/ Build(c)
    \/ SetInputs(c) \/ ComputeWitness(c)

Next == (\E k \in Circuits : Install(k)) \/ (\E c \in Calls : Prove(c))

Spec == Init /\ [][Next]_vars

(* A goroutine that can run runs; nobody has to install a circuit.         *)
FairSpec == Spec /\ \A c \in Calls : WF_vars(Prove(c))

-----------------------------------------------------------------------------
(* Properties *)

(* The type of the state; the mutex is held exactly within load.           *)
TypeOK ==
    /\ files \in [Circuits -> SUBSET {"wasm", "zkey"}]
    /\ calcs \in [Circuits -> Calls \cup {Nobody}]
    /\ zkeys \in [Circuits -> Circuits \cup {Nobody}]
    /\ pc \in [Calls -> {"start", "lookup", "read", "build", "loaded", "computing",
                         "proved", "failed"}]
    /\ \A c \in Calls : mu = c <=> pc[c] \in {"lookup", "read", "build"}

(* A circuit is loaded once, however many calls ask for it at a time: all  *)
(* of them get the calculator of the cache.                                *)
OneCalculatorPerCircuit ==
    \A c \in Calls : mine[c].calc # Nobody => mine[c].calc = calcs[CircuitOf[c]]

(* What a call gets is complete and of its circuit: an attempt that failed *)
(* half way leaves nothing behind for the next.                            *)
LoadedIsComplete ==
    \A c \in Calls : pc[c] \in {"loaded", "computing"} =>
        /\ CircuitOf[mine[c].calc] = CircuitOf[c]
        /\ mine[c].zkey = CircuitOf[c]

(* Every call ends, those that come after one that failed included.        *)
CallsEnd == \A c \in Calls : <>(pc[c] \in {"proved", "failed"})

(* prover.go: Prove calculates the witness for the given circuit inputs.   *)
WitnessOfOwnInputs == \A c \in Calls : pc[c] = "proved" => witness[c] = c

=============================================================================

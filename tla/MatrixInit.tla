----------------------------- MODULE MatrixInit -----------------------------
(***************************************************************************)
(* The process-wide initialisation of the matrix library                   *)
(* (src/matrix/sparse_matrix.cpp, init_flash_matrix and                    *)
(* destroy_flash_matrix): an atomic counter init_count decides which       *)
(* caller initialises the I/O system and which one destroys it.            *)
(*                                                                         *)
(* Each thread of Threads is a user of the library that, up to Rounds      *)
(* times, calls init_flash_matrix, uses the library once it has returned,  *)
(* and calls destroy_flash_matrix.  A failed init_io_system throws to the  *)
(* caller, which then does not call destroy_flash_matrix.  The fetch_add,  *)
(* the initialisation, the fetch_sub and the destruction are separate      *)
(* steps: only the counter is atomic.                                      *)
(***************************************************************************)
EXTENDS Naturals, FiniteSets

CONSTANTS
  Threads,   \* the threads that use the matrix library
  Rounds,    \* how many init/destroy pairs each thread performs
  CanFail    \* TRUE iff safs::init_io_system may throw

ASSUME MatrixInitAssumption ==
  /\ IsFiniteSet(Threads)
  /\ Rounds \in Nat
  /\ CanFail \in BOOLEAN

VARIABLES
  init_count,  \* the static std::atomic<size_t> init_count
  io,          \* the SAFS I/O system: "down" or "up"
  pc,          \* per thread: "idle", "init" (first caller, initialising),
               \* "ready" (init_flash_matrix returned), "destroy" (its
               \* fetch_sub returned 1), "done", "failed" (init threw)
  rounds       \* per thread: init/destroy pairs started

vars == <<init_count, io, pc, rounds>>

Init ==
  /\ init_count = 0
  /\ io = "down"
  /\ pc = [t \in Threads |-> "idle"]
  /\ rounds = [t \in Threads |-> 0]

(* init_flash_matrix: fetch_add(1); the caller that saw 0 goes on to       *)
(* initialise, every other caller returns at once.                         *)
FetchAdd(t) ==
  /\ pc[t] = "idle"
  /\ rounds[t] < Rounds
  /\ init_count' = init_count + 1
  /\ pc' = [pc EXCEPT ![t] = IF init_count = 0 THEN "init" ELSE "ready"]
  /\ rounds' = [rounds EXCEPT ![t] = @ + 1]
  /\ UNCHANGED io

(* matrix_conf.init and a successful safs::init_io_system.                 *)
InitIO(t) ==
  /\ pc[t] = "init"
  /\ io' = "up"
  /\ pc' = [pc EXCEPT ![t] = "ready"]
  /\ UNCHANGED <<init_count, rounds>>

(* Mutant: the catch block forgets init_count--.                          *)
InitIOFailNoDec(t) ==
  /\ CanFail /\ pc[t] = "init"
  /\ pc' = [pc EXCEPT ![t] = "failed"]
  /\ UNCHANGED <<init_count, io, rounds>>

(* Mutant: the exception is swallowed and init_flash_matrix returns.       *)
InitIOFailSwallowed(t) ==
  /\ CanFail /\ pc[t] = "init"
  /\ init_count' = init_count - 1
  /\ pc' = [pc EXCEPT ![t] = "ready"]
  /\ UNCHANGED <<io, rounds>>

(* safs::init_io_system throws: init_count-- and rethrow to the caller.    *)
InitIOFail(t) ==
  /\ CanFail
  /\ pc[t] = "init"
  /\ init_count' = init_count - 1
  /\ pc' = [pc EXCEPT ![t] = "failed"]
  /\ UNCHANGED <<io, rounds>>

(* Mutant: the destroyer is the caller whose fetch_sub returned 0.          *)
FetchSubZero(t) ==
  /\ pc[t] = "ready"
  /\ init_count' = init_count - 1
  /\ pc' = [pc EXCEPT ![t] = IF init_count = 0 THEN "destroy" ELSE "done"]
  /\ UNCHANGED <<io, rounds>>

(* destroy_flash_matrix: fetch_sub(1); the caller that saw 1 destroys.     *)
FetchSub(t) ==
  /\ pc[t] = "ready"
  /\ init_count' = init_count - 1
  /\ pc' = [pc EXCEPT ![t] = IF init_count = 1 THEN "destroy" ELSE "done"]
  /\ UNCHANGED <<io, rounds>>

(* safs::destroy_io_system.                                                *)
DestroyIO(t) ==
  /\ pc[t] = "destroy"
  /\ io' = "down"
  /\ pc' = [pc EXCEPT ![t] = "done"]
  /\ UNCHANGED <<init_count, rounds>>

(* The library user goes on to its next init/destroy pair.                 *)
Again(t) ==
  /\ pc[t] \in {"done", "failed"}
  /\ rounds[t] < Rounds
  /\ pc' = [pc EXCEPT ![t] = "idle"]
  /\ UNCHANGED <<init_count, io, rounds>>

Thread(t) ==
  \/ FetchAdd(t)
  \/ InitIO(t)
  \/ InitIOFail(t)
  \/ FetchSub(t)
  \/ DestroyIO(t)
  \/ Again(t)

Next == \E t \in Threads : Thread(t)

(* Every thread keeps running until it has done its rounds.                *)
Spec == Init /\ [][Next]_vars /\ \A t \in Threads : WF_vars(Thread(t))

-----------------------------------------------------------------------------
(* Properties.                                                             *)

TypeOK ==
  /\ init_count \in Nat
  /\ io \in {"down", "up"}
  /\ pc \in [Threads -> {"idle", "init", "ready", "destroy", "done", "failed"}]
  /\ rounds \in [Threads -> 0 .. Rounds]

(* The callers counted in init_count.                                      *)
Inside == {t \in Threads : pc[t] \in {"init", "ready"}}

(* init_count counts exactly the callers between their fetch_add and their *)
(* fetch_sub, less those whose initialisation threw: the decrement in the  *)
(* catch block keeps the counter balanced.                                 *)
CountAccount == init_count = Cardinality(Inside)

(* When every user has finished, the I/O system is down and the counter is *)
(* back to 0: nothing leaks, whatever the interleaving of the pairs.       *)
NoLeak ==
  (\A t \in Threads : pc[t] \in {"done", "failed"} /\ rounds[t] = Rounds) =>
    init_count = 0 /\ io = "down"

(* The spec: init_flash_matrix is a reference-counted initialisation, so   *)
(* once it returns the I/O system is up for the caller to use.             *)
ReadyMeansUp == \A t \in Threads : pc[t] = "ready" => io = "up"

=============================================================================

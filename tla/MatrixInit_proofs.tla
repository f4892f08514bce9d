-------------------------- MODULE MatrixInit_proofs --------------------------
(***************************************************************************)
(* Proofs about the init_count reference count of the matrix library       *)
(* (MatrixInit), for any finite set of threads and any number of rounds.   *)
(***************************************************************************)
EXTENDS MatrixInit, FiniteSetTheorems, TLAPS

(* The type invariant and the count are inductive together: a decrement    *)
(* happens only for a caller counted in Inside, so the count stays >= 0.  *)
IInv == TypeOK /\ CountAccount

(* Adding a caller that is not yet counted, or removing one that is,       *)
(* changes the number of counted callers by one.                           *)
LEMMA InsideStep ==
  ASSUME NEW S \in SUBSET Threads, NEW t \in Threads
  PROVE  /\ IsFiniteSet(S)
         /\ Cardinality(S) \in Nat
         /\ t \notin S => Cardinality(S \cup {t}) = Cardinality(S) + 1
         /\ t \in S => Cardinality(S \ {t}) = Cardinality(S) - 1
         /\ t \in S => Cardinality(S) >= 1
<1>1. IsFiniteSet(S)
  BY MatrixInitAssumption, FS_Subset
<1>2. Cardinality(S) \in Nat
  BY <1>1, FS_CardinalityType
<1>3. t \in S => Cardinality(S) # 0
  BY <1>1, FS_EmptySet
<1>4. t \notin S => Cardinality(S \cup {t}) = Cardinality(S) + 1
  BY <1>1, FS_AddElement
<1>5. t \in S => Cardinality(S \ {t}) = Cardinality(S) - 1
  BY <1>1, FS_RemoveElement
<1> QED  BY <1>1, <1>2, <1>3, <1>4, <1>5

LEMMA InitIInv == Init => IInv
<1> SUFFICES ASSUME Init PROVE IInv
  OBVIOUS
<1>1. Inside = {}
  BY DEF Init, Inside
<1>2. Cardinality({}) = 0
  BY FS_EmptySet
<1> QED  BY <1>1, <1>2, MatrixInitAssumption DEF Init, IInv, TypeOK, CountAccount

LEMMA NextIInv == IInv /\ [Next]_vars => IInv'
<1> SUFFICES ASSUME IInv, [Next]_vars PROVE IInv'
  OBVIOUS
<1> USE DEF IInv, TypeOK, CountAccount
<1>1. Inside \in SUBSET Threads
  BY DEF Inside
<1>2. ASSUME NEW t \in Threads, FetchAdd(t) PROVE IInv'
  <2>1. t \notin Inside /\ Inside' = Inside \cup {t}
    BY <1>2 DEF FetchAdd, Inside
  <2>2. Cardinality(Inside') = Cardinality(Inside) + 1
    BY <1>1, <2>1, InsideStep
  <2>3. rounds' \in [Threads -> 0 .. Rounds]
    BY <1>2, MatrixInitAssumption DEF FetchAdd
  <2> QED  BY <1>2, <2>2, <2>3 DEF FetchAdd
<1>3. ASSUME NEW t \in Threads, InitIO(t) PROVE IInv'
  <2>1. Inside' = Inside
    BY <1>3 DEF InitIO, Inside
  <2> QED  BY <1>3, <2>1 DEF InitIO
<1>4. ASSUME NEW t \in Threads, InitIOFail(t) PROVE IInv'
  <2>1. t \in Inside /\ Inside' = Inside \ {t}
    BY <1>4 DEF InitIOFail, Inside
  <2> QED  BY <1>4, <1>1, <2>1, InsideStep DEF InitIOFail
<1>5. ASSUME NEW t \in Threads, FetchSub(t) PROVE IInv'
  <2>1. t \in Inside /\ Inside' = Inside \ {t}
    BY <1>5 DEF FetchSub, Inside
  <2> QED  BY <1>5, <1>1, <2>1, InsideStep DEF FetchSub
<1>6. ASSUME NEW t \in Threads, DestroyIO(t) PROVE IInv'
  <2>1. Inside' = Inside
    BY <1>6 DEF DestroyIO, Inside
  <2> QED  BY <1>6, <2>1 DEF DestroyIO
<1>7. ASSUME NEW t \in Threads, Again(t) PROVE IInv'
  <2>1. Inside' = Inside
    BY <1>7 DEF Again, Inside
  <2> QED  BY <1>7, <2>1 DEF Again
<1>8. CASE UNCHANGED vars
  <2>1. Inside' = Inside
    BY <1>8 DEF vars, Inside
  <2> QED  BY <1>8, <2>1 DEF vars
<1> QED  BY <1>2, <1>3, <1>4, <1>5, <1>6, <1>7, <1>8 DEF Next, Thread

(* init_count never underflows: a size_t that wrapped would make the next  *)
(* fetch_add skip the initialisation and the next fetch_sub skip the       *)
(* destruction.                                                            *)
THEOREM TypeCorrect == Spec => []TypeOK
BY InitIInv, NextIInv, PTL DEF Spec, IInv

(* init_count equals the number of callers between their fetch_add and     *)
(* their fetch_sub, less those whose init_io_system threw, for any number   *)
(* of threads and any interleaving.                                        *)
THEOREM CountAccountInvariant == Spec => []CountAccount
BY InitIInv, NextIInv, PTL DEF Spec, IInv

-----------------------------------------------------------------------------
(* Who will bring the I/O system down.  While it is up, some caller still  *)
(* holds a reference or a destroyer is pending; a caller initialising      *)
(* again while it is up finds a destroyer of the previous generation still *)
(* pending; and only one caller initialises at a time.                     *)
UpOwned ==
  io = "up" => \E t \in Threads : pc[t] \in {"ready", "destroy"}
ReinitPending ==
  (io = "up" /\ \E t \in Threads : pc[t] = "init") =>
    \E u \in Threads : pc[u] = "destroy"
OneInit ==
  \A t, u \in Threads : pc[t] = "init" /\ pc[u] = "init" => t = u

LInv == IInv /\ UpOwned /\ ReinitPending /\ OneInit

(* A counted caller is initialising or holds a reference.                  *)
LEMMA InsideMeans ==
  ASSUME IInv
  PROVE  /\ init_count = 0 <=> Inside = {}
         /\ \A t \in Inside : init_count >= 2 => \E u \in Inside : u # t
<1>1. Inside \in SUBSET Threads
  BY DEF Inside
<1>2. IsFiniteSet(Inside) /\ Cardinality(Inside) \in Nat
  BY <1>1, MatrixInitAssumption, FS_Subset, FS_CardinalityType
<1>3. init_count = 0 <=> Inside = {}
  BY <1>2, FS_EmptySet DEF IInv, CountAccount
<1>4. ASSUME NEW t \in Inside, init_count >= 2 PROVE \E u \in Inside : u # t
  <2> SUFFICES ASSUME Inside \subseteq {t} PROVE FALSE
    OBVIOUS
  <2>1. Cardinality(Inside) <= Cardinality({t})
    BY <1>2, FS_Subset, FS_Singleton
  <2>2. Cardinality({t}) = 1
    BY FS_Singleton
  <2> QED  BY <1>4, <2>1, <2>2 DEF IInv, CountAccount
<1> QED  BY <1>3, <1>4

LEMMA InitLInv == Init => LInv
BY InitIInv DEF Init, LInv, UpOwned, ReinitPending, OneInit

LEMMA NextLInv == LInv /\ [Next]_vars => LInv'
<1> SUFFICES ASSUME LInv, [Next]_vars PROVE LInv'
  OBVIOUS
<1>0. IInv'
  BY NextIInv DEF LInv
<1> USE DEF LInv, UpOwned, ReinitPending, OneInit
<1>1. ASSUME NEW t \in Threads, FetchAdd(t) PROVE LInv'
  <2>1. CASE init_count = 0
    <3>1. \A u \in Threads : pc[u] \notin {"init", "ready"}
      BY <2>1, InsideMeans DEF Inside
    <3> QED  BY <1>0, <1>1, <2>1, <3>1 DEF FetchAdd
  <2>3. CASE init_count # 0
    BY <1>0, <1>1, <2>3 DEF FetchAdd
  <2> QED  BY <2>1, <2>3
<1>2. ASSUME NEW t \in Threads, InitIO(t) PROVE LInv'
  <2>1. pc[t] = "init" /\ pc' = [pc EXCEPT ![t] = "ready"] /\ io' = "up"
    BY <1>2 DEF InitIO
  <2>2. \A u \in Threads : pc'[u] # "init"
    BY <2>1 DEF IInv, TypeOK
  <2>3. UpOwned'
    BY <2>1 DEF IInv, TypeOK
  <2> QED  BY <1>0, <2>1, <2>2, <2>3
<1>3. ASSUME NEW t \in Threads, InitIOFail(t) PROVE LInv'
  BY <1>0, <1>3 DEF InitIOFail
<1>4. ASSUME NEW t \in Threads, FetchSub(t) PROVE LInv'
  <2>1. CASE init_count = 1
    BY <1>0, <1>4, <2>1 DEF FetchSub
  <2>2. CASE init_count # 1
    <3>1. t \in Inside /\ init_count >= 2
      BY <1>4, <2>2, InsideMeans DEF FetchSub, Inside, IInv, TypeOK
    <3>2. PICK u \in Inside : u # t
      BY <3>1, InsideMeans
    <3>3. pc'[u] = pc[u] /\ pc[u] \in {"init", "ready"}
      BY <1>4, <3>2 DEF FetchSub, Inside
    <3> QED  BY <1>0, <1>4, <2>2, <3>3 DEF FetchSub, Inside
  <2> QED  BY <2>1, <2>2
<1>5. ASSUME NEW t \in Threads, DestroyIO(t) PROVE LInv'
  BY <1>0, <1>5 DEF DestroyIO
<1>6. ASSUME NEW t \in Threads, Again(t) PROVE LInv'
  BY <1>0, <1>6 DEF Again
<1>7. CASE UNCHANGED vars
  BY <1>0, <1>7 DEF vars
<1> QED  BY <1>1, <1>2, <1>3, <1>4, <1>5, <1>6, <1>7 DEF Next, Thread

(* When every user has finished its init/destroy pairs, init_count is 0 and *)
(* the I/O system is down, for any number of users, rounds and failures.   *)
THEOREM NoLeakInvariant == Spec => []NoLeak
<1>1. LInv => NoLeak
  <2> SUFFICES ASSUME LInv, \A t \in Threads : pc[t] \in {"done", "failed"}
               PROVE  init_count = 0 /\ io = "down"
    BY DEF NoLeak
  <2>1. Inside = {}
    BY DEF Inside
  <2>2. init_count = 0
    BY <2>1, InsideMeans DEF LInv
  <2> QED  BY <2>2 DEF LInv, UpOwned, IInv, TypeOK
<1> QED  BY <1>1, InitLInv, NextLInv, PTL DEF Spec
=============================================================================

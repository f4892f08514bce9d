------------------------- MODULE GlobalPermute_proofs -------------------------
(***************************************************************************)
(* Proofs about global_rand_permute_workload (src/workload.h) when the     *)
(* caller keeps the discipline the unlocked static pointer needs: the main *)
(* thread constructs every workload before the I/O threads start         *)
(* (CtorInMain) and deletes them after joining the threads               *)
(* (DtorAfterJoin).  The violation run global_permute_thread_dtor shows   *)
(* that without it the destructors race.                                  *)
(***************************************************************************)
EXTENDS GlobalPermute, FiniteSetTheorems, TLAPS

Live(o) == heap[o] = "live"

(* The main-thread discipline as an inductive invariant:                   *)
(*  - constructors run one at a time, and while one runs nobody has        *)
(*    passed its constructor and permute is still NULL;                    *)
(*  - before the first Publish no object is allocated but the one being    *)
(*    shuffled;                                                            *)
(*  - a thread reading offsets sees a live permute;                        *)
(*  - destructors run one at a time, after every range is done, and a      *)
(*    non-NULL permute is live except between delete and permute = NULL;   *)
(*  - every live object is permute or the one being shuffled, and permute  *)
(*    stays non-NULL only while some thread has not finished.             *)
IInv ==
  /\ permute \in {NULL} \cup Objs
  /\ heap \in [Objs -> {"unalloc", "live", "freed"}]
  /\ obj \in [Threads -> {NULL} \cup Objs]
  /\ pc \in [Threads -> {"ctor", "new", "shuffle", "ready", "dtor", "delete",
                             "null", "done"}]
  /\ faults = {}
  /\ \A t, u \in Threads :
        pc[t] \in {"new", "shuffle"} /\ pc[u] \in {"new", "shuffle"} => t = u
  /\ \A t \in Threads : pc[t] \in {"new", "shuffle"} =>
        /\ permute = NULL
        /\ \A u \in Threads : pc[u] \in {"ctor", "new", "shuffle"}
  /\ \A t \in Threads : pc[t] = "shuffle" => obj[t] \in Objs /\ Live(obj[t])
  /\ (/\ permute = NULL
      /\ \A u \in Threads : pc[u] \in {"ctor", "new", "shuffle", "ready"})
     => \A o \in Objs : heap[o] = "unalloc"
                        \/ \E u \in Threads : pc[u] = "shuffle" /\ obj[u] = o
  /\ \A t \in Threads : pc[t] = "ready" => permute # NULL /\ Live(permute)
  /\ \A t \in Threads : pc[t] = "ctor" =>
        \A u \in Threads : pc[u] \in {"ctor", "new", "shuffle", "ready"}
  /\ \A t, u \in Threads :
        pc[t] \in {"delete", "null"} /\ pc[u] \in {"delete", "null"} => t = u
  /\ \A t \in Threads : pc[t] \in {"delete", "null"} =>
        \A u \in Threads \ {t} : pc[u] \in {"dtor", "done"}
  /\ \A t \in Threads : pc[t] = "delete" => permute # NULL /\ Live(permute)
  /\ \A t \in Threads : pc[t] = "null" => permute = NULL \/ ~Live(permute)
  /\ permute # NULL =>
        \/ Live(permute)
        \/ \E u \in Threads : pc[u] = "null"
  /\ \A o \in Objs : Live(o) =>
        \/ o = permute
        \/ \E u \in Threads : pc[u] = "shuffle" /\ obj[u] = o
  /\ permute # NULL => \E u \in Threads : pc[u] # "done"

Discipline == CtorInMain /\ DtorAfterJoin

(* A thread exists, so the heap has room for one rand_permute.            *)
LEMMA ObjsNonEmpty ==
  ASSUME NEW t \in Threads
  PROVE  1 \in Objs
<1>1. Cardinality(Threads) \in Nat /\ (Cardinality(Threads) = 0 <=> Threads = {})
  BY GlobalPermuteAssumption, FS_EmptySet, FS_CardinalityType
<1> QED  BY <1>1 DEF Objs

LEMMA InitIInv == Init => IInv
BY DEF Init, IInv, Live, NULL

LEMMA NextIInv ==
  ASSUME Discipline, IInv, [Next]_vars
  PROVE  IInv'
<1> USE DEF Discipline, NULL, Live
<1>1. ASSUME NEW t \in Threads, CtorTest(t) PROVE IInv'
  BY <1>1 DEF CtorTest, IInv
<1>2. ASSUME NEW t \in Threads, CtorNew(t) PROVE IInv'
  <2> DEFINE o == CHOOSE x \in Objs : heap[x] = "unalloc"
  <2>1. \A x \in Objs : heap[x] = "unalloc"
    BY <1>2 DEF CtorNew, IInv
  <2>2. o \in Objs /\ heap[o] = "unalloc"
    BY <2>1, ObjsNonEmpty
  <2> QED  BY <1>2, <2>1, <2>2 DEF CtorNew, IInv
<1>3. ASSUME NEW t \in Threads, Shuffle(t) PROVE IInv'
  BY <1>3 DEF Shuffle, IInv
<1>4. ASSUME NEW t \in Threads, Publish(t) PROVE IInv'
  <2>1. obj[t] \in Objs /\ Live(obj[t]) /\ obj[t] # NULL
    BY <1>4 DEF Publish, IInv, Objs
  <2>2. \A u \in Threads : u # t => pc[u] \in {"ctor", "ready"}
    BY <1>4 DEF Publish, IInv
  <2>3. \A o \in Objs : Live(o) => o = obj[t]
    BY <1>4 DEF Publish, IInv
  <2> QED  BY <1>4, <2>1, <2>2, <2>3 DEF Publish, IInv
<1>5. ASSUME NEW t \in Threads, NextOffset(t) PROVE IInv'
  BY <1>5 DEF NextOffset, IInv
<1>6. ASSUME NEW t \in Threads, Finish(t) PROVE IInv'
  BY <1>6 DEF Finish, IInv, Constructing
<1>7. ASSUME NEW t \in Threads, DtorTest(t) PROVE IInv'
  BY <1>7 DEF DtorTest, IInv, Destroying
<1>8. ASSUME NEW t \in Threads, DtorDelete(t) PROVE IInv'
  BY <1>8 DEF DtorDelete, IInv
<1>9. ASSUME NEW t \in Threads, DtorNull(t) PROVE IInv'
  BY <1>9 DEF DtorNull, IInv
<1>10. CASE UNCHANGED vars
  BY <1>10 DEF vars, IInv
<1> QED  BY <1>1, <1>2, <1>3, <1>4, <1>5, <1>6, <1>7, <1>8, <1>9, <1>10
         DEF Next, Thread

(* The invariant holds in every reachable state of a caller that keeps the *)
(* discipline.                                                             *)
LEMMA IInvHolds == Discipline => (Spec => []IInv)
<1> SUFFICES ASSUME Discipline PROVE Spec => []IInv
  OBVIOUS
<1>1. Init => IInv
  BY InitIInv
<1>2. IInv /\ [Next]_vars => IInv'
  BY NextIInv
<1> QED  BY <1>1, <1>2, PTL DEF Spec

(* When the main thread constructs the workloads before the I/O threads   *)
(* start and deletes them after joining them, no next_offset dereferences *)
(* a NULL or freed permute and ~global_rand_permute_workload never deletes *)
(* it twice, for any number of threads, pages and ranges.                  *)
THEOREM MemorySafeMain == Discipline => (Spec => []MemorySafe)
<1>1. IInv => MemorySafe
  BY DEF IInv, MemorySafe
<1> QED  BY <1>1, IInvHolds, PTL

(* Under the same discipline the one rand_permute is deleted: once every   *)
(* workload is destroyed no object is left live.                           *)
THEOREM NoLeakMain == Discipline => (Spec => []NoLeak)
<1>1. IInv => NoLeak
  <2> SUFFICES ASSUME IInv, AllDone, NEW o \in Objs, Live(o) PROVE FALSE
    BY DEF NoLeak, Live
  <2>1. permute = NULL
    BY DEF IInv, AllDone
  <2>2. o # NULL
    BY DEF Objs, NULL
  <2> QED  BY <2>1, <2>2 DEF IInv, AllDone
<1> QED  BY <1>1, IInvHolds, PTL
-----------------------------------------------------------------------------
(* The pages of thread t's workload, [start, end), and those it has read.  *)
Pages(t) == {k \in Slots : Bounds[t][1] <= k /\ k < Bounds[t][2]}
Read(t)  == {k \in Slots : Bounds[t][1] <= k /\ k < cur[t]}

(* The workloads' ranges partition the pages.                              *)
Partition ==
  /\ \A t, u \in Threads : t # u => Pages(t) \cap Pages(u) = {}
  /\ \A k \in Slots : \E t \in Threads : k \in Pages(t)

(* offset[] holds a permutation of the pages.                              *)
IsPerm(f) ==
  /\ f \in [Slots -> Slots]
  /\ \A k1, k2 \in Slots : f[k1] = f[k2] => k1 = k2
  /\ \A q \in Slots : \E k \in Slots : f[k] = q

(* Offset k of an allocated rand_permute holds page q.                     *)
Holds(k, q) == \E o \in Objs : heap[o] # "unalloc" /\ content[o][k] = q

(* Every object holds a permutation of the pages: the constructor fills   *)
(* offset[] with the identity and its loop only swaps two entries.         *)
PermOK ==
  /\ content \in [Objs -> [Slots -> Slots]]
  /\ \A o \in Objs : IsPerm(content[o])

(* Only one rand_permute is ever allocated; permute, once set, and every   *)
(* thread past its constructor refer to an allocated one.                  *)
OneTable ==
  /\ \A o1, o2 \in Objs : heap[o1] # "unalloc" /\ heap[o2] # "unalloc" => o1 = o2
  /\ permute # NULL => heap[permute] # "unalloc"
  /\ (\E t \in Threads : pc[t] \notin {"ctor", "new"}) =>
        \E o \in Objs : heap[o] # "unalloc"

(* start only grows, and stays in its range; nothing is read while a constructor runs; a thread    *)
(* past its range has read all of it; the shuffle index is a page.         *)
CurOK ==
  /\ cur \in [Threads -> Nat]
  /\ \A t \in Threads : Bounds[t][1] <= cur[t]
  /\ \A t \in Threads : cur[t] <= Bounds[t][2] \/ cur[t] = Bounds[t][1]
  /\ \A t \in Threads : pc[t] \in {"dtor", "delete", "null", "done"} =>
        cur[t] >= Bounds[t][2]
  /\ Constructing # {} => \A t \in Threads : cur[t] = Bounds[t][1]
  /\ shuf \in [Threads -> Int]
  /\ \A t \in Threads : pc[t] = "shuffle" => shuf[t] \in Slots

(* A page has been returned once exactly when some thread has read an      *)
(* offset that holds it, and never otherwise.                              *)
GotOK ==
  /\ got \in [Slots -> Nat]
  /\ \A q \in Slots :
        got[q] = IF \E t \in Threads : \E k \in Read(t) : Holds(k, q)
                 THEN 1 ELSE 0

(* The inductive invariant of the reads.                                   *)
RInv == PermOK /\ OneTable /\ CurOK /\ GotOK


(* The pages and the ranges are natural numbers; an object is not NULL.    *)
LEMMA BoundsType ==
  /\ Num \in Nat \ {0}
  /\ \A t \in Threads : Bounds[t][1] \in Slots /\ Bounds[t][2] \in 0 .. Num
  /\ \A o \in Objs : o \in Nat \ {0}
<1>1. Cardinality(Threads) \in Nat
  BY GlobalPermuteAssumption, FS_CardinalityType
<1> QED  BY <1>1, GlobalPermuteAssumption DEF Objs

(* Swapping two entries of a permutation gives a permutation.              *)
LEMMA SwapPerm ==
  ASSUME NEW f, IsPerm(f), NEW i \in Slots, NEW j \in Slots
  PROVE  IsPerm([f EXCEPT ![j] = f[i], ![i] = f[j]])
<1> DEFINE g == [f EXCEPT ![j] = f[i], ![i] = f[j]]
<1>1. g \in [Slots -> Slots]
  BY DEF IsPerm
<1>2. \A k \in Slots : g[k] = IF k = i THEN f[j] ELSE IF k = j THEN f[i] ELSE f[k]
  BY DEF IsPerm
<1>3. \A k1, k2 \in Slots : g[k1] = g[k2] => k1 = k2
  BY <1>2 DEF IsPerm
<1>4. \A q \in Slots : \E k \in Slots : g[k] = q
  <2> SUFFICES ASSUME NEW q \in Slots PROVE \E k \in Slots : g[k] = q
    OBVIOUS
  <2>1. PICK k \in Slots : f[k] = q
    BY DEF IsPerm
  <2>2. CASE k = i
    BY <1>2, <2>1, <2>2
  <2>3. CASE k = j /\ k # i
    BY <1>2, <2>1, <2>3
  <2>4. CASE k # i /\ k # j
    BY <1>2, <2>1, <2>4
  <2> QED  BY <2>2, <2>3, <2>4
<1> QED  BY <1>1, <1>3, <1>4 DEF IsPerm

(* Before any thread runs, every object holds the identity and nothing has *)
(* been read.                                                              *)
LEMMA InitRInv == Init => RInv
<1> SUFFICES ASSUME Init PROVE RInv
  OBVIOUS
<1>1. PermOK
  BY DEF Init, PermOK, IsPerm
<1>2. OneTable
  BY DEF Init, OneTable, NULL
<1>3. CurOK
  BY BoundsType DEF Init, CurOK, Slots
<1>4. \A t \in Threads : Read(t) = {}
  BY BoundsType DEF Init, Read, Slots
<1>5. GotOK
  BY <1>4 DEF Init, GotOK
<1> QED  BY <1>1, <1>2, <1>3, <1>5 DEF RInv

(* While a constructor runs no thread has read anything, so no page has    *)
(* been returned.                                                          *)
LEMMA NothingRead ==
  ASSUME CurOK, GotOK, Constructing # {}
  PROVE  /\ \A t \in Threads : Read(t) = {}
         /\ \A q \in Slots : got[q] = 0
<1>1. \A t \in Threads : cur[t] = Bounds[t][1]
  BY DEF CurOK
<1>2. \A t \in Threads : Read(t) = {}
  BY <1>1, BoundsType DEF Read, Slots
<1> QED  BY <1>2 DEF GotOK

(* A step that leaves the objects alone keeps them permutations, and one   *)
(* that leaves the objects, the heap, start and the counts alone keeps the *)
(* accounting of the reads.                                                *)
LEMMA PermKeep ==
  ASSUME PermOK, content' = content
  PROVE  PermOK'
BY DEF PermOK, IsPerm

LEMMA GotKeep ==
  ASSUME GotOK, got' = got, content' = content, heap' = heap, cur' = cur
  PROVE  GotOK'
BY DEF GotOK, Read, Holds

(* Every step of a caller with the discipline, on ranges that partition   *)
(* the pages, keeps the invariant of the reads.                            *)
LEMMA NextRInv ==
  ASSUME Discipline, Partition, IInv, RInv, [Next]_vars
  PROVE  RInv'
<1> USE DEF Discipline, NULL, RInv
<1>1. ASSUME NEW t \in Threads, CtorTest(t) PROVE RInv'
  <2>1. /\ pc' = [pc EXCEPT ![t] = IF permute = NULL THEN "new" ELSE "ready"]
        /\ pc[t] = "ctor"
        /\ UNCHANGED <<obj, shuf, permute, heap, content, cur, got>>
    BY <1>1 DEF CtorTest
  <2>2. OneTable'
    <3>1. pc'[t] = "ready" => permute # NULL /\ permute \in Objs
      BY <2>1 DEF IInv
    <3> QED  BY <2>1, <3>1 DEF OneTable, IInv
  <2>3. CurOK'
    <3>1. Constructing' \subseteq Constructing
      BY <2>1 DEF Constructing, IInv
    <3> QED  BY <2>1, <3>1 DEF CurOK, IInv
  <2> QED  BY <2>1, <2>2, <2>3, PermKeep, GotKeep
<1>2. ASSUME NEW t \in Threads, CtorNew(t) PROVE RInv'
  <2> DEFINE o == CHOOSE x \in Objs : heap[x] = "unalloc"
  <2>1. \A x \in Objs : heap[x] = "unalloc"
    BY <1>2 DEF CtorNew, IInv
  <2>2. o \in Objs /\ heap[o] = "unalloc"
    BY <2>1, ObjsNonEmpty
  <2>3. /\ heap' = [heap EXCEPT ![o] = "live"]
        /\ content' = [content EXCEPT ![o] = [p \in Slots |-> p]]
        /\ pc' = [pc EXCEPT ![t] = "shuffle"]
        /\ shuf' = [shuf EXCEPT ![t] = Num - 1]
        /\ pc[t] = "new"
        /\ UNCHANGED <<permute, cur, got>>
    BY <1>2 DEF CtorNew
  <2>4. t \in Constructing /\ t \in Constructing'
    BY <2>3 DEF Constructing, IInv
  <2>5. PermOK'
    <3>1. IsPerm([p \in Slots |-> p])
      BY DEF IsPerm
    <3> QED  BY <2>2, <2>3, <3>1 DEF PermOK
  <2>6. OneTable'
    BY <2>1, <2>2, <2>3 DEF OneTable, IInv
  <2>7. CurOK'
    <3>1. Num - 1 \in Slots
      BY BoundsType DEF Slots
    <3>2. shuf' \in [Threads -> Int]
      BY <2>3, <3>1 DEF CurOK, Slots
    <3>3. \A u \in Threads : pc'[u] = "shuffle" => shuf'[u] \in Slots
      BY <2>3, <3>1 DEF CurOK, IInv
    <3>4. Constructing' # {} => \A u \in Threads : cur'[u] = Bounds[u][1]
      BY <2>3, <2>4 DEF CurOK
    <3>5. \A u \in Threads : pc'[u] \in {"dtor", "delete", "null", "done"} =>
            cur'[u] >= Bounds[u][2]
      BY <2>3 DEF CurOK, IInv
    <3> QED  BY <2>3, <3>2, <3>3, <3>4, <3>5 DEF CurOK
  <2>8. GotOK'
    <3>1. \A u \in Threads : Read(u)' = Read(u)
      BY <2>3 DEF Read
    <3>2. \A u \in Threads : Read(u) = {}
      BY <2>4, NothingRead
    <3>3. \A q \in Slots : got[q] = 0
      BY <2>4, NothingRead
    <3> QED  BY <2>3, <3>1, <3>2, <3>3 DEF GotOK
  <2> QED  BY <2>5, <2>6, <2>7, <2>8
<1>3. ASSUME NEW t \in Threads, Shuffle(t) PROVE RInv'
  <2> DEFINE o == obj[t]  i == shuf[t]
  <2>1. /\ pc[t] = "shuffle" /\ i >= 1
        /\ shuf' = [shuf EXCEPT ![t] = @ - 1]
        /\ UNCHANGED <<permute, heap, obj, pc, cur, got>>
    BY <1>3 DEF Shuffle
  <2>2. o \in Objs /\ i \in Slots
    BY <2>1 DEF IInv, CurOK
  <2>3. PICK j \in 0 .. i - 1 :
          content' = [content EXCEPT ![o][j] = content[o][i], ![o][i] = content[o][j]]
    BY <1>3 DEF Shuffle
  <2>4. j \in Slots
    BY <2>2, BoundsType DEF Slots
  <2>5. PermOK'
    <3>1. content' = [content EXCEPT ![o] = [content[o] EXCEPT ![j] = content[o][i],
                                                               ![i] = content[o][j]]]
      BY <2>2, <2>3, <2>4 DEF PermOK
    <3>2. IsPerm([content[o] EXCEPT ![j] = content[o][i], ![i] = content[o][j]])
      BY <2>2, <2>4, SwapPerm DEF PermOK
    <3>3. content' \in [Objs -> [Slots -> Slots]]
      BY <2>2, <3>1, <3>2 DEF PermOK, IsPerm
    <3>4. \A x \in Objs : IsPerm(content'[x])
      BY <2>2, <3>1, <3>2 DEF PermOK
    <3> QED  BY <3>3, <3>4 DEF PermOK
  <2>6. t \in Constructing /\ Constructing' = Constructing
    BY <2>1 DEF Constructing
  <2>7. CurOK'
    <3>1. shuf'[t] \in Slots
      BY <2>1, <2>2, BoundsType DEF Slots, CurOK
    <3> QED  BY <2>1, <2>6, <3>1 DEF CurOK
  <2>8. GotOK'
    <3>1. \A u \in Threads : Read(u)' = Read(u) /\ Read(u) = {}
      BY <2>1, <2>6, NothingRead DEF Read
    <3>2. \A q \in Slots : got[q] = 0
      BY <2>6, NothingRead
    <3> QED  BY <2>1, <3>1, <3>2 DEF GotOK
  <2> QED  BY <2>1, <2>5, <2>7, <2>8 DEF OneTable
<1>4. ASSUME NEW t \in Threads, Publish(t) PROVE RInv'
  <2>1. /\ pc[t] = "shuffle" /\ permute' = obj[t]
        /\ pc' = [pc EXCEPT ![t] = "ready"]
        /\ UNCHANGED <<heap, content, obj, shuf, cur, got>>
    BY <1>4 DEF Publish
  <2>2. obj[t] \in Objs /\ heap[obj[t]] = "live"
    BY <2>1 DEF IInv, Live
  <2>3. OneTable'
    BY <2>1, <2>2 DEF OneTable
  <2>4. CurOK'
    <3>1. Constructing' \subseteq Constructing
      BY <2>1 DEF Constructing, IInv
    <3> QED  BY <2>1, <3>1 DEF CurOK, IInv
  <2> QED  BY <2>1, <2>3, <2>4, PermKeep, GotKeep
<1>5. ASSUME NEW t \in Threads, NextOffset(t) PROVE RInv'
  <2> DEFINE c == cur[t]  q0 == content[permute][c]
  <2>1. /\ pc[t] = "ready" /\ c < Bounds[t][2] /\ Constructing = {}
        /\ permute \in Objs /\ heap[permute] = "live"
    BY <1>5 DEF NextOffset, IInv, Live
  <2>2. /\ got' = [got EXCEPT ![q0] = @ + 1]
        /\ cur' = [cur EXCEPT ![t] = @ + 1]
        /\ UNCHANGED <<permute, heap, content, pc, shuf>>
    BY <1>5, <2>1 DEF NextOffset, IInv
  <2>3. c \in Pages(t) /\ c \in Slots /\ c \in Nat
    BY <2>1, BoundsType DEF CurOK, Pages, Slots
  <2>4. q0 \in Slots
    BY <2>1, <2>3 DEF PermOK, IsPerm
  <2>5. CurOK'
    <3>1. Constructing' = {}
      BY <2>1, <2>2 DEF Constructing
    <3>2. /\ cur' \in [Threads -> Nat]
          /\ \A u \in Threads : Bounds[u][1] <= cur'[u]
          /\ \A u \in Threads : cur'[u] <= Bounds[u][2] \/ cur'[u] = Bounds[u][1]
      BY <2>1, <2>2, <2>3, BoundsType DEF CurOK, Slots
    <3> QED  BY <2>1, <2>2, <3>1, <3>2 DEF CurOK
  <2>6. Read(t)' = Read(t) \cup {c} /\ \A u \in Threads \ {t} : Read(u)' = Read(u)
    BY <2>2, <2>3, BoundsType DEF Read, CurOK, Slots
  <2>7. ~\E u \in Threads : \E k \in Read(u) : Holds(k, q0)
    <3> SUFFICES ASSUME NEW u \in Threads, NEW k \in Read(u), Holds(k, q0)
                 PROVE  FALSE
      OBVIOUS
    <3>1. PICK o \in Objs : heap[o] # "unalloc" /\ content[o][k] = q0
      BY DEF Holds
    <3>2. o = permute
      BY <2>1, <3>1 DEF OneTable
    <3>3. k \in Slots
      BY DEF Read
    <3>4. k = c
      BY <2>1, <2>3, <3>1, <3>2, <3>3 DEF PermOK, IsPerm
    <3>5. CASE u = t
      BY <3>4, <3>5, <2>3 DEF Read
    <3>6. CASE u # t
      <4>1. k \in Pages(u)
        <5>1. cur[u] \in Nat /\ (cur[u] <= Bounds[u][2] \/ cur[u] = Bounds[u][1])
          BY DEF CurOK
        <5> QED  BY <5>1, BoundsType DEF Read, Pages, Slots
      <4> QED  BY <2>3, <3>4, <3>6, <4>1 DEF Partition
    <3> QED  BY <3>5, <3>6
  <2>8. got[q0] = 0
    BY <2>4, <2>7 DEF GotOK
  <2>9. \A k \in Slots, q \in Slots : Holds(k, q)' = Holds(k, q)
    BY <2>1, <2>2 DEF Holds
  <2>10. ASSUME NEW q \in Slots
         PROVE  got'[q] = IF \E u \in Threads : \E k \in Read(u)' : Holds(k, q)'
                          THEN 1 ELSE 0
    <3>1. CASE q = q0
      <4>1. \E u \in Threads : \E k \in Read(u)' : Holds(k, q)'
        <5>1. c \in Read(t)'
          BY <2>6
        <5>2. Holds(c, q)
          BY <2>1, <2>3, <3>1 DEF Holds
        <5> QED  BY <2>3, <2>9, <5>1, <5>2
      <4>2. got'[q] = 1
        BY <2>2, <2>4, <2>8, <3>1 DEF GotOK
      <4> QED  BY <4>1, <4>2
    <3>2. CASE q # q0
      <4>1. ~Holds(c, q)
        <5>1. SUFFICES ASSUME NEW o \in Objs, heap[o] # "unalloc", content[o][c] = q
                       PROVE  FALSE
          BY DEF Holds
        <5>2. o = permute
          BY <2>1, <5>1 DEF OneTable
        <5> QED  BY <3>2, <5>1, <5>2
      <4>2. (\E u \in Threads : \E k \in Read(u)' : Holds(k, q)')
              <=> \E u \in Threads : \E k \in Read(u) : Holds(k, q)
        BY <2>3, <2>6, <2>9, <4>1 DEF Read
      <4>3. got'[q] = got[q]
        BY <2>2, <2>4, <3>2 DEF GotOK
      <4> QED  BY <4>2, <4>3 DEF GotOK
    <3> QED  BY <3>1, <3>2
  <2>11. got' \in [Slots -> Nat]
    BY <2>2, <2>4 DEF GotOK
  <2>12. GotOK'
    BY <2>10, <2>11 DEF GotOK
  <2>13. OneTable'
    BY <2>2 DEF OneTable
  <2> QED  BY <2>2, <2>5, <2>12, <2>13, PermKeep
<1>6. ASSUME NEW t \in Threads, Finish(t) PROVE RInv'
  <2>1. /\ pc[t] = "ready" /\ cur[t] >= Bounds[t][2]
        /\ pc' = [pc EXCEPT ![t] = "dtor"]
        /\ UNCHANGED <<obj, shuf, permute, heap, content, cur, got>>
    BY <1>6 DEF Finish
  <2>2. Constructing' = Constructing
    BY <2>1 DEF Constructing, IInv
  <2>3. OneTable'
    BY <2>1 DEF OneTable, IInv
  <2>4. CurOK'
    BY <2>1, <2>2 DEF CurOK, IInv
  <2> QED  BY <2>1, <2>3, <2>4, PermKeep, GotKeep
<1>7. ASSUME NEW t \in Threads, DtorTest(t) PROVE RInv'
  <2>1. /\ pc[t] = "dtor"
        /\ pc' = [pc EXCEPT ![t] = IF permute # NULL THEN "delete" ELSE "done"]
        /\ UNCHANGED <<obj, shuf, permute, heap, content, cur, got>>
    BY <1>7 DEF DtorTest
  <2>2. Constructing' = Constructing
    BY <2>1 DEF Constructing, IInv
  <2>3. OneTable'
    BY <2>1 DEF OneTable, IInv
  <2>4. CurOK'
    BY <2>1, <2>2 DEF CurOK, IInv
  <2> QED  BY <2>1, <2>3, <2>4, PermKeep, GotKeep
<1>8. ASSUME NEW t \in Threads, DtorDelete(t) PROVE RInv'
  <2>1. pc[t] = "delete" /\ permute \in Objs /\ heap[permute] = "live"
    BY <1>8 DEF DtorDelete, IInv, Live
  <2>2. /\ heap' = [heap EXCEPT ![permute] = "freed"]
        /\ pc' = [pc EXCEPT ![t] = "null"]
        /\ UNCHANGED <<obj, shuf, permute, content, cur, got>>
    <3>1. permute # 0
      BY <2>1, BoundsType
    <3> QED  BY <1>8, <2>1, <3>1 DEF DtorDelete
  <2>3. \A o \in Objs : (heap'[o] # "unalloc") <=> (heap[o] # "unalloc")
    BY <2>1, <2>2 DEF IInv
  <2>4. OneTable'
    <3>1. \A o1, o2 \in Objs : heap'[o1] # "unalloc" /\ heap'[o2] # "unalloc" => o1 = o2
      BY <2>3 DEF OneTable
    <3>2. permute' # NULL => heap'[permute'] # "unalloc"
      BY <2>1, <2>2, <2>3
    <3>3. (\E u \in Threads : pc'[u] \notin {"ctor", "new"}) =>
            \E o \in Objs : heap'[o] # "unalloc"
      BY <2>1, <2>3
    <3> QED  BY <3>1, <3>2, <3>3 DEF OneTable
  <2>5. CurOK'
    <3>1. Constructing' = Constructing
      BY <2>1, <2>2 DEF Constructing, IInv
    <3> QED  BY <2>1, <2>2, <3>1 DEF CurOK, IInv
  <2>6. GotOK'
    <3>1. \A k \in Slots, q \in Slots : Holds(k, q)' = Holds(k, q)
      BY <2>2, <2>3 DEF Holds
    <3>2. \A u \in Threads : Read(u)' = Read(u)
      BY <2>2 DEF Read
    <3> QED  BY <2>2, <3>1, <3>2 DEF GotOK, Read
  <2> QED  BY <2>2, <2>4, <2>5, <2>6, PermKeep
<1>9. ASSUME NEW t \in Threads, DtorNull(t) PROVE RInv'
  <2>1. /\ pc[t] = "null" /\ permute' = NULL
        /\ pc' = [pc EXCEPT ![t] = "done"]
        /\ UNCHANGED <<obj, shuf, heap, content, cur, got>>
    BY <1>9 DEF DtorNull
  <2>2. Constructing' = Constructing
    BY <2>1 DEF Constructing, IInv
  <2>3. OneTable'
    BY <2>1 DEF OneTable, IInv
  <2>4. CurOK'
    BY <2>1, <2>2 DEF CurOK, IInv
  <2> QED  BY <2>1, <2>3, <2>4, PermKeep, GotKeep
<1>10. CASE UNCHANGED vars
  <2>1. UNCHANGED <<permute, heap, content, obj, shuf, pc, cur, got>>
    BY <1>10 DEF vars
  <2> QED  BY <2>1, PermKeep, GotKeep DEF OneTable, CurOK, Constructing
<1> QED  BY <1>1, <1>2, <1>3, <1>4, <1>5, <1>6, <1>7, <1>8, <1>9, <1>10
         DEF Next, Thread

(* Both invariants hold in every reachable state of a caller that keeps    *)
(* the discipline and gives the workloads a partition of the pages.       *)
LEMMA RInvHolds == Discipline /\ Partition => (Spec => [](IInv /\ RInv))
<1> SUFFICES ASSUME Discipline, Partition PROVE Spec => [](IInv /\ RInv)
  OBVIOUS
<1>1. Init => IInv /\ RInv
  BY InitIInv, InitRInv
<1>2. IInv /\ RInv /\ [Next]_vars => (IInv /\ RInv)'
  BY NextIInv, NextRInv
<1> QED  BY <1>1, <1>2, PTL DEF Spec

(* When the main thread constructs and deletes the workloads and their     *)
(* ranges [start, end) partition the pages, next_offset returns no page    *)
(* twice, and once every workload is done it has returned every page: the  *)
(* shuffle keeps offset[] a permutation and only one rand_permute is ever  *)
(* built, so the threads read disjoint parts of one permutation.           *)
THEOREM ReadsExactlyOnceMain ==
  Discipline /\ Partition => (Spec => []ReadsExactlyOnce)
<1> SUFFICES ASSUME Discipline, Partition PROVE Spec => []ReadsExactlyOnce
  OBVIOUS
<1>1. ASSUME IInv, RInv PROVE ReadsExactlyOnce
  <2>1. \A p \in Slots : got[p] <= 1
    BY <1>1 DEF RInv, GotOK
  <2>2. ASSUME AllDone, NEW p \in Slots PROVE got[p] = 1
    <3>1. 0 \in Slots
      BY BoundsType DEF Slots
    <3>2. PICK t0 \in Threads : TRUE
      BY <1>1, <3>1 DEF Partition
    <3>3. PICK o \in Objs : heap[o] # "unalloc"
      BY <1>1, <2>2, <3>2 DEF RInv, OneTable, AllDone
    <3>4. PICK k \in Slots : content[o][k] = p
      BY <1>1, <3>3 DEF RInv, PermOK, IsPerm
    <3>5. PICK u \in Threads : k \in Pages(u)
      BY <1>1 DEF Partition
    <3>6. k \in Read(u)
      <4>1. cur[u] >= Bounds[u][2] /\ cur[u] \in Nat
        BY <1>1, <2>2 DEF RInv, CurOK, AllDone
      <4> QED  BY <3>5, <4>1, BoundsType DEF Pages, Read, Slots
    <3>7. Holds(k, p)
      BY <3>3, <3>4 DEF Holds
    <3> QED  BY <1>1, <3>6, <3>7 DEF RInv, GotOK
  <2> QED  BY <2>1, <2>2 DEF ReadsExactlyOnce
<1>2. IInv /\ RInv => ReadsExactlyOnce
  BY <1>1
<1> QED  BY <1>2, RInvHolds, PTL

-----------------------------------------------------------------------------
(* Types, for every caller: the heap of one rand_permute per constructor   *)
(* never runs out, however the constructors race.                         *)

(* The objects allocated, and the threads past their constructor's test.  *)
Alloc   == {o \in Objs : heap[o] # "unalloc"}
PastNew == {u \in Threads : pc[u] \notin {"ctor", "new"}}

(* Every workload's range [start, end) is an interval.                     *)
WellFormed == \A t \in Threads : Bounds[t][1] <= Bounds[t][2]

(* The inductive invariant of TypeOK: each valloc is made by a thread that *)
(* has passed its test and allocates at most once, so fewer objects are    *)
(* allocated than there are threads while one thread is still at new.     *)
TInv ==
  /\ TypeOK
  /\ obj \in [Threads -> {NULL} \cup Objs]
  /\ cur \in [Threads -> Nat]
  /\ shuf \in [Threads -> Int]
  /\ permute # NULL => heap[permute] # "unalloc"
  /\ \A t \in Threads : pc[t] = "shuffle" => obj[t] \in Objs /\ heap[obj[t]] # "unalloc"
  /\ Cardinality(Alloc) <= Cardinality(PastNew)

(* The sets counted are finite, and there are as many objects as threads. *)
LEMMA CountFacts ==
  /\ IsFiniteSet(Threads) /\ Cardinality(Threads) \in Nat
  /\ IsFiniteSet(Objs) /\ Cardinality(Objs) = Cardinality(Threads)
  /\ \A S \in SUBSET Objs : IsFiniteSet(S) /\ Cardinality(S) \in Nat
  /\ \A S \in SUBSET Threads : IsFiniteSet(S) /\ Cardinality(S) \in Nat
<1>1. IsFiniteSet(Threads) /\ Cardinality(Threads) \in Nat
  BY GlobalPermuteAssumption, FS_CardinalityType
<1>2. IsFiniteSet(Objs) /\ Cardinality(Objs) = Cardinality(Threads)
  BY <1>1, FS_Interval DEF Objs
<1>3. \A S \in SUBSET Objs : IsFiniteSet(S) /\ Cardinality(S) \in Nat
  BY <1>2, FS_Subset, FS_CardinalityType
<1>4. \A S \in SUBSET Threads : IsFiniteSet(S) /\ Cardinality(S) \in Nat
  BY <1>1, FS_Subset, FS_CardinalityType
<1> QED  BY <1>1, <1>2, <1>3, <1>4

(* new rand_permute always finds an unallocated object.                    *)
LEMMA RoomToAllocate ==
  ASSUME TInv, NEW t \in Threads, pc[t] = "new"
  PROVE  \E x \in Objs : heap[x] = "unalloc"
<1>1. PastNew \subseteq Threads \ {t}
  BY DEF PastNew
<1>2. IsFiniteSet(Threads \ {t}) /\ Cardinality(Threads \ {t}) = Cardinality(Threads) - 1
  BY CountFacts, FS_RemoveElement
<1>3. Cardinality(PastNew) <= Cardinality(Threads) - 1
  BY <1>1, <1>2, FS_Subset
<1>4. Cardinality(Alloc) < Cardinality(Objs)
  <2>1. Alloc \subseteq Objs /\ PastNew \subseteq Threads
    BY DEF Alloc, PastNew
  <2> QED  BY <1>3, <2>1, CountFacts DEF TInv
<1>5. Alloc # Objs
  <2>1. Cardinality(Objs) \in Nat
    BY CountFacts
  <2> QED  BY <1>4, <2>1
<1> QED  BY <1>5 DEF Alloc

LEMMA InitTInv == WellFormed => (Init => TInv)
<1> SUFFICES ASSUME WellFormed, Init PROVE TInv
  OBVIOUS
<1>1. Alloc = {} /\ PastNew = {}
  BY DEF Init, Alloc, PastNew
<1>2. Cardinality(Alloc) <= Cardinality(PastNew)
  BY <1>1, FS_EmptySet
<1>3. \A t \in Threads : Bounds[t][1] \in Nat
  BY GlobalPermuteAssumption DEF Slots
<1> QED  BY <1>2, <1>3 DEF Init, TInv, TypeOK, WellFormed, NULL


(* A step that allocates nothing and lets no thread back before its test   *)
(* keeps the count.                                                        *)
LEMMA CountKeep ==
  ASSUME TInv, Alloc' \subseteq Alloc, PastNew \subseteq PastNew'
  PROVE  Cardinality(Alloc') <= Cardinality(PastNew')
<1>1. Alloc \subseteq Objs /\ Alloc' \subseteq Objs
      /\ PastNew \subseteq Threads /\ PastNew' \subseteq Threads
  BY DEF Alloc, PastNew
<1>2. Cardinality(Alloc') <= Cardinality(Alloc)
  BY <1>1, CountFacts, FS_Subset
<1>3. Cardinality(PastNew) <= Cardinality(PastNew')
  BY <1>1, CountFacts, FS_Subset
<1>4. /\ Cardinality(Alloc) \in Nat /\ Cardinality(Alloc') \in Nat
      /\ Cardinality(PastNew) \in Nat /\ Cardinality(PastNew') \in Nat
  BY <1>1, CountFacts
<1> QED  BY <1>2, <1>3, <1>4 DEF TInv

LEMMA NextTInv ==
  ASSUME TInv, [Next]_vars
  PROVE  TInv'
<1> USE DEF NULL
<1>1. ASSUME NEW t \in Threads, CtorTest(t) PROVE TInv'
  <2>1. Alloc' = Alloc /\ PastNew \subseteq PastNew'
    BY <1>1 DEF CtorTest, Alloc, PastNew, TInv, TypeOK
  <2> QED  BY <1>1, <2>1, CountKeep DEF CtorTest, TInv, TypeOK
<1>2. ASSUME NEW t \in Threads, CtorNew(t) PROVE TInv'
  <2> DEFINE o == CHOOSE x \in Objs : heap[x] = "unalloc"
  <2>1. o \in Objs /\ heap[o] = "unalloc"
    BY <1>2, RoomToAllocate DEF CtorNew
  <2>2. Alloc' = Alloc \cup {o} /\ o \notin Alloc
    BY <1>2, <2>1 DEF CtorNew, Alloc, TInv, TypeOK
  <2>3. PastNew' = PastNew \cup {t} /\ t \notin PastNew
    BY <1>2 DEF CtorNew, PastNew, TInv, TypeOK
  <2>4. Cardinality(Alloc') <= Cardinality(PastNew')
    <3>1. /\ IsFiniteSet(Alloc) /\ Cardinality(Alloc) \in Nat
          /\ IsFiniteSet(PastNew) /\ Cardinality(PastNew) \in Nat
      BY CountFacts DEF Alloc, PastNew
    <3>2. Cardinality(Alloc') = Cardinality(Alloc) + 1
      BY <2>2, <3>1, FS_AddElement
    <3>3. Cardinality(PastNew') = Cardinality(PastNew) + 1
      BY <2>3, <3>1, FS_AddElement
    <3> QED  BY <3>1, <3>2, <3>3 DEF TInv
  <2>5. TypeOK' /\ obj' \in [Threads -> {NULL} \cup Objs]
    BY <1>2, <2>1 DEF CtorNew, TInv, TypeOK
  <2>6. shuf' \in [Threads -> Int]
    BY <1>2, BoundsType DEF CtorNew, TInv
  <2>7. permute' # NULL => heap'[permute'] # "unalloc"
    BY <1>2, <2>1 DEF CtorNew, TInv, TypeOK
  <2>8. \A u \in Threads : pc'[u] = "shuffle" => obj'[u] \in Objs /\ heap'[obj'[u]] # "unalloc"
    BY <1>2, <2>1 DEF CtorNew, TInv, TypeOK
  <2> QED  BY <1>2, <2>4, <2>5, <2>6, <2>7, <2>8 DEF CtorNew, TInv
<1>3. ASSUME NEW t \in Threads, Shuffle(t) PROVE TInv'
  <2>1. Alloc' = Alloc /\ PastNew' = PastNew
    BY <1>3 DEF Shuffle, Alloc, PastNew
  <2> QED  BY <1>3, <2>1, CountKeep DEF Shuffle, TInv, TypeOK
<1>4. ASSUME NEW t \in Threads, Publish(t) PROVE TInv'
  <2>1. Alloc' = Alloc /\ PastNew' = PastNew
    BY <1>4 DEF Publish, Alloc, PastNew, TInv, TypeOK
  <2> QED  BY <1>4, <2>1, CountKeep DEF Publish, TInv, TypeOK
<1>5. ASSUME NEW t \in Threads, NextOffset(t) PROVE TInv'
  <2>1. Alloc' = Alloc /\ PastNew' = PastNew
    BY <1>5 DEF NextOffset, Alloc, PastNew
  <2>2. got' \in [Slots -> Nat]
    BY <1>5 DEF NextOffset, TInv, TypeOK
  <2>3. \A u \in Threads : cur'[u] \in Bounds[u][1] .. Bounds[u][2]
    <3> SUFFICES ASSUME NEW u \in Threads PROVE cur'[u] \in Bounds[u][1] .. Bounds[u][2]
      OBVIOUS
    <3>1. Bounds[u][1] \in Nat /\ Bounds[u][2] \in Nat /\ cur \in [Threads -> Nat]
      BY BoundsType DEF TInv, Slots
    <3>2. CASE u = t
      <4>1. cur'[u] = cur[t] + 1 /\ cur[t] < Bounds[t][2] /\ cur[t] >= Bounds[t][1]
        BY <1>5, <3>1, <3>2 DEF NextOffset, TInv, TypeOK
      <4> QED  BY <3>1, <3>2, <4>1
    <3>3. CASE u # t
      BY <1>5, <3>1, <3>3 DEF NextOffset, TInv, TypeOK
    <3> QED  BY <3>2, <3>3
  <2>4. cur' \in [Threads -> Nat]
    BY <1>5 DEF NextOffset, TInv
  <2> QED  BY <1>5, <2>1, <2>2, <2>3, <2>4, CountKeep DEF NextOffset, TInv, TypeOK
<1>6. ASSUME NEW t \in Threads, Finish(t) PROVE TInv'
  <2>1. Alloc' = Alloc /\ PastNew' = PastNew
    BY <1>6 DEF Finish, Alloc, PastNew, TInv, TypeOK
  <2> QED  BY <1>6, <2>1, CountKeep DEF Finish, TInv, TypeOK
<1>7. ASSUME NEW t \in Threads, DtorTest(t) PROVE TInv'
  <2>1. Alloc' = Alloc /\ PastNew' = PastNew
    BY <1>7 DEF DtorTest, Alloc, PastNew, TInv, TypeOK
  <2> QED  BY <1>7, <2>1, CountKeep DEF DtorTest, TInv, TypeOK
<1>8. ASSUME NEW t \in Threads, DtorDelete(t) PROVE TInv'
  <2>1. \A o \in Objs : heap'[o] # "unalloc" <=> heap[o] # "unalloc"
    BY <1>8 DEF DtorDelete, TInv, TypeOK
  <2>2. Alloc' = Alloc /\ PastNew' = PastNew
    BY <1>8, <2>1 DEF DtorDelete, Alloc, PastNew
  <2>3. heap' \in [Objs -> {"unalloc", "live", "freed"}]
    BY <1>8 DEF DtorDelete, TInv, TypeOK
  <2> QED  BY <1>8, <2>1, <2>2, <2>3, CountKeep DEF DtorDelete, TInv, TypeOK
<1>9. ASSUME NEW t \in Threads, DtorNull(t) PROVE TInv'
  <2>1. Alloc' = Alloc /\ PastNew' = PastNew
    BY <1>9 DEF DtorNull, Alloc, PastNew, TInv, TypeOK
  <2> QED  BY <1>9, <2>1, CountKeep DEF DtorNull, TInv, TypeOK
<1>10. CASE UNCHANGED vars
  <2>1. Alloc' = Alloc /\ PastNew' = PastNew
    BY <1>10 DEF vars, Alloc, PastNew
  <2> QED  BY <1>10, <2>1, CountKeep DEF vars, TInv, TypeOK
<1> QED  BY <1>1, <1>2, <1>3, <1>4, <1>5, <1>6, <1>7, <1>8, <1>9, <1>10
         DEF Next, Thread


LEMMA TInvHolds == WellFormed => (Spec => []TInv)
<1> SUFFICES ASSUME WellFormed PROVE Spec => []TInv
  OBVIOUS
<1>1. Init => TInv
  BY InitTInv
<1>2. TInv /\ [Next]_vars => TInv'
  BY NextTInv
<1> QED  BY <1>1, <1>2, PTL DEF Spec

(* Whoever constructs and deletes the workloads, in whatever interleaving, *)
(* new rand_permute always finds room (one object per constructor), each   *)
(* workload's start stays within [start, end] of its range, and every     *)
(* page count stays a natural number: TypeOK holds for every number of    *)
(* threads and pages and every well-formed set of ranges.                 *)
THEOREM TypeOKInvariant == WellFormed => (Spec => []TypeOK)
<1> SUFFICES ASSUME WellFormed PROVE Spec => []TypeOK
  OBVIOUS
<1>1. TInv => TypeOK
  BY DEF TInv
<1> QED  BY <1>1, TInvHolds, PTL

=============================================================================

--------------------------- MODULE GlobalPermute ----------------------------
(***************************************************************************)
(* global_rand_permute_workload (src/workload.h): every I/O thread has a   *)
(* workload reading its range [start, end) of one random permutation of   *)
(* the pages, kept in the static pointer permute.  The first constructor  *)
(* that finds permute NULL creates it; every destructor that finds it     *)
(* non-NULL deletes it and sets it to NULL.  Nothing is locked.            *)
(*                                                                         *)
(* Who constructs and destroys the workloads is the caller's choice (the   *)
(* test drivers are not in the repository): CtorInMain says the main       *)
(* thread constructs all of them before the I/O threads start, otherwise   *)
(* each thread constructs its own; DtorAfterJoin says the main thread      *)
(* deletes them after joining the threads, otherwise each thread deletes   *)
(* its own when its range is done.                                         *)
(***************************************************************************)
EXTENDS Naturals, FiniteSets

CONSTANTS
  Threads,        \* the I/O threads, one workload each
  Num,            \* the pages permuted (the num of rand_permute)
  Bounds,         \* Bounds[t] = <<start, end>> of thread t's workload
  CtorInMain,
  DtorAfterJoin

Slots == 0 .. Num - 1

ASSUME GlobalPermuteAssumption ==
  /\ IsFiniteSet(Threads)
  /\ Num \in Nat \ {0}
  /\ Bounds \in [Threads -> Slots \X (0 .. Num)]
  /\ CtorInMain \in BOOLEAN /\ DtorAfterJoin \in BOOLEAN

(* The heap objects a run can allocate: one rand_permute per constructor.  *)
Objs == 1 .. Cardinality(Threads)
NULL == 0

VARIABLES
  permute,   \* the static pointer: NULL or an object
  heap,      \* heap[o]: "unalloc", "live" or "freed"
  content,   \* content[o]: the offsets of object o, as page numbers
  obj,       \* per thread: the rand_permute its constructor is building
  shuf,      \* per thread: the i of that constructor's shuffle loop
  pc,        \* per thread: "ctor", "new", "shuffle", "ready", "dtor",
             \* "delete", "null", "done"
  cur,       \* per thread: the workload's start, advanced by next_offset
  got,       \* got[p]: how many times page p was returned
  faults     \* the memory errors met: "null_deref", "use_after_free",
             \* "double_free"

vars == <<permute, heap, content, obj, shuf, pc, cur, got, faults>>

Init ==
  /\ permute = NULL
  /\ heap = [o \in Objs |-> "unalloc"]
  /\ content = [o \in Objs |-> [p \in Slots |-> p]]
  /\ obj = [t \in Threads |-> NULL]
  /\ shuf = [t \in Threads |-> 0]
  /\ pc = [t \in Threads |-> "ctor"]
  /\ cur = [t \in Threads |-> Bounds[t][1]]
  /\ got = [p \in Slots |-> 0]
  /\ faults = {}

Constructing == {t \in Threads : pc[t] \in {"ctor", "new", "shuffle"}}
Destroying   == {t \in Threads : pc[t] \in {"delete", "null"}}

(* if (permute == NULL): the constructors of the main thread run one after *)
(* the other.                                                              *)
CtorTest(t) ==
  /\ pc[t] = "ctor"
  /\ CtorInMain => \A u \in Threads : pc[u] \notin {"new", "shuffle"}
  /\ pc' = [pc EXCEPT ![t] = IF permute = NULL THEN "new" ELSE "ready"]
  /\ UNCHANGED <<obj, shuf, permute, heap, content, cur, got, faults>>

(* new rand_permute(num, stride): valloc the offsets and store i * stride *)
(* in offset[i] (the page i here).                                         *)
CtorNew(t) ==
  /\ pc[t] = "new"
  /\ LET o == CHOOSE x \in Objs : heap[x] = "unalloc"
     IN  /\ heap' = [heap EXCEPT ![o] = "live"]
         /\ content' = [content EXCEPT ![o] = [p \in Slots |-> p]]
         /\ obj' = [obj EXCEPT ![t] = o]
  /\ shuf' = [shuf EXCEPT ![t] = Num - 1]
  /\ pc' = [pc EXCEPT ![t] = "shuffle"]
  /\ UNCHANGED <<permute, cur, got, faults>>

(* One turn of the constructor's loop for i from num - 1 down to 1: swap   *)
(* offset[i] with offset[j], j = random() % i, any of 0 .. i - 1.          *)
Shuffle(t) ==
  /\ pc[t] = "shuffle" /\ shuf[t] >= 1
  /\ LET o == obj[t]  i == shuf[t]
     IN  \E j \in 0 .. i - 1 :
           content' = [content EXCEPT ![o][j] = content[o][i], ![o][i] = content[o][j]]
  /\ shuf' = [shuf EXCEPT ![t] = @ - 1]
  /\ UNCHANGED <<permute, heap, obj, pc, cur, got, faults>>

(* The constructor has returned: permute = the new object.                 *)
Publish(t) ==
  /\ pc[t] = "shuffle" /\ shuf[t] = 0
  /\ permute' = obj[t]
  /\ pc' = [pc EXCEPT ![t] = "ready"]
  /\ UNCHANGED <<heap, content, obj, shuf, cur, got, faults>>

(* Mutant: has_next is start <= end.                                        *)
NextOffsetPast(t) ==
  /\ pc[t] = "ready"
  /\ cur[t] <= Bounds[t][2]
  /\ CtorInMain => Constructing = {}
  /\ IF permute = NULL
       THEN faults' = faults \cup {"null_deref"} /\ UNCHANGED got
       ELSE /\ faults' = IF heap[permute] = "freed"
                           THEN faults \cup {"use_after_free"} ELSE faults
            /\ got' = [got EXCEPT ![content[permute][cur[t]]] = @ + 1]
  /\ cur' = [cur EXCEPT ![t] = @ + 1]
  /\ UNCHANGED <<obj, shuf, permute, heap, content, pc>>

(* Mutant: next_offset returns get_offset(start) and forgets start++.     *)
NextOffsetNoInc(t) ==
  /\ pc[t] = "ready"
  /\ cur[t] < Bounds[t][2]
  /\ CtorInMain => Constructing = {}
  /\ IF permute = NULL
       THEN faults' = faults \cup {"null_deref"} /\ UNCHANGED got
       ELSE /\ faults' = IF heap[permute] = "freed"
                           THEN faults \cup {"use_after_free"} ELSE faults
            /\ got' = [got EXCEPT ![content[permute][cur[t]]] = @ + 1]
  /\ UNCHANGED <<obj, shuf, permute, heap, content, pc, cur>>

(* while (has_next()) next_offset(): permute->get_offset(start++).  A      *)
(* NULL permute is a crash; a freed one returns what the memory holds,    *)
(* here the offset it held.                                                *)
NextOffset(t) ==
  /\ pc[t] = "ready"
  /\ cur[t] < Bounds[t][2]
  /\ CtorInMain => Constructing = {}
  /\ IF permute = NULL
       THEN faults' = faults \cup {"null_deref"} /\ UNCHANGED got
       ELSE /\ faults' = IF heap[permute] = "freed"
                           THEN faults \cup {"use_after_free"} ELSE faults
            /\ got' = [got EXCEPT ![content[permute][cur[t]]] = @ + 1]
  /\ cur' = [cur EXCEPT ![t] = @ + 1]
  /\ UNCHANGED <<obj, shuf, permute, heap, content, pc>>

(* has_next() is false: the range is done.  The I/O threads start only    *)
(* after the main thread's constructors.  With DtorAfterJoin the main      *)
(* thread deletes the workloads one after the other once every thread is  *)
(* done.                                                                   *)
Finish(t) ==
  /\ pc[t] = "ready"
  /\ cur[t] >= Bounds[t][2]
  /\ CtorInMain => Constructing = {}
  /\ pc' = [pc EXCEPT ![t] = "dtor"]
  /\ UNCHANGED <<obj, shuf, permute, heap, content, cur, got, faults>>

(* ~global_rand_permute_workload: if (permute).                             *)
DtorTest(t) ==
  /\ pc[t] = "dtor"
  /\ DtorAfterJoin => (\A u \in Threads : pc[u] \in {"dtor", "done"})
                      /\ Destroying = {}
  /\ pc' = [pc EXCEPT ![t] = IF permute # NULL THEN "delete" ELSE "done"]
  /\ UNCHANGED <<obj, shuf, permute, heap, content, cur, got, faults>>

(* Mutant: the destructor only sets permute to NULL.                        *)
DtorDeleteSkip(t) ==
  /\ pc[t] = "delete"
  /\ pc' = [pc EXCEPT ![t] = "null"]
  /\ UNCHANGED <<obj, shuf, permute, heap, content, cur, got, faults>>

(* delete permute: permute is read again; delete of NULL does nothing.     *)
DtorDelete(t) ==
  /\ pc[t] = "delete"
  /\ IF permute = NULL THEN UNCHANGED <<heap, faults>>
     ELSE IF heap[permute] = "freed"
       THEN faults' = faults \cup {"double_free"} /\ UNCHANGED heap
       ELSE heap' = [heap EXCEPT ![permute] = "freed"] /\ UNCHANGED faults
  /\ pc' = [pc EXCEPT ![t] = "null"]
  /\ UNCHANGED <<obj, shuf, permute, content, cur, got>>

(* Mutant: permute is not reset to NULL.                                    *)
DtorNullSkip(t) ==
  /\ pc[t] = "null"
  /\ pc' = [pc EXCEPT ![t] = "done"]
  /\ UNCHANGED <<obj, shuf, permute, heap, content, cur, got, faults>>

(* permute = NULL.                                                          *)
DtorNull(t) ==
  /\ pc[t] = "null"
  /\ permute' = NULL
  /\ pc' = [pc EXCEPT ![t] = "done"]
  /\ UNCHANGED <<obj, shuf, heap, content, cur, got, faults>>

Thread(t) ==
  \/ CtorTest(t) \/ CtorNew(t) \/ Shuffle(t) \/ Publish(t)
  \/ NextOffset(t) \/ Finish(t)
  \/ DtorTest(t) \/ DtorDelete(t) \/ DtorNull(t)

Next == \E t \in Threads : Thread(t)

Spec == Init /\ [][Next]_vars /\ \A t \in Threads : WF_vars(Thread(t))

-----------------------------------------------------------------------------
TypeOK ==
  /\ permute \in {NULL} \cup Objs
  /\ heap \in [Objs -> {"unalloc", "live", "freed"}]
  /\ pc \in [Threads -> {"ctor", "new", "shuffle", "ready", "dtor", "delete",
                             "null", "done"}]
  /\ \A t \in Threads : cur[t] \in Bounds[t][1] .. Bounds[t][2]
  /\ got \in [Slots -> Nat]
  /\ faults \subseteq {"null_deref", "use_after_free", "double_free"}

AllDone == \A t \in Threads : pc[t] = "done"

(* No workload dereferences a NULL or freed permutation and no             *)
(* permutation is deleted twice, whatever the interleaving of the          *)
(* threads' next_offset calls and destructors.                             *)
MemorySafe == faults = {}

(* The threads' ranges partition the pages, so together they read every    *)
(* page once: no page is returned twice, and none is missed once every     *)
(* workload is done.                                                       *)
ReadsExactlyOnce ==
  /\ \A p \in Slots : got[p] <= 1
  /\ AllDone => \A p \in Slots : got[p] = 1

(* Once every workload is destroyed no permutation is left allocated.      *)
NoLeak == AllDone => \A o \in Objs : heap[o] # "live"
=============================================================================

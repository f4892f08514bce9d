------------------------------- MODULE KCore -------------------------------
(***************************************************************************)
(* The k-core application (src/apps/k-core/k_core.cpp) running on the      *)
(* bulk-synchronous level loop of the graph engine (graph_engine.h; the    *)
(* engine's .cpp is not part of the repository, so the level loop, the     *)
(* message fabric and query_on_all follow the engine contract of the       *)
(* specification).                                                         *)
(*                                                                         *)
(* Vertices are 0..NumVertices-1, partitioned over NumWorkers worker       *)
(* threads by id modulo the number of partitions.  A kcore_vertex keeps    *)
(* `deleted' and `degree'; a deleted_message carries no payload, so a      *)
(* message is identified by the edge it travels along and the end of the  *)
(* edge that receives it.                                                  *)
(***************************************************************************)
EXTENDS Naturals, FiniteSets

CONSTANTS
  NumVertices,    \* number of vertices in the graph index
  NumWorkers,     \* number of worker threads (graph partitions)
  E,              \* the directed edges of the graph file
  Kmin,           \* argv[3]
  KmaxGiven,      \* TRUE iff kmax was given on the command line
  KmaxArg,        \* argv[4] when given
  MaxProcessing,  \* max_processing_vertices: I/O requests in flight per worker
  VMax            \* the largest vsize_t value (2^w - 1 for a w-bit vsize_t)

V == 0 .. NumVertices - 1
Workers == 0 .. NumWorkers - 1
VMod == VMax + 1

ASSUME ConstAssumption ==
  /\ NumVertices \in Nat
  /\ NumWorkers \in Nat \ {0}
  /\ E \subseteq V \X V
  /\ VMax \in Nat \ {0}
  /\ Kmin \in 0 .. VMod - 1
  /\ KmaxGiven \in BOOLEAN
  /\ KmaxArg \in 0 .. VMod - 1
  /\ MaxProcessing \in Nat \ {0}

(* The partitioner: a vertex is owned by exactly one worker.               *)
Owner(v) == v % NumWorkers

(* Messages: <<e, i>> is sent to the i-th end of edge e by the other end.  *)
Msgs == E \X {1, 2}
Receiver(m) == m[1][m[2]]
Sender(m) == m[1][3 - m[2]]

(* The edge ends at v: one per in-edge and one per out-edge.               *)
Ends(v) == {m \in Msgs : Receiver(m) = v}

(* multicast_delete_msg(IN_EDGE) and (OUT_EDGE): one message per neighbour *)
(* on each in-edge and each out-edge of v.                                 *)
Multicast(v) == {m \in Msgs : Sender(m) = v}

(* The number of edge ends at v in the graph file.                        *)
NumEdges(v) == Cardinality(Ends(v))

(* index.get_num_in_edges(id) + index.get_num_out_edges(id): a sum of two  *)
(* vsize_t values, so it wraps.                                            *)
IndexDegree(v) == NumEdges(v) % VMod

(* max_degree_query: run keeps the maximum of get_vertex_edges, merge the  *)
(* maximum of the clones; the result starts from 0.                        *)
MaxDegree == CHOOSE d \in {0} \cup {IndexDegree(v) : v \in V} :
               \A u \in V : IndexDegree(u) <= d

(* kmax: argv[4] when given, the maximum degree otherwise.                 *)
Kmax == IF KmaxGiven THEN KmaxArg ELSE MaxDegree

VARIABLES
  K,          \* CURRENT_K
  deleted,    \* kcore_vertex::deleted
  degree,     \* kcore_vertex::degree
  status,     \* main: "idle" before start, "running" until wait4complete
              \* returns, "done" until the result is printed, "finished"
  wstate,     \* per worker: "run", "b1" (flushed, at barrier 1),
              \* "deliver" (past barrier 1), "b2" (at barrier 2)
  level,      \* graph_engine::level
  curr,       \* activated vertices of this level not yet dispatched
  pending,    \* vertices whose request_vertices is in flight
  next,       \* vertices activated for the next level
  remaining,  \* num_remaining_vertices_in_level
  outbuf,     \* messages in the senders' buffers, not yet flushed
  inbox,      \* messages flushed to the receivers' workers, not yet run
  received,   \* messages whose run_on_message has run (history)
  report      \* the last result printed by main

vars == <<K, deleted, degree, status, wstate, level, curr, pending, next,
          remaining, outbuf, inbox, received, report>>

NoReport == [k |-> 0, num |-> 0, none |-> TRUE]

DeletedSet == {v \in V : deleted[v]}

(* count_vertex_query: each clone counts the deleted vertices of its       *)
(* partition, merge adds the clones' counts.                               *)
CountDeleted == Cardinality(DeletedSet)

(* activate_k_filter::keep                                                 *)
Keep(v, min) == IndexDegree(v) < min

Init ==
  /\ K = Kmin
  /\ deleted = [v \in V |-> FALSE]
  /\ degree = [v \in V |-> IndexDegree(v)]
  /\ status = IF Kmin <= Kmax THEN "idle" ELSE "finished"
  /\ wstate = [w \in Workers |-> "run"]
  /\ level = 0
  /\ curr = {}
  /\ pending = {}
  /\ next = {}
  /\ remaining = 0
  /\ outbuf = {}
  /\ inbox = {}
  /\ received = {}
  /\ report = NoReport

(* graph_engine::start(filter): the vertices the filter keeps are         *)
(* activated for the first level.                                          *)
StartFilter(min) == {v \in V : Keep(v, min)}

(* graph->start(filter): activate the vertices the filter keeps and start  *)
(* level 0 on every worker.                                                *)
Start ==
  /\ status = "idle"
  /\ curr' = StartFilter(K)
  /\ remaining' = Cardinality(StartFilter(K))
  /\ level' = 0
  /\ wstate' = [w \in Workers |-> "run"]
  /\ status' = "running"
  /\ UNCHANGED <<K, deleted, degree, pending, next, outbuf, inbox,
                 received, report>>

MyPending(w) == {u \in pending : Owner(u) = w}

(* graph_engine::process_vertices: num_remaining_vertices_in_level.dec(n). *)
ProcessVertices(n) == remaining' = remaining - n

(* Mutant: the early return of run(prog) calls process_vertices twice.    *)
RunVertexDecTwice(w, v) ==
  /\ status = "running" /\ wstate[w] = "run" /\ v \in curr /\ Owner(v) = w
  /\ Cardinality(MyPending(w)) < MaxProcessing
  /\ curr' = curr \ {v}
  /\ IF degree[v] > K \/ deleted[v]
       THEN remaining' = remaining - 2 /\ UNCHANGED pending
       ELSE pending' = pending \cup {v} /\ UNCHANGED remaining
  /\ UNCHANGED <<K, deleted, degree, status, wstate, level, next, outbuf,
                 inbox, received, report>>

(* Mutant: the early return of run(prog) forgets process_vertices.        *)
RunVertexNoDec(w, v) ==
  /\ status = "running" /\ wstate[w] = "run" /\ v \in curr /\ Owner(v) = w
  /\ Cardinality(MyPending(w)) < MaxProcessing
  /\ curr' = curr \ {v}
  /\ IF degree[v] > K \/ deleted[v]
       THEN UNCHANGED <<pending, remaining>>
       ELSE pending' = pending \cup {v} /\ UNCHANGED remaining
  /\ UNCHANGED <<K, deleted, degree, status, wstate, level, next, outbuf,
                 inbox, received, report>>

(* The worker takes an activated vertex off its queue and calls            *)
(* kcore_vertex::run(prog): a vertex with degree > CURRENT_K, or a deleted *)
(* one, is processed at once; otherwise it requests its own adjacency.     *)
RunVertex(w, v) ==
  /\ status = "running"
  /\ wstate[w] = "run"
  /\ v \in curr
  /\ Owner(v) = w
  /\ Cardinality(MyPending(w)) < MaxProcessing
  /\ curr' = curr \ {v}
  /\ IF degree[v] > K \/ deleted[v]
       THEN /\ ProcessVertices(1)
            /\ UNCHANGED pending
       ELSE /\ pending' = pending \cup {v}
            /\ UNCHANGED remaining
  /\ UNCHANGED <<K, deleted, degree, status, wstate, level, next, outbuf,
                 inbox, received, report>>

(* Mutant: a deleting vertex is not counted as processed.                 *)
IOCompleteNoDec(w, v) ==
  /\ status = "running" /\ wstate[w] = "run" /\ v \in pending /\ Owner(v) = w
  /\ pending' = pending \ {v}
  /\ IF ~deleted[v] /\ degree[v] < K
       THEN /\ deleted' = [deleted EXCEPT ![v] = TRUE]
            /\ outbuf' = outbuf \cup Multicast(v)
            /\ UNCHANGED remaining
       ELSE remaining' = remaining - 1 /\ UNCHANGED <<deleted, outbuf>>
  /\ UNCHANGED <<K, degree, status, wstate, level, curr, next, inbox,
                 received, report>>

(* Mutant: only the IN_EDGE multicast is sent.                            *)
IOCompleteInOnly(w, v) ==
  /\ status = "running" /\ wstate[w] = "run" /\ v \in pending /\ Owner(v) = w
  /\ pending' = pending \ {v}
  /\ remaining' = remaining - 1
  /\ IF ~deleted[v] /\ degree[v] < K
       THEN /\ deleted' = [deleted EXCEPT ![v] = TRUE]
            /\ outbuf' = outbuf \cup {m \in Multicast(v) : m[2] = 1}
       ELSE UNCHANGED <<deleted, outbuf>>
  /\ UNCHANGED <<K, degree, status, wstate, level, curr, next, inbox,
                 received, report>>

(* Mutant: the deletion test is "degree <= CURRENT_K".                     *)
IOCompleteLeq(w, v) ==
  /\ status = "running" /\ wstate[w] = "run" /\ v \in pending /\ Owner(v) = w
  /\ pending' = pending \ {v}
  /\ remaining' = remaining - 1
  /\ IF ~deleted[v] /\ degree[v] <= K
       THEN /\ deleted' = [deleted EXCEPT ![v] = TRUE]
            /\ outbuf' = outbuf \cup Multicast(v)
       ELSE UNCHANGED <<deleted, outbuf>>
  /\ UNCHANGED <<K, degree, status, wstate, level, curr, next, inbox,
                 received, report>>

(* The adjacency of v arrives: kcore_vertex::run(prog, vertex) deletes a   *)
(* live vertex whose degree is below CURRENT_K and multicasts a            *)
(* deleted_message on its in-edges and out-edges; the vertex is processed. *)
IOComplete(w, v) ==
  /\ status = "running"
  /\ wstate[w] = "run"
  /\ v \in pending
  /\ Owner(v) = w
  /\ pending' = pending \ {v}
  /\ ProcessVertices(1)
  /\ IF ~deleted[v] /\ degree[v] < K
       THEN /\ deleted' = [deleted EXCEPT ![v] = TRUE]
            /\ outbuf' = outbuf \cup Multicast(v)
       ELSE UNCHANGED <<deleted, outbuf>>
  /\ UNCHANGED <<K, degree, status, wstate, level, curr, next, inbox,
                 received, report>>

(* Mutant: the flush copies the buffers instead of handing them over.     *)
FlushKeep(w) ==
  LET sent == {m \in outbuf : Owner(Sender(m)) = w}
  IN /\ status = "running" /\ wstate[w] = "run" /\ remaining = 0
     /\ inbox' = inbox \cup sent
     /\ next' = next \cup {Receiver(m) : m \in sent}
     /\ wstate' = [wstate EXCEPT ![w] = "b1"]
     /\ UNCHANGED <<K, deleted, degree, status, level, curr, pending,
                    remaining, outbuf, received, report>>

(* Once the level's remaining count is 0 a worker flushes its message     *)
(* buffers to the receivers' workers, which activates the receivers in the *)
(* next level, and waits at barrier 1.                                     *)
Flush(w) ==
  LET sent == {m \in outbuf : Owner(Sender(m)) = w}
  IN /\ status = "running"
     /\ wstate[w] = "run"
     /\ remaining = 0
     /\ outbuf' = outbuf \ sent
     /\ inbox' = inbox \cup sent
     /\ next' = next \cup {Receiver(m) : m \in sent}
     /\ wstate' = [wstate EXCEPT ![w] = "b1"]
     /\ UNCHANGED <<K, deleted, degree, status, level, curr, pending,
                    remaining, received, report>>

(* Barrier 1: a worker leaves it once every worker has flushed.            *)
PassBarrier1(w) ==
  /\ status = "running"
  /\ wstate[w] = "b1"
  /\ \A u \in Workers : wstate[u] # "run"
  /\ wstate' = [wstate EXCEPT ![w] = "deliver"]
  /\ UNCHANGED <<K, deleted, degree, status, level, curr, pending, next,
                 remaining, outbuf, inbox, received, report>>

(* kcore_vertex::run_on_message: a live receiver loses one degree.         *)
DeliverMsg(w, m) ==
  /\ status = "running"
  /\ wstate[w] = "deliver"
  /\ m \in inbox
  /\ Owner(Receiver(m)) = w
  /\ inbox' = inbox \ {m}
  /\ received' = received \cup {m}
  /\ degree' = IF deleted[Receiver(m)] THEN degree
               ELSE [degree EXCEPT ![Receiver(m)] = (@ - 1) % VMod]
  /\ UNCHANGED <<K, deleted, status, wstate, level, curr, pending, next,
                 remaining, outbuf, report>>

(* A worker whose inbox is empty waits at barrier 2.                       *)
ArriveBarrier2(w) ==
  /\ status = "running"
  /\ wstate[w] = "deliver"
  /\ \A m \in inbox : Owner(Receiver(m)) # w
  /\ wstate' = [wstate EXCEPT ![w] = "b2"]
  /\ UNCHANGED <<K, deleted, degree, status, level, curr, pending, next,
                 remaining, outbuf, inbox, received, report>>

(* Mutant: completion is decided on the finished level's count.           *)
ProgressNextLevelOldCount ==
  /\ status = "running"
  /\ \A w \in Workers : wstate[w] = "b2"
  /\ curr' = next /\ next' = {} /\ remaining' = Cardinality(next)
  /\ level' = level + 1
  /\ wstate' = [w \in Workers |-> "run"]
  /\ status' = IF remaining = 0 THEN "done" ELSE "running"
  /\ UNCHANGED <<K, deleted, degree, pending, outbuf, inbox, received,
                 report>>

(* progress_next_level at barrier 2: swap the queues, reset the remaining  *)
(* counter to the size of the new level, and complete when it is empty.   *)
ProgressNextLevel ==
  /\ status = "running"
  /\ \A w \in Workers : wstate[w] = "b2"
  /\ curr' = next
  /\ next' = {}
  /\ remaining' = Cardinality(next)
  /\ level' = level + 1
  /\ wstate' = [w \in Workers |-> "run"]
  /\ status' = IF next = {} THEN "done" ELSE "running"
  /\ UNCHANGED <<K, deleted, degree, pending, outbuf, inbox, received,
                 report>>

(* main, after wait4complete: query_on_all(count_vertex_query), print the  *)
(* count, then CURRENT_K++ and test CURRENT_K <= kmax in vsize_t.          *)
Report ==
  /\ status = "done"
  /\ report' = [k |-> K, num |-> CountDeleted, none |-> FALSE]
  /\ K' = (K + 1) % VMod
  /\ status' = IF (K + 1) % VMod <= Kmax THEN "idle" ELSE "finished"
  /\ UNCHANGED <<deleted, degree, wstate, level, curr, pending, next,
                 remaining, outbuf, inbox, received>>

Worker(w) ==
  \/ \E v \in V : RunVertex(w, v) \/ IOComplete(w, v)
  \/ Flush(w)
  \/ PassBarrier1(w)
  \/ \E m \in Msgs : DeliverMsg(w, m)
  \/ ArriveBarrier2(w)

Main == Start \/ Report

Next ==
  \/ Main
  \/ \E w \in Workers : Worker(w)
  \/ ProgressNextLevel

(* Worker threads are scheduled by the OS and I/O requests complete, so    *)
(* each worker, the barrier step and the main thread are weakly fair.      *)
Fairness ==
  /\ \A w \in Workers : WF_vars(Worker(w))
  /\ WF_vars(ProgressNextLevel)
  /\ WF_vars(Main)

Spec == Init /\ [][Next]_vars /\ Fairness

-----------------------------------------------------------------------------
(* Properties.                                                             *)

TypeOK ==
  /\ K \in 0 .. VMod - 1
  /\ deleted \in [V -> BOOLEAN]
  /\ degree \in [V -> 0 .. VMod - 1]
  /\ status \in {"idle", "running", "done", "finished"}
  /\ wstate \in [Workers -> {"run", "b1", "deliver", "b2"}]
  /\ level \in Nat
  /\ curr \subseteq V
  /\ pending \subseteq V
  /\ next \subseteq V
  /\ remaining \in Nat
  /\ outbuf \subseteq Msgs
  /\ inbox \subseteq Msgs
  /\ received \subseteq Msgs
  /\ report \in [k : 0 .. VMod - 1, num : Nat, none : BOOLEAN]

(* The degree a vertex would have if only live neighbours counted.         *)
AliveDegree(v) == Cardinality({m \in Ends(v) : ~deleted[Sender(m)]})

(* num_remaining_vertices_in_level counts exactly the activated vertices   *)
(* of the level that run/IOComplete have not yet processed, so the level   *)
(* ends exactly when every worker's queue and I/O are drained.             *)
RemainingCount ==
  status = "running" =>
    /\ curr \cap pending = {}
    /\ remaining = Cardinality(curr) + Cardinality(pending)

(* Every deleted_message of every deleted vertex is, at any time, in       *)
(* exactly one place: a sender's buffer, a receiver's inbox, or consumed   *)
(* by run_on_message; none is lost or delivered twice.                     *)
MsgExactlyOnce ==
  /\ outbuf \cap inbox = {}
  /\ outbuf \cap received = {}
  /\ inbox \cap received = {}
  /\ outbuf \cup inbox \cup received = UNION {Multicast(v) : v \in DeletedSet}

(* The degree kept by a live kcore_vertex equals its live neighbours plus  *)
(* the deletion messages still travelling to it: run_on_message and the    *)
(* multicasts of run(prog, vertex) keep it exact, and it never wraps.      *)
DegreeAccount ==
  \A v \in V : ~deleted[v] =>
    degree[v] = Cardinality({m \in Ends(v) :
                               ~deleted[Sender(m)] \/ m \in outbuf \cup inbox})

(* When wait4complete returns, no vertex is active or in flight and no     *)
(* message is buffered: the engine detected quiescence, not a pause.       *)
Quiescent ==
  status \in {"idle", "done", "finished"} =>
    /\ curr = {} /\ pending = {} /\ next = {}
    /\ outbuf = {} /\ inbox = {}

(* kcore_vertex::run(prog, vertex) deletes a vertex only when it is really *)
(* outside the CURRENT_K-core: fewer than CURRENT_K edge ends of live      *)
(* neighbours.                                                             *)
DeleteSound ==
  [][\A v \in V : ~deleted[v] /\ deleted'[v] => AliveDegree(v) < K]_vars

(* When a round ends every surviving vertex has at least CURRENT_K edge    *)
(* ends of surviving neighbours (the printed result is the k-core).        *)
PeelComplete ==
  status = "done" => \A v \in V : ~deleted[v] => AliveDegree(v) >= K

(* Every round started by main reaches wait4complete's return.             *)
RoundTerminates == status = "running" ~> status = "done"

=============================================================================

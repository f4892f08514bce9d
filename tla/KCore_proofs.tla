---------------------------- MODULE KCore_proofs ----------------------------
(***************************************************************************)
(* Proofs about the k-core application on the engine's level loop         *)
(* (KCore), for every graph, number of workers, in-flight cap, kmin, kmax  *)
(* and width of vsize_t.                                                   *)
(***************************************************************************)
EXTENDS KCore, FiniteSetTheorems, TLAPS

(* A worker that has flushed its buffers has seen the level counter at 0:  *)
(* no vertex of the level is still queued or waiting for its adjacency.   *)
Drained ==
  status = "running" /\ (\E w \in Workers : wstate[w] # "run") =>
    /\ curr = {}
    /\ pending = {}
    /\ remaining = 0

(* Between two rounds, wait4complete has returned with empty queues.       *)
Idle ==
  status # "running" => curr = {} /\ pending = {}

(* The two barriers of a level: once a worker is past barrier 1 no worker *)
(* is still running the level; a buffered message waits in the buffer of   *)
(* a running sender; a flushed message is not addressed to a worker that   *)
(* has already emptied its inbox at barrier 2; between rounds the level    *)
(* queue and both message stages are empty.                               *)
Barriers ==
  /\ (\E w \in Workers : wstate[w] \in {"deliver", "b2"}) =>
        \A u \in Workers : wstate[u] # "run"
  /\ \A m \in outbuf : wstate[Owner(Sender(m))] = "run"
  /\ \A m \in inbox : wstate[Owner(Receiver(m))] # "b2"
  /\ status # "running" => next = {} /\ outbuf = {} /\ inbox = {}

(* The inductive strengthening of the type invariant: remaining is         *)
(* decremented only while it counts a queued or pending vertex, so it      *)
(* never goes below 0.                                                     *)
IInv == TypeOK /\ RemainingCount /\ Drained /\ Idle

-----------------------------------------------------------------------------
(* vsize_t arithmetic is modulo a positive number.                         *)
LEMMA VModPositive == VMod \in Nat \ {0}
BY ConstAssumption DEF VMod

(* Every set of vertices is finite and has a natural cardinality.          *)
LEMMA VertexSetFinite ==
  ASSUME NEW S \in SUBSET V
  PROVE  IsFiniteSet(S) /\ Cardinality(S) \in Nat
<1>1. IsFiniteSet(V)
  BY ConstAssumption, FS_Interval DEF V
<1>. QED  BY <1>1, FS_Subset, FS_CardinalityType

(* Both ends of a message are vertices.                                    *)
LEMMA MsgEnds ==
  ASSUME NEW m \in Msgs
  PROVE  Receiver(m) \in V /\ Sender(m) \in V
BY ConstAssumption DEF Msgs, Receiver, Sender

(* A finite set of vertices with no elements counted is empty.             *)
LEMMA EmptyByCount ==
  ASSUME NEW S \in SUBSET V, Cardinality(S) = 0
  PROVE  S = {}
BY VertexSetFinite, FS_EmptySet

(* The number of edge ends of a vertex, its degree in the graph file, is a *)
(* natural number.                                                         *)
LEMMA NumEdgesNat == \A v \in V : NumEdges(v) \in Nat
<1> SUFFICES ASSUME NEW v \in V PROVE NumEdges(v) \in Nat
  OBVIOUS
<1>1. IsFiniteSet(V \X V) /\ IsFiniteSet({1, 2})
  <2>1. IsFiniteSet(V)
    BY ConstAssumption, FS_Interval DEF V
  <2>2. IsFiniteSet(1 .. 2)
    <3>1. 1 \in Int /\ 2 \in Int
      OBVIOUS
    <3> QED  BY <3>1, FS_Interval
  <2>3. {1, 2} = 1 .. 2
    OBVIOUS
  <2> QED  BY <2>1, <2>2, <2>3, FS_Product
<1>2. IsFiniteSet(E)
  <2>1. E \in SUBSET (V \X V)
    BY ConstAssumption
  <2> QED  BY <1>1, <2>1, FS_Subset
<1>3. IsFiniteSet(Msgs)
  BY <1>1, <1>2, FS_Product DEF Msgs
<1>4. Ends(v) \subseteq Msgs
  BY DEF Ends
<1> QED  BY <1>3, <1>4, FS_Subset, FS_CardinalityType DEF NumEdges

-----------------------------------------------------------------------------
(* The constructor of kcore_vertex and the state of main before the first  *)
(* start establish the invariant.                                          *)
LEMMA InitIInv == Init => IInv
<1> SUFFICES ASSUME Init PROVE IInv
  OBVIOUS
<1>1. TypeOK
  <2>1. \A v \in V : IndexDegree(v) \in 0 .. VMod - 1
    BY NumEdgesNat, VModPositive DEF IndexDegree
  <2> QED  BY <2>1, ConstAssumption, VModPositive DEF Init, TypeOK, NoReport
<1>2. RemainingCount /\ Drained /\ Idle
  BY DEF Init, RemainingCount, Drained, Idle
<1> QED  BY <1>1, <1>2 DEF IInv

(* Every step of main, of the workers and of the barrier keeps it.         *)
LEMMA NextIInv == IInv /\ [Next]_vars => IInv'
<1> SUFFICES ASSUME IInv, [Next]_vars PROVE IInv'
  OBVIOUS
<1> USE DEF IInv
<1>1. CASE Start
  <2>1. pending = {}
    BY <1>1 DEF Start, StartFilter, Idle
  <2>2. Cardinality({v \in V : Keep(v, K)}) \in Nat
    BY VertexSetFinite
  <2>3. Cardinality({}) = 0
    BY FS_EmptySet
  <2>4. TypeOK'
    BY <1>1, <2>2 DEF Start, StartFilter, TypeOK
  <2>5. RemainingCount'
    BY <1>1, <2>1, <2>2, <2>3 DEF Start, StartFilter, RemainingCount
  <2>6. (Drained /\ Idle)'
    BY <1>1 DEF Start, StartFilter, Drained, Idle
  <2> QED  BY <2>4, <2>5, <2>6
<1>2. ASSUME NEW w \in Workers, NEW v \in V, RunVertex(w, v)
      PROVE  IInv'
  <2>1. status = "running" /\ v \in curr /\ wstate[w] = "run"
    BY <1>2 DEF RunVertex, ProcessVertices
  <2>2. curr \subseteq V /\ pending \subseteq V /\ curr \cap pending = {}
        /\ remaining = Cardinality(curr) + Cardinality(pending)
    BY <2>1 DEF TypeOK, RemainingCount
  <2>3. /\ Cardinality(curr \ {v}) = Cardinality(curr) - 1
        /\ Cardinality(pending \cup {v}) = Cardinality(pending) + 1
        /\ Cardinality(curr) \in Nat /\ Cardinality(pending) \in Nat
        /\ Cardinality(curr) # 0
    <3>1. IsFiniteSet(curr) /\ IsFiniteSet(pending)
      BY <2>2, VertexSetFinite
    <3>2. v \notin pending
      BY <2>1, <2>2
    <3>3. Cardinality(curr) # 0
      BY <2>1, <3>1, FS_EmptySet
    <3> QED  BY <2>1, <2>2, <3>1, <3>2, <3>3, FS_RemoveElement, FS_AddElement,
               VertexSetFinite
  <2>4. TypeOK'
    BY <1>2, <2>1, <2>2, <2>3 DEF RunVertex, ProcessVertices, TypeOK
  <2>5. RemainingCount'
    <3>1. CASE degree[v] > K \/ deleted[v]
      <4>1. curr' = curr \ {v} /\ pending' = pending /\ remaining' = remaining - 1
            /\ status' = status
        BY <1>2, <3>1 DEF RunVertex, ProcessVertices
      <4> QED  BY <4>1, <2>1, <2>2, <2>3 DEF RemainingCount
    <3>2. CASE ~(degree[v] > K \/ deleted[v])
      <4>1. curr' = curr \ {v} /\ pending' = pending \cup {v}
            /\ remaining' = remaining /\ status' = status
        BY <1>2, <3>2 DEF RunVertex, ProcessVertices
      <4> QED  BY <4>1, <2>1, <2>2, <2>3 DEF RemainingCount
    <3> QED  BY <3>1, <3>2
  <2>6. (Drained /\ Idle)'
    BY <1>2, <2>1 DEF RunVertex, ProcessVertices, Drained, Idle
  <2> QED  BY <2>4, <2>5, <2>6
<1>3. ASSUME NEW w \in Workers, NEW v \in V, IOComplete(w, v)
      PROVE  IInv'
  <2>1. status = "running" /\ v \in pending /\ wstate[w] = "run"
    BY <1>3 DEF IOComplete, ProcessVertices
  <2>2. curr \subseteq V /\ pending \subseteq V /\ curr \cap pending = {}
        /\ remaining = Cardinality(curr) + Cardinality(pending)
    BY <2>1 DEF TypeOK, RemainingCount
  <2>3. /\ Cardinality(pending \ {v}) = Cardinality(pending) - 1
        /\ Cardinality(curr) \in Nat /\ Cardinality(pending) \in Nat
        /\ Cardinality(pending) # 0
    <3>1. IsFiniteSet(pending)
      BY <2>2, VertexSetFinite
    <3>2. Cardinality(pending) # 0
      BY <2>1, <3>1, FS_EmptySet
    <3> QED  BY <2>1, <2>2, <3>1, <3>2, FS_RemoveElement, VertexSetFinite
  <2>4. Multicast(v) \subseteq Msgs
    BY DEF Multicast
  <2>5. TypeOK'
    <3>1. remaining' \in Nat /\ pending' \subseteq V
      BY <1>3, <2>1, <2>2, <2>3 DEF IOComplete, ProcessVertices, TypeOK
    <3>2. deleted' \in [V -> BOOLEAN] /\ outbuf' \subseteq Msgs
      <4>1. CASE ~deleted[v] /\ degree[v] < K
        BY <1>3, <2>4, <4>1 DEF IOComplete, ProcessVertices, TypeOK
      <4>2. CASE ~(~deleted[v] /\ degree[v] < K)
        BY <1>3, <4>2 DEF IOComplete, ProcessVertices, TypeOK
      <4> QED  BY <4>1, <4>2
    <3> QED  BY <1>3, <3>1, <3>2 DEF IOComplete, ProcessVertices, TypeOK
  <2>6. RemainingCount'
    <3>1. curr' = curr /\ pending' = pending \ {v} /\ remaining' = remaining - 1
          /\ status' = status
      BY <1>3 DEF IOComplete, ProcessVertices
    <3> QED  BY <3>1, <2>1, <2>2, <2>3 DEF RemainingCount
  <2>7. (Drained /\ Idle)'
    BY <1>3, <2>1 DEF IOComplete, ProcessVertices, Drained, Idle
  <2> QED  BY <2>5, <2>6, <2>7
<1>4. ASSUME NEW w \in Workers, Flush(w)
      PROVE  IInv'
  <2>1. status = "running" /\ remaining = 0
    BY <1>4 DEF Flush
  <2>2. curr = {} /\ pending = {}
    <3>1. curr \subseteq V /\ pending \subseteq V
          /\ Cardinality(curr) + Cardinality(pending) = 0
      BY <2>1 DEF TypeOK, RemainingCount
    <3>2. Cardinality(curr) = 0 /\ Cardinality(pending) = 0
      BY <3>1, VertexSetFinite
    <3> QED  BY <3>1, <3>2, EmptyByCount
  <2>3. \A m \in outbuf : Receiver(m) \in V
    BY MsgEnds DEF TypeOK
  <2>4. TypeOK'
    BY <1>4, <2>3 DEF Flush, TypeOK
  <2>5. (RemainingCount /\ Drained /\ Idle)'
    BY <1>4, <2>1, <2>2 DEF Flush, RemainingCount, Drained, Idle
  <2> QED  BY <2>4, <2>5
<1>5. ASSUME NEW w \in Workers, PassBarrier1(w)
      PROVE  IInv'
  <2>1. curr = {} /\ pending = {} /\ remaining = 0
    BY <1>5 DEF PassBarrier1, Drained
  <2> QED  BY <1>5, <2>1 DEF PassBarrier1, TypeOK, RemainingCount, Drained, Idle
<1>6. ASSUME NEW w \in Workers, NEW m \in Msgs, DeliverMsg(w, m)
      PROVE  IInv'
  <2>1. Receiver(m) \in V /\ VMod \in Nat \ {0}
    BY MsgEnds, VModPositive
  <2>2. degree' \in [V -> 0 .. VMod - 1]
    BY <1>6, <2>1 DEF DeliverMsg, TypeOK
  <2>3. TypeOK'
    BY <1>6, <2>2 DEF DeliverMsg, TypeOK
  <2>4. (RemainingCount /\ Drained /\ Idle)'
    BY <1>6 DEF DeliverMsg, RemainingCount, Drained, Idle
  <2> QED  BY <2>3, <2>4
<1>7. ASSUME NEW w \in Workers, ArriveBarrier2(w)
      PROVE  IInv'
  <2>1. curr = {} /\ pending = {} /\ remaining = 0
    BY <1>7 DEF ArriveBarrier2, Drained
  <2> QED  BY <1>7, <2>1 DEF ArriveBarrier2, TypeOK, RemainingCount, Drained, Idle
<1>8. CASE ProgressNextLevel
  <2>1. 0 \in Workers
    BY ConstAssumption DEF Workers
  <2>2. curr = {} /\ pending = {} /\ remaining = 0
    BY <1>8, <2>1 DEF ProgressNextLevel, Drained
  <2>3. Cardinality(next) \in Nat /\ Cardinality({}) = 0
    BY VertexSetFinite, FS_EmptySet DEF TypeOK
  <2>4. TypeOK'
    BY <1>8, <2>3 DEF ProgressNextLevel, TypeOK
  <2>5. RemainingCount'
    BY <1>8, <2>2, <2>3 DEF ProgressNextLevel, RemainingCount
  <2>6. (Drained /\ Idle)'
    BY <1>8, <2>2 DEF ProgressNextLevel, Drained, Idle
  <2> QED  BY <2>4, <2>5, <2>6
<1>9. CASE Report
  <2>1. CountDeleted \in Nat
    BY VertexSetFinite DEF CountDeleted, DeletedSet
  <2>2. (K + 1) % VMod \in 0 .. VMod - 1
    BY VModPositive DEF TypeOK
  <2>3. TypeOK'
    BY <1>9, <2>1, <2>2 DEF Report, TypeOK
  <2>4. (RemainingCount /\ Drained /\ Idle)'
    BY <1>9 DEF Report, RemainingCount, Drained, Idle
  <2> QED  BY <2>3, <2>4
<1>10. CASE UNCHANGED vars
  BY <1>10 DEF vars, TypeOK, RemainingCount, Drained, Idle
<1> QED
  BY <1>1, <1>2, <1>3, <1>4, <1>5, <1>6, <1>7, <1>8, <1>9, <1>10
  DEF Next, Main, Worker

(* The type invariant of the level loop: in particular the remaining-      *)
(* vertex counter of graph_engine never underflows and degree-- and        *)
(* CURRENT_K++ stay within vsize_t.                                        *)
THEOREM TypeCorrect == Spec => []TypeOK
<1>1. Init => IInv
  BY InitIInv
<1>2. IInv /\ [Next]_vars => IInv'
  BY NextIInv
<1>3. IInv => TypeOK
  BY DEF IInv
<1> QED  BY <1>1, <1>2, <1>3, PTL DEF Spec

(* num_remaining_vertices_in_level counts exactly the unprocessed vertices *)
(* of the level, in every run.                                             *)
THEOREM RemainingCountInvariant == Spec => []RemainingCount
<1>1. IInv => RemainingCount
  BY DEF IInv
<1> QED  BY InitIInv, NextIInv, <1>1, PTL DEF Spec

-----------------------------------------------------------------------------
(* Messages of different senders are different messages.                   *)
LEMMA MulticastDisjoint ==
  ASSUME NEW u \in V, NEW v \in V, u # v
  PROVE  Multicast(u) \cap Multicast(v) = {}
BY DEF Multicast

(* Each step moves deletion messages between the stages and adds the whole *)
(* multicast of a vertex exactly when it becomes deleted.                  *)
LEMMA NextMsg == IInv /\ MsgExactlyOnce /\ [Next]_vars => MsgExactlyOnce'
<1> SUFFICES ASSUME IInv, MsgExactlyOnce, [Next]_vars PROVE MsgExactlyOnce'
  OBVIOUS
<1> DEFINE Sent(D) == UNION {Multicast(u) : u \in {x \in V : D[x]}}
<1>1. MsgExactlyOnce = (/\ outbuf \cap inbox = {}
                        /\ outbuf \cap received = {}
                        /\ inbox \cap received = {}
                        /\ outbuf \cup inbox \cup received = Sent(deleted))
  BY DEF MsgExactlyOnce, DeletedSet
<1>2. ASSUME NEW w \in Workers, NEW v \in V, IOComplete(w, v)
      PROVE  MsgExactlyOnce'
  <2>1. CASE ~deleted[v] /\ degree[v] < K
    <3>1. deleted' = [deleted EXCEPT ![v] = TRUE] /\ deleted \in [V -> BOOLEAN]
          /\ outbuf' = outbuf \cup Multicast(v)
          /\ inbox' = inbox /\ received' = received
      BY <1>2, <2>1 DEF IOComplete, ProcessVertices, IInv, TypeOK
    <3>2. Sent(deleted') = Sent(deleted) \cup Multicast(v)
      BY <3>1
    <3>3. Multicast(v) \cap Sent(deleted) = {}
      BY <2>1, <3>1, MulticastDisjoint
    <3> QED  BY <1>1, <3>1, <3>2, <3>3 DEF MsgExactlyOnce, DeletedSet
  <2>5. CASE ~(~deleted[v] /\ degree[v] < K)
    BY <1>2, <2>5 DEF IOComplete, ProcessVertices, MsgExactlyOnce, DeletedSet
  <2> QED  BY <2>1, <2>5
<1>3. ASSUME NEW w \in Workers, Flush(w)
      PROVE  MsgExactlyOnce'
  BY <1>3 DEF Flush, MsgExactlyOnce, DeletedSet
<1>4. ASSUME NEW w \in Workers, NEW m \in Msgs, DeliverMsg(w, m)
      PROVE  MsgExactlyOnce'
  BY <1>4 DEF DeliverMsg, MsgExactlyOnce, DeletedSet
<1>5. CASE Start \/ ProgressNextLevel \/ Report \/ UNCHANGED vars
  BY <1>5 DEF Start, StartFilter, ProgressNextLevel, Report, vars, MsgExactlyOnce, DeletedSet
<1>6. ASSUME NEW w \in Workers, NEW v \in V, RunVertex(w, v)
      PROVE  MsgExactlyOnce'
  BY <1>6 DEF RunVertex, ProcessVertices, MsgExactlyOnce, DeletedSet
<1>7. ASSUME NEW w \in Workers, PassBarrier1(w) \/ ArriveBarrier2(w)
      PROVE  MsgExactlyOnce'
  BY <1>7 DEF PassBarrier1, ArriveBarrier2, MsgExactlyOnce, DeletedSet
<1> QED  BY <1>2, <1>3, <1>4, <1>5, <1>6, <1>7 DEF Next, Main, Worker

(* Every deleted_message multicast by run(prog, vertex) is, at any time,   *)
(* in exactly one sender buffer, receiver inbox, or consumed once by       *)
(* run_on_message: no message of the engine's flush is lost or duplicated. *)
THEOREM MsgExactlyOnceInvariant == Spec => []MsgExactlyOnce
<1>1. Init => IInv /\ MsgExactlyOnce
  <2>1. Init => MsgExactlyOnce
    BY DEF Init, MsgExactlyOnce, DeletedSet
  <2> QED  BY InitIInv, <2>1
<1>2. IInv /\ MsgExactlyOnce /\ [Next]_vars => (IInv /\ MsgExactlyOnce)'
  BY NextIInv, NextMsg
<1> QED  BY <1>1, <1>2, PTL DEF Spec
-----------------------------------------------------------------------------
(* The partitioner maps every vertex to a worker.                          *)
LEMMA OwnerWorker ==
  ASSUME NEW v \in V
  PROVE  Owner(v) \in Workers
BY ConstAssumption DEF Owner, Workers, V

(* Both ends of a message are owned by workers.                            *)
LEMMA MsgOwners ==
  ASSUME NEW m \in Msgs
  PROVE  Owner(Sender(m)) \in Workers /\ Owner(Receiver(m)) \in Workers
BY MsgEnds, OwnerWorker

(* The engine's start and the barrier step establish the barrier facts,   *)
(* and no worker step breaks them.                                         *)
LEMMA InitBarriers == Init => Barriers
BY DEF Init, Barriers

LEMMA NextBarriers == IInv /\ Barriers /\ [Next]_vars => Barriers'
<1> SUFFICES ASSUME IInv, Barriers, [Next]_vars PROVE Barriers'
  OBVIOUS
<1> USE DEF IInv
<1>1. CASE Start
  BY <1>1 DEF Start, Barriers
<1>2. ASSUME NEW w \in Workers, NEW v \in V, RunVertex(w, v)
      PROVE  Barriers'
  BY <1>2 DEF RunVertex, ProcessVertices, Barriers
<1>3. ASSUME NEW w \in Workers, NEW v \in V, IOComplete(w, v)
      PROVE  Barriers'
  <2>1. \A m \in Multicast(v) : Owner(Sender(m)) = w
    BY <1>3 DEF IOComplete, Multicast
  <2>2. status = "running" /\ wstate[w] = "run"
    BY <1>3 DEF IOComplete
  <2> QED  BY <1>3, <2>1, <2>2 DEF IOComplete, ProcessVertices, Barriers
<1>4. ASSUME NEW w \in Workers, Flush(w)
      PROVE  Barriers'
  <2> DEFINE sent == {m \in outbuf : Owner(Sender(m)) = w}
  <2>1. /\ status = "running" /\ wstate[w] = "run"
        /\ outbuf' = outbuf \ sent /\ inbox' = inbox \cup sent
        /\ wstate' = [wstate EXCEPT ![w] = "b1"] /\ status' = status
    BY <1>4 DEF Flush
  <2>2. \A u \in Workers : wstate[u] \notin {"deliver", "b2"}
    BY <2>1 DEF Barriers
  <2>3. \A m \in outbuf : Owner(Sender(m)) \in Workers /\ Owner(Receiver(m)) \in Workers
    BY MsgOwners DEF TypeOK
  <2>4. \A m \in inbox : Owner(Receiver(m)) \in Workers
    BY MsgOwners DEF TypeOK
  <2> QED  BY <2>1, <2>2, <2>3, <2>4 DEF Barriers, TypeOK
<1>5. ASSUME NEW w \in Workers, PassBarrier1(w)
      PROVE  Barriers'
  <2>1. /\ wstate[w] = "b1" /\ \A u \in Workers : wstate[u] # "run"
        /\ wstate' = [wstate EXCEPT ![w] = "deliver"]
        /\ UNCHANGED <<status, next, outbuf, inbox>>
    BY <1>5 DEF PassBarrier1
  <2>2. outbuf = {}
    BY <2>1, MsgOwners DEF Barriers, TypeOK
  <2>3. \A m \in inbox : Owner(Receiver(m)) \in Workers
    BY MsgOwners DEF TypeOK
  <2> QED  BY <2>1, <2>2, <2>3 DEF Barriers, TypeOK
<1>6. ASSUME NEW w \in Workers, NEW m \in Msgs, DeliverMsg(w, m)
      PROVE  Barriers'
  BY <1>6 DEF DeliverMsg, Barriers
<1>7. ASSUME NEW w \in Workers, ArriveBarrier2(w)
      PROVE  Barriers'
  <2>1. /\ wstate[w] = "deliver" /\ \A m \in inbox : Owner(Receiver(m)) # w
        /\ wstate' = [wstate EXCEPT ![w] = "b2"]
        /\ UNCHANGED <<status, next, outbuf, inbox>>
    BY <1>7 DEF ArriveBarrier2
  <2>2. \A u \in Workers : wstate[u] # "run"
    BY <2>1 DEF Barriers
  <2>3. outbuf = {}
    BY <2>2, MsgOwners DEF Barriers, TypeOK
  <2>4. \A x \in inbox : Owner(Receiver(x)) \in Workers
    BY MsgOwners DEF TypeOK
  <2> QED  BY <2>1, <2>2, <2>3, <2>4 DEF Barriers, TypeOK
<1>8. CASE ProgressNextLevel
  <2>1. \A u \in Workers : wstate[u] = "b2"
    BY <1>8 DEF ProgressNextLevel
  <2>2. outbuf = {} /\ inbox = {}
    BY <2>1, MsgOwners DEF Barriers, TypeOK
  <2> QED  BY <1>8, <2>2 DEF ProgressNextLevel, Barriers
<1>9. CASE Report
  BY <1>9 DEF Report, Barriers
<1>10. CASE UNCHANGED vars
  BY <1>10 DEF vars, Barriers
<1> QED
  BY <1>1, <1>2, <1>3, <1>4, <1>5, <1>6, <1>7, <1>8, <1>9, <1>10
  DEF Next, Main, Worker

(* When wait4complete returns, and until the next start, no vertex is      *)
(* queued, in flight or activated for a next level, and no deleted_message *)
(* is buffered or undelivered: the barriers of the level loop make the     *)
(* engine stop only at quiescence, for every graph and number of workers.  *)
THEOREM QuiescentInvariant == Spec => []Quiescent
<1>1. Init => IInv /\ Barriers
  BY InitIInv, InitBarriers
<1>2. IInv /\ Barriers /\ [Next]_vars => (IInv /\ Barriers)'
  BY NextIInv, NextBarriers
<1>3. IInv /\ Barriers => Quiescent
  BY DEF IInv, Idle, Barriers, Quiescent
<1> QED  BY <1>1, <1>2, <1>3, PTL DEF Spec
-----------------------------------------------------------------------------
(* The edge ends a live vertex still counts in its degree: those of live   *)
(* neighbours and those whose deleted_message has not yet been run.       *)
Counted(v) == {m \in Ends(v) : ~deleted[Sender(m)] \/ m \in outbuf \cup inbox}

(* index.get_num_in_edges + get_num_out_edges of every vertex fits in      *)
(* vsize_t, so the initial degree is the number of edge ends.             *)
DegreesFit == \A v \in V : NumEdges(v) <= VMax

(* There are finitely many messages, so every set of messages is finite.  *)
LEMMA MsgSetFinite ==
  ASSUME NEW S \in SUBSET Msgs
  PROVE  IsFiniteSet(S) /\ Cardinality(S) \in Nat
<1>1. IsFiniteSet(V)
  BY ConstAssumption, FS_Interval DEF V
<1>2. IsFiniteSet({1, 2})
  <2>1. {1, 2} = 1 .. 2
    OBVIOUS
  <2>2. 1 \in Int /\ 2 \in Int
    OBVIOUS
  <2> QED  BY <2>1, <2>2, FS_Interval
<1>3. IsFiniteSet(E)
  BY <1>1, ConstAssumption, FS_Product, FS_Subset
<1>4. IsFiniteSet(Msgs)
  BY <1>2, <1>3, FS_Product DEF Msgs
<1> QED  BY <1>4, FS_Subset, FS_CardinalityType

LEMMA InitDegree == DegreesFit /\ Init => DegreeAccount
<1> SUFFICES ASSUME DegreesFit, Init, NEW v \in V PROVE degree[v] = Cardinality(Counted(v))
  BY DEF DegreeAccount, Counted
<1>1. Counted(v) = Ends(v)
  BY MsgEnds DEF Init, Counted, Ends
<1>2. NumEdges(v) \in 0 .. VMod - 1
  BY NumEdgesNat, ConstAssumption DEF DegreesFit, VMod
<1>3. IndexDegree(v) = NumEdges(v)
  BY <1>2, VModPositive DEF IndexDegree
<1> QED  BY <1>1, <1>3 DEF Init, NumEdges

(* run_on_message lowers the degree of a live receiver exactly when one of *)
(* its counted edge ends leaves the inbox, and the multicast of a deleted *)
(* vertex puts into the buffers exactly the ends it stops counting as live. *)
LEMMA NextDegree ==
  IInv /\ MsgExactlyOnce /\ DegreeAccount /\ [Next]_vars => DegreeAccount'
<1> SUFFICES ASSUME IInv, MsgExactlyOnce, DegreeAccount, [Next]_vars
             PROVE  DegreeAccount'
  OBVIOUS
<1> USE DEF IInv
<1>0. DegreeAccount' = \A v \in V : ~deleted'[v] => degree'[v] = Cardinality(Counted(v)')
  BY DEF DegreeAccount, Counted
<1>1. CASE UNCHANGED <<deleted, degree, outbuf, inbox>>
  BY <1>0, <1>1 DEF DegreeAccount, Counted
<1>2. ASSUME NEW w \in Workers, Flush(w)
      PROVE  DegreeAccount'
  <2>1. outbuf' \cup inbox' = outbuf \cup inbox
    BY <1>2 DEF Flush
  <2> QED  BY <1>0, <1>2, <2>1 DEF Flush, DegreeAccount, Counted
<1>3. ASSUME NEW w \in Workers, NEW v \in V, IOComplete(w, v)
      PROVE  DegreeAccount'
  <2>1. CASE ~deleted[v] /\ degree[v] < K
    <3>1. deleted' = [deleted EXCEPT ![v] = TRUE] /\ deleted \in [V -> BOOLEAN]
          /\ outbuf' = outbuf \cup Multicast(v)
          /\ inbox' = inbox /\ degree' = degree
      BY <1>3, <2>1 DEF IOComplete, ProcessVertices, TypeOK
    <3>2. ASSUME NEW u \in V, u # v PROVE Counted(u)' = Counted(u)
      <4>1. ASSUME NEW x \in Ends(u)
            PROVE  (~deleted'[Sender(x)] \/ x \in outbuf' \cup inbox')
                     <=> (~deleted[Sender(x)] \/ x \in outbuf \cup inbox)
        <5>1. x \in Msgs /\ Sender(x) \in V
          BY MsgEnds DEF Ends
        <5>2. CASE Sender(x) = v
          <6>1. x \in Multicast(v)
            BY <5>1, <5>2 DEF Multicast
          <6> QED  BY <2>1, <3>1, <5>2, <6>1
        <5>3. CASE Sender(x) # v
          <6>1. x \notin Multicast(v)
            BY <5>3 DEF Multicast
          <6> QED  BY <3>1, <5>1, <5>3, <6>1
        <5> QED  BY <5>2, <5>3
      <4> QED  BY <4>1 DEF Counted
    <3>3. SUFFICES ASSUME NEW u \in V, ~deleted'[u]
                   PROVE  degree'[u] = Cardinality(Counted(u)')
      BY <1>0
    <3>4. u # v /\ ~deleted[u]
      BY <3>1, <3>3
    <3> QED  BY <3>1, <3>2, <3>4 DEF DegreeAccount, Counted
  <2>2. CASE ~(~deleted[v] /\ degree[v] < K)
    BY <1>1, <1>3, <2>2 DEF IOComplete
  <2> QED  BY <2>1, <2>2
<1>4. ASSUME NEW w \in Workers, NEW m \in Msgs, DeliverMsg(w, m)
      PROVE  DegreeAccount'
  <2> DEFINE r == Receiver(m)
  <2>1. /\ m \in inbox /\ inbox' = inbox \ {m}
        /\ UNCHANGED <<deleted, outbuf>>
        /\ degree' = IF deleted[r] THEN degree
                     ELSE [degree EXCEPT ![r] = (@ - 1) % VMod]
    BY <1>4 DEF DeliverMsg
  <2>2. m \notin outbuf /\ deleted[Sender(m)]
    BY <2>1 DEF MsgExactlyOnce, DeletedSet, Multicast
  <2>3. r \in V /\ Sender(m) \in V
    BY MsgEnds
  <2>4. ASSUME NEW u \in V, u # r PROVE Counted(u)' = Counted(u)
    BY <2>1, <2>4 DEF Counted, Ends
  <2>5. SUFFICES ASSUME NEW u \in V, ~deleted'[u]
                 PROVE  degree'[u] = Cardinality(Counted(u)')
    BY <1>0
  <2>6. deleted \in [V -> BOOLEAN] /\ degree \in [V -> 0 .. VMod - 1]
    BY DEF TypeOK
  <2>7. CASE u # r
    <3>1. degree'[u] = degree[u] /\ ~deleted[u]
      BY <2>1, <2>5, <2>6, <2>7
    <3> QED  BY <2>4, <2>7, <3>1 DEF DegreeAccount, Counted
  <2>8. CASE u = r
    <3>1. ~deleted[r]
      BY <2>1, <2>5, <2>8
    <3>2. Counted(r)' = Counted(r) \ {m} /\ m \in Counted(r)
      BY <2>1, <2>2 DEF Counted, Ends
    <3>3. Counted(r) \in SUBSET Msgs
      BY DEF Counted, Ends
    <3>4. Cardinality(Counted(r)') = Cardinality(Counted(r)) - 1
          /\ Cardinality(Counted(r)) \in Nat \ {0}
      BY <3>2, <3>3, MsgSetFinite, FS_RemoveElement, FS_EmptySet
    <3>5. degree[r] = Cardinality(Counted(r)) /\ degree[r] \in 0 .. VMod - 1
      BY <2>3, <2>6, <3>1 DEF DegreeAccount, Counted
    <3>6. degree'[r] = (degree[r] - 1) % VMod
      BY <2>1, <2>3, <2>6, <3>1
    <3>7. degree'[r] = degree[r] - 1
      BY <3>4, <3>5, <3>6, VModPositive
    <3> QED  BY <2>8, <3>4, <3>5, <3>7
  <2> QED  BY <2>7, <2>8
<1> QED
  BY <1>1, <1>2, <1>3, <1>4
  DEF Next, Main, Worker, Start, RunVertex, PassBarrier1, ArriveBarrier2,
      ProgressNextLevel, Report, vars

(* The accounting of the degrees, with the invariants it rests on, holds  *)
(* in every reachable state when the degrees fit in vsize_t.               *)
LEMMA DegreeInvHolds ==
  DegreesFit => (Spec => [](IInv /\ MsgExactlyOnce /\ DegreeAccount))
<1> SUFFICES ASSUME DegreesFit
             PROVE  Spec => [](IInv /\ MsgExactlyOnce /\ DegreeAccount)
  OBVIOUS
<1>1. Init => IInv /\ MsgExactlyOnce /\ DegreeAccount
  <2>1. Init => MsgExactlyOnce
    BY DEF Init, MsgExactlyOnce, DeletedSet
  <2> QED  BY InitIInv, InitDegree, <2>1
<1>2. IInv /\ MsgExactlyOnce /\ DegreeAccount /\ [Next]_vars
        => (IInv /\ MsgExactlyOnce /\ DegreeAccount)'
  BY NextIInv, NextMsg, NextDegree
<1> QED  BY <1>1, <1>2, PTL DEF Spec

(* When the degrees of the graph fit in vsize_t, the degree every live     *)
(* kcore_vertex keeps equals its live neighbours' edge ends plus the       *)
(* deleted_messages still travelling to it: run_on_message never          *)
(* decrements twice for one deletion, nor wraps below 0.                  *)
THEOREM DegreeAccountInvariant == DegreesFit => (Spec => []DegreeAccount)
<1>1. IInv /\ MsgExactlyOnce /\ DegreeAccount => DegreeAccount
  OBVIOUS
<1> QED  BY <1>1, DegreeInvHolds, PTL

(* The live neighbours' edge ends are among those the degree counts.      *)
LEMMA AliveBelowCounted ==
  ASSUME TypeOK, NEW v \in V
  PROVE  AliveDegree(v) <= Cardinality(Counted(v))
<1>1. Counted(v) \in SUBSET Msgs
  BY DEF Counted, Ends
<1>2. IsFiniteSet(Counted(v))
  BY <1>1, MsgSetFinite
<1>3. {m \in Ends(v) : ~deleted[Sender(m)]} \subseteq Counted(v)
  BY DEF Counted
<1> QED  BY <1>2, <1>3, FS_Subset DEF AliveDegree

(* A step of a state with exact degrees deletes only vertices outside the  *)
(* CURRENT_K-core.                                                         *)
LEMMA DeleteStep ==
  ASSUME IInv, DegreeAccount, [Next]_vars
  PROVE  [\A v \in V : ~deleted[v] /\ deleted'[v] => AliveDegree(v) < K]_vars
<1>1. CASE \E w \in Workers, v \in V : IOComplete(w, v)
  <2>1. PICK w \in Workers, v \in V : IOComplete(w, v)
    BY <1>1
  <2>2. CASE ~deleted[v] /\ degree[v] < K
    <3>1. deleted' = [deleted EXCEPT ![v] = TRUE] /\ deleted \in [V -> BOOLEAN]
      BY <2>1, <2>2 DEF IOComplete, ProcessVertices, IInv, TypeOK
    <3>2. AliveDegree(v) <= Cardinality(Counted(v))
      BY AliveBelowCounted DEF IInv
    <3>3. degree[v] = Cardinality(Counted(v))
      BY <2>2 DEF DegreeAccount, Counted
    <3>4. AliveDegree(v) < K
      <4>1. Cardinality(Counted(v)) \in Nat /\ K \in Nat
        BY MsgSetFinite, VModPositive DEF Counted, Ends, IInv, TypeOK
      <4>2. AliveDegree(v) \in Nat
        BY MsgSetFinite DEF AliveDegree, Ends
      <4> QED  BY <2>2, <3>2, <3>3, <4>1, <4>2
    <3> QED  BY <3>1, <3>4
  <2>3. CASE ~(~deleted[v] /\ degree[v] < K)
    BY <2>1, <2>3 DEF IOComplete
  <2> QED  BY <2>2, <2>3
<1>2. CASE ~\E w \in Workers, v \in V : IOComplete(w, v)
  <2>1. deleted' = deleted
    BY <1>2 DEF Next, Main, Worker, Start, RunVertex, Flush, PassBarrier1,
                DeliverMsg, ArriveBarrier2, ProgressNextLevel, Report, vars
  <2> QED  BY <2>1
<1> QED  BY <1>1, <1>2

(* When the degrees fit in vsize_t, kcore_vertex::run(prog, vertex) deletes *)
(* a vertex only when it has fewer than CURRENT_K edge ends of live        *)
(* neighbours: the degree test it makes on its own counter is sound,       *)
(* whatever deletion messages are still in flight.                         *)
THEOREM DeleteSoundHolds == DegreesFit => (Spec => DeleteSound)
<1>1. IInv /\ MsgExactlyOnce /\ DegreeAccount /\ [Next]_vars
        => [\A v \in V : ~deleted[v] /\ deleted'[v] => AliveDegree(v) < K]_vars
  BY DeleteStep
<1> QED  BY <1>1, DegreeInvHolds, PTL DEF Spec, DeleteSound

=============================================================================

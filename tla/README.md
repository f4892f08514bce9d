# Verification of fg-graphyti: TLA+ models

This directory holds TLA+ models of the parts of fg-graphyti (FlashGraph and
FlashMatrix, `src/`) whose behaviour can be model-checked. Beside them are the
TLC configurations that check the models on small instances, and TLAPS proofs
of their central invariants for all values of the constants.

`PROJECT.json` lists:
- the components;
- the runs;
- the mutants;
- the map from every definition to the source lines it models;
- the findings;
- the hazards.

Parse a module with `tlasany M.tla`, run one check with
`tlc -workers 2 -config X.cfg M`, and check the proofs with `tlapm M.tla`.

## 1. The system and how its parts interact

| Part | Source | Module |
|---|---|---|
| k-core application | `src/apps/k-core/k_core.cpp` | `KCore` (+ `MC_KCore`, `KCore_proofs`) |
| graph engine level loop (declarations only) | `src/flash-graph/graph_engine.h` | inside `KCore` |
| matrix library initialisation | `src/matrix/sparse_matrix.cpp` 720-742 | `MatrixInit` (+ `MC_MatrixInit`, `MatrixInit_proofs`) |
| block compute tasks and execution orders | `src/matrix/sparse_matrix.cpp` 38-226, 600-626 | `BlockTask` (+ `MC_BlockTask`, `BlockTask_proofs`), `HilbertOrder`, `HilbertCurve` |
| sparse matrix multiply (SpMV and SpMM, four matrix classes, `transpose`) | `src/matrix/sparse_matrix.h`, `sparse_matrix.cpp` 296-718 | `SpMV` (+ `MC_SpMV`), refining `AbsMultiply` |
| on-disk 2D format | `src/matrix/sparse_matrix_format.cpp` | `MatrixFormat` (+ `MC_MatrixFormat`) |
| workload generators | `src/workload.h` | `GlobalPermute` (+ `MC_GlobalPermute`, `GlobalPermute_proofs`) |
| `test_algs` driver | `src/flash-graph/test-algs/test_algs.cpp` | `TestAlgs` (+ `MC_TestAlgs`) |

**The k-core round.** `main` of k-core builds a `graph_engine`. For each k in
`[kmin, kmax]` it calls `start(filter)` and `wait4complete`, then
`query_on_all(count_vertex_query)`.

The engine runs one worker thread per partition, and each vertex belongs to one
worker. In every level:
- each worker calls `run(prog)` on its activated vertices;
- a vertex that calls `request_vertices` gets `run(prog, vertex)` once its
  adjacency list arrives;
- every processed vertex decrements `num_remaining_vertices_in_level`;
- a vertex's multicast messages are buffered per worker, flushed at the end of
  the level and delivered (`run_on_message`) to the receiver's owner;
- a `deleted_message` carries the activate flag, so it activates its receiver
  for the next level.

Two barriers separate the levels. `progress_next_level` detects the end of the
round when nothing was activated.

The engine's `.cpp` is not in the repository. The engine is therefore modelled
from the contract in `spec.md` and from the fields declared in
`graph_engine.h`. Its definitions are marked `spec_modelled` in the map.

**The matrix library.** Every user calls `init_flash_matrix` before it
multiplies and `destroy_flash_matrix` afterwards. An atomic `init_count` picks
the caller that initialises the I/O system and the caller that destroys it.

`multiply()` checks the input length and picks a task creator for the matrix
format. It then runs the compute tasks on the worker threads:
- a 2D task (`block_compute_task::run`) walks its block rows in super blocks,
  in the sequential or the Hilbert order that `get_multiply_order` chose;
- a FlashGraph-format task walks rows.

The blocks come from files in the 2D format, which `append`/`verify` and the
index `create`/`load` functions write and read.

**The workloads.** Every I/O thread has a workload that hands out page offsets.
All `global_rand_permute_workload`s share one static `rand_permute`, which the
first constructor creates and every destructor deletes.

## 2. Modules: state and actions against the code

### KCore
**Constants.**
- `NumVertices`, `NumWorkers` and the edge set `E`.
- `Kmin`, and `KmaxGiven`/`KmaxArg` (`argv[4]`, or else the maximum degree).
- `MaxProcessing`: `max_processing_vertices`, the cap on requests in flight.
- `VMax`: the largest `vsize_t`. Degree and k arithmetic is `% (VMax + 1)`.

A `deleted_message` has no payload, so a message is `<<e, i>>`: the message sent
along edge `e` to its end `i`.

**State.**
- `K`, which is `CURRENT_K`.
- `deleted` and `degree`.
- `status` of `main`.
- `wstate` of each worker: run, b1, deliver, b2.
- `level`.
- `curr`/`pending`/`next`: activated now, request in flight, activated for the
  next level.
- `remaining`, which is `num_remaining_vertices_in_level`.
- The message stages `outbuf` → `inbox` → `received`.
- `report`.

**Actions.**
- `Start`, which is `start(filter)` with `activate_k_filter::keep`.
- `RunVertex`: `run(prog)`, with its early return and the in-flight cap.
- `IOComplete`: `run(prog, vertex)`, which deletes the vertex and multicasts.
- `Flush`, `PassBarrier1`, `DeliverMsg` (`run_on_message`), `ArriveBarrier2`
  and `ProgressNextLevel`.
- `Report`: the count query, the print, `CURRENT_K++` and the loop test in
  `vsize_t`.

**Fairness.** Weak fairness of each worker, of the barrier step and of `main`.
Workers are OS threads that keep running while they have work, and I/O requests
complete.

### MatrixInit
**Constants.** `Threads` (the users), `Rounds` (the init/destroy pairs per user)
and `CanFail` (whether `init_io_system` may throw).

**State.** `init_count`, `io` (down/up) and a per-thread `pc`.

**Actions.** `FetchAdd`, `InitIO`/`InitIOFail` (the initialisation, or the
`catch` that decrements and rethrows), `FetchSub` and `DestroyIO`. Only the
counter is atomic, so the steps interleave.

**Fairness.** Weak fairness per thread.

### BlockTask, HilbertOrder and HilbertCurve
`BlockTask` models one task. A block row is the sequence of the column indices
of its non-empty blocks.
- The task's constructor chooses the order with `get_multiply_order`.
- `run()` builds the block-row iterators (`Build`) and scans the super
  blocks (`Scan`).
- `RowEnd` ends a row of the super block and accumulates `has_blocks`.
- `ExecBlock` is one turn of the loop of `seq_exec_order::exec` or
  `hilbert_exec_order::exec`. The variable `pos` is the loop position, and
  `Entry(pos)` is the entry of `blocks` visited there. The turn calls
  `run_on_block` unless the entry is NULL.
- `ExecEnd` ends the loop, advances `sb_col_idx` and loops while `has_blocks`.
  The code advances `sb_col_idx` before `exec`, which does not read it, so
  the order does not matter. `ExecLen` is 0 when `hilbert_exec_order::exec`
  rejects a super block whose size differs from `hilbert_orders`.

The exec loop is one action per entry rather than an atomic filter of the
super block. That is how the code is written, and the prover can reason
about it: the prover treats `SelectSeq`, a built-in, as opaque.

`HilbertCurve` is `hilbert_xy2d`, together with a recursive reference
definition of the curve. It is TLC-only.

`HilbertOrder` is the constructor of `hilbert_exec_order(n)`: a nested loop
pushes the cells, then they are sorted.

### SpMV
**Constants.** `Workers`, the matrix size `N` (rows = columns), `BR`/`BC`
(the block size), the non-zero pattern `NZ`, `DCols` (the columns of a dense
input) and `Inputs`, a set of inputs the caller may pass. Values are kept as
naturals and the matrix entries are abstracted to a 0/1 pattern, so an output
entry is the sum of the inputs of the row's columns.

**The matrix classes.** `Init` picks one of the four classes that the code's
`create` functions build:
- `fg_sym` / `fg_asym` (`fg_sparse_sym_matrix`, `fg_sparse_asym_matrix`,
  `sparse_matrix.cpp` 545-552): one FlashGraph index (the in- and out-edges of
  a directed graph, one set for an undirected one);
- `b2d_sym` / `b2d_asym` (`block_sparse_matrix::create`, 691-718): one or two
  2D-format files.

`Stored(kind)` is the pattern as stored (a symmetric class stores `NZ` and its
transpose). `Mat` is what `init_io_gens` hands the tasks: `Index(trans)` for a
FlashGraph asymmetric matrix, `B2DMat(trans)` (the `mat`/`t_mat` pair, swapped
by `transpose`) for a 2D one.

**Actions.**
- `TransposeFGSym`, `TransposeB2DSym`: a symmetric matrix's `transpose` does
  nothing. `TransposeFGAsym` flips `transposed`; `TransposeB2DAsym` swaps `mat`
  and `t_mat`. `ltrans` is a history variable: the parity of the caller's
  calls.
- `Multiply` (vector): checks the length; a wrong length gives a null result,
  otherwise it starts `compute()` over the block rows (`Tasks`).
- `MultiplyDense` (`multiply_matrix`): a wrong row count or an input not in
  memory gives null. Otherwise a row-major input goes to
  `MultiplyMatrixRow`, which aborts on `assert(!is_fg)` for a FlashGraph
  matrix, and a column-major input goes to `MultiplyMatrixCol`, which multiplies
  one column at a time.
- `Take(w)`: a worker takes a task from the I/O generators.
- `RunOnRow(w)`: a FlashGraph task sets `output[row][col]`.
- `RunOnRowPartMM(w)`: a 2D task in the row-major layout adds the row part to
  every column of the output row in place.
- `RunOnPart(w)` and `SetOutput(w)`: a 2D task in the vector or column layout
  reads `output.get(row)`, adds the row part's sum, then writes it back.
- `Join`: when every worker is idle and no task is left, either the column loop
  goes on (`NextColumn`) or `multiply` returns.

**Fairness.** Weak fairness of `Join` and of the workers' steps. A worker thread
is runnable until the generators are empty, and the main thread waits in the
join. Nothing obliges the caller to call `multiply` or `transpose`, so those
get no fairness.

### AbsMultiply
The caller's view of `multiply`: `transpose` flips a flag, and a call
(`Call`) either is refused (`Refuse`: a null result or an abort) or returns
(`Return`) the product of the current matrix and the input in one step. The
refinement mapping sends `pattern` to `Stored(kind)`, `flipped` to `ltrans`,
`status` to the main thread's phase, `input` to `x` and `result` to the output
once `multiply` returns (zero before). `Refines == Abs!Spec` is checked as a
property of the `spmv` run. It says that every interleaving of the tasks
computes the same thing as the one-step product, and that it returns.

### MatrixFormat
**State.**
- `parts`, the row parts appended. A part is its relative row and its non-zero
  count.
- `rsize`, which is `rparts_size`, a `uint32_t` scaled to `SizeMax`.
- The verdict of `verify()`.
- The index offsets.
- The last `get_block_row_off`.
- A load buffer: none, owned or leaked.

**Actions.** `AppendPart`, `VerifyBlock`, `CreateIndex`, `GetBlockRowOff` and
`Load`. The index and load actions are modelled for completeness; the one
property, `VerifySound`, concerns `append` and `verify`.

Without asserts (`NDEBUG`), `append` wraps the size and `verify` returns as if
the block had passed.

### GlobalPermute
**Constants.**
- `Threads`, with one workload each.
- `Num`, the number of pages.
- `Bounds`, each thread's `[start, end)`.
- `CtorInMain`: the main thread constructs every workload before the threads
  start.
- `DtorAfterJoin`: the main thread deletes every workload after the join.

The test drivers that make these choices are not in the repository, so both
are constants.

**State.**
- `permute`, the static pointer.
- `heap`: each object is unalloc, live or freed.
- `content`: each object's offsets, kept as page numbers (the stride is
  abstracted to 1).
- Per thread: `obj`, the object its constructor is building, and `shuf`, the
  `i` of the shuffle loop.
- `pc`, `cur` and `got`: how often each page was returned.
- `faults`.

**Actions.**
- `CtorTest`: `if (permute == NULL)`.
- `CtorNew`: `new rand_permute`, that is `valloc` and the fill loop.
- `Shuffle`: one turn of the loop, `j = random() % i`.
- `Publish`: the assignment to `permute` after the constructor returns.
- `NextOffset`/`Finish`: `next_offset`/`has_next`. With `CtorInMain` both
  wait until no constructor runs, because the I/O threads start after the
  main thread's constructors.
- `DtorTest`, `DtorDelete` and `DtorNull`: the three steps of the destructor,
  with no lock.

**Fairness.** Weak fairness per thread.

### TestAlgs
The model covers one invocation of the driver:
- `main`'s argument count, opening the graph and dispatch (`Main`);
- each `run_<alg>`'s getopt loop, with its option string and its `abort()` or
  `assert(0)` default (`GetOpt`);
- the checks after the loop (`Check`, with `EdgeOK`, `DiversityRefuses`,
  `HopsOK` and `KminOK`);
- the result file (`Compute`);
- the exit status.

Option values are abstracted to the ones the checks tell apart. The algorithms
are a single step. `run_triangle`, `run_cc` and `run_scc` have no getopt loop
and ignore their options (`NoGetopt`): they go straight to `Check`.
Most of the option checks are modelled for fidelity only: the one property,
`ZeroExitMeansSuccess`, is about the dispatch and the `abort()` paths.

## 3. Runs

Twelve runs: six pass and six violate one property each.

| Run | Instance | Checks | Result |
|---|---|---|---|
| `kcore_rounds` | `GraphMix` (9 vertices), 3 workers, cap 2, 3-bit `vsize_t`; kmax from `max_degree_query` (4), so rounds k = 2, 3, 4 | TypeOK, RemainingCount, MsgExactlyOnce, DegreeAccount, Quiescent, DeleteSound, RoundTerminates | pass |
| `kcore_stale_filter` | `GraphStale` (6 vertices), k = 2..3 | PeelComplete | violation |
| `matrix_init_refcount` | 3 users, 2 pairs each, failing init | TypeOK, CountAccount, NoLeak | pass |
| `matrix_init_ready_early` | 2 users, 1 pair each | ReadyMeansUp | violation |
| `hilbert_order` | `hilbert_exec_order(16)` | TypeOK, MatchesReference | pass |
| `block_task_hilbert` | every task of 2 block rows over 5 block columns, Hilbert order | TypeOK, AssertHolds, SuperBlockShape, ProcessedExactlyOnce, Terminates | pass |
| `block_task_row_bound` | 2 block rows | IteratorsInBounds | violation |
| `global_permute_main` | 3 threads, 4 pages, ranges [0,1) [1,3) [3,4), constructed and deleted by main | TypeOK, MemorySafe, ReadsExactlyOnce, NoLeak | pass |
| `global_permute_thread_dtor` | the same, each thread deleting its own | MemorySafe | violation |
| `spmv` | 4x4 matrix with 7 asymmetric non-zeros, 2x2 blocks, 2 workers, all four classes, vector and 2-column dense inputs, any transpose sequence | TypeOK, OutputCorrect, NoOutputRace, Refines | pass |
| `test_algs_unknown_alg` | all 20 algorithms and one unknown name, up to 2 option tokens | ZeroExitMeansSuccess | violation |
| `matrix_format_verify_gap` | 2x2 blocks, up to 3 row parts | VerifySound | violation |

**Why these bounds.**
- `GraphMix` makes every branch happen:
  - a chain peeled over two levels;
  - a vertex of degree exactly k, which is read but not deleted;
  - early returns;
  - a deleted vertex that receives messages and is activated again;
  - messages that cross workers.

  Three rounds reuse the state of earlier rounds.
- The 3-bit `vsize_t` is the width the counters are modelled at. kmax stays
  below its largest value, so the `CURRENT_K` wrap is not reached (see below).
- Three library users are enough for a failed first initialisation to overlap
  with a second user and a destroyer.
- A 2-row task over 5 columns gives complete and partial super blocks, empty
  rows and every column pattern.
- Three workload threads with unequal ranges give a thread that finishes while
  others still read.
- Four pages give 3! = 6 shuffles.
- In `spmv`, two workers and two block rows put two tasks in flight at once. The
  input is a single generic vector (entry c of column j is (j+1)*5^c), so any
  wrong set of columns summed gives a different number; enumerating all 0/1
  inputs adds nothing but states. The pattern is not symmetric, so a missed
  transpose changes the product. In
  the 2D format each row has parts in two blocks, so the read-modify-write of
  the output happens more than once per row.

**Deadlock checks.** Every cfg says `CHECK_DEADLOCK FALSE`, because every
modelled program ends:
- `main` of k-core exits;
- the users finish;
- `run()` returns;
- the workloads are destroyed;
- `multiply()` returns;
- the driver exits.

Termination is checked as a liveness property instead, where the code promises
it.

**Mutants.** Every property of every passing run has a mutant in
`PROJECT.json`: a plausible bug in the mapped code that TLC shows violates it.
Examples:
- the catch block of `init_flash_matrix` forgetting `init_count--`;
- `next_offset` forgetting `start++`;
- the Fisher-Yates bound `random() % (i + 1)` in place of `% i`;
- `output.set(row, sum)` without the `get`.

## 4. Properties

- **KCore.**
  - `RemainingCount`: the level counter equals the queued plus the in-flight
    vertices.
  - `MsgExactlyOnce`: every deletion message is in exactly one stage.
  - `DegreeAccount`: a live vertex's degree is its live neighbours plus the
    deletions still travelling to it.
  - `Quiescent`: when `wait4complete` returns, no work or message is left.
  - `DeleteSound` (action): a vertex is deleted only with fewer than k live
    neighbours.
  - `PeelComplete`: at the end of a round every live vertex has at least k live
    neighbours.
  - `RoundTerminates`: liveness.
- **MatrixInit.**
  - `CountAccount`: `init_count` equals the callers between `fetch_add` and
    `fetch_sub`, less those whose initialisation threw.
  - `NoLeak`: at the end the I/O system is down and the count is 0.
  - `ReadyMeansUp`: a returned `init_flash_matrix` has an I/O system that is up.
- **BlockTask.**
  - `AssertHolds`: the scan's `assert`.
  - `SuperBlockShape`.
  - `ProcessedExactlyOnce`: the blocks processed are exactly the task's blocks,
    each once.
  - `Terminates`.
  - `IteratorsInBounds`.
- **HilbertOrder.**
  - `MatchesReference`: the sorted vector is the recursively defined Hilbert
    curve.
- **GlobalPermute.**
  - `MemorySafe`: no NULL dereference, use after free or double free.
  - `ReadsExactlyOnce`: every page is read once.
  - `NoLeak`.
- **SpMV.**
  - `OutputCorrect`: every finished column of the output (all of them once
    `multiply` returns, the earlier columns during the column loop) is the
    product of the caller's matrix and the input, whatever the interleaving.
  - `NoOutputRace`: two workers in flight never work on the same output row.
    The FlashGraph tasks write `output` without a lock, and the 2D tasks do an
    unlocked read-modify-write; both rely on the row ranges being disjoint.
  - `Refines`: the detailed specification implements `AbsMultiply`.
- **TestAlgs.**
  - `ZeroExitMeansSuccess`: exit 0 only after the algorithm ran with accepted
    options.
- **MatrixFormat.**
  - `VerifySound`: a block that `verify()` accepts keeps the format's contract.

## 5. Findings (violation runs)

1. **Stale activation filter** (`k_core.cpp:282`). The activation filter of a
   later round compares the index degree with k. A vertex whose degree fell
   below k in an earlier round is not activated again, so it stays in the
   reported k-core (`kcore_stale_filter`).
2. **Early return from `init_flash_matrix`** (`sparse_matrix.cpp:725`). It
   returns at once when `fetch_add` gives a nonzero count. A second user can
   therefore run while the first is still inside `init_io_system`
   (`matrix_init_ready_early`).
3. **Read past the end of `block_rows`** (`sparse_matrix.cpp:183`). `run()`
   reads `block_rows[i + 1]` for the last i, one past the vector
   (`block_task_row_bound`).
4. **Destructor frees the shared permutation** (`workload.h:174`). Each
   workload's destructor deletes the shared permutation and sets it to NULL.
   When the threads destroy their own workloads, the first one to finish frees
   it under the threads still reading it (`global_permute_thread_dtor`).
5. **Unknown algorithm exits 0** (`test_algs.cpp:940`). An unknown algorithm is
   reported, but `main` returns 0. The spec lists it among the errors that exit
   nonzero (`test_algs_unknown_alg`).
6. **`verify()` skips the order check for row 0**
   (`sparse_matrix_format.cpp:39`). Two row parts of relative row 0 therefore
   pass (`matrix_format_verify_gap`).

### Further observations read from the code
These are not checked by a run. Each is a hazard in `PROJECT.json`, with a
note.
- **Count of deleted vertices** (`k_core.cpp:152`). The printed number counts
  deleted vertices, while the message calls it the k-core.
- **`CURRENT_K++` wraps** (`k_core.cpp:298`) when kmax is the largest
  `vsize_t`. The model keeps the wrap (`% VMax`), but no run reaches it: with
  kmax at the largest value the round loop never ends, and a run that must
  pass cannot contain it. It is not checked.
- **`destroy_io_system` on a system that is not up**
  (`sparse_matrix.cpp:732`). Suppose the first caller's initialisation throws
  while a second caller has already counted itself in. The second caller's
  `destroy_flash_matrix` then sees `fetch_sub` return 1 and calls
  `destroy_io_system` on an I/O system that never came up.
- **Grid test ignores the configured order** (`sparse_matrix.cpp:616`).
  `get_multiply_order` rejects a grid that is not a power of two even when the
  sequential order is configured.
- **Racing constructors** (`workload.h:165`). Workloads built by their own
  threads race on `if (permute == NULL)`. The run constructs every workload
  from main, so it does not check this race. `TypeOKInvariant` is proved for
  every interleaving of the constructor steps, which keeps the counters and
  the allocation in range but says nothing of a leak or a double read.
- **`local_rand_permute_workload::clone`** shares the array, and both
  destructors free it. It is not modelled.
- **`test_algs` with `NDEBUG`.** The `assert(0)` default cases disappear, so an
  unknown option is ignored (`test_algs.cpp:513`).
- **`test_algs` default edge type.** The default edge string of bfs, closeness
  and diversity is empty, and `edge_str2edge` exits(1) on it when no `-e` is
  given (`test_algs.cpp:556`).
- **`append` without asserts** (`sparse_matrix_format.cpp:51`). `rparts_size`
  wraps.
- **Failed `load()`** (`sparse_matrix_format.cpp:118`). When `fopen` or `fread`
  fails, the malloc'd buffer is kept.

## 6. Proofs (TLAPS)

Every theorem is proved with the constants' assumptions only. Those assumptions
are named `ASSUME`s in the modelled modules, and TLC evaluates them on every
run.

### `KCore_proofs`
The theorems hold for every graph, worker count, cap, k range and `vsize_t`
width:
- `TypeCorrect`: `Spec => []TypeOK`.
- `RemainingCountInvariant`: `Spec => []RemainingCount`.
- `MsgExactlyOnceInvariant`: `Spec => []MsgExactlyOnce`.

`TypeOK` alone is not inductive: `remaining - 1` must not underflow. The
strengthening is `IInv == TypeOK /\ RemainingCount /\ Drained /\ Idle`:
- `RemainingCount` makes a decrement happen only while the count includes the
  vertex;
- `Drained` says a worker past the flush has seen the counter at 0 with empty
  queues;
- `Idle` says the queues are empty between rounds.

The proof has `InitIInv` and `NextIInv`, with one step per action and under it
one step per conjunct. `MsgExactlyOnce` is proved on top of `IInv`, using the
lemma that the multicasts of two deletions are disjoint.

### `MatrixInit_proofs`
The theorems hold for any finite set of users and any number of rounds:
- `TypeCorrect`.
- `CountAccountInvariant`.

The strengthening is `IInv == TypeOK /\ CountAccount`. The count never
underflows because every decrement belongs to a counted caller. The lemma
`InsideStep` gives the cardinality of the counted set after one caller enters
or leaves.

### `KCore_proofs`, continued: the barriers and the degrees
- `QuiescentInvariant`: `Spec => []Quiescent`, for every graph and worker
  count. `Quiescent` is not inductive over `IInv`: it needs to know where the
  messages are relative to the two barriers. The strengthening `Barriers`
  says four things:
  - once a worker is past barrier 1, no worker still runs the level;
  - a buffered message has a sender whose worker is running;
  - a flushed message is not addressed to a worker already at barrier 2;
  - between rounds `next`, `outbuf` and `inbox` are empty.
  When every worker is at barrier 2, the second and third facts force both
  message stages to be empty. `progress_next_level` then ends the round only
  with `next` empty. The lemmas `OwnerWorker` and `MsgOwners` show that the
  partitioner maps both ends of a message to a worker.
- `DegreeAccountInvariant`: `DegreesFit => (Spec => []DegreeAccount)`.
  `DegreesFit` says every vertex's number of edge ends is at most `VMax`, so
  `get_num_in_edges + get_num_out_edges` does not wrap. Without it the initial
  degree is already wrong, and the theorem says so. The proof goes on top of
  `IInv /\ MsgExactlyOnce`:
  - `Counted(v)` is the set of edge ends the degree should count;
  - a deletion moves the multicast ends of `v` from "live sender" to
    "buffered", so every other vertex's `Counted` is unchanged;
  - a flush only moves messages from `outbuf` to `inbox`;
  - `run_on_message` removes one element of `Counted(r)`, and the degree,
    being that cardinality, is at least 1, so the `% VMod` of the decrement
    never wraps.
  `MsgExactlyOnce` supplies that a message in an inbox has a deleted sender
  and is not also in a buffer.
- `DeleteSoundHolds`: `DegreesFit => (Spec => DeleteSound)`, an action
  property. A deleting step has `degree[v] < CURRENT_K`. `DegreeAccount`
  makes that degree the size of `Counted(v)`, and `AliveBelowCounted` shows
  that the live neighbours' edge ends are a subset of `Counted(v)`.

### `MatrixInit_proofs`, continued
`NoLeakInvariant`: `Spec => []NoLeak` for any finite set of users and rounds.
`IInv` alone does not say who brings the I/O system down. The strengthening
`LInv` adds three facts:
- `UpOwned`: while the I/O system is up, some user is between
  `init_flash_matrix` and `destroy_flash_matrix`;
- `ReinitPending`: if a user starts initialising while the system is up,
  another user has yet to run its destroy;
- `OneInit`: at most one user runs `init_io_system` at a time.
The lemma `InsideMeans` ties `init_count = 0` to the set of counted users
being empty.

### `GlobalPermute_proofs`
The static `permute` is read and deleted with no lock, so nothing holds for
every caller. The violation run `global_permute_thread_dtor` shows that. The
theorems assume the caller's discipline, as a hypothesis of the theorem:
`Discipline == CtorInMain /\ DtorAfterJoin`.
- `MemorySafeMain`: `Discipline => (Spec => []MemorySafe)`.
- `NoLeakMain`: `Discipline => (Spec => []NoLeak)`.
- `ReadsExactlyOnceMain`:
  `Discipline /\ Partition => (Spec => []ReadsExactlyOnce)`. `Partition`
  says the ranges `[start, end)` are pairwise disjoint and cover the pages,
  which is what the property's comment presupposes.

The inductive invariant `IInv` (about 15 conjuncts) says:
- constructors run one at a time, with `permute` NULL until the first
  `Publish`;
- before that, no object is live except the one being shuffled;
- a thread in `next_offset` sees a live `permute`;
- destructors run one at a time and only after every range is done;
- a non-NULL `permute` is live except between `delete` and `permute = NULL`;
- every live object is `permute` or the one being shuffled.

`RInv` adds the reads:
- `PermOK`: every object holds a permutation. The lemma `SwapPerm` shows
  that one turn of the shuffle loop keeps it one.
- `OneTable`: only one `rand_permute` is ever allocated.
- `CurOK`: nothing is read while a constructor runs, and a finished thread
  has read its whole range.
- `GotOK`: `got[q]` is 1 exactly when some thread has read an offset that
  holds `q`.
`next_offset` reads an offset that no thread has read before. Within its own
range it is past what that thread has read, and the other ranges are disjoint
from it. Injectivity then gives a page not returned before. Surjectivity
gives every page at the end.

- `TypeOKInvariant`: `WellFormed => (Spec => []TypeOK)`. Unlike the other
  theorems, this one does not assume `Discipline`. It holds for every
  interleaving of constructors and destructors, including the racy ones.
  `WellFormed` says `start <= end` in every range. `TypeOK` states
  `cur[t] \in start .. end`, which is empty otherwise. The hard part is that
  `new rand_permute`'s `CHOOSE` of an unallocated object always succeeds,
  though racing constructors may each allocate one. The strengthening `TInv`
  adds `Cardinality(Alloc) <= Cardinality(PastNew)`: no more objects are
  allocated than there are threads past their constructor's test. A thread
  at `new` is not past its test, so fewer objects than threads are allocated
  (`RoomToAllocate`, with `FS_RemoveElement` and `FS_Subset`). `CtorNew`
  grows both sets by one (`FS_AddElement`). `DtorDelete` only frees an
  object that is already allocated. `TInv` also says that `permute` and the
  object being shuffled are allocated. TLC checked `TInv` first, under all
  four caller disciplines, with ranges that overlap and ranges that are
  empty.

### `BlockTask_proofs`
- `AssertHoldsInvariant`: `Spec => []AssertHolds`.
- `SuperBlockShapeInvariant`: `Spec => []SuperBlockShape`.
Both hold for every number of block rows, every row pattern and every
execution order. The inductive invariant has two parts:
- every row's current part is at least `Reach(r)`, the column the scan has
  reached in that row;
- every block collected so far, at index `r * NB + c` of a scanned cell, is
  `<<r, sb + c>>`.
The index lemmas `IdxIn`, `IdxInj` and `IdxSplit` show that `r * NB + c` is
a bijection onto `0 .. NB * NB - 1` with inverse `div`/`mod`. `RowFacts`
unpacks a block row, a strictly increasing sequence of columns.

- `ProcessedExactlyOnceInvariant`:
  `HOrderIsGrid => (Spec => []ProcessedExactlyOnce)`.
- `TypeOKInvariant`: `HOrderIsGrid => (Spec => []TypeOK)`.

The hypothesis `HOrderIsGrid` says that `hilbert_orders` holds every cell of
the `n x n` grid exactly once. The constructor of `hilbert_exec_order(n)`
(lines 86-104) guarantees this: it pushes each cell once and then sorts, and
a sort permutes. The hypothesis does not depend on `hilbert_xy2d` being
right, which is only model-checked (`MatchesReference`).

The inductive invariant `PInv` strengthens `IInv` with six named parts.
- `Ctl`: the control state and the bounds of the exec loop.
- `Proc`: `processed` is an injective sequence of blocks.
- `Behind`: a block that an iterator has moved past (`Taken`) lies left of
  `Bound(r)`. That bound is the scan's column, or `sb_col_idx` once
  `run()` is done.
- `Got`: the blocks processed are exactly the taken blocks left of
  `sb_col_idx`, plus those the exec loop has run in this super block
  (`Visited`).
- `Found`: a scanned entry of the super block is non-NULL exactly when its
  block was taken.
- `More`: `has_blocks` says whether a row scanned so far has blocks left.

The argument, step by step:
- `ScanPInv`: a turn of the inner loop takes at most the block in column
  `sb + j`, so it adds nothing left of `sb_col_idx`.
- `ExecBlockPInv`: the exec loop appends only new blocks. The lemma
  `EntryFacts` shows that `Entry` is a bijection from the loop positions onto
  the entries. The entries have distinct blocks (`SuperBlockShape`), and the
  appended block lies right of every block processed in an earlier super
  block.
- `ExecEndPInv`: at the end of the loop, `Visited` is every taken block of
  the super block's columns, so `Got` holds again for the new `sb_col_idx`.
- At `done` no row has blocks left, so every block of the task was taken
  and lies left of `sb_col_idx`.
- `AppendFacts` gives the range and the injectivity of `Append`.

- `PInvProcessed`: `PInv => ProcessedExactlyOnce`, the last step of
  `ProcessedExactlyOnceInvariant`.

### Left to TLC
TLC alone checks the following, for the reasons given.
- **Liveness and `ENABLED`.** The liveness properties (`RoundTerminates`,
  `Terminates`, ...) and properties that use `ENABLED` are out
  of the prover's reach.
- **`SpMV`'s `TypeOK`, `OutputCorrect` and `NoOutputRace`, and the refinement
  of `AbsMultiply`.** They need what the recursive functions `SumOver` and
  `BlockRowParts` compute for every input, that is induction over data. The
  installed provers cannot instantiate the library's induction theorems.
- **`hilbert_xy2d`.** That the sorted `hilbert_orders` follows the Hilbert
  curve (`MatchesReference`) is a fact about the recursive `HilbertCurve`.
  `BlockTask`'s theorems need only that `hilbert_orders` is a permutation of
  the grid.
- **Recursive modules.** Everything in modules that reach a `RECURSIVE`
  operator (`HilbertCurve`, `HilbertOrder`).
- **Violated properties.** `MatrixFormat`, `TestAlgs`, `MatrixInit`'s
  `ReadyMeansUp` and `KCore`'s `PeelComplete` are checked only by violation
  runs (section 5). There is
  nothing true to prove about them as stated.

## 7. Not modelled

- **Outside `src/`.** The page cache, SAFS I/O, the graph index, the vertex
  store and the partitioner.
- **`workload.h`.**
  - `seq_workload`, `stride_workload`, `rand_workload` and `file_workload` are
    counters over an array, used by one thread.
  - `balanced_workload` takes its work from `stride_workload_chunk`, whose code
    is not here.
  - `local_rand_permute_workload` is only cloned by a driver that is not in the
    repository.
- **Pure data code.** `utils.h` and `save_result.h` are conversion and copying,
  and `matrix_store.h` is accessors.
- **`block_spmm_task` in `sparse_matrix.cpp` (220-295).** It belongs to a newer
  version of the code than `sparse_matrix.h` (it calls `get_in_rows`,
  `get_out_rows` and `notify_complete`, which the header does not declare),
  and its callers are not in the repository. `SpMV` models the header's SpMM.
- **Rectangular matrices.** The model keeps `nrows = ncols`, so a swap of the
  two in a check is not observable.
- **RAID0 placement** of the 2D files: it is done by SAFS, outside `src/`.

**Plan for later sittings.**
- A refinement of `KCore` to an abstract peeling specification.
- A proof that `KCore` refines an abstract peeling specification, built on
  `DegreeAccount` and `DeleteSound`.

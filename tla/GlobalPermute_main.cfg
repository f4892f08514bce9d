\* The main thread constructs the workloads, starts the threads, joins them and deletes the workloads.
CONSTANTS
  t1 = t1
  t2 = t2
  t3 = t3
  Threads <- MCThreads
  Num = 4
  Bounds <- MCBounds
  CtorInMain = TRUE
  DtorAfterJoin = TRUE
SPECIFICATION Spec
INVARIANTS TypeOK MemorySafe ReadsExactlyOnce NoLeak
\* The run ends when every workload is destroyed.
CHECK_DEADLOCK FALSE

\* The main thread constructs the workloads; each thread deletes its own when its range is done.
CONSTANTS
  t1 = t1
  t2 = t2
  t3 = t3
  Threads <- MCThreads
  Num = 4
  Bounds <- MCBounds
  CtorInMain = TRUE
  DtorAfterJoin = FALSE
SPECIFICATION Spec
INVARIANT MemorySafe
\* The run ends when every workload is destroyed.
CHECK_DEADLOCK FALSE

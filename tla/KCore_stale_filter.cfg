\* Rounds k = 2, 3 on a graph where round 2 lowers a vertex's degree below
\* 3 without deleting it; round 3's initial filter looks at the index degree.
CONSTANTS
  NumVertices = 6
  NumWorkers = 2
  E <- GraphStale
  Kmin = 2
  KmaxGiven = TRUE
  KmaxArg = 3
  MaxProcessing = 1
  VMax = 7
SPECIFICATION Spec
INVARIANTS
  PeelComplete
CHECK_DEADLOCK FALSE

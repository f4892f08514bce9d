\* The whole k loop of main: kmax omitted, so it is the maximum degree (4),
\* and rounds k = 2, 3, 4 run on graph GraphMix with three workers.
CONSTANTS
  NumVertices = 9
  NumWorkers = 3
  E <- GraphMix
  Kmin = 2
  KmaxGiven = FALSE
  KmaxArg = 0
  MaxProcessing = 2
  VMax = 7
SPECIFICATION Spec
INVARIANTS
  TypeOK
  RemainingCount
  MsgExactlyOnce
  DegreeAccount
  Quiescent
PROPERTIES
  DeleteSound
  RoundTerminates
CHECK_DEADLOCK FALSE

CONSTANTS
  Algs <- AllAlgs
  MaxOpts = 2
  NDEBUG = FALSE
  IOFails = FALSE
SPECIFICATION Spec
INVARIANT ZeroExitMeansSuccess
CHECK_DEADLOCK FALSE

CONSTANTS
  BRows = 2
  BCols = 2
  MaxParts = 3
  SizeMax = 8
  NBR = 2
  NDEBUG = FALSE
SPECIFICATION Spec
INVARIANT VerifySound
CHECK_DEADLOCK FALSE

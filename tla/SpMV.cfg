CONSTANTS
  w1 = w1
  w2 = w2
  Workers <- MCWorkers
  NZ <- MCNZ
  N = 4
  BR = 2
  BC = 2
  Inputs <- MCInputs
  DCols = 2
SPECIFICATION Spec
INVARIANTS TypeOK OutputCorrect NoOutputRace
PROPERTY Refines
CHECK_DEADLOCK FALSE

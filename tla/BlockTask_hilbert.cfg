\* A task of 2 block rows over 5 block columns on a 2 x 2 grid with the
\* Hilbert order configured: the task runs hilbert_exec_order(2).
CONSTANTS
  NB = 2
  NCols = 5
  UseHilbert = TRUE
  GridRows = 2
  GridCols = 2
  HOrder <- MCHOrder
SPECIFICATION Spec
INVARIANTS TypeOK AssertHolds SuperBlockShape ProcessedExactlyOnce
PROPERTY Terminates
\* The task ends once run() has called notify_complete.
CHECK_DEADLOCK FALSE

\* run() builds one iterator per entry of block_rows, the last one from
\* block_rows[block_rows.size()]: a task of 2 block rows suffices.
CONSTANTS
  NB = 2
  NCols = 2
  UseHilbert = FALSE
  GridRows = 2
  GridCols = 2
  HOrder <- MCHOrder
SPECIFICATION Spec
INVARIANT IteratorsInBounds
CHECK_DEADLOCK FALSE

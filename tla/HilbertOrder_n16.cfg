\* The constructor of hilbert_exec_order for a 16 x 16 grid of blocks.
CONSTANT N = 16
SPECIFICATION Spec
INVARIANTS TypeOK MatchesReference
\* The constructor ends once the vector is sorted.
CHECK_DEADLOCK FALSE

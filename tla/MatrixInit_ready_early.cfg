\* Two users, one pair each, no failures: the second init_flash_matrix
\* returns while the first caller is still in init_io_system.
CONSTANTS
  t1 = t1
  t2 = t2
  t3 = t3
  Threads = {t1, t2}
  Rounds = 1
  CanFail = FALSE
SPECIFICATION Spec
INVARIANTS
  ReadyMeansUp
CHECK_DEADLOCK FALSE

\* Three users, two init/destroy pairs each, init_io_system may throw.
CONSTANTS
  t1 = t1
  t2 = t2
  t3 = t3
  Threads <- ThreadSet
  Rounds = 2
  CanFail = TRUE
SPECIFICATION Spec
INVARIANTS
  TypeOK
  CountAccount
  NoLeak
CHECK_DEADLOCK FALSE

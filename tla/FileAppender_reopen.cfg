SPECIFICATION Spec
CONSTANTS
  Threads = {t1, t2}
  MaxTime = 6
  MaxEvents = 2
  MaxFaults = 2
INVARIANTS
  FileIsTail
  NothingDropped
  HealedByReopen
CHECK_DEADLOCK FALSE

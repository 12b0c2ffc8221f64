SPECIFICATION LocksSpec
CONSTANTS
  Threads = {t1, t2, t3}
  Kinds = {"Mutex", "Spinlock", "CASLock"}
  MaxCount = 2
  MaxCalls = 2
INVARIANTS
  NoLostUpdate
PROPERTIES
  ImplementsExclusiveLock
  EveryScopeEnds
CHECK_DEADLOCK FALSE

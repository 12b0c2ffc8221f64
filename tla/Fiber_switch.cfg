SPECIFICATION Spec
CONSTANTS
  Threads = {t1, t2}
  Fibers = {f, g}
  null = null
INVARIANTS
  CurrentFiber
  ResumesWhereItLeft
  NotDestroyedWhileSuspended
PROPERTIES
  BackToMain
CHECK_DEADLOCK FALSE

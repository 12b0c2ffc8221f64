SPECIFICATION Spec
CONSTANTS
  Threads = {t1}
  Fibers = {f, g}
  null = null
INVARIANTS
  EndedIsReusable
CHECK_DEADLOCK FALSE

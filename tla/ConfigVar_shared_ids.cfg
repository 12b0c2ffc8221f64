SPECIFICATION Spec
CONSTANTS
  Threads = {t1, t2}
  NoThread = NoThread
  Vars = {x, y}
  NoVar = NoVar
  Values = {v0, v1, v2}
  Default = v0
  NoValue = NoValue
  Torn = Torn
  MayThrow = TRUE
  MaxListeners = 3
  MaxCalls = 3
INVARIANTS
  KeyUnique
CHECK_DEADLOCK FALSE

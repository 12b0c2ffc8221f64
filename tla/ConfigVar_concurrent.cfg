SPECIFICATION Spec
CONSTANTS
  Threads = {t1, t2}
  NoThread = NoThread
  Vars = {x}
  NoVar = NoVar
  Values = {v0, v1, v2}
  Default = v0
  NoValue = NoValue
  Torn = Torn
  MayThrow = TRUE
  MaxListeners = 2
  MaxCalls = 3
INVARIANTS
  NoTornRead
  ListenersHearOneChange
  KeyOwned
  ListenersUpToDate
PROPERTIES
  IteratorValid
  EveryCallReturns
CHECK_DEADLOCK FALSE

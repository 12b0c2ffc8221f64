SPECIFICATION Spec
CONSTANTS
  Objects = {a, b}
  main = main
  null = null
  Names = {unknown, n}
  Unknown = unknown
  Empty = empty
  Interrupts = TRUE
INVARIANTS
  HandshakeComplete
  RunTouchesLiveObject
  HandleReleasedOnce
  NameAgrees
PROPERTIES
  CallsReturn

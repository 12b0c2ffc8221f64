SPECIFICATION Spec
CONSTANTS
  Threads = {t1, t2}
  NoThread = NoThread
  t1 = t1
  Parts = {"", "a", "b", "c", "d", "A"}
  BadParts = {"A", "d"}
  Ints = {0, 1, 2}
  Names <- MCNames
  Types = {"int", "map", "list of set"}
  Default <- MCDefault
  Docs <- MCDocs
  LowerPart <- MCLowerPart
  Node <- MCNode
  Depth <- MCDepth
  IntText <- MCIntText
  Statics <- MCStatics
  MaxVars = 3
  MaxCalls <- MCMaxCalls
INVARIANTS
  LoadedAsWritten
  ListsWhatIsWritten
  PrintsReadBack
  NoDeadlock
PROPERTIES
  OneVariablePerName
  EveryCallReturns
CHECK_DEADLOCK FALSE

SPECIFICATION Spec
CONSTANTS
  Items = {"m"}
  Letters = {"m", "z"}
  Others = {"-"}
  MaxLen = 5
INVARIANTS
  InBounds
  ParsesGrammar
PROPERTIES
  Terminates
CHECK_DEADLOCK FALSE

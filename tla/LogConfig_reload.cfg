SPECIFICATION Spec
CONSTANTS
  Names = {1, 2}
  root = 1
  none = none
  nontext = nontext
  p0 = p0
  p1 = p1
  bad = bad
  Patterns = {p0, p1, bad}
  Default = p0
  Files = {1}
  Words <- TypesAndLevels
  Invalid = {bad}
  Docs <- RegularDocs
INVARIANTS
  ReloadSurvives
CHECK_DEADLOCK FALSE

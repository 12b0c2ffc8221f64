SPECIFICATION Spec
CONSTANTS
  Users = {u1, u2}
  Admins = {adm}
  NoThread = NoThread
  Loggers = {root, l}
  root = root
  Appenders = {stdout, file}
  stdout = stdout
  Formatters = {f0, f1}
  null = null
  Default = f0
  Levels = {1, 2}
  MaxEvents = 1
  MaxCalls = 2
INVARIANTS
  FormatterPresent
  OwnFormatterKept
  NoDeadlock
PROPERTIES
  ImplementsEventBus
  EveryCallReturns
CHECK_DEADLOCK FALSE

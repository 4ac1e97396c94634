\* Three closures in tables of two slots, bound while a thread runs through them.
SPECIFICATION Spec
CONSTANTS
  Threads = {t1}
  Closures = 3
  SlotsPerTable = 2
  NULL = NULL
INVARIANTS
  TypeOK
  DispatchesOwnData
  TablesFillUp
  RegistersKept
PROPERTY FaultsOnlyWhileBinding
\* A thread that meets a table while a closure is bound in it stops the process
CHECK_DEADLOCK FALSE

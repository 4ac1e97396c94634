\* Every prologue whose PC-relative instructions lead forward, out of the patch.
SPECIFICATION Spec
CONSTANTS
  Programs <- ForwardPrograms
  Caves <- NearCaves
  Enter = 24576
  Caller = 40960
  Start = 4096
  Base = 32768
  NULL = NULL
INVARIANTS
  TypeOK
  SameEffect
  GroupsSimulate
PROPERTY RelocatedLeaves

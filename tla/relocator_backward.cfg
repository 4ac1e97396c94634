\* Distances that lead backward.
SPECIFICATION Spec
CONSTANTS
  Programs <- BackwardPrograms
  Caves <- NearCaves
  Enter = 24576
  Caller = 40960
  Start = 4096
  Base = 32768
  NULL = NULL
INVARIANTS
  SameEffect

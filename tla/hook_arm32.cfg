\* Hooks of Thumb functions, ARM relocations and calls of the writers; assertions compiled away
SPECIFICATION Spec
CONSTANTS
  Jobs <- AllJobs
  NDEBUG = TRUE
INVARIANTS
  TypeOK
  SameEffect
  HandlersSeeRegisters
  ReturnsToCaller
  CallsMean
PROPERTIES
  Finishes
\* A thread that has left the hook is not followed further
CHECK_DEADLOCK FALSE

\* One hook of a Thumb function at an odd halfword; assertions compiled in
SPECIFICATION Spec
CONSTANTS
  Jobs <- Unaligned
  NDEBUG = FALSE
INVARIANTS
  AssertionsHold
CHECK_DEADLOCK FALSE

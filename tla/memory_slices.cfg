\* The layout lists anonymous memory, as Darwin's does.
SPECIFICATION Spec
CONSTANTS
  PageSize = 16
  Pages = 6
  Regions <- BesideRegions
  Zeros = {}
  Hooks <- SliceHooks
  InvokeSize <- InvokeWords
  BranchRange = 28
  ImmBits = 6
  Backends = {"darwin"}
  StoreAddresses = {}
  NULL = NULL
INVARIANT TrampolinesIntact
\* The process may stop: no cave is in reach of the near hook when it comes first
CHECK_DEADLOCK FALSE

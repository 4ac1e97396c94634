\* Three hooks stacked on one function and one on another, near jump on or off.
SPECIFICATION FairSpec
CONSTANTS
  wrap1 = wrap1
  wrap2 = wrap2
  replace1 = replace1
  dbi1 = dbi1
  fn1 = fn1
  fn2 = fn2
  NULL = NULL
  Targets = {fn1, fn2}
  Hooks = {wrap1, wrap2, replace1, dbi1}
  Target <- OnTwoTargets
  Type <- TypeOfHooks
  CaveAbove = {dbi1, replace1}
  Threads = {t1}
INVARIANTS
  TypeOK
  HooksInOrder
  OriginalRunsOnce
  TrampolinesBuilt
  TornOnlyWhenOverlapped
PROPERTIES
  CallsFinish
  HooksInstalled

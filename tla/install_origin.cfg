\* One thread calls a function while it is being replaced.
SPECIFICATION Spec
CONSTANTS
  wrap1 = wrap1
  wrap2 = wrap2
  replace1 = replace1
  dbi1 = dbi1
  fn1 = fn1
  fn2 = fn2
  NULL = NULL
  Targets = {fn1}
  Hooks = {replace1}
  Target <- OnTwoTargets
  Type <- TypeOfHooks
  CaveAbove = {replace1}
  Threads = {t1}
INVARIANT OriginCallable

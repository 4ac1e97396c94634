\* Every nesting of calls of two wrapped functions, a replaced and an instrumented one.
SPECIFICATION FairSpec
CONSTANTS
  NULL = NULL
  Threads = {t1}
  CallIds = {c1, c2, c3}
  Values = {v1}
  Functions = {w, x, r, d}
  Wrapped = {w, x}
  Replaced = {r}
  Instrumented = {d}
  HasPre = {w}
  HasPost = {w, x}
  HasDbi = {d}
  MaxDepth = 3
  MaxLive = 3
INVARIANTS
  TypeOK
  ReturnsToCaller
  PostMatchesPre
  PushesMatchPops
PROPERTIES
  ImplementsHookedCalls
  CallsReturn

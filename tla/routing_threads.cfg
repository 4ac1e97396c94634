SPECIFICATION Spec
CONSTANTS
  NULL = NULL
  Threads = {t1, t2}
  CallIds = {c1, c2, c3, c4}
  Values = {v1}
  Functions = {w, u}
  Wrapped = {w}
  Replaced = {}
  Instrumented = {}
  HasPre = {w}
  HasPost = {w}
  HasDbi = {}
  MaxDepth = 3
  MaxLive = 2
SYMMETRY Interchangeable
INVARIANTS
  CallIdsLive

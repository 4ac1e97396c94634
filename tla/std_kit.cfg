\* A list of up to three nodes, a map of up to four keys, a buffer that doubles twice.
SPECIFICATION Spec
CONSTANTS
  NULL = NULL
  Nodes = {n1, n2, n3}
  Values = {v1, v2}
  Keys = {key1, key2, key3, key4}
  key1 = key1
  key2 = key2
  key3 = key3
  key4 = key4
  Hash <- Hashes
  Capacity = 2
  MaxSize = 7
INVARIANTS
  TypeOK
  LinksAgree
  NodesInBuckets
  DoublingSuffices
PROPERTIES
  ImplementsList
  ImplementsDictionary
\* Without memory, or after a removal at the end of a chain, the process stops
CHECK_DEADLOCK FALSE

---- MODULE MCStdKit ----
(* StdKit for TLC: four keys, two of which collide in every table.              *)
EXTENDS StdKit

CONSTANTS key1, key2, key3, key4

Hashes == [k \in Keys |-> CASE k = key1 -> 2 [] k = key2 -> 2 [] k = key3 -> 5 [] OTHER -> 7]
====

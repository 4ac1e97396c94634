---- MODULE StdKit ----
(***************************************************************************)
(* The containers of std_kit, each driven by any sequence of calls its     *)
(* users could make.  They share no state: one of them, kind, is in use.   *)
(***************************************************************************)
EXTENDS StdList, StdMap, StdBufferArray

VARIABLE kind

vars == <<listVars, mapVars, bufferVars, kind>>

Init ==
  /\ ListInit /\ MapInit /\ BufferInit
  /\ kind \in {"list", "map", "buffer"}

Next ==
  /\ UNCHANGED kind
  /\ \/ kind = "list" /\ ListNext /\ UNCHANGED <<mapVars, bufferVars>>
     \/ kind = "map" /\ MapNext /\ UNCHANGED <<listVars, bufferVars>>
     \/ kind = "buffer" /\ BufferNext /\ UNCHANGED <<listVars, mapVars>>

Spec == Init /\ [][Next]_vars

TypeOK ==
  /\ {head, tail, result.returned} \subseteq Nodes \cup {NULL}
  /\ len \in 0..Cardinality(Nodes)
  /\ node \in [Nodes -> list_node_t]
  /\ allocated \subseteq Nodes
  /\ \A n \in 1..nbuckets : buckets[n] \in Seq(map_node_t)
  /\ nnodes \in 0..Cardinality(Keys)
  /\ got.returned \in Values \cup {NULL, "ok", "failed"}
  /\ data \in Seq(Values) /\ size = Len(data) /\ capacity \in Nat
====

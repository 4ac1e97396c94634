---- MODULE StdMap ----
(***************************************************************************)
(* std_kit/std_map.c: the hash table behind a call_stack's context_kv and  *)
(* call_stack_kv_set.  A bucket's chain is a sequence, its head first.     *)
(***************************************************************************)
EXTENDS StdValues, Integers, SequencesExt

CONSTANTS
  Keys,
  Hash   \* [Keys -> Nat]: map_hash; keys may collide

ASSUME HashAssumption == IsFiniteSet(Keys) /\ Hash \in [Keys -> Nat]

VARIABLES
  buckets,   \* sequence of nbuckets chains of [key, value]; buckets[n + 1] is number n
  nnodes,
  got,       \* the last call and what it returned
  crashed    \* a null pointer was dereferenced

mapVars == <<buckets, nnodes, got, crashed>>

Answers(call, r) == got' = [call |-> call, returned |-> r]

nbuckets == Len(buckets)
map_value_t == Values
map_node_t == [key : Keys, value : map_value_t]
MapNode(k, v) == [key |-> k, value |-> v]

\* hash & (nbuckets - 1), which is a bucket's number if nbuckets is a power of two
BucketIndex(k, n) == Hash[k] % n

\* map_add_node
AddNode(bs, node) ==
  [bs EXCEPT ![BucketIndex(node.key, Len(bs)) + 1] = <<node>> \o @]

\* Mutant: the nodes stay in their buckets
Resize_NoRehash(bs, n) == bs \o [i \in 1..n - Len(bs) |-> << >>]

\* All nodes chained together: bucket by bucket from the last, each node in front
Chained(bs) ==
  LET chain[i \in 0..Len(bs)] ==
        IF i = 0 THEN << >> ELSE Reverse(bs[Len(bs) + 1 - i]) \o chain[i - 1]
  IN  chain[Len(bs)]

\* The nodes added one by one to n empty buckets
Added(nodes, n) ==
  LET added[i \in 0..Len(nodes)] ==
        IF i = 0 THEN [b \in 1..n |-> << >>] ELSE AddNode(added[i - 1], nodes[i])
  IN  added[Len(nodes)]

\* map_resize to n buckets, or to as many as there are when realloc fails
Resize(bs, n) == Added(Chained(bs), n)

\* Where map_get_node finds the key in its chain
Chain(k) == buckets[BucketIndex(k, nbuckets) + 1]
Position(k) ==
  IF nbuckets = 0 THEN 0 ELSE SelectInSeq(Chain(k), LAMBDA node : node.key = k)

map_get_value(k) ==
  /\ Answers(<<"get", k>>,
             IF Position(k) = 0 THEN NULL ELSE Chain(k)[Position(k)].value)
  /\ UNCHANGED <<buckets, nnodes, crashed>>

ReplaceValue(k, v) ==
  /\ Position(k) # 0
  /\ buckets' = [buckets EXCEPT ![BucketIndex(k, nbuckets) + 1][Position(k)].value = v]
  /\ Answers(<<"set", k, v>>, "ok")
  /\ UNCHANGED <<nnodes, crashed>>

MustGrow == nnodes >= nbuckets
Doubled == IF nbuckets > 0 THEN 2 * nbuckets ELSE 1

AddValue(k, v) ==
  /\ Position(k) = 0
  /\ buckets' = AddNode(IF MustGrow THEN Resize(buckets, Doubled) ELSE buckets, MapNode(k, v))
  /\ nnodes' = nnodes + 1
  /\ Answers(<<"set", k, v>>, "ok")
  /\ UNCHANGED crashed

\* Mutant: realloc's failure is noticed after the buckets were cleared
AddValueNoRoom_Lost(k) ==
  /\ Position(k) = 0 /\ MustGrow
  /\ buckets' = [i \in 1..nbuckets |-> << >>]
  /\ Answers(<<"set", k>>, "failed")
  /\ UNCHANGED <<nnodes, crashed>>

\* realloc fails
AddValueNoRoom(k) ==
  /\ Position(k) = 0 /\ MustGrow
  /\ buckets' = Resize(buckets, nbuckets)
  /\ Answers(<<"set", k>>, "failed")
  /\ UNCHANGED <<nnodes, crashed>>

\* map_node_new writes to what malloc returned without a test
AddValueNoNode(k) ==
  /\ Position(k) = 0
  /\ crashed' = TRUE
  /\ UNCHANGED <<buckets, nnodes, got>>

\* Mutant: the nodes are not counted down
map_remove_value_NoCount(k) ==
  /\ IF Position(k) = 0 THEN UNCHANGED buckets
     ELSE buckets' = [buckets EXCEPT ![BucketIndex(k, nbuckets) + 1] =
                        RemoveAt(@, Position(k))]
  /\ crashed' = (Position(k) # 0 /\ Position(k) = Len(Chain(k)))
  /\ Answers(<<"remove", k>>, NULL)
  /\ UNCHANGED nnodes

\* The walk goes on from the node behind the removed one, and dereferences NULL when
\* there is none
map_remove_value(k) ==
  /\ IF Position(k) = 0 THEN UNCHANGED <<buckets, nnodes>>
     ELSE /\ buckets' = [buckets EXCEPT ![BucketIndex(k, nbuckets) + 1] =
                           RemoveAt(@, Position(k))]
          /\ nnodes' = nnodes - 1
  /\ crashed' = (Position(k) # 0 /\ Position(k) = Len(Chain(k)))
  /\ Answers(<<"remove", k>>, NULL)

\* A walk over the nodes ends before the first one: -1 < nbuckets is a comparison of
\* unsigned numbers
map_iter_new == [bucket_index |-> -1, node_next |-> NULL]
map_iter_next(iter) ==
  /\ iter.bucket_index \notin 0..nbuckets - 1
  /\ Answers(<<"next">>, NULL)
  /\ UNCHANGED <<buckets, nnodes, crashed>>

\* map_destory, and map_new for the next call
map_destory ==
  /\ buckets' = << >> /\ nnodes' = 0
  /\ Answers(<<"destory">>, NULL)
  /\ UNCHANGED crashed

MapInit ==
  /\ buckets = << >> /\ nnodes = 0 /\ crashed = FALSE
  /\ got = [call |-> <<"new">>, returned |-> NULL]

MapNext ==
  /\ ~crashed
  /\ \/ \E k \in Keys :
          \/ map_get_value(k) \/ map_remove_value(k)
          \/ AddValueNoRoom(k) \/ AddValueNoNode(k)
          \/ \E v \in Values : ReplaceValue(k, v) \/ AddValue(k, v)
     \/ map_iter_next(map_iter_new)
     \/ map_destory

NodesOf(bs) == UNION {ToSet(bs[b]) : b \in DOMAIN bs}

\* Every node is in the bucket of its hash
Placed(bs) ==
  \A b \in DOMAIN bs : \A i \in DOMAIN bs[b] : BucketIndex(bs[b][i].key, Len(bs)) + 1 = b

\* No key is there twice
KeysOnce(bs) ==
  \A b, c \in DOMAIN bs : \A i \in DOMAIN bs[b] : \A j \in DOMAIN bs[c] :
    bs[b][i].key = bs[c][j].key => b = c /\ i = j

PowerOfTwo(n) ==
  LET power[e \in 0..n] == IF e = 0 THEN 1 ELSE 2 * power[e - 1]
  IN  \E e \in 0..n : n = power[e]

(***************************************************************************)
(* Every node is in the bucket of its hash, no key is there twice, and the *)
(* number of buckets is a power of two not below the number of nodes, so   *)
(* that a lookup looks where the node is.  About map_resize, with and      *)
(* without memory, and the condition under which it is called.             *)
(***************************************************************************)
NodesInBuckets ==
  /\ Placed(buckets) /\ KeysOnce(buckets)
  /\ nnodes = Cardinality(NodesOf(buckets)) /\ nnodes <= nbuckets
  /\ nbuckets = 0 \/ PowerOfTwo(nbuckets)

\* The map implements a dictionary, each operation in one step
Lookup(k) ==
  LET found == {node \in NodesOf(buckets) : node.key = k}
  IN  IF found = {} THEN NULL ELSE (CHOOSE node \in found : TRUE).value

DictionaryOf == INSTANCE Dictionary WITH dict <- [k \in Keys |-> Lookup(k)]

(***************************************************************************)
(* Whatever the collisions and the growth, a get returns what was last set *)
(* for its key, and a set that fails for want of memory changes no key.    *)
(* About all of std_map.c, and what ThreadStack takes a store for.         *)
(***************************************************************************)
ImplementsDictionary == DictionaryOf!Spec
====

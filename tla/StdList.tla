---- MODULE StdList ----
(***************************************************************************)
(* std_kit/std_list.c: a doubly linked list with its length, as the thread *)
(* stack, the closure bridge, the memory manager and the relocator use it. *)
(* The caller of a push has made the node with list_node_new; the caller   *)
(* of a pop owns the node again.                                           *)
(***************************************************************************)
EXTENDS StdValues, Integers, SequencesExt, FiniteSetsExt

CONSTANT Nodes   \* the addresses list_node_new may return

ASSUME NodesAssumption == IsFiniteSet(Nodes) /\ NULL \notin Nodes

VARIABLES
  head, tail, len,
  node,        \* [Nodes -> [prev, next, val]]
  allocated,   \* the nodes between list_node_new and being popped or freed
  result       \* the last call and what it returned

listVars == <<head, tail, len, node, allocated, result>>

list_node_t == [prev : Nodes \cup {NULL}, next : Nodes \cup {NULL}, val : Values \cup {NULL}]
Node(prev, next, val) == [prev |-> prev, next |-> next, val |-> val]

\* What a node holds that has been popped or freed does not matter
Gone == Node(NULL, NULL, NULL)

\* An iterator: the nodes that list_iterator_next returns, from one end
Direction == {"next", "prev"}
From(direction) == IF direction = "next" THEN head ELSE tail
Walk(direction) ==
  LET at[i \in 1..Cardinality(Nodes) + 1] ==
        IF i = 1 THEN From(direction)
        ELSE IF at[i - 1] = NULL THEN NULL ELSE node[at[i - 1]][direction]
  IN  SubSeq(at, 1, Cardinality({i \in DOMAIN at : at[i] # NULL}))

Returns(call, r) == result' = [call |-> call, returned |-> r]

Pushed(call, n, v) ==
  /\ len' = len + 1
  /\ allocated' = allocated \cup {n}
  /\ Returns(<<call, v>>, n)

list_rpush(n, v) ==
  /\ Pushed("rpush", n, v)
  /\ tail' = n
  /\ IF len > 0
     THEN /\ node' = [node EXCEPT ![n] = Node(tail, NULL, v), ![tail].next = n]
          /\ UNCHANGED head
     ELSE node' = [node EXCEPT ![n] = Node(NULL, NULL, v)] /\ head' = n

list_lpush(n, v) ==
  /\ Pushed("lpush", n, v)
  /\ head' = n
  /\ IF len > 0
     THEN /\ node' = [node EXCEPT ![n] = Node(NULL, head, v), ![head].prev = n]
          /\ UNCHANGED tail
     ELSE node' = [node EXCEPT ![n] = Node(NULL, NULL, v)] /\ tail' = n

\* list_node_new returned NULL, and the push does nothing
PushNothing(call) ==
  Returns(<<call>>, NULL) /\ UNCHANGED <<head, tail, len, node, allocated>>

Popped(call, n) ==
  /\ len > 0
  /\ len' = len - 1
  /\ allocated' = allocated \ {n}
  /\ Returns(<<call>>, n)

list_rpop ==
  /\ Popped("rpop", tail)
  /\ tail' = node[tail].prev
  /\ IF len > 1
     THEN /\ node' = [node EXCEPT ![tail] = Gone, ![tail'].next = NULL]
          /\ UNCHANGED head
     ELSE node' = [node EXCEPT ![tail] = Gone] /\ head' = NULL

list_lpop ==
  /\ Popped("lpop", head)
  /\ head' = node[head].next
  /\ IF len > 1
     THEN /\ node' = [node EXCEPT ![head] = Gone, ![head'].prev = NULL]
          /\ UNCHANGED tail
     ELSE node' = [node EXCEPT ![head] = Gone] /\ tail' = NULL

PopNothing(call) ==
  len = 0 /\ Returns(<<call>>, NULL) /\ UNCHANGED <<head, tail, len, node, allocated>>

\* Mutant: only the links of its neighbours change
list_remove_KeepTail(n) ==
  LET prev == node[n].prev
      next == node[n].next
  IN  /\ node' = [m \in Nodes |->
           IF m = n THEN Gone
           ELSE [node[m] EXCEPT !.next = IF m = prev THEN next ELSE @,
                                !.prev = IF m = next THEN prev ELSE @]]
      /\ head' = IF prev = NULL THEN next ELSE head
      /\ UNCHANGED tail
      /\ len' = len - 1
      /\ allocated' = allocated \ {n}
      /\ Returns(<<"remove", n>>, NULL)

list_remove(n) ==
  LET prev == node[n].prev
      next == node[n].next
  IN  /\ node' = [m \in Nodes |->
           IF m = n THEN Gone
           ELSE [node[m] EXCEPT !.next = IF m = prev THEN next ELSE @,
                                !.prev = IF m = next THEN prev ELSE @]]
      /\ head' = IF prev = NULL THEN next ELSE head
      /\ tail' = IF next = NULL THEN prev ELSE tail
      /\ len' = len - 1
      /\ allocated' = allocated \ {n}
      /\ Returns(<<"remove", n>>, NULL)

\* Mutant: the last but one for -1
Complement_Minus(index) == -index

\* ~index, for a negative index
Complement(index) == -index - 1

list_at(index) ==
  LET direction == IF index < 0 THEN "prev" ELSE "next"
      steps == IF index < 0 THEN Complement(index) ELSE index
  IN  /\ Returns(<<"at", index>>, IF steps < len THEN Walk(direction)[steps + 1] ELSE NULL)
      /\ UNCHANGED <<head, tail, len, node, allocated>>

\* With no match function: the pointers are compared
list_find(v) ==
  LET walk == Walk("next")
      i == SelectInSeq(walk, LAMBDA n : node[n].val = v)
  IN  /\ Returns(<<"find", v>>, IF i = 0 THEN NULL ELSE walk[i])
      /\ UNCHANGED <<head, tail, len, node, allocated>>

\* list_destroy, and list_new for the next user
list_destroy ==
  /\ head' = NULL /\ tail' = NULL /\ len' = 0
  /\ allocated' = allocated \ ToSet(Walk("next"))
  /\ node' = [n \in Nodes |-> IF n \in ToSet(Walk("next")) THEN Gone ELSE node[n]]
  /\ Returns(<<"destroy">>, NULL)

ListInit ==
  /\ head = NULL /\ tail = NULL /\ len = 0
  /\ node = [n \in Nodes |-> Gone]
  /\ allocated = {}
  /\ result = [call |-> <<"new">>, returned |-> NULL]

ListNext ==
  \/ \E n \in Nodes \ allocated, v \in Values : list_rpush(n, v) \/ list_lpush(n, v)
  \/ PushNothing("rpush") \/ PushNothing("lpush")
  \/ list_rpop \/ list_lpop \/ PopNothing("rpop") \/ PopNothing("lpop")
  \/ \E n \in ToSet(Walk("next")) : list_remove(n)
  \/ \E index \in -len - 1..len : list_at(index)
  \/ \E v \in Values : list_find(v)
  \/ list_destroy

(***************************************************************************)
(* The list read backward is the list read forward, and len nodes long;    *)
(* no node is lost or freed while it is in it.  About the two links and    *)
(* the two ends that each operation has to keep in step.                   *)
(***************************************************************************)
LinksAgree ==
  /\ Walk("prev") = Reverse(Walk("next"))
  /\ len = Len(Walk("next"))
  /\ ToSet(Walk("next")) = allocated

\* The list implements a sequence, each operation in one step
Elements == [i \in DOMAIN Walk("next") |->
               [node |-> Walk("next")[i], val |-> node[Walk("next")[i]].val]]
AbstractOf == INSTANCE AbstractList WITH elements <- Elements

(***************************************************************************)
(* The linked nodes are a sequence to whoever pushes, pops, removes, or    *)
(* reads by index or value: what ThreadStack, CodeMemory and ClosureBridge *)
(* take a list for.  About all of std_list.c.                              *)
(***************************************************************************)
ImplementsList == AbstractOf!Spec
====

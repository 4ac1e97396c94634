---- MODULE AbstractList ----
(***************************************************************************)
(* What std_list.c promises: a sequence of elements, each of which is in   *)
(* it once.  result says what was called last and what it returned.        *)
(***************************************************************************)
EXTENDS StdValues, Integers, SequencesExt

CONSTANT Nodes

VARIABLES elements, result

Element(n, v) == [node |-> n, val |-> v]
In(n) == \E i \in DOMAIN elements : elements[i].node = n

Returns(call, r) == result' = [call |-> call, returned |-> r]

PushLast(n, v) ==
  ~In(n) /\ elements' = Append(elements, Element(n, v)) /\ Returns(<<"rpush", v>>, n)

PushFirst(n, v) ==
  ~In(n) /\ elements' = <<Element(n, v)>> \o elements /\ Returns(<<"lpush", v>>, n)

\* Without memory for the node the list stays as it is
PushFails(call) == Returns(<<call>>, NULL) /\ UNCHANGED elements

PopLast ==
  /\ elements' = IF elements = << >> THEN << >> ELSE Front(elements)
  /\ Returns(<<"rpop">>, IF elements = << >> THEN NULL ELSE Last(elements).node)

PopFirst ==
  /\ elements' = IF elements = << >> THEN << >> ELSE Tail(elements)
  /\ Returns(<<"lpop">>, IF elements = << >> THEN NULL ELSE Head(elements).node)

RemoveElement(i) ==
  elements' = RemoveAt(elements, i) /\ Returns(<<"remove", elements[i].node>>, NULL)

\* Counted from 0, or from the end with -1 for the last
At(index) ==
  LET i == IF index >= 0 THEN index + 1 ELSE Len(elements) + index + 1
  IN  /\ Returns(<<"at", index>>, IF i \in DOMAIN elements THEN elements[i].node ELSE NULL)
      /\ UNCHANGED elements

Find(v) ==
  LET i == SelectInSeq(elements, LAMBDA e : e.val = v)
  IN  Returns(<<"find", v>>, IF i = 0 THEN NULL ELSE elements[i].node) /\ UNCHANGED elements

Clear == elements' = << >> /\ Returns(<<"destroy">>, NULL)

Init == elements = << >> /\ result = [call |-> <<"new">>, returned |-> NULL]

Next ==
  \/ \E n \in Nodes, v \in Values : PushLast(n, v) \/ PushFirst(n, v)
  \/ PushFails("rpush") \/ PushFails("lpush")
  \/ PopLast \/ PopFirst \/ Clear
  \/ \E i \in DOMAIN elements : RemoveElement(i)
  \/ \E index \in -Len(elements) - 1..Len(elements) : At(index)
  \/ \E v \in Values : Find(v)

Spec == Init /\ [][Next]_<<elements, result>>
====

---- MODULE Dictionary ----
(***************************************************************************)
(* What std_map.c promises: a value for each key, NULL for those without   *)
(* one.  Setting one may fail for want of memory, and then changes         *)
(* nothing.  got says what was called last and what it returned.           *)
(***************************************************************************)
EXTENDS StdValues

CONSTANT Keys

VARIABLES dict, got

Answers(call, r) == got' = [call |-> call, returned |-> r]

Set(k, v) == dict' = [dict EXCEPT ![k] = v] /\ Answers(<<"set", k, v>>, "ok")

SetFails(k) == UNCHANGED dict /\ Answers(<<"set", k>>, "failed")

Get(k) == UNCHANGED dict /\ Answers(<<"get", k>>, dict[k])

Remove(k) == dict' = [dict EXCEPT ![k] = NULL] /\ Answers(<<"remove", k>>, NULL)

Clear == dict' = [k \in Keys |-> NULL] /\ Answers(<<"destory">>, NULL)

Iterate == UNCHANGED dict /\ Answers(<<"next">>, NULL)

Init == dict = [k \in Keys |-> NULL] /\ got = [call |-> <<"new">>, returned |-> NULL]

Next ==
  \/ \E k \in Keys :
       Get(k) \/ Remove(k) \/ SetFails(k) \/ \E v \in Values : Set(k, v)
  \/ Clear
  \/ Iterate

Spec == Init /\ [][Next]_<<dict, got>>
====

---- MODULE HookedCalls ----
(***************************************************************************)
(* What hooking promises to a program, without trampolines, diverted       *)
(* return addresses or a shared list of call_stacks: a call returns to its *)
(* caller, a wrapped call owes its caller a post_call, and a frame pays    *)
(* what it owes, the latest first, between its function's return and the   *)
(* caller's next step.  Each debt keeps the store its own pre_call filled. *)
(*                                                                         *)
(* InterceptorRouting implements this specification.                       *)
(***************************************************************************)
EXTENDS Naturals, Sequences

CONSTANTS Threads, Values, NULL, Functions, Wrapped, Replaced, Instrumented,
          HasPre, HasPost, HasDbi

VARIABLE act   \* [Threads -> Seq(activation)]

(***************************************************************************)
(* An activation: what its frame executes (the names of                    *)
(* InterceptorRouting), the hook it does it for, the post_calls it owes    *)
(* with their stores, and the store of the post_call in progress.          *)
(***************************************************************************)
Activation(pc, f, owed, store) ==
  [pc |-> pc, fn |-> f, owed |-> owed, store |-> store]

Debt(f) == [fn |-> f, store |-> NULL]

Calls(t) == act[t]
Innermost(t) == act[t][Len(act[t])]
Below(t) == act[t][Len(act[t]) - 1]
Outer(t) == SubSeq(act[t], 1, Len(act[t]) - 1)
LastOf(s) == s[Len(s)]
FrontOf(s) == SubSeq(s, 1, Len(s) - 1)

InUserCode(t) == Innermost(t).pc \in {"main", "code", "replace", "pre", "post", "dbi"}

Becomes(t, s) == act' = [act EXCEPT ![t] = s]

\* The handler h, with a callback above it when the hook has one
WithCallback(t, h, pc, present) ==
  Becomes(t, Outer(t) \o <<h>> \o
             (IF present THEN <<Activation(pc, h.fn, << >>, NULL)>> ELSE << >>))

\* The frame has nothing left to run: it pays its last debt or is gone
Finish(t, owed) ==
  IF owed = << >>
    THEN Becomes(t, Outer(t))
    ELSE Becomes(t, Append(Outer(t),
                           Activation("leave", LastOf(owed).fn, owed, NULL)))

Entry(f) ==
  CASE f \in Wrapped      -> "enter"
    [] f \in Replaced     -> "replace"
    [] f \in Instrumented -> "dbi_enter"
    [] OTHER              -> "code"

Enter(t, f, pc) ==
  /\ InUserCode(t)
  /\ \/ Becomes(t, Append(act[t], Activation(pc, f, << >>, NULL)))
     \/ /\ Innermost(t).pc # "main"     \* a tail call inherits the debts
        /\ Becomes(t, Append(Outer(t), Activation(pc, f, Innermost(t).owed, NULL)))

Call(t, f) == Enter(t, f, Entry(f))
CallOrigin(t, f) == f \in Replaced /\ Enter(t, f, "code")

Return(t) ==
  /\ InUserCode(t)
  /\ Innermost(t).pc # "main"
  /\ Finish(t, Innermost(t).owed)

PreCall(t) ==
  LET a == Innermost(t) IN
  /\ a.pc = "enter"
  /\ WithCallback(t, Activation("begin", a.fn, Append(a.owed, Debt(a.fn)), NULL),
                  "pre", a.fn \in HasPre)

Body(t) ==
  LET a == Innermost(t) IN
  /\ a.pc \in {"begin", "dbi_end"}
  /\ Becomes(t, Append(Outer(t), Activation("code", a.fn, a.owed, NULL)))

PostCall(t) ==
  LET a == Innermost(t) IN
  /\ a.pc = "leave"
  /\ a.owed # << >>
  /\ WithCallback(t, Activation("end", LastOf(a.owed).fn, FrontOf(a.owed),
                                LastOf(a.owed).store),
                  "post", a.fn \in HasPost)

Leave(t) ==
  /\ Innermost(t).pc = "end"
  /\ Finish(t, Innermost(t).owed)

DbiCall(t) ==
  LET a == Innermost(t) IN
  /\ a.pc = "dbi_enter"
  /\ WithCallback(t, Activation("dbi_end", a.fn, a.owed, NULL), "dbi",
                  a.fn \in HasDbi)

\* A callback stores a value for the call it is about
Store(t, v) ==
  LET b == Below(t)
      last == Len(b.owed)
  IN  \/ /\ Innermost(t).pc = "pre"
         /\ act' = [act EXCEPT ![t][Len(act[t]) - 1].owed[last].store = v]
      \/ /\ Innermost(t).pc = "post"
         /\ act' = [act EXCEPT ![t][Len(act[t]) - 1].store = v]

Init == act = [t \in Threads |-> <<Activation("main", NULL, << >>, NULL)>>]

Next ==
  \E t \in Threads :
    \/ \E f \in Functions : Call(t, f) \/ CallOrigin(t, f)
    \/ Return(t) \/ PreCall(t) \/ Body(t) \/ PostCall(t) \/ Leave(t) \/ DbiCall(t)
    \/ \E v \in Values : Store(t, v)

Spec == Init /\ [][Next]_act
====

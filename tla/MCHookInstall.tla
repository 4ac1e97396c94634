---- MODULE MCHookInstall ----
(* Instances of HookInstall for TLC: which hook is of which type, on what.      *)
EXTENDS HookInstall

CONSTANTS wrap1, wrap2, replace1, dbi1, fn1, fn2

TypeOfHooks ==
  [h \in Hooks |-> CASE h \in {wrap1, wrap2} -> "PRE_POST"
                     [] h = replace1 -> "REPLACE"
                     [] h = dbi1 -> "DBI"]
\* Everything but wrap2 on one function
OnTwoTargets == [h \in Hooks |-> IF h = wrap2 THEN fn2 ELSE fn1]
====

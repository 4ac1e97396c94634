---- MODULE MCInterceptorRouting ----
(* Instances of InterceptorRouting for TLC.  Call_stacks and threads are       *)
(* interchangeable, so the run with two threads divides the states by their    *)
(* permutations; the run that checks liveness does not.                        *)
EXTENDS InterceptorRouting, TLC
Interchangeable == Permutations(CallIds) \cup Permutations(Threads)
====

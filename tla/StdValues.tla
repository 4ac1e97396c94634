---- MODULE StdValues ----
(* What the containers of std_kit hold: pointers, or instructions.              *)
CONSTANTS Values, NULL

ASSUME ValuesAssumption == NULL \notin Values
====

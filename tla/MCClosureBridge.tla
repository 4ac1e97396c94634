---- MODULE MCClosureBridge ----
(* ClosureBridge for TLC: its constants are numbers, given in the .cfg files.   *)
EXTENDS ClosureBridge
====

---- MODULE MCCodeMemory ----
(* Address spaces and hooks for CodeMemory. *)
EXTENDS CodeMemory

Mapping(page, n, prt, path) == [page |-> page, n |-> n, prot |-> prt, path |-> path]
Hook(target, near, replace) == [target |-> target, near |-> near, replace |-> replace]
InvokeWords == [near \in BOOLEAN |-> IF near THEN 5 ELSE 8]

\* A library with zeros out of reach; the program's code, with zeros between its
\* functions, and its data; then, out of reach, room for slices
ProgramRegions == <<Mapping(0, 1, "rx", TRUE), Mapping(1, 1, "r", TRUE),
                    Mapping(2, 2, "rx", TRUE), Mapping(4, 1, "rw", FALSE)>>
CodeZeros == 0..11 \cup {34} \cup 36..47
ThreeHooks == <<Hook(32, TRUE, FALSE), Hook(54, TRUE, TRUE), Hook(60, FALSE, TRUE)>>
DataStores == {64, 79}

\* No zeros in the program, but room for slices beside it: the only zeros in reach are
\* those behind the slices in use
BesideRegions == <<Mapping(0, 1, "rx", TRUE), Mapping(2, 2, "rx", TRUE), Mapping(5, 1, "rw", TRUE)>>
SliceHooks == <<Hook(32, FALSE, FALSE), Hook(54, TRUE, FALSE)>>

\* These programs are as the theorems of CodeMemoryProofs have them
ASSUME ProgramAssumption == ZerosUnused /\ DataApart
====

---- MODULE MCRelocatorArm64 ----
(* Programs for RelocatorArm64: what a patch of one or of four words overwrites. *)
EXTENDS RelocatorArm64

\* An assembler.  Distances count words; those below zero have their two's complement.
Field(words, length) == words % 2 ^ length
Plain == <<\h83ff, \hd100>>     \* sub sp, sp, #32
Ret == <<\h03c0, \hd65f>>
\* ldr x5, [x3, #8]; br x16; blr x8; ret x2
ByRegister == {<<\h0465, \hf940>>, <<\h0200, \hd61f>>, <<\h0100, \hd63f>>, <<\h0040, \hd65f>>}
LdrX(words) == <<0, \h5800>> | Shift(Field(words, 19), 5) | Shift(3, 0)
CbzX(words) == <<0, \hb400>> | Shift(Field(words, 19), 5) | Shift(4, 0)
BEq(words) == <<0, \h5400>> | Shift(Field(words, 19), 5)
BImm(words) == <<0, \h1400>> | Shift(Field(words, 26), 0)
BlImm(words) == <<0, \h9400>> | Shift(Field(words, 26), 0)
Relative(words) == {LdrX(words), CbzX(words), BEq(words), BImm(words), BlImm(words)}

\* Distances of 4 and 7 words lead forward and out of a patch at any place in it; the
\* others are the longest of a branch of 19 bits and of a shorter one of 14
Far == {262143, 8191}
Ordinary == {Plain, Ret} \cup ByRegister \cup Relative(4) \cup Relative(7)
ForwardPrograms ==
  {<<i>> : i \in Ordinary} \cup {<<i>> : i \in UNION {Relative(n) : n \in Far}}
    \cup [1..4 -> {Plain, Ret} \cup Relative(4)]
    \cup {<<i, Plain, j, BlImm(4)>> : i, j \in Ordinary}

\* What the theorems of RelocatorArm64Proofs suppose of programs and addresses
ASSUME MovableAssumption == Layout /\ \A p \in ForwardPrograms : Movable(p)

\* Before the target
BackwardPrograms == {<<i>> : i \in Relative(-4)}

\* The PC-relative instructions getInstType does not know, and the loads it takes for
\* 64-bit ones: adr, adrp, tbz; ldr Wt, ldrsw, ldr Qt
Adr == <<3, \h1000>> | Shift(4, 5)
Adrp == <<3, \h9000>> | Shift(4, 5)
Tbz == <<3, \h3600>> | Shift(7, 5)
OtherPrograms ==
  {<<i>> : i \in {Adr, Adrp, Tbz}}
    \cup {<<<<3, hi>> | Shift(4, 5)>> : hi \in {\h1800, \h9800, \h9c00}}

\* The theorems say nothing of those, nor of what leads backward
ASSUME UnmovableAssumption == \A p \in OtherPrograms \cup BackwardPrograms : ~Movable(p)

\* The trampolines of a near jump above and below the target
NearCaves == {\h3000, \h0800}
====

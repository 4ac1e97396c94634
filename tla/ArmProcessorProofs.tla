---- MODULE ArmProcessorProofs ----
(***************************************************************************)
(* What one step of ArmProcessor does with each instruction that the       *)
(* writers of ThumbWriter and ArmWriter put, for every register and every  *)
(* value the instruction can hold; and sequences of halfwords.             *)
(*                                                                         *)
(* An encoding is its fields (Enc...); its lemma takes them apart again    *)
(* and says which alternative of Thumb16, Thumb32 or ARM32 they lead to.   *)
(* The ...In definitions say that the instruction is in code at a place.   *)
(***************************************************************************)
EXTENDS ThumbWriter, ArmWriter, ArmProcessor, SequenceTheorems, WellFoundedInduction, TLAPS

(* ------------------------------------------------------------------------ *)
(* Numbers, and the halfwords of a sequence of items                          *)

\* The numbers of so many bits
Moved(minus, a, q) == IF minus = 1 THEN a - q ELSE a + q
Toward(up, q) == (IF up = 1 THEN 1 ELSE -1) * q
Eight(v) == v \in Nat /\ v < 256
Twelve(v) == v \in Nat /\ v < 4096

LEMMA MinNat ==
  ASSUME NEW T \in SUBSET Nat, T # {}
  PROVE  \E x \in T : \A y \in T : x <= y
<1>1. PICK R : R = OpToRel(<, Nat)
  OBVIOUS
<1>2. IsWellFoundedOn(R, Nat)
  BY <1>1, NatLessThanWellFounded, Zenon
<1>3. \A x, y \in Nat : x < y => <<x, y>> \in R
  BY <1>1 DEF OpToRel
<1>5. T \subseteq Nat OBVIOUS
<1>4. \E x \in T : \A y \in T : ~(<<y, x>> \in R)
  BY <1>2, <1>5, WFMin, Zenon
<1>6. PICK x \in T : \A y \in T : ~(<<y, x>> \in R) BY <1>4
<1>7. ASSUME NEW y \in T PROVE x <= y
  <2>1. ~(y < x) BY <1>3, <1>6
  <2> QED BY <2>1
<1> QED BY <1>7

LEMMA NatInSet ==
  ASSUME NEW S, 0 \in S, \A n \in Nat : n \in S => n + 1 \in S
  PROVE Nat \subseteq S
<1>1. SUFFICES ASSUME NEW k \in Nat, k \notin S PROVE FALSE OBVIOUS
<1> DEFINE T == {n \in Nat : n \notin S}
<1>2. PICK x \in T : \A y \in T : x <= y BY <1>1, MinNat
<1>3. x # 0 /\ x - 1 \in Nat OBVIOUS
<1>4. x - 1 \notin T BY <1>2, <1>3
<1> QED BY <1>3, <1>4

\* The recursive function in FlattenSeq, and its values up to n
Flattens(s, f) ==
  f = [i \in 1..Len(s) |-> IF i = 1 THEN s[i] ELSE f[i - 1] \o s[i]]
FlattensTo(s, f, n) ==
  /\ f \in [1..n -> Seq(Int)]
  /\ n > 0 => f[1] = s[1]
  /\ \A i \in 1..(n - 1) : f[i + 1] = f[i] \o s[i + 1]

LEMMA FlattensToIs ==
  ASSUME NEW s, Len(s) \in Nat, NEW f, FlattensTo(s, f, Len(s))
  PROVE  Flattens(s, f)
<1>1. ASSUME NEW i \in 1..Len(s) PROVE f[i] = IF i = 1 THEN s[i] ELSE f[i - 1] \o s[i]
  <2>1. CASE i = 1
    BY <2>1 DEF FlattensTo
  <2>2. CASE i # 1
    <3>1. i - 1 \in 1..(Len(s) - 1) /\ (i - 1) + 1 = i
      BY <2>2
    <3> QED BY <2>2, <3>1 DEF FlattensTo
  <2> QED BY <2>1, <2>2
<1> QED BY <1>1 DEF Flattens, FlattensTo

LEMMA FlattensFirst ==
  ASSUME NEW s, Len(s) \in Nat, Len(s) > 0, NEW f, Flattens(s, f)
  PROVE  f[1] = s[1]
  BY DEF Flattens

LEMMA FlattensNext ==
  ASSUME NEW s, Len(s) \in Nat, NEW f, Flattens(s, f), NEW n \in Nat, n > 0, n < Len(s)
  PROVE  f[n + 1] = f[n] \o s[n + 1]
<1>1. n + 1 \in 1..Len(s) /\ n + 1 # 1 /\ (n + 1) - 1 = n
  OBVIOUS
<1> DEFINE k == n + 1
<1>2. f[k] = IF k = 1 THEN s[k] ELSE f[k - 1] \o s[k]
  <2> HIDE DEF k
  <2>1. k \in 1..Len(s) BY <1>1 DEF k
  <2> QED BY <2>1 DEF Flattens
<1> QED BY <1>1, <1>2

LEMMA FlattensExtends ==
  ASSUME NEW s \in Seq(Seq(Int)), NEW n \in Nat, n < Len(s), NEW f, FlattensTo(s, f, n)
  PROVE  \E g : FlattensTo(s, g, n + 1)
<1> DEFINE last == IF n = 0 THEN s[1] ELSE f[n] \o s[n + 1]
           g == [i \in 1..(n + 1) |-> IF i = n + 1 THEN last ELSE f[i]]
<1>1. s[1] \in Seq(Int) /\ s[n + 1] \in Seq(Int)
  BY ElementOfSeq
<1>2. n > 0 => f[n] \in Seq(Int)
  BY DEF FlattensTo
<1>3. last \in Seq(Int)
  BY <1>1, <1>2, ConcatProperties
<1>4. g \in [1..(n + 1) -> Seq(Int)]
  BY <1>3 DEF FlattensTo
<1>5. g[1] = s[1]
  BY DEF FlattensTo
<1>7. ASSUME n # 0 PROVE last = f[n] \o s[n + 1]
  BY Zenon, <1>7
<1> HIDE DEF last
<1>6. g[n + 1] = last /\ \A i \in 1..n : g[i] = f[i]
  OBVIOUS
<1> HIDE DEF g
<1>8. ASSUME NEW i \in 1..n PROVE g[i + 1] = g[i] \o s[i + 1]
  <2>1. CASE i = n
    <3>1. i # 0 /\ g[i] = f[i] /\ g[i + 1] = last
      BY <1>6, <2>1
    <3> QED BY <1>7, <2>1, <3>1
  <2>2. CASE i < n
    <3>1. i \in 1..(n - 1) /\ i + 1 \in 1..n
      BY <2>2
    <3>2. f[i + 1] = f[i] \o s[i + 1]
      BY <3>1 DEF FlattensTo
    <3>3. g[i + 1] = f[i + 1] /\ g[i] = f[i]
      BY <1>6, <3>1
    <3> QED BY <3>2, <3>3
  <2>3. i = n \/ i < n
    OBVIOUS
  <2> QED BY Zenon, <2>1, <2>2, <2>3
<1>10. (n + 1) - 1 = n
  OBVIOUS
<1>9. FlattensTo(s, g, n + 1)
  BY <1>4, <1>5, <1>8, <1>10 DEF FlattensTo
<1> QED BY <1>9

LEMMA FlattensExists ==
  ASSUME NEW s \in Seq(Seq(Int))
  PROVE  \E f : Flattens(s, f)
<1> DEFINE S == {n \in Nat : n <= Len(s) => \E f : FlattensTo(s, f, n)}
<1>0. Len(s) \in Nat
  OBVIOUS
<1>1. 0 \in S
  <2>1. FlattensTo(s, [i \in 1..0 |-> << >>], 0)
    BY DEF FlattensTo
  <2> QED BY <2>1
<1>2. ASSUME NEW n \in Nat, n \in S PROVE n + 1 \in S
  <2>1. ASSUME n + 1 <= Len(s) PROVE \E f : FlattensTo(s, f, n + 1)
    <3>1. n <= Len(s) /\ n < Len(s)
      BY <1>0, <2>1
    <3>2. PICK f : FlattensTo(s, f, n)
      BY <1>2, <3>1
    <3> QED BY <3>1, <3>2, FlattensExtends
  <2> QED BY <2>1
<1>3. Len(s) \in S
  <2> HIDE DEF S
  <2> QED BY <1>0, <1>1, <1>2, NatInSet
<1>4. PICK f : FlattensTo(s, f, Len(s))
  BY <1>0, <1>3
<1> QED BY <1>0, <1>4, FlattensToIs

LEMMA FlattenSeqDef ==
  ASSUME NEW s \in Seq(Seq(Int)), Len(s) > 0
  PROVE  \E f : Flattens(s, f) /\ FlattenSeq(s) = f[Len(s)]
<1>1. PICK f : f = (CHOOSE g : Flattens(s, g))
  OBVIOUS
<1>2. Flattens(s, f)
  BY <1>1, FlattensExists
<1>3. FlattenSeq(s) = f[Len(s)]
  BY <1>1 DEF FlattenSeq, Flattens
<1> QED BY <1>2, <1>3

LEMMA FlattensType ==
  ASSUME NEW s \in Seq(Seq(Int)), NEW f, Flattens(s, f), NEW k \in 1..Len(s)
  PROVE  f[k] \in Seq(Int)
<1> DEFINE S == {n \in Nat : n \in 1..Len(s) => f[n] \in Seq(Int)}
<1>0. Len(s) \in Nat
  OBVIOUS
<1>1. 0 \in S
  OBVIOUS
<1>2. ASSUME NEW n \in Nat, n \in S PROVE n + 1 \in S
  <2>1. ASSUME n + 1 \in 1..Len(s) PROVE f[n + 1] \in Seq(Int)
    <3>1. s[n + 1] \in Seq(Int)
      BY <2>1, ElementOfSeq
    <3>2. CASE n = 0
      <4>1. Len(s) > 0 /\ n + 1 = 1
        BY <1>0, <2>1, <3>2
      <4>2. f[1] = s[1]
        BY <1>0, <4>1, FlattensFirst
      <4> QED BY <3>1, <4>1, <4>2
    <3>3. CASE n > 0
      <4>1. n < Len(s) /\ n \in 1..Len(s)
        BY <1>0, <2>1, <3>3
      <4>2. f[n + 1] = f[n] \o s[n + 1]
        BY <1>0, <3>3, <4>1, FlattensNext
      <4>3. f[n] \in Seq(Int)
        BY <1>2, <4>1
      <4> QED BY <3>1, <4>2, <4>3, ConcatProperties
    <3> QED BY <3>2, <3>3
  <2> QED BY <2>1
<1>3. k \in S
  <2>1. k \in Nat OBVIOUS
  <2> HIDE DEF S
  <2> QED BY <1>1, <1>2, <2>1, NatInSet
<1> QED BY <1>3

LEMMA ConcatInts ==
  ASSUME NEW s \in Seq(Int), NEW t \in Seq(Int), NEW u \in Seq(Int)
  PROVE  (s \o t) \o u = s \o (t \o u)
  BY ConcatAssociative

LEMMA FlattenConcatNonempty ==
  ASSUME NEW s \in Seq(Seq(Int)), NEW u \in Seq(Seq(Int)), Len(s) > 0, Len(u) > 0
  PROVE  FlattenSeq(s \o u) = FlattenSeq(s) \o FlattenSeq(u)
<1> DEFINE w == s \o u
<1>1. /\ w \in Seq(Seq(Int)) /\ Len(w) = Len(s) + Len(u)
      /\ \A i \in 1..(Len(s) + Len(u)) : w[i] = IF i <= Len(s) THEN s[i] ELSE u[i - Len(s)]
  BY ConcatProperties
<1> HIDE DEF w
<1>len. Len(s) \in Nat /\ Len(u) \in Nat /\ Len(w) \in Nat /\ Len(w) > 0
  BY <1>1
<1>2. PICK fs : Flattens(s, fs) /\ FlattenSeq(s) = fs[Len(s)]
  BY FlattenSeqDef
<1>3. PICK fu : Flattens(u, fu) /\ FlattenSeq(u) = fu[Len(u)]
  BY FlattenSeqDef
<1>4. PICK fw : Flattens(w, fw) /\ FlattenSeq(w) = fw[Len(w)]
  BY <1>1, <1>len, FlattenSeqDef
<1> DEFINE S == {n \in Nat : n \in 1..Len(s) => fw[n] = fs[n]}
<1>5. Nat \subseteq S
  <2>1. 0 \in S
    OBVIOUS
  <2>2. ASSUME NEW n \in Nat, n \in S PROVE n + 1 \in S
    <3>1. ASSUME n + 1 \in 1..Len(s) PROVE fw[n + 1] = fs[n + 1]
      <4>0. n + 1 \in 1..(Len(s) + Len(u)) /\ n + 1 <= Len(s)
        BY <1>len, <3>1
      <4>1. w[n + 1] = s[n + 1] /\ n < Len(s) /\ n < Len(w)
        <5>1. w[n + 1] = s[n + 1]
          BY <1>1, <4>0
        <5> QED BY <1>1, <1>len, <4>0, <5>1
      <4>2. CASE n = 0
        BY <1>2, <1>4, <1>len, <4>1, <4>2, FlattensFirst
      <4>3. CASE n > 0
        <5>1. fs[n + 1] = fs[n] \o s[n + 1]
          BY <1>2, <1>len, <4>1, <4>3, FlattensNext
        <5>2. fw[n + 1] = fw[n] \o w[n + 1]
          BY <1>4, <1>len, <4>1, <4>3, FlattensNext
        <5>3. fw[n] = fs[n]
          BY <1>len, <2>2, <4>1, <4>3
        <5> QED BY <4>1, <5>1, <5>2, <5>3
      <4> QED
        <5>1. n = 0 \/ n > 0
          OBVIOUS
        <5> QED BY Zenon, <4>2, <4>3, <5>1
    <3> QED BY <3>1
  <2> HIDE DEF S
  <2> QED BY <2>1, <2>2, NatInSet
<1>6. fw[Len(s)] = fs[Len(s)]
  <2>1. Len(s) \in S
    <3> HIDE DEF S
    <3> QED BY <1>5, <1>len
  <2> QED BY <2>1, <1>len
<1> DEFINE m == Len(s)
<1>s. fs[m] \in Seq(Int)
  BY <1>2, <1>len, FlattensType
<1>m. m \in Nat /\ m > 0 /\ Len(w) = m + Len(u)
  BY <1>1, <1>len
<1>w. ASSUME NEW n \in Nat, n < Len(u) PROVE w[(m + n) + 1] = u[n + 1]
  <2>1. PICK i : i = (m + n) + 1
    OBVIOUS
  <2>2. i \in 1..(Len(s) + Len(u)) /\ ~(i <= Len(s)) /\ i - Len(s) = n + 1
    BY <1>len, <1>w, <2>1
  <2>3. w[i] = u[n + 1]
    BY <1>1, <2>2
  <2> QED BY <2>1, <2>3
<1>f. fw[m] = fs[m]
  BY <1>6
<1> HIDE DEF m
<1>n. ASSUME NEW n \in Nat, n < Len(u) PROVE fw[(m + n) + 1] = fw[m + n] \o u[n + 1]
  <2>1. m + n \in Nat /\ m + n > 0 /\ m + n < Len(w)
    BY <1>m, <1>n, <1>len
  <2>2. fw[(m + n) + 1] = fw[m + n] \o w[(m + n) + 1]
    BY <1>4, <1>len, <2>1, FlattensNext
  <2> QED BY <1>n, <1>w, <2>2
<1> DEFINE Good(n) == n \in 1..Len(u) => fw[m + n] = fs[m] \o fu[n]
           T == {n \in Nat : Good(n)}
<1>7. Nat \subseteq T
  <2>1. 0 \in T
    OBVIOUS
  <2>2. ASSUME NEW n \in Nat, n \in T PROVE n + 1 \in T
    <3>1. ASSUME n + 1 \in 1..Len(u) PROVE fw[m + (n + 1)] = fs[m] \o fu[n + 1]
      <4>0. n < Len(u) /\ m + (n + 1) = (m + n) + 1
        BY <1>len, <1>m, <3>1
      <4>1. fw[m + (n + 1)] = fw[m + n] \o u[n + 1]
        BY <1>n, <4>0
      <4>2. CASE n = 0
        <5>1. fw[m + n] = fs[m]
          BY <1>f, <1>m, <4>2
        <5>2. fu[n + 1] = u[n + 1]
          BY <1>3, <1>len, <4>2, FlattensFirst
        <5> QED BY <4>1, <5>1, <5>2
      <4>3. CASE n > 0
        <5>1. n \in 1..Len(u)
          BY <1>len, <4>0, <4>3
        <5>2. fw[m + n] = fs[m] \o fu[n]
          BY <2>2, <5>1
        <5>3. fu[n + 1] = fu[n] \o u[n + 1]
          BY <1>3, <1>len, <4>0, <4>3, FlattensNext
        <5>4. fu[n] \in Seq(Int) /\ u[n + 1] \in Seq(Int)
          BY <1>3, <3>1, <5>1, FlattensType, ElementOfSeq
        <5>5. (fs[m] \o fu[n]) \o u[n + 1] = fs[m] \o (fu[n] \o u[n + 1])
          BY Zenon, <1>s, <5>4, ConcatInts
        <5> QED BY <4>1, <5>2, <5>3, <5>5
      <4> QED
        <5>1. n = 0 \/ n > 0
          OBVIOUS
        <5> QED BY Zenon, <4>2, <4>3, <5>1
    <3>2. Good(n + 1)
      BY <3>1
    <3> HIDE DEF Good
    <3> QED BY <3>2
  <2> HIDE DEF T
  <2> QED BY <2>1, <2>2, NatInSet
<1>8. fw[m + Len(u)] = fs[m] \o fu[Len(u)]
  <2>1. Len(u) \in T
    <3> HIDE DEF T
    <3> QED BY <1>7, <1>len
  <2>2. Good(Len(u)) /\ Len(u) \in 1..Len(u)
    <3>1. Len(u) \in 1..Len(u)
      BY <1>len
    <3> HIDE DEF Good
    <3> QED BY <2>1, <3>1
  <2> QED BY Zenon, <2>2
<1> QED BY <1>2, <1>3, <1>4, <1>8, <1>m DEF w, m

\* Items put one after the other
LEMMA FlattenConcat ==
  ASSUME NEW s \in Seq(Seq(Int)), NEW u \in Seq(Seq(Int))
  PROVE  /\ FlattenSeq(s) \in Seq(Int)
         /\ FlattenSeq(s \o u) = FlattenSeq(s) \o FlattenSeq(u)
         /\ s \o u \in Seq(Seq(Int))
<1>1. ASSUME NEW v \in Seq(Seq(Int)) PROVE FlattenSeq(v) \in Seq(Int)
  <2>1. CASE Len(v) = 0
    BY <2>1, EmptySeq DEF FlattenSeq
  <2>2. CASE Len(v) > 0
    <3>1. PICK f : Flattens(v, f) /\ FlattenSeq(v) = f[Len(v)]
      BY <2>2, FlattenSeqDef
    <3> QED BY <2>2, <3>1, FlattensType
  <2> QED BY <2>1, <2>2
<1>2. FlattenSeq(<< >>) = << >>
  BY DEF FlattenSeq
<1>3. CASE Len(s) = 0
  <2>1. s = << >> /\ s \o u = u
    BY <1>3, ConcatEmptySeq
  <2>2. << >> \o FlattenSeq(u) = FlattenSeq(u)
    BY <1>1, ConcatEmptySeq
  <2> QED BY <1>1, <1>2, <2>1, <2>2
<1>4. CASE Len(u) = 0
  <2>1. u = << >> /\ s \o u = s
    BY <1>4, ConcatEmptySeq
  <2>2. FlattenSeq(s) \o << >> = FlattenSeq(s)
    BY <1>1, ConcatEmptySeq
  <2> QED BY <1>1, <1>2, <2>1, <2>2
<1>5. CASE Len(s) > 0 /\ Len(u) > 0
  BY <1>1, <1>5, FlattenConcatNonempty, ConcatProperties
<1> QED BY <1>3, <1>4, <1>5

LEMMA FlattenOne ==
  ASSUME NEW x \in Seq(Int)
  PROVE  <<x>> \in Seq(Seq(Int)) /\ FlattenSeq(<<x>>) = x
<1>1. <<x>> \in Seq(Seq(Int)) /\ Len(<<x>>) = 1
  OBVIOUS
<1> DEFINE s == <<x>>
<1>2. s \in Seq(Seq(Int)) /\ Len(s) = 1 /\ s[1] = x
  OBVIOUS
<1> HIDE DEF s
<1>6. Len(s) > 0
  BY <1>2
<1>3. PICK f : Flattens(s, f) /\ FlattenSeq(s) = f[Len(s)]
  BY Zenon, <1>2, <1>6, FlattenSeqDef
<1>4. f[1] = x
  BY <1>2, <1>3, FlattensFirst
<1>5. FlattenSeq(s) = x
  BY <1>2, <1>3, <1>4
<1> QED BY <1>2, <1>5 DEF s

(* ------------------------------------------------------------------------ *)
(* The state of a processor, but for its flag, and what its operators make of *)
(* it                                                                         *)

\* x is at p, in Thumb if t is 1, with the registers r and what it has stored in ram
IsAt(x, p, t, r, ram) ==
  /\ x = [pc |-> x.pc, thumb |-> x.thumb, r |-> x.r, z |-> x.z, ram |-> x.ram]
  /\ x.pc = p /\ x.r = r /\ x.ram = ram
  /\ x.thumb \in BOOLEAN /\ (x.thumb <=> t = 1)

LEMMA AtGoto ==
  ASSUME NEW x, NEW p, NEW t, NEW r, NEW ram, IsAt(x, p, t, r, ram), NEW a
  PROVE  IsAt(Goto(x, a), a, t, r, ram)
  BY SMT DEF IsAt, Goto

LEMMA AtAssign ==
  ASSUME NEW x, NEW p, NEW t, NEW r, NEW ram, IsAt(x, p, t, r, ram), NEW d \in 0..14, NEW v
  PROVE  IsAt([x EXCEPT !.r[d] = v], p, t, [r EXCEPT ![d] = v], ram)
  BY SMT DEF IsAt

LEMMA AtSet ==
  ASSUME NEW x, NEW p, NEW t, NEW r, NEW ram, IsAt(x, p, t, r, ram), NEW size,
         NEW d \in 0..14, NEW v
  PROVE  IsAt(Set(x, d, v, size), p + size, t, [r EXCEPT ![d] = v], ram)
<1> DEFINE y == [x EXCEPT !.r[d] = v]
<1>1. IsAt(y, p, t, [r EXCEPT ![d] = v], ram)
  BY AtAssign
<1>2. Set(x, d, v, size) = Goto(y, p + size)
  BY SMT DEF IsAt, Set, Skip
<1> HIDE DEF y
<1> QED BY SMT, <1>1, <1>2, AtGoto

LEMMA AtSetZ ==
  ASSUME NEW x, NEW p, NEW t, NEW r, NEW ram, IsAt(x, p, t, r, ram), NEW size,
         NEW d \in 0..14, NEW v
  PROVE  IsAt(SetZ(x, d, v, size), p + size, t, [r EXCEPT ![d] = v], ram)
<1> DEFINE z == (v = 0)
           y == [x EXCEPT !.z = z]
<1> HIDE DEF z
<1>1. IsAt(y, p, t, r, ram)
  BY SMT DEF IsAt
<1>2. SetZ(x, d, v, size) = Set(y, d, v, size)
  BY DEF SetZ, z
<1> HIDE DEF y
<1> QED BY <1>1, <1>2, AtSet

LEMMA AtMode ==
  ASSUME NEW x, NEW p, NEW t, NEW r, NEW ram, IsAt(x, p, t, r, ram),
         NEW u, NEW b, b \in BOOLEAN, b <=> u = 1
  PROVE  IsAt([x EXCEPT !.thumb = b], p, u, r, ram)
<1>1. [x EXCEPT !.thumb = b] = [pc |-> x.pc, thumb |-> b, r |-> x.r, z |-> x.z, ram |-> x.ram]
  BY SMT DEF IsAt
<1> QED BY Zenon, <1>1 DEF IsAt

LEMMA AtInterwork ==
  ASSUME NEW x, NEW p, NEW t, NEW r, NEW ram, IsAt(x, p, t, r, ram), NEW a \in Int
  PROVE  IsAt(Interwork(x, a), a - (a % 2), a % 2, r, ram)
<1> DEFINE b == (a % 2 = 1)
           u == a % 2
           c == a - (a % 2)
<1>1. b \in BOOLEAN /\ (b <=> u = 1)
  BY Zenon
<1>3. Interwork(x, a) = [x EXCEPT !.pc = c, !.thumb = b]
  BY Zenon DEF Interwork, b
<1> HIDE DEF b, u, c
<1>4. [x EXCEPT !.pc = c, !.thumb = b] = [Goto(x, c) EXCEPT !.thumb = b]
  BY SMT DEF Goto
<1>5. IsAt(Goto(x, c), c, t, r, ram)
  BY AtGoto
<1>6. IsAt(Interwork(x, a), c, u, r, ram)
  BY <1>1, <1>3, <1>4, <1>5, AtMode
<1> QED BY <1>6 DEF u, c

LEMMA AtLink ==
  ASSUME NEW x, NEW p \in Int, NEW t \in {0, 1}, NEW r, NEW ram, IsAt(x, p, t, r, ram),
         NEW size \in Int
  PROVE  IsAt(Link(x, size), p, t, [r EXCEPT ![14] = p + size + t], ram)
<1> DEFINE v == p + size + t
<1>1. OneIf(x.thumb) = t
  BY SMT DEF IsAt, OneIf
<1>2. x.pc + size + OneIf(x.thumb) = v
  BY SMT, <1>1 DEF IsAt
<1> HIDE DEF v
<1>3. Link(x, size) = [x EXCEPT !.r[14] = v]
  BY <1>2 DEF Link
<1>4. IsAt([x EXCEPT !.r[14] = v], p, t, [r EXCEPT ![14] = v], ram)
  BY AtAssign
<1> QED BY  <1>3, <1>4 DEF v

LEMMA AtHere ==
  ASSUME NEW x, NEW p \in Int, NEW t \in {0, 1}, NEW r, NEW ram, IsAt(x, p, t, r, ram)
  PROVE  Here(x) = p + 8 - 4 * t
  BY SMT DEF IsAt, Here

LEMMA AtReg ==
  ASSUME NEW x, NEW p, NEW t, NEW r, NEW ram, IsAt(x, p, t, r, ram), NEW i \in 0..14
  PROVE  Reg(x, i) = r[i]
  BY SMT DEF IsAt, Reg

LEMMA AtStore ==
  ASSUME NEW x, NEW p, NEW t, NEW r, NEW ram, IsAt(x, p, t, r, ram), NEW a, NEW v
  PROVE  IsAt(Store(x, a, v), p, t, r, Stored(ram, a, v))
  BY SMT DEF IsAt, Store

LEMMA AtSkip ==
  ASSUME NEW x, NEW p, NEW t, NEW r, NEW ram, IsAt(x, p, t, r, ram), NEW size
  PROVE  IsAt(Skip(x, size), p + size, t, r, ram)
<1>1. Skip(x, size) = Goto(x, p + size)
  BY Zenon DEF IsAt, Skip
<1> QED BY SMT, <1>1 DEF IsAt, Goto

LEMMA AtLoad ==
  ASSUME NEW x, NEW p, NEW t, NEW r, NEW ram, IsAt(x, p, t, r, ram), NEW code, NEW size,
         NEW d \in 0..14, NEW n \in 0..14, NEW offset \in Int
  PROVE  IsAt(Transfer(x, code, 1, d, n, offset, 1, 0, size),
              p + size, t, [r EXCEPT ![d] = Load(x, code, r[n] + offset)], ram)
<1> DEFINE v == Load(x, code, r[n] + offset)
<1>1. Transfer(x, code, 1, d, n, offset, 1, 0, size) = Set(x, d, v, size)
  BY SMT DEF IsAt, Transfer
<1> HIDE DEF v
<1>2. IsAt(Set(x, d, v, size), p + size, t, [r EXCEPT ![d] = v], ram)
  BY AtSet
<1> QED BY Zenon, <1>1, <1>2 DEF v

LEMMA AtLoadIndex ==
  ASSUME NEW x, NEW p, NEW t, NEW r, NEW ram, IsAt(x, p, t, r, ram), NEW code, NEW size,
         NEW d \in 0..14, NEW n \in 0..14, NEW offset \in Int, NEW index \in {0, 1}, r[n] \in Int
  PROVE  IsAt(Transfer(x, code, 1, d, n, offset, index, 1, size), p + size, t,
              [[r EXCEPT ![n] = r[n] + offset]
                 EXCEPT ![d] = Load(x, code, r[n] + (IF index = 1 THEN offset ELSE 0))], ram)
<1> DEFINE v == Load(x, code, r[n] + (IF index = 1 THEN offset ELSE 0))
           s == r[n] + offset
           y == [x EXCEPT !.r[n] = s]
           q == [r EXCEPT ![n] = s]
<1>1. Transfer(x, code, 1, d, n, offset, index, 1, size) = Set(y, d, v, size)
  BY SMT DEF IsAt, Transfer
<1> HIDE DEF v, s
<1>3. IsAt(y, p, t, q, ram)
  BY AtAssign
<1> HIDE DEF y, q
<1>2. IsAt(Set(y, d, v, size), p + size, t, [q EXCEPT ![d] = v], ram)
  BY <1>3, AtSet
<1> QED BY Zenon, <1>1, <1>2 DEF v, q, s

LEMMA AtLoadPC ==
  ASSUME NEW x, NEW p, NEW t, NEW r, NEW ram, IsAt(x, p, t, r, ram), NEW code, NEW size,
         NEW n \in 0..14, NEW offset \in Int, r[n] \in Int, Load(x, code, r[n]) \in Int
  PROVE  LET v == Load(x, code, r[n])
         IN  IsAt(Transfer(x, code, 1, 15, n, offset, 0, 1, size),
                  v - (v % 2), v % 2, [r EXCEPT ![n] = r[n] + offset], ram)
<1> DEFINE v == Load(x, code, r[n])
           s == r[n] + offset
           y == [x EXCEPT !.r[n] = s]
           q == [r EXCEPT ![n] = s]
<1>1. Transfer(x, code, 1, 15, n, offset, 0, 1, size) = Interwork(y, v)
  BY SMT DEF IsAt, Transfer, Set
<1> HIDE DEF s
<1>3. IsAt(y, p, t, q, ram)
  BY AtAssign
<1> HIDE DEF y, q, v
<1>2. IsAt(Interwork(y, v), v - (v % 2), v % 2, q, ram)
  BY <1>3, AtInterwork DEF v
<1> QED BY Zenon, <1>1, <1>2 DEF v, q, s

LEMMA AtLiteral ==
  ASSUME NEW x, NEW p \in Int, NEW t \in {0, 1}, NEW r, NEW ram, IsAt(x, p, t, r, ram), NEW code,
         NEW size, NEW d \in 0..14, NEW offset \in Int
  PROVE  IsAt(Transfer(x, code, 1, d, 15, offset, 1, 0, size), p + size, t,
              [r EXCEPT ![d] = Load(x, code, Aligned(p + 8 - 4 * t) + offset)], ram)
<1> DEFINE v == Load(x, code, Aligned(p + 8 - 4 * t) + offset)
<1>0. Here(x) = p + 8 - 4 * t
  BY SMT, AtHere
<1>1. Transfer(x, code, 1, d, 15, offset, 1, 0, size) = Set(x, d, v, size)
  BY SMT, <1>0 DEF Transfer
<1> HIDE DEF v
<1>2. IsAt(Set(x, d, v, size), p + size, t, [r EXCEPT ![d] = v], ram)
  BY AtSet
<1> QED BY Zenon, <1>1, <1>2 DEF v

LEMMA AtLiteralPC ==
  ASSUME NEW x, NEW p \in Int, NEW t \in {0, 1}, NEW r, NEW ram, IsAt(x, p, t, r, ram), NEW code,
         NEW size, NEW offset \in Int
  PROVE  Transfer(x, code, 1, 15, 15, offset, 1, 0, size)
           = Interwork(x, Load(x, code, Aligned(p + 8 - 4 * t) + offset))
<1>0. Here(x) = p + 8 - 4 * t
  BY SMT, AtHere
<1> QED BY SMT, <1>0 DEF Transfer, Set

LEMMA AtStr ==
  ASSUME NEW x, NEW p, NEW t, NEW r, NEW ram, IsAt(x, p, t, r, ram), NEW code, NEW size,
         NEW d \in 0..14, NEW n \in 0..14, NEW offset \in Int
  PROVE  IsAt(Transfer(x, code, 0, d, n, offset, 1, 0, size),
              p + size, t, r, Stored(ram, r[n] + offset, r[d]))
<1> DEFINE a == r[n] + offset
           v == r[d]
<1>1. Transfer(x, code, 0, d, n, offset, 1, 0, size) = Skip(Store(x, a, v), size)
  BY SMT, AtReg DEF IsAt, Transfer
<1> HIDE DEF v, a
<1>2. IsAt(Store(x, a, v), p, t, r, Stored(ram, a, v))
  BY AtStore
<1> DEFINE stored == Stored(ram, a, v)
           y == Store(x, a, v)
<1> HIDE DEF stored, y
<1>4. IsAt(y, p, t, r, stored)
  BY <1>2 DEF stored, y
<1>3. IsAt(Skip(y, size), p + size, t, r, stored)
  BY <1>4, AtSkip
<1> QED BY Zenon, <1>1, <1>3 DEF v, a, stored, y

LEMMA AtStrIndex ==
  ASSUME NEW x, NEW p, NEW t, NEW r, NEW ram, IsAt(x, p, t, r, ram), NEW code, NEW size,
         NEW d \in 0..14, NEW n \in 0..14, NEW offset \in Int, NEW index \in {0, 1}, r[n] \in Int
  PROVE  IsAt(Transfer(x, code, 0, d, n, offset, index, 1, size), p + size, t,
              [r EXCEPT ![n] = r[n] + offset],
              Stored(ram, r[n] + (IF index = 1 THEN offset ELSE 0), r[d]))
<1> DEFINE a == r[n] + (IF index = 1 THEN offset ELSE 0)
           v == r[d]
           s == r[n] + offset
           y == [x EXCEPT !.r[n] = s]
           q == [r EXCEPT ![n] = s]
           stored == Stored(ram, a, v)
           z == Store(y, a, v)
<1>1. Transfer(x, code, 0, d, n, offset, index, 1, size) = Skip(z, size)
  BY SMT, AtReg DEF IsAt, Transfer
<1> HIDE DEF v, a, s
<1>2. IsAt(y, p, t, q, ram)
  BY AtAssign
<1> HIDE DEF y, q
<1>3. IsAt(z, p, t, q, stored)
  BY <1>2, AtStore
<1> HIDE DEF z, stored
<1>4. IsAt(Skip(z, size), p + size, t, q, stored)
  BY <1>3, AtSkip
<1> QED BY Zenon, <1>1, <1>4 DEF v, a, q, s, stored

\* A word is what was stored, what the code has there, or what memory holds at first
LEMMA LoadCode ==
  ASSUME NEW x, NEW code, NEW a, a \in DOMAIN code, NEW v \in Int, v >= -2147483648, v < 2147483648,
         code[a] = v % 65536, code[a + 2] = (v \div 65536) % 65536
  PROVE  Load(x, code, a) = v
<1> DEFINE low == v % 65536
           high == (v \div 65536) % 65536
<1>1. low \in Nat /\ low < 65536 /\ high \in Nat /\ high < 65536
      /\ v = low + 65536 * (IF high < 32768 THEN high ELSE high - 65536)
  BY SMT
<1>2. code[a] = low /\ code[a + 2] = high
  OBVIOUS
<1> HIDE DEF low, high
<1>3. Load(x, code, a) = low + 65536 * Signed(high)
  BY SMT, <1>2 DEF Load
<1>4. Signed(high) = IF high < 32768 THEN high ELSE high - 65536
  BY SMT, <1>1 DEF Signed
<1> QED BY SMT, <1>1, <1>3, <1>4

LEMMA LoadContent ==
  ASSUME NEW x, NEW p, NEW t, NEW r, NEW code, NEW a, a \notin DOMAIN code, IsAt(x, p, t, r, << >>)
  PROVE  Load(x, code, a) = Content(a)
  BY SMT DEF Load, IsAt

LEMMA LoadStored ==
  ASSUME NEW x, NEW p, NEW t, NEW r, NEW ram, NEW code, NEW a, a \notin DOMAIN code,
         a \in DOMAIN ram,
         IsAt(x, p, t, r, ram)
  PROVE  Load(x, code, a) = ram[a]
  BY SMT DEF Load, IsAt

(* ------------------------------------------------------------------------ *)
(* One step with each instruction: Thumb, of one halfword                     *)

\* ldr t, [pc, #4q]
EncLiteral(t, q) == \h4800 + t * 256 + q

LEMMA StepLiteral ==
  ASSUME NEW m, NEW code, m.thumb, NEW t \in 0..7, NEW q \in Nat, Eight(q),
         code[m.pc] = EncLiteral(t, q)
  PROVE  Step(m, code) = Transfer(m, code, 1, t, 15, q * 4, 1, 0, 2)
<1> q < 256
  BY SMT DEF Eight
<1> DEFINE h == EncLiteral(t, q)
<1>1. /\ Field(h, 11, 5) = 9
      /\ Field(h, 8, 3) = t
      /\ Field(h, 0, 8) = q
  BY SMT DEF Field, EncLiteral
<1>2. /\ h # \h46c0
      /\ Field(h, 9, 7) \notin {\h0c, \h0e, \h0f, \h5a, \h5e}
      /\ Field(h, 8, 8) \notin {\h44, \hb0}
      /\ Field(h, 7, 9) \notin {\h8e, \h8f}
  BY SMT DEF Field, EncLiteral
<1>3. /\ Field(h, 12, 4) # 13
      /\ ~(Field(h, 12, 4) = 11 /\ Field(h, 10, 1) = 0 /\ Field(h, 8, 1) = 1)
      /\ Field(h, 11, 5) \notin {29, 30, 31}
  BY SMT DEF Field, EncLiteral
<1>4. code[m.pc] = h
  OBVIOUS
<1> HIDE DEF h
<1> QED BY SMT, <1>1, <1>2, <1>3, <1>4 DEF Step, Thumb16

\* ldr or str t, [n, #4q]
EncTransfer1(load, t, n, q) == \h6000 + load * \h0800 + q * 64 + n * 8 + t
Transfer1In(code, a, load, t, n, q) ==
  /\ load \in {0, 1} /\ t \in 0..7 /\ n \in 0..7 /\ q \in Nat /\ q < 32
  /\ code[a] = EncTransfer1(load, t, n, q)

LEMMA StepTransfer1 ==
  ASSUME NEW m, NEW code, m.thumb, NEW load, NEW t, NEW n, NEW q,
         Transfer1In(code, m.pc, load, t, n, q)
  PROVE  Step(m, code) = Transfer(m, code, load, t, n, q * 4, 1, 0, 2)
<1> /\ load \in {0, 1} /\ t \in 0..7 /\ n \in 0..7 /\ q \in Nat /\ q < 32
    /\ code[m.pc] = EncTransfer1(load, t, n, q)
  BY SMT DEF Transfer1In
<1> DEFINE h == EncTransfer1(load, t, n, q)
<1>1. /\ Field(h, 11, 5) = 12 + load
      /\ Field(h, 0, 3) = t
      /\ Field(h, 3, 3) = n
      /\ Field(h, 6, 5) = q
  BY SMT DEF Field, EncTransfer1
<1>2. /\ h # \h46c0
      /\ Field(h, 9, 7) \notin {\h0c, \h0e, \h0f, \h5a, \h5e}
      /\ Field(h, 8, 8) \notin {\h44, \hb0}
      /\ Field(h, 7, 9) \notin {\h8e, \h8f}
  BY SMT DEF Field, EncTransfer1
<1>3. /\ Field(h, 12, 4) # 13
      /\ ~(Field(h, 12, 4) = 11 /\ Field(h, 10, 1) = 0 /\ Field(h, 8, 1) = 1)
      /\ Field(h, 11, 5) \notin {29, 30, 31}
  BY SMT DEF Field, EncTransfer1
<1>4. code[m.pc] = h
  OBVIOUS
<1> HIDE DEF h
<1> QED BY SMT, <1>1, <1>2, <1>3, <1>4 DEF Step, Thumb16

\* ldr or str t, [sp, #4q]
EncTransfer2(load, t, q) == \h9000 + load * \h0800 + t * 256 + q
Transfer2In(code, a, load, t, q) ==
  /\ load \in {0, 1} /\ t \in 0..7 /\ q \in Nat /\ Eight(q)
  /\ code[a] = EncTransfer2(load, t, q)

LEMMA StepTransfer2 ==
  ASSUME NEW m, NEW code, m.thumb, NEW load, NEW t, NEW q,
         Transfer2In(code, m.pc, load, t, q)
  PROVE  Step(m, code) = Transfer(m, code, load, t, 13, q * 4, 1, 0, 2)
<1> /\ load \in {0, 1} /\ t \in 0..7 /\ q \in Nat /\ Eight(q)
    /\ code[m.pc] = EncTransfer2(load, t, q)
  BY SMT DEF Transfer2In
<1> q < 256
  BY SMT DEF Eight
<1> DEFINE h == EncTransfer2(load, t, q)
<1>1. /\ Field(h, 11, 5) = 18 + load
      /\ Field(h, 8, 3) = t
      /\ Field(h, 0, 8) = q
  BY SMT DEF Field, EncTransfer2
<1>2. /\ h # \h46c0
      /\ Field(h, 9, 7) \notin {\h0c, \h0e, \h0f, \h5a, \h5e}
      /\ Field(h, 8, 8) \notin {\h44, \hb0}
      /\ Field(h, 7, 9) \notin {\h8e, \h8f}
  BY SMT DEF Field, EncTransfer2
<1>3. /\ Field(h, 12, 4) # 13
      /\ ~(Field(h, 12, 4) = 11 /\ Field(h, 10, 1) = 0 /\ Field(h, 8, 1) = 1)
      /\ Field(h, 11, 5) \notin {29, 30, 31}
  BY SMT DEF Field, EncTransfer2
<1>4. code[m.pc] = h
  OBVIOUS
<1> HIDE DEF h
<1> QED BY SMT, <1>1, <1>2, <1>3, <1>4 DEF Step, Thumb16

\* add or sub sp, #4q
EncAddSP(minus, q) == \hb000 + minus * \h0080 + q
AddSPIn(code, a, minus, q) ==
  /\ minus \in {0, 1} /\ q \in Nat /\ q < 128 /\ code[a] = EncAddSP(minus, q)

LEMMA StepAddSP ==
  ASSUME NEW m, NEW code, m.thumb, NEW minus, NEW q,
         AddSPIn(code, m.pc, minus, q)
  PROVE  Step(m, code) = Set(m, 13, m.r[13] + (IF minus = 1 THEN -4 ELSE 4) * q, 2)
<1> /\ minus \in {0, 1} /\ q \in Nat /\ q < 128 /\ code[m.pc] = EncAddSP(minus, q)
  BY SMT DEF AddSPIn
<1> DEFINE h == EncAddSP(minus, q)
<1>1. /\ Field(h, 8, 8) = \hb0
      /\ Field(h, 7, 1) = minus
      /\ Field(h, 0, 7) = q
  BY SMT DEF Field, EncAddSP
<1>2. /\ h # \h46c0
      /\ Field(h, 9, 7) \notin {\h0c, \h0e, \h0f, \h5a, \h5e}
      /\ Field(h, 8, 8) \notin {\h44}
      /\ Field(h, 7, 9) \notin {\h8e, \h8f}
  BY SMT DEF Field, EncAddSP
<1>3. /\ Field(h, 12, 4) # 13
      /\ ~(Field(h, 12, 4) = 11 /\ Field(h, 10, 1) = 0 /\ Field(h, 8, 1) = 1)
      /\ Field(h, 11, 5) \notin {5, 6, 7, 9, 12, 13, 18, 19, 20, 21, 28, 29, 30, 31}
  BY SMT DEF Field, EncAddSP
<1>4. code[m.pc] = h
  OBVIOUS
<1> HIDE DEF h
<1> QED BY SMT, <1>1, <1>2, <1>3, <1>4 DEF Step, Thumb16

\* add or sub d, #q
EncAddImm8(minus, d, q) == \h3000 + minus * \h0800 + d * 256 + q
Adds(m, code, d, n, minus, q) == Step(m, code) = SetZ(m, d, Moved(minus, m.r[n], q), 2)
AddImm8In(code, a, minus, d, q) ==
  /\ minus \in {0, 1} /\ d \in 0..7 /\ q \in Nat /\ Eight(q)
  /\ code[a] = EncAddImm8(minus, d, q)

LEMMA StepAddImm8 ==
  ASSUME NEW m, NEW code, m.thumb, NEW minus, NEW d, NEW q,
         AddImm8In(code, m.pc, minus, d, q)
  PROVE  Adds(m, code, d, d, minus, q)
<1> /\ minus \in {0, 1} /\ d \in 0..7 /\ q \in Nat /\ Eight(q)
    /\ code[m.pc] = EncAddImm8(minus, d, q)
  BY SMT DEF AddImm8In
<1> q < 256
  BY SMT DEF Eight
<1> DEFINE h == EncAddImm8(minus, d, q)
<1>1. /\ Field(h, 11, 5) = 6 + minus
      /\ Field(h, 8, 3) = d
      /\ Field(h, 0, 8) = q
  BY SMT DEF Field, EncAddImm8
<1>2. /\ h # \h46c0
      /\ Field(h, 9, 7) \notin {\h0c, \h0e, \h0f, \h5a, \h5e}
      /\ Field(h, 8, 8) \notin {\h44, \hb0}
      /\ Field(h, 7, 9) \notin {\h8e, \h8f}
  BY SMT DEF Field, EncAddImm8
<1>3. /\ Field(h, 12, 4) # 13
      /\ ~(Field(h, 12, 4) = 11 /\ Field(h, 10, 1) = 0 /\ Field(h, 8, 1) = 1)
      /\ Field(h, 11, 5) \notin {29, 30, 31}
  BY SMT DEF Field, EncAddImm8
<1>4. code[m.pc] = h
  OBVIOUS
<1> HIDE DEF h
<1> QED BY SMT, <1>1, <1>2, <1>3, <1>4 DEF Adds, Step, Thumb16, Moved

\* add or sub d, n, #q
EncAddImm3(minus, d, n, q) == \h1c00 + minus * 512 + q * 64 + n * 8 + d
AddImm3In(code, a, minus, d, n, q) ==
  /\ minus \in {0, 1} /\ d \in 0..7 /\ n \in 0..7 /\ q \in 0..7
  /\ code[a] = EncAddImm3(minus, d, n, q)

LEMMA StepAddImm3 ==
  ASSUME NEW m, NEW code, m.thumb, NEW minus, NEW d, NEW n, NEW q,
         AddImm3In(code, m.pc, minus, d, n, q)
  PROVE  Adds(m, code, d, n, minus, q)
<1> /\ minus \in {0, 1} /\ d \in 0..7 /\ n \in 0..7 /\ q \in 0..7
    /\ code[m.pc] = EncAddImm3(minus, d, n, q)
  BY SMT DEF AddImm3In
<1> DEFINE h == EncAddImm3(minus, d, n, q)
<1>1. /\ Field(h, 9, 7) = 14 + minus
      /\ Field(h, 0, 3) = d
      /\ Field(h, 3, 3) = n
      /\ Field(h, 6, 3) = q
  BY SMT DEF Field, EncAddImm3
<1>2. /\ h # \h46c0
      /\ Field(h, 9, 7) \notin {\h0c, \h5a, \h5e}
      /\ Field(h, 8, 8) \notin {\h44, \hb0}
      /\ Field(h, 7, 9) \notin {\h8e, \h8f}
  BY SMT DEF Field, EncAddImm3
<1>3. /\ Field(h, 12, 4) # 13
      /\ ~(Field(h, 12, 4) = 11 /\ Field(h, 10, 1) = 0 /\ Field(h, 8, 1) = 1)
      /\ Field(h, 11, 5) \notin {5, 6, 7, 9, 12, 13, 18, 19, 20, 21, 28, 29, 30, 31}
  BY SMT DEF Field, EncAddImm3
<1>4. code[m.pc] = h
  OBVIOUS
<1> HIDE DEF h
<1> QED BY SMT, <1>1, <1>2, <1>3, <1>4 DEF Adds, Step, Thumb16, Moved

\* add d, n, i
EncAddReg(d, n, i) == \h1800 + i * 64 + n * 8 + d
AddsReg(m, code, d, n, i) == Step(m, code) = SetZ(m, d, m.r[n] + m.r[i], 2)
AddRegIn(code, a, d, n, i) ==
  /\ d \in 0..7 /\ n \in 0..7 /\ i \in 0..7 /\ code[a] = EncAddReg(d, n, i)

LEMMA StepAddReg ==
  ASSUME NEW m, NEW code, m.thumb, NEW d, NEW n, NEW i,
         AddRegIn(code, m.pc, d, n, i)
  PROVE  AddsReg(m, code, d, n, i)
<1> /\ d \in 0..7 /\ n \in 0..7 /\ i \in 0..7 /\ code[m.pc] = EncAddReg(d, n, i)
  BY SMT DEF AddRegIn
<1> DEFINE h == EncAddReg(d, n, i)
<1>1. /\ Field(h, 9, 7) = 12
      /\ Field(h, 0, 3) = d
      /\ Field(h, 3, 3) = n
      /\ Field(h, 6, 3) = i
  BY SMT DEF Field, EncAddReg
<1>2. /\ h # \h46c0
      /\ Field(h, 9, 7) \notin {\h0e, \h0f, \h5a, \h5e}
      /\ Field(h, 8, 8) \notin {\h44, \hb0}
      /\ Field(h, 7, 9) \notin {\h8e, \h8f}
  BY SMT DEF Field, EncAddReg
<1>3. /\ Field(h, 12, 4) # 13
      /\ ~(Field(h, 12, 4) = 11 /\ Field(h, 10, 1) = 0 /\ Field(h, 8, 1) = 1)
      /\ Field(h, 11, 5) \notin {5, 6, 7, 9, 12, 13, 18, 19, 20, 21, 28, 29, 30, 31}
  BY SMT DEF Field, EncAddReg
<1>4. code[m.pc] = h
  OBVIOUS
<1> HIDE DEF h
<1> QED BY SMT, <1>1, <1>2, <1>3, <1>4 DEF Step, Thumb16, AddsReg

\* add d, pc or sp, #4q
EncAdr(sp, d, q) == \ha000 + sp * \h0800 + d * 256 + q
AdrIn(code, a, sp, d, q) ==
  /\ sp \in {0, 1} /\ d \in 0..7 /\ q \in Nat /\ Eight(q) /\ code[a] = EncAdr(sp, d, q)

LEMMA StepAdr ==
  ASSUME NEW m, NEW code, m.thumb, NEW sp, NEW d, NEW q,
         AdrIn(code, m.pc, sp, d, q)
  PROVE  Step(m, code) = Set(m, d, (IF sp = 1 THEN m.r[13] ELSE Aligned(Here(m))) + q * 4, 2)
<1> /\ sp \in {0, 1} /\ d \in 0..7 /\ q \in Nat /\ Eight(q) /\ code[m.pc] = EncAdr(sp, d, q)
  BY SMT DEF AdrIn
<1> q < 256
  BY SMT DEF Eight
<1> DEFINE h == EncAdr(sp, d, q)
<1>1. /\ Field(h, 11, 5) = 20 + sp
      /\ Field(h, 8, 3) = d
      /\ Field(h, 0, 8) = q
  BY SMT DEF Field, EncAdr
<1>2. /\ h # \h46c0
      /\ Field(h, 9, 7) \notin {\h0c, \h0e, \h0f, \h5a, \h5e}
      /\ Field(h, 8, 8) \notin {\h44, \hb0}
      /\ Field(h, 7, 9) \notin {\h8e, \h8f}
  BY SMT DEF Field, EncAdr
<1>3. /\ Field(h, 12, 4) # 13
      /\ ~(Field(h, 12, 4) = 11 /\ Field(h, 10, 1) = 0 /\ Field(h, 8, 1) = 1)
      /\ Field(h, 11, 5) \notin {29, 30, 31}
  BY SMT DEF Field, EncAdr
<1>4. code[m.pc] = h
  OBVIOUS
<1> HIDE DEF h
<1> QED BY SMT, <1>1, <1>2, <1>3, <1>4 DEF Step, Thumb16

\* bx i
EncBx(i) == \h4700 + i * 8

LEMMA StepBx ==
  ASSUME NEW m, NEW code, m.thumb, NEW i \in 0..15,
         code[m.pc] = EncBx(i)
  PROVE  Step(m, code) = Interwork(m, Reg(m, i))
<1> DEFINE h == EncBx(i)
<1>1. /\ Field(h, 7, 9) = \h8e
      /\ Field(h, 3, 4) = i
  BY SMT DEF Field, EncBx
<1>2. /\ h # \h46c0
      /\ Field(h, 9, 7) \notin {\h0c, \h0e, \h0f, \h5a, \h5e}
      /\ Field(h, 8, 8) \notin {\h44, \hb0}
      /\ Field(h, 7, 9) \notin {\h8f}
  BY SMT DEF Field, EncBx
<1>3. /\ Field(h, 12, 4) # 13
      /\ ~(Field(h, 12, 4) = 11 /\ Field(h, 10, 1) = 0 /\ Field(h, 8, 1) = 1)
      /\ Field(h, 11, 5) \notin {5, 6, 7, 9, 12, 13, 18, 19, 20, 21, 28, 29, 30, 31}
  BY SMT DEF Field, EncBx
<1>4. code[m.pc] = h
  OBVIOUS
<1> HIDE DEF h
<1> QED BY SMT, <1>1, <1>2, <1>3, <1>4 DEF Step, Thumb16

\* blx i
EncBlx(i) == \h4780 + i * 8

LEMMA StepBlx ==
  ASSUME NEW m, NEW code, m.thumb, NEW i \in 0..15,
         code[m.pc] = EncBlx(i)
  PROVE  Step(m, code) = Interwork(Link(m, 2), Reg(m, i))
<1> DEFINE h == EncBlx(i)
<1>1. /\ Field(h, 7, 9) = \h8f
      /\ Field(h, 3, 4) = i
  BY SMT DEF Field, EncBlx
<1>2. /\ h # \h46c0
      /\ Field(h, 9, 7) \notin {\h0c, \h0e, \h0f, \h5a, \h5e}
      /\ Field(h, 8, 8) \notin {\h44, \hb0}
      /\ Field(h, 7, 9) \notin {\h8e}
  BY SMT DEF Field, EncBlx
<1>3. /\ Field(h, 12, 4) # 13
      /\ ~(Field(h, 12, 4) = 11 /\ Field(h, 10, 1) = 0 /\ Field(h, 8, 1) = 1)
      /\ Field(h, 11, 5) \notin {5, 6, 7, 9, 12, 13, 18, 19, 20, 21, 28, 29, 30, 31}
  BY SMT DEF Field, EncBlx
<1>4. code[m.pc] = h
  OBVIOUS
<1> HIDE DEF h
<1> QED BY SMT, <1>1, <1>2, <1>3, <1>4 DEF Step, Thumb16

\* nop
EncNop == \h46c0

LEMMA StepNop ==
  ASSUME NEW m, NEW code, m.thumb,
         code[m.pc] = EncNop
  PROVE  Step(m, code) = Skip(m, 2)
<1> DEFINE h == EncNop
<1>1. /\ h = \h46c0
      /\ Field(h, 8, 8) = 70
  BY SMT DEF Field, EncNop
<1>2. /\ Field(h, 9, 7) \notin {\h0c, \h0e, \h0f, \h5a, \h5e}
      /\ Field(h, 8, 8) \notin {\h44, \hb0}
      /\ Field(h, 7, 9) \notin {\h8e, \h8f}
  BY SMT DEF Field, EncNop
<1>3. /\ Field(h, 12, 4) # 13
      /\ ~(Field(h, 12, 4) = 11 /\ Field(h, 10, 1) = 0 /\ Field(h, 8, 1) = 1)
      /\ Field(h, 11, 5) \notin {5, 6, 7, 9, 12, 13, 18, 19, 20, 21, 28, 29, 30, 31}
  BY SMT DEF Field, EncNop
<1>4. code[m.pc] = h
  OBVIOUS
<1> HIDE DEF h
<1> QED BY SMT, <1>1, <1>2, <1>3, <1>4 DEF Step, Thumb16

\* The provers know the powers of literals only
Power(i) == 2 ^ i

LEMMA PowersOfTwo ==
  ASSUME NEW i \in 0..7
  PROVE  \/ (i = 0 /\ Power(i) = 1)
         \/ (i = 1 /\ Power(i) = 2)
         \/ (i = 2 /\ Power(i) = 4)
         \/ (i = 3 /\ Power(i) = 8)
         \/ (i = 4 /\ Power(i) = 16)
         \/ (i = 5 /\ Power(i) = 32)
         \/ (i = 6 /\ Power(i) = 64)
         \/ (i = 7 /\ Power(i) = 128)
<1>0. CASE i = 0
  <2>1. 2 ^ i = 2 ^ 0 BY Zenon, <1>0
  <2>2. 2 ^ 0 = 1 BY SMT
  <2>3. Power(i) = 1 BY Zenon, <2>1, <2>2 DEF Power
  <2> QED BY <1>0, <2>3
<1>1. CASE i = 1
  <2>1. 2 ^ i = 2 ^ 1 BY Zenon, <1>1
  <2>2. 2 ^ 1 = 2 BY SMT
  <2>3. Power(i) = 2 BY Zenon, <2>1, <2>2 DEF Power
  <2> QED BY <1>1, <2>3
<1>2. CASE i = 2
  <2>1. 2 ^ i = 2 ^ 2 BY Zenon, <1>2
  <2>2. 2 ^ 2 = 4 BY SMT
  <2>3. Power(i) = 4 BY Zenon, <2>1, <2>2 DEF Power
  <2> QED BY <1>2, <2>3
<1>3. CASE i = 3
  <2>1. 2 ^ i = 2 ^ 3 BY Zenon, <1>3
  <2>2. 2 ^ 3 = 8 BY SMT
  <2>3. Power(i) = 8 BY Zenon, <2>1, <2>2 DEF Power
  <2> QED BY <1>3, <2>3
<1>4. CASE i = 4
  <2>1. 2 ^ i = 2 ^ 4 BY Zenon, <1>4
  <2>2. 2 ^ 4 = 16 BY SMT
  <2>3. Power(i) = 16 BY Zenon, <2>1, <2>2 DEF Power
  <2> QED BY <1>4, <2>3
<1>5. CASE i = 5
  <2>1. 2 ^ i = 2 ^ 5 BY Zenon, <1>5
  <2>2. 2 ^ 5 = 32 BY SMT
  <2>3. Power(i) = 32 BY Zenon, <2>1, <2>2 DEF Power
  <2> QED BY <1>5, <2>3
<1>6. CASE i = 6
  <2>1. 2 ^ i = 2 ^ 6 BY Zenon, <1>6
  <2>2. 2 ^ 6 = 64 BY SMT
  <2>3. Power(i) = 64 BY Zenon, <2>1, <2>2 DEF Power
  <2> QED BY <1>6, <2>3
<1>7. CASE i = 7
  <2>1. 2 ^ i = 2 ^ 7 BY Zenon, <1>7
  <2>2. 2 ^ 7 = 128 BY SMT
  <2>3. Power(i) = 128 BY Zenon, <2>1, <2>2 DEF Power
  <2> QED BY <1>7, <2>3
<1>8. i \in {0, 1, 2, 3, 4, 5, 6, 7}
  BY SMT
<1> QED BY SMT, <1>0, <1>1, <1>2, <1>3, <1>4, <1>5, <1>6, <1>7, <1>8

LEMMA ListOfOne ==
  ASSUME NEW i \in 0..7
  PROVE  2 ^ i \in {1, 2, 4, 8, 16, 32, 64, 128} /\ OneRegister(2 ^ i) = i
<1>1. Power(i) \in {1, 2, 4, 8, 16, 32, 64, 128} /\ Power(i) # 0
  BY SMT, PowersOfTwo
<1>2. ASSUME NEW j \in 0..7, Power(i) = Power(j) PROVE j = i
  BY SMT, <1>2, PowersOfTwo
<1>3. OneRegister(2 ^ i) = (CHOOSE j \in 0..7 : Power(i) = Power(j) \/ Power(i) = 0)
  BY Zenon DEF OneRegister, Power
<1>4. \E j \in 0..7 : Power(i) = Power(j) \/ Power(i) = 0
  OBVIOUS
<1>5. /\ OneRegister(2 ^ i) \in 0..7
      /\ Power(i) = Power(OneRegister(2 ^ i)) \/ Power(i) = 0
  BY Zenon, <1>3, <1>4
<1>6. OneRegister(2 ^ i) = i
  BY <1>1, <1>2, <1>5
<1> QED BY Zenon, <1>1, <1>6 DEF Power

\* push {i} and pop {i}, the list of registers p
LEMMA ThumbPushFields ==
  ASSUME NEW p \in {1, 2, 4, 8, 16, 32, 64, 128}, NEW pop \in {0, 1},
         NEW h, h = \hb400 + pop * \h0800 + p
  PROVE  /\ Field(h, 0, 8) = p /\ p # 0
         /\ Field(h, 9, 7) = 90 + 4 * pop /\ Field(h, 11, 5) = 22 + pop
         /\ Field(h, 8, 8) = 180 + 8 * pop
         /\ Field(h, 7, 9) \notin {\h8e, \h8f} /\ Field(h, 12, 4) = 11 /\ Field(h, 10, 1) = 1
         /\ h # \h46c0
  BY SMT DEF Field

EncPush(i) == \hb400 + 2 ^ i

LEMMA StepPush ==
  ASSUME NEW m, NEW code, m.thumb, NEW i \in 0..7, code[m.pc] = EncPush(i)
  PROVE  Step(m, code) = Transfer(m, code, 0, i, 13, -4, 1, 1, 2)
<1> DEFINE p == 2 ^ i
           h == EncPush(i)
<1>1. p \in {1, 2, 4, 8, 16, 32, 64, 128} /\ OneRegister(p) = i
  BY ListOfOne
<1>2. h = \hb400 + p
  BY DEF EncPush
<1>4. code[m.pc] = h
  OBVIOUS
<1> HIDE DEF p, h
<1>5. h = \hb400 + 0 * \h0800 + p
  BY SMT, <1>1, <1>2
<1>3. /\ Field(h, 0, 8) = p /\ p # 0
      /\ Field(h, 9, 7) = 90 /\ Field(h, 11, 5) = 22 /\ Field(h, 8, 8) = 180
      /\ Field(h, 7, 9) \notin {\h8e, \h8f} /\ Field(h, 12, 4) = 11 /\ Field(h, 10, 1) = 1
      /\ h # \h46c0
  BY SMT, <1>1, <1>5, ThumbPushFields
<1> QED BY SMT, <1>1, <1>3, <1>4 DEF Step, Thumb16

EncPop(i) == \hbc00 + 2 ^ i

LEMMA StepPop ==
  ASSUME NEW m, NEW code, m.thumb, NEW i \in 0..7, code[m.pc] = EncPop(i)
  PROVE  Step(m, code) = Transfer(m, code, 1, i, 13, 4, 0, 1, 2)
<1> DEFINE p == 2 ^ i
           h == EncPop(i)
<1>1. p \in {1, 2, 4, 8, 16, 32, 64, 128} /\ OneRegister(p) = i
  BY ListOfOne
<1>2. h = \hbc00 + p
  BY DEF EncPop
<1>4. code[m.pc] = h
  OBVIOUS
<1> HIDE DEF p, h
<1>5. h = \hb400 + 1 * \h0800 + p
  BY SMT, <1>1, <1>2
<1>3. /\ Field(h, 0, 8) = p /\ p # 0
      /\ Field(h, 9, 7) = 94 /\ Field(h, 11, 5) = 23 /\ Field(h, 8, 8) = 188
      /\ Field(h, 7, 9) \notin {\h8e, \h8f} /\ Field(h, 12, 4) = 11 /\ Field(h, 10, 1) = 1
      /\ h # \h46c0
  BY SMT, <1>1, <1>5, ThumbPushFields
<1> QED BY SMT, <1>1, <1>3, <1>4 DEF Step, Thumb16

\* b, w halfwords on
LEMMA ThumbBranchImm ==
  ASSUME NEW w \in Int, w >= -1024, w < 1024
  PROVE  LET v == Sub(2 * w, 1, 11) IN v \in Nat /\ v < 2048 /\ w = v - 2048 * (v \div 1024)
<1>1. (2 * w) \div 2 = w
  BY SMT
<1> QED BY SMT, <1>1 DEF Sub

LEMMA ThumbBranchFields ==
  ASSUME NEW v \in Nat, v < 2048, NEW h, h = \he000 + v
  PROVE  /\ Field(h, 11, 5) = 28 /\ Field(h, 0, 11) = v /\ Field(h, 10, 1) = v \div 1024
         /\ Field(h, 9, 7) >= 112 /\ Field(h, 8, 8) >= 224 /\ Field(h, 7, 9) >= 448
         /\ Field(h, 12, 4) = 14
         /\ h # \h46c0
  BY SMT DEF Field

EncBranch(w) == \he000 + Sub(2 * w, 1, 11)

LEMMA StepBranch ==
  ASSUME NEW m, NEW code, m.thumb, NEW w \in Int, w >= -1024, w < 1024, code[m.pc] = EncBranch(w)
  PROVE  Step(m, code) = Goto(m, Here(m) + 2 * w)
<1> DEFINE v == Sub(2 * w, 1, 11)
           h == EncBranch(w)
<1>1. v \in Nat /\ v < 2048 /\ w = v - 2048 * (v \div 1024)
  BY SMT, ThumbBranchImm
<1>2. h = \he000 + v
  BY DEF EncBranch
<1>4. code[m.pc] = h
  OBVIOUS
<1> HIDE DEF v, h
<1>3. /\ Field(h, 11, 5) = 28 /\ Field(h, 0, 11) - 2048 * Field(h, 10, 1) = w
      /\ Field(h, 9, 7) >= 112 /\ Field(h, 8, 8) >= 224 /\ Field(h, 7, 9) >= 448
      /\ Field(h, 12, 4) = 14
      /\ h # \h46c0
  BY SMT, <1>1, <1>2, ThumbBranchFields
<1> QED BY SMT, <1>3, <1>4 DEF Step, Thumb16

(* ------------------------------------------------------------------------ *)
(* Thumb, of two halfwords                                                    *)

LEMMA StepThumb32 ==
  ASSUME NEW m, NEW code, m.thumb, m.pc + 2 \in DOMAIN code,
         NEW h, h = code[m.pc], NEW k, k = code[m.pc + 2], Field(h, 11, 5) \in {29, 30, 31}
  PROVE  Step(m, code) = Thumb32(m, code, h, k)
  BY SMT DEF Step

\* ldr t, [pc, #imm], of two halfwords
EncLiteralHigh(up) == \hf85f + up * 128
EncLow(t, imm) == t * 4096 + imm

LEMMA EncLowFields ==
  ASSUME NEW t \in 0..15, NEW imm \in Nat, Twelve(imm)
  PROVE  Field(EncLow(t, imm), 12, 4) = t /\ Field(EncLow(t, imm), 0, 12) = imm
  BY SMT DEF Field, EncLow, Twelve

Literal32In(code, a, up, t, imm) ==
  /\ a + 2 \in DOMAIN code /\ up \in {0, 1} /\ t \in 0..15 /\ imm \in Nat /\ Twelve(imm)
  /\ code[a] = EncLiteralHigh(up) /\ code[a + 2] = EncLow(t, imm)

LEMMA StepLiteral32 ==
  ASSUME NEW m, NEW code, m.thumb, NEW up, NEW t, NEW imm,
         Literal32In(code, m.pc, up, t, imm)
  PROVE  Step(m, code) = Transfer(m, code, 1, t, 15, (IF up = 1 THEN 1 ELSE -1) * imm, 1, 0, 4)
<1> /\ m.pc + 2 \in DOMAIN code /\ up \in {0, 1} /\ t \in 0..15 /\ imm \in Nat /\ Twelve(imm)
    /\ code[m.pc] = EncLiteralHigh(up) /\ code[m.pc + 2] = EncLow(t, imm)
  BY SMT DEF Literal32In
<1> imm < 4096
  BY SMT DEF Twelve
<1> DEFINE h == EncLiteralHigh(up)
           k == EncLow(t, imm)
<1>1. /\ Field(h, 11, 5) = 31 /\ Field(h, 8, 8) = \hf8 /\ Field(h, 0, 7) = \h5f
      /\ Field(h, 7, 1) = up /\ Field(h, 0, 4) = 15
  BY SMT DEF Field, EncLiteralHigh
<1>3. Field(k, 12, 4) = t /\ Field(k, 0, 12) = imm
  BY EncLowFields
<1>4. code[m.pc] = h /\ code[m.pc + 2] = k
  OBVIOUS
<1> HIDE DEF h, k
<1>5. Step(m, code) = Thumb32(m, code, h, k)
  BY <1>1, <1>4, StepThumb32
<1> QED BY SMT, <1>1, <1>3, <1>5 DEF Thumb32

\* ldr or str t, [n, #imm]
EncTransferHigh(load, n) == \hf8c0 + load * 16 + n
Transfer3In(code, a, load, t, n, imm) ==
  /\ a + 2 \in DOMAIN code /\ load \in {0, 1} /\ t \in 0..15 /\ n \in 0..14 /\ imm \in Nat
  /\ Twelve(imm) /\ code[a] = EncTransferHigh(load, n) /\ code[a + 2] = EncLow(t, imm)

LEMMA StepTransfer3 ==
  ASSUME NEW m, NEW code, m.thumb, NEW load, NEW t, NEW n, NEW imm,
         Transfer3In(code, m.pc, load, t, n, imm)
  PROVE  Step(m, code) = Transfer(m, code, load, t, n, imm, 1, 0, 4)
<1> /\ m.pc + 2 \in DOMAIN code /\ load \in {0, 1} /\ t \in 0..15 /\ n \in 0..14 /\ imm \in Nat
    /\ Twelve(imm) /\ code[m.pc] = EncTransferHigh(load, n) /\ code[m.pc + 2] = EncLow(t, imm)
  BY SMT DEF Transfer3In
<1> imm < 4096
  BY SMT DEF Twelve
<1> DEFINE h == EncTransferHigh(load, n)
           k == EncLow(t, imm)
<1>1. /\ Field(h, 11, 5) = 31 /\ Field(h, 4, 12) = \hf8c + load /\ Field(h, 4, 1) = load
      /\ Field(h, 0, 4) = n /\ Field(h, 0, 7) # \h5f
  BY SMT DEF Field, EncTransferHigh
<1>3. Field(k, 12, 4) = t /\ Field(k, 0, 12) = imm
  BY EncLowFields
<1>4. code[m.pc] = h /\ code[m.pc + 2] = k
  OBVIOUS
<1> HIDE DEF h, k
<1>5. Step(m, code) = Thumb32(m, code, h, k)
  BY <1>1, <1>4, StepThumb32
<1> QED BY SMT, <1>1, <1>3, <1>5 DEF Thumb32

\* ldr or str t, [n, #imm]!, [n], #imm or [n, #-imm]
EncIndexHigh(load, n) == \hf840 + load * 16 + n
EncIndexLow(t, index, up, write, imm) ==
  \h0800 + t * 4096 + index * 1024 + up * 512 + write * 256 + imm
Transfer4In(code, a, load, t, n, imm, index, up, write) ==
  /\ a + 2 \in DOMAIN code /\ load \in {0, 1} /\ t \in 0..15 /\ n \in 0..14 /\ imm \in Nat
  /\ Eight(imm) /\ index \in {0, 1} /\ up \in {0, 1} /\ write \in {0, 1}
  /\ code[a] = EncIndexHigh(load, n) /\ code[a + 2] = EncIndexLow(t, index, up, write, imm)

LEMMA StepTransfer4 ==
  ASSUME NEW m, NEW code, m.thumb, NEW load, NEW t, NEW n, NEW imm, NEW index, NEW up, NEW write,
         Transfer4In(code, m.pc, load, t, n, imm, index, up, write)
  PROVE  Step(m, code)
           = Transfer(m, code, load, t, n, Toward(up, imm), index, write, 4)
<1> /\ m.pc + 2 \in DOMAIN code /\ load \in {0, 1} /\ t \in 0..15 /\ n \in 0..14 /\ imm \in Nat
    /\ Eight(imm) /\ index \in {0, 1} /\ up \in {0, 1} /\ write \in {0, 1}
    /\ code[m.pc] = EncIndexHigh(load, n)
    /\ code[m.pc + 2] = EncIndexLow(t, index, up, write, imm)
  BY SMT DEF Transfer4In
<1> imm < 256
  BY SMT DEF Eight
<1> DEFINE h == EncIndexHigh(load, n)
           k == EncIndexLow(t, index, up, write, imm)
<1>1. /\ Field(h, 11, 5) = 31 /\ Field(h, 4, 12) = \hf84 + load /\ Field(h, 4, 1) = load
      /\ Field(h, 0, 4) = n /\ Field(h, 0, 7) # \h5f
  BY SMT DEF Field, EncIndexHigh
<1>2. Field(k, 12, 4) = t /\ Field(k, 0, 8) = imm /\ Field(k, 11, 1) = 1
  BY SMT DEF Field, EncIndexLow
<1>3. Field(k, 10, 1) = index /\ Field(k, 9, 1) = up /\ Field(k, 8, 1) = write
  BY SMT DEF Field, EncIndexLow
<1>4. code[m.pc] = h /\ code[m.pc + 2] = k
  OBVIOUS
<1> HIDE DEF h, k
<1>5. Step(m, code) = Thumb32(m, code, h, k)
  BY <1>1, <1>4, StepThumb32
<1> QED BY SMT, <1>1, <1>2, <1>3, <1>5 DEF Thumb32, Toward

\* add or sub d, n, #q
EncAddHigh(minus, n, q) == (IF minus = 1 THEN \hf2a0 ELSE \hf200) + Sub(q, 11, 1) * 1024 + n
EncAddLow(d, q) == Sub(q, 8, 3) * 4096 + d * 256 + Sub(q, 0, 8)
Base(m, n) == IF n = 15 THEN Aligned(Here(m)) ELSE m.r[n]
AddWideIn(code, a, minus, d, n, q) ==
  /\ a + 2 \in DOMAIN code /\ minus \in {0, 1} /\ d \in 0..15 /\ n \in 0..15 /\ Twelve(q)
  /\ code[a] = EncAddHigh(minus, n, q) /\ code[a + 2] = EncAddLow(d, q)

LEMMA StepAddWide ==
  ASSUME NEW m, NEW code, m.thumb, NEW minus, NEW d, NEW n, NEW q,
         AddWideIn(code, m.pc, minus, d, n, q)
  PROVE  Step(m, code) = Set(m, d, Moved(minus, Base(m, n), q), 4)
<1> /\ m.pc + 2 \in DOMAIN code /\ minus \in {0, 1} /\ d \in 0..15 /\ n \in 0..15
    /\ code[m.pc] = EncAddHigh(minus, n, q) /\ code[m.pc + 2] = EncAddLow(d, q)
  BY SMT DEF AddWideIn
<1> q \in Nat /\ q < 4096
  BY SMT DEF AddWideIn, Twelve
<1> DEFINE h == EncAddHigh(minus, n, q)
           k == EncAddLow(d, q)
           low == Sub(q, 0, 8)
           mid == Sub(q, 8, 3)
           top == Sub(q, 11, 1)
<1>0. low \in Nat /\ low < 256 /\ mid \in 0..7 /\ top \in {0, 1} /\ q = low + mid * 256 + top * 2048
  BY SMT DEF Sub
<1>a. h = (IF minus = 1 THEN \hf2a0 ELSE \hf200) + top * 1024 + n /\ k = mid * 4096 + d * 256 + low
  BY DEF EncAddHigh, EncAddLow
<1>4. code[m.pc] = h /\ code[m.pc + 2] = k
  OBVIOUS
<1> HIDE DEF h, k, low, mid, top
<1>1. /\ Field(h, 11, 5) = 30 /\ Field(h, 0, 4) = n /\ Field(h, 10, 1) = top
      /\ Field(h, 8, 8) # \hf8
      /\ Field(h, 4, 12) \notin {\hf84, \hf85, \hf8c, \hf8d}
      /\ Field(h, 4, 6) = IF minus = 1 THEN \h2a ELSE \h20
  BY SMT, <1>0, <1>a DEF Field
<1>2. Field(k, 15, 1) = 0 /\ Field(k, 8, 4) = d /\ Field(k, 0, 8) = low /\ Field(k, 12, 3) = mid
  BY SMT, <1>0, <1>a DEF Field
<1>5. Step(m, code) = Thumb32(m, code, h, k)
  BY <1>1, <1>4, StepThumb32
<1>6. q = low + mid * 256 + top * 2048
  BY <1>0
<1> QED BY SMT, <1>1, <1>2, <1>5, <1>6 DEF Thumb32, Base, Moved

\* b.w, bl and blx, w halfwords on
EncWideHigh(w) == \hf000 + Bit(w < 0) * 2 ^ 10 + Sub(w, 11, 10)
EncWideLow(w, link, thumb) ==
  \h8000 + link * 2 ^ 14 + Bit(Sub(w, 22, 1) = Bit(w < 0)) * 2 ^ 13 + thumb * 2 ^ 12
         + Bit(Sub(w, 21, 1) = Bit(w < 0)) * 2 ^ 11 + Sub(w, 0, 11)

\* The bits of the distance
LEMMA WideBits ==
  ASSUME NEW w \in Int, w >= -8388608, w < 8388608
  PROVE  /\ Sub(w, 0, 11) \in Nat /\ Sub(w, 0, 11) < 2048
         /\ Sub(w, 11, 10) \in Nat /\ Sub(w, 11, 10) < 1024
         /\ Sub(w, 21, 1) \in {0, 1} /\ Sub(w, 22, 1) \in {0, 1} /\ Bit(w < 0) \in {0, 1}
         /\ w = Sub(w, 0, 11) + 2048 * Sub(w, 11, 10) + 2097152 * Sub(w, 21, 1)
                 + 4194304 * Sub(w, 22, 1) - 8388608 * Bit(w < 0)
  BY SMT DEF Sub, Bit

WideHigh(s, high) == \hf000 + s * 1024 + high
WideLow(link, j1, thumb, j2, low) ==
  \h8000 + link * 16384 + j1 * 8192 + thumb * 4096 + j2 * 2048 + low

LEMMA WideFields ==
  ASSUME NEW s \in {0, 1}, NEW high \in Nat, high < 1024, NEW low \in Nat, low < 2048,
         NEW link \in {0, 1}, NEW j1 \in {0, 1}, NEW j2 \in {0, 1}, NEW thumb \in {0, 1},
         NEW h, h = WideHigh(s, high), NEW k, k = WideLow(link, j1, thumb, j2, low)
  PROVE  /\ Field(h, 11, 5) = 30 /\ Field(h, 8, 8) # \hf8
         /\ Field(h, 4, 12) \notin {\hf84, \hf85, \hf8c, \hf8d}
         /\ Field(h, 10, 1) = s /\ Field(h, 0, 10) = high
         /\ Field(k, 15, 1) = 1 /\ Field(k, 14, 1) = link /\ Field(k, 13, 1) = j1
         /\ Field(k, 12, 1) = thumb /\ Field(k, 11, 1) = j2 /\ Field(k, 0, 11) = low
<1>1. /\ Field(h, 11, 5) = 30 /\ Field(h, 8, 8) # \hf8
      /\ Field(h, 4, 12) \notin {\hf84, \hf85, \hf8c, \hf8d}
      /\ Field(h, 10, 1) = s /\ Field(h, 0, 10) = high
  BY SMT DEF Field, WideHigh, WideLow
<1>2. Field(k, 15, 1) = 1 /\ Field(k, 14, 1) = link /\ Field(k, 13, 1) = j1
  BY SMT DEF Field, WideHigh, WideLow
<1>3. Field(k, 12, 1) = thumb /\ Field(k, 11, 1) = j2 /\ Field(k, 0, 11) = low
  BY SMT DEF Field, WideHigh, WideLow
<1> QED BY SMT, <1>1, <1>2, <1>3

WideIn(code, a, w, link, thumb) ==
  /\ a + 2 \in DOMAIN code /\ w \in Int /\ w >= -8388608 /\ w < 8388608 /\ link \in {0, 1}
  /\ thumb \in {0, 1} /\ (link = 1 \/ thumb = 1) /\ code[a] = EncWideHigh(w)
  /\ code[a + 2] = EncWideLow(w, link, thumb)

LEMMA StepWide ==
  ASSUME NEW m, NEW code, m.thumb, NEW w, NEW link, NEW thumb,
         WideIn(code, m.pc, w, link, thumb)
  PROVE  Step(m, code)
           = IF link = 0 THEN Goto(m, Here(m) + 2 * w)
             ELSE IF thumb = 1 THEN Goto(Link(m, 4), Here(m) + 2 * w)
             ELSE Interwork(Link(m, 4), Aligned(Here(m)) + 2 * w)
<1> /\ m.pc + 2 \in DOMAIN code /\ w \in Int /\ w >= -8388608 /\ w < 8388608 /\ link \in {0, 1}
    /\ thumb \in {0, 1} /\ (link = 1 \/ thumb = 1) /\ code[m.pc] = EncWideHigh(w)
    /\ code[m.pc + 2] = EncWideLow(w, link, thumb)
  BY SMT DEF WideIn
<1> DEFINE h == EncWideHigh(w)
           k == EncWideLow(w, link, thumb)
           s == Bit(w < 0)
           low == Sub(w, 0, 11)
           high == Sub(w, 11, 10)
           b21 == Sub(w, 21, 1)
           b22 == Sub(w, 22, 1)
           j1 == Bit(b22 = s)
           j2 == Bit(b21 = s)
<1>1. /\ low \in Nat /\ low < 2048 /\ high \in Nat /\ high < 1024
      /\ b21 \in {0, 1} /\ b22 \in {0, 1} /\ s \in {0, 1}
      /\ w = low + 2048 * high + 2097152 * b21 + 4194304 * b22 - 8388608 * s
  BY SMT, WideBits
<1>2. h = \hf000 + s * 2 ^ 10 + high
  BY DEF EncWideHigh
<1>3. k = \h8000 + link * 2 ^ 14 + j1 * 2 ^ 13 + thumb * 2 ^ 12 + j2 * 2 ^ 11 + low
  BY DEF EncWideLow
<1>4. code[m.pc] = h /\ code[m.pc + 2] = k
  OBVIOUS
<1> HIDE DEF h, k, s, low, high, b21, b22
<1>5. /\ j1 \in {0, 1} /\ (j1 = s <=> b22 = 1)
      /\ j2 \in {0, 1} /\ (j2 = s <=> b21 = 1)
  BY SMT, <1>1 DEF Bit
<1> HIDE DEF j1, j2
<1>6. h = WideHigh(s, high) /\ k = WideLow(link, j1, thumb, j2, low)
  BY SMT, <1>1, <1>2, <1>3, <1>5 DEF WideHigh, WideLow
<1>7. /\ Field(h, 11, 5) = 30 /\ Field(h, 8, 8) # \hf8
      /\ Field(h, 4, 12) \notin {\hf84, \hf85, \hf8c, \hf8d}
      /\ Field(h, 10, 1) = s /\ Field(h, 0, 10) = high
      /\ Field(k, 15, 1) = 1 /\ Field(k, 14, 1) = link /\ Field(k, 13, 1) = j1
      /\ Field(k, 12, 1) = thumb /\ Field(k, 11, 1) = j2 /\ Field(k, 0, 11) = low
  BY SMT, <1>1, <1>5, <1>6, WideFields
<1>8. Step(m, code) = Thumb32(m, code, h, k)
  BY SMT, <1>4, <1>7, StepThumb32
<1>9. Thumb32(m, code, h, k) = WideBranch(m, h, k)
  BY SMT, <1>7 DEF Thumb32
<1>10. (IF j2 = s THEN 1 ELSE 0) = b21 /\ (IF j1 = s THEN 1 ELSE 0) = b22
  BY SMT, <1>1, <1>5
<1> DEFINE far == low * 2 + high * 2 ^ 12 + b21 * 2 ^ 22 + b22 * 2 ^ 23 - s * 2 ^ 24
<1>11. far = 2 * w
  BY SMT, <1>1
<1> HIDE DEF far
<1>12. WideBranch(m, h, k)
         = IF link = 0 THEN Goto(m, Here(m) + far)
           ELSE IF thumb = 1 THEN Goto(Link(m, 4), Here(m) + far)
           ELSE Interwork(Link(m, 4), Aligned(Here(m)) + far)
  BY SMT, <1>7, <1>10 DEF WideBranch, OneIf, far
<1> QED BY SMT, <1>8, <1>9, <1>11, <1>12

(* ------------------------------------------------------------------------ *)
(* ARM                                                                        *)

LEMMA ArmAlways == ASSUME NEW m PROVE Holds(m, 14)
  BY SMT DEF Holds

LEMMA StepArm ==
  ASSUME NEW m, NEW code, ~m.thumb, m.pc + 2 \in DOMAIN code,
         NEW lower, lower = code[m.pc], NEW upper, upper = code[m.pc + 2]
  PROVE  Step(m, code) = ARM32(m, code, lower, upper)
  BY SMT DEF Step

\* add d, n, #imm and sub d, n, #imm
EncArmAddHigh(minus, n) == (IF minus = 1 THEN \he240 ELSE \he280) + n
ArmAddIn(code, a, minus, d, n, imm) ==
  /\ a + 2 \in DOMAIN code /\ minus \in {0, 1} /\ d \in 0..15 /\ n \in 0..15 /\ imm \in Nat
  /\ Eight(imm) /\ code[a] = EncLow(d, imm) /\ code[a + 2] = EncArmAddHigh(minus, n)

LEMMA StepArmAdd ==
  ASSUME NEW m, NEW code, ~m.thumb, NEW minus, NEW d, NEW n, NEW imm,
         ArmAddIn(code, m.pc, minus, d, n, imm)
  PROVE  Step(m, code) = Set(m, d, Moved(minus, Reg(m, n), imm), 4)
<1> /\ m.pc + 2 \in DOMAIN code /\ minus \in {0, 1} /\ d \in 0..15 /\ n \in 0..15 /\ imm \in Nat
    /\ Eight(imm) /\ code[m.pc] = EncLow(d, imm) /\ code[m.pc + 2] = EncArmAddHigh(minus, n)
  BY SMT DEF ArmAddIn
<1> imm < 256
  BY SMT DEF Eight
<1> DEFINE lo == EncLow(d, imm)
           hi == EncArmAddHigh(minus, n)
<1>1. Step(m, code) = ARM32(m, code, lo, hi)
  BY SMT, StepArm
<1>2. /\ Field(hi, 12, 4) = 14 /\ Field(hi, 9, 3) = 1 /\ Field(hi, 0, 12) \notin {\h12f, \h320}
      /\ Field(hi, 4, 8) = (IF minus = 1 THEN \h24 ELSE \h28) /\ Field(hi, 0, 4) = n
  BY SMT DEF Field, EncArmAddHigh
<1>3. Field(lo, 12, 4) = d /\ Field(lo, 8, 4) = 0 /\ Field(lo, 0, 8) = imm
  BY SMT DEF Field, EncLow
<1> HIDE DEF hi, lo
<1> QED BY SMT, <1>1, <1>2, <1>3, ArmAlways DEF ARM32, Moved

\* ldr or str t, [n, #imm]!, [n], #imm or [n, #-imm]
EncArmTransferHigh(load, n, up, index, write) ==
  \he400 + n + load * 16 + write * 32 + up * 128 + index * 256
\* A load or store behind which the register changes always changes it
Back(index, write) == IF index = 0 THEN 1 ELSE write
ArmTransferIn(code, a, t, n, imm, load, index, up, write) ==
  /\ a + 2 \in DOMAIN code /\ t \in 0..15 /\ n \in 0..15 /\ imm \in Nat /\ Twelve(imm)
  /\ load \in {0, 1} /\ index \in {0, 1} /\ up \in {0, 1} /\ write \in {0, 1}
  /\ code[a] = EncLow(t, imm) /\ code[a + 2] = EncArmTransferHigh(load, n, up, index, write)

LEMMA StepArmTransfer ==
  ASSUME NEW m, NEW code, ~m.thumb, NEW t, NEW n, NEW imm, NEW load, NEW index, NEW up, NEW write,
         ArmTransferIn(code, m.pc, t, n, imm, load, index, up, write)
  PROVE  Step(m, code)
           = Transfer(m, code, load, t, n, Toward(up, imm), index, Back(index, write), 4)
<1> /\ m.pc + 2 \in DOMAIN code /\ t \in 0..15 /\ n \in 0..15 /\ imm \in Nat /\ Twelve(imm)
    /\ load \in {0, 1} /\ index \in {0, 1} /\ up \in {0, 1} /\ write \in {0, 1}
    /\ code[m.pc] = EncLow(t, imm)
    /\ code[m.pc + 2] = EncArmTransferHigh(load, n, up, index, write)
  BY SMT DEF ArmTransferIn
<1> imm < 4096
  BY SMT DEF Twelve
<1> DEFINE lo == EncLow(t, imm)
           hi == EncArmTransferHigh(load, n, up, index, write)
<1>1. Step(m, code) = ARM32(m, code, lo, hi)
  BY SMT, StepArm
<1>2. Field(hi, 12, 4) = 14 /\ Field(hi, 9, 3) = 2
  BY SMT DEF Field, EncArmTransferHigh
<1>3. Field(hi, 0, 12) \notin {\h12f, \h320} /\ Field(hi, 4, 8) \notin {\h1a, \h08, \h28, \h24}
  BY SMT DEF Field, EncArmTransferHigh
<1>4. Field(hi, 0, 4) = n /\ Field(hi, 4, 1) = load
  BY SMT DEF Field, EncArmTransferHigh
<1>5. Field(hi, 5, 1) = write /\ Field(hi, 7, 1) = up /\ Field(hi, 8, 1) = index
  BY SMT DEF Field, EncArmTransferHigh
<1>6. Field(lo, 12, 4) = t /\ Field(lo, 0, 12) = imm
  BY SMT DEF Field, EncLow
<1>7. Field(lo, 0, 12) * (IF Field(hi, 7, 1) = 1 THEN 1 ELSE -1) = Toward(up, imm)
  BY SMT, <1>5, <1>6 DEF Toward
<1>8. (IF Field(hi, 8, 1) = 0 THEN 1 ELSE Field(hi, 5, 1)) = Back(index, write)
  BY SMT, <1>5 DEF Back
<1> HIDE DEF lo, hi
<1>9. /\ Field(hi, 12, 4) # 15 /\ Holds(m, Field(hi, 12, 4)) /\ Field(hi, 9, 3) # 5
      /\ ~(Field(hi, 4, 8) = \h28 /\ Field(lo, 8, 4) = 0)
      /\ ~(Field(hi, 4, 8) = \h24 /\ Field(lo, 8, 4) = 0)
  BY SMT, <1>2, <1>3, ArmAlways
<1>10. Step(m, code)
         = Transfer(m, code, Field(hi, 4, 1), Field(lo, 12, 4), Field(hi, 0, 4),
                    Field(lo, 0, 12) * (IF Field(hi, 7, 1) = 1 THEN 1 ELSE -1),
                    Field(hi, 8, 1), IF Field(hi, 8, 1) = 0 THEN 1 ELSE Field(hi, 5, 1), 4)
  BY SMT, <1>1, <1>2, <1>3, <1>9 DEF ARM32
<1> QED BY SMT, <1>4, <1>5, <1>6, <1>7, <1>8, <1>10

\* The halfwords of a distance of w words
LEMMA BranchHalves ==
  ASSUME NEW w \in Int, w >= -8388608, w < 8388608
  PROVE  /\ Sub(4 * w, 2, 16) \in Nat /\ Sub(4 * w, 18, 8) \in Nat /\ Sub(4 * w, 18, 8) < 256
         /\ w = Sub(4 * w, 2, 16) + 65536 * (Sub(4 * w, 18, 8) - 256 * (Sub(4 * w, 18, 8) \div 128))
<1>1. (4 * w) \div 4 = w /\ (4 * w) \div 262144 = w \div 65536
  BY SMT
<1> QED BY SMT, <1>1 DEF Sub

LEMMA BranchFields ==
  ASSUME NEW top \in Nat, top < 256, NEW link \in {0, 1}, NEW hi, hi = \hea00 + 256 * link + top
  PROVE  /\ Field(hi, 12, 4) = 14 /\ Field(hi, 9, 3) = 5 /\ Field(hi, 8, 1) = link
         /\ Field(hi, 0, 8) = top /\ Field(hi, 7, 1) = top \div 128
         /\ Field(hi, 0, 12) \notin {\h12f, \h320}
         /\ Field(hi, 4, 8) \notin {\h1a, \h08, \h28, \h24}
  BY SMT DEF Field

LEMMA ArmBranch ==
  ASSUME NEW m, NEW code, NEW w \in Int, w >= -8388608, w < 8388608, NEW link \in {0, 1},
         NEW lo, lo = Sub(4 * w, 2, 16),
         NEW hi, hi = \hea00 + 256 * link + Sub(4 * w, 18, 8)
  PROVE  ARM32(m, code, lo, hi) = Goto(IF link = 1 THEN Link(m, 4) ELSE m, Here(m) + 4 * w)
<1> DEFINE top == Sub(4 * w, 18, 8)
<1>1. lo \in Nat /\ top \in Nat /\ top < 256 /\ w = lo + 65536 * (top - 256 * (top \div 128))
  BY SMT, BranchHalves
<1>3. /\ Field(hi, 12, 4) = 14 /\ Field(hi, 9, 3) = 5 /\ Field(hi, 8, 1) = link
      /\ Field(hi, 0, 8) = top /\ Field(hi, 7, 1) = top \div 128
      /\ Field(hi, 0, 12) \notin {\h12f, \h320} /\ Field(hi, 4, 8) \notin {\h1a, \h08, \h28, \h24}
  BY SMT, <1>1, BranchFields
<1> HIDE DEF top
<1>5. Distance(lo, hi) = 4 * w
  BY SMT, <1>1, <1>3 DEF Distance
<1> QED BY SMT, <1>3, <1>5, ArmAlways DEF ARM32

LEMMA ArmBx ==
  ASSUME NEW m, NEW code, NEW i \in 0..15
  PROVE  ARM32(m, code, \hff10 + i, \he12f) = Interwork(m, Reg(m, i))
<1> DEFINE lo == \hff10 + i
           hi == \he12f
<1>2. /\ Field(hi, 12, 4) = 14 /\ Field(hi, 9, 3) = 0 /\ Field(hi, 0, 12) = \h12f
      /\ Field(hi, 4, 8) = 18
  BY SMT DEF Field
<1>3. Field(lo, 4, 12) = \hff1 /\ Field(lo, 0, 4) = i
  BY SMT DEF Field
<1> HIDE DEF hi, lo
<1>4. ARM32(m, code, lo, hi) = Interwork(m, Reg(m, i))
  BY SMT, <1>2, <1>3, ArmAlways DEF ARM32
<1> QED BY <1>4 DEF hi, lo

LEMMA ArmNop ==
  ASSUME NEW m, NEW code
  PROVE  ARM32(m, code, \hf000, \he320) = Skip(m, 4)
<1> DEFINE hi == \he320
<1>2. /\ Field(hi, 12, 4) = 14 /\ Field(hi, 9, 3) = 1 /\ Field(hi, 0, 12) = \h320
      /\ Field(hi, 4, 8) = 50
  BY SMT DEF Field
<1> HIDE DEF hi
<1>3. ARM32(m, code, \hf000, hi) = Skip(m, 4)
  BY SMT, <1>2, ArmAlways DEF ARM32
<1> QED BY <1>3 DEF hi

\* b or bl, w words on
EncArmBranchLow(w) == Sub(4 * w, 2, 16)
EncArmBranchHigh(w, link) == \hea00 + 256 * link + Sub(4 * w, 18, 8)
ArmBranchIn(code, a, w, link) ==
  /\ a + 2 \in DOMAIN code /\ w \in Int /\ w >= -8388608 /\ w < 8388608 /\ link \in {0, 1}
  /\ code[a] = EncArmBranchLow(w) /\ code[a + 2] = EncArmBranchHigh(w, link)

LEMMA StepArmBranch ==
  ASSUME NEW m, NEW code, ~m.thumb, NEW w, NEW link,
         ArmBranchIn(code, m.pc, w, link)
  PROVE  Step(m, code) = Goto(IF link = 1 THEN Link(m, 4) ELSE m, Here(m) + 4 * w)
<1> /\ m.pc + 2 \in DOMAIN code /\ w \in Int /\ w >= -8388608 /\ w < 8388608 /\ link \in {0, 1}
    /\ code[m.pc] = EncArmBranchLow(w) /\ code[m.pc + 2] = EncArmBranchHigh(w, link)
  BY SMT DEF ArmBranchIn
<1> DEFINE lo == EncArmBranchLow(w)
           hi == EncArmBranchHigh(w, link)
<1>1. Step(m, code) = ARM32(m, code, lo, hi)
  BY SMT, StepArm
<1>2. lo = Sub(4 * w, 2, 16) /\ hi = \hea00 + 256 * link + Sub(4 * w, 18, 8)
  BY DEF EncArmBranchLow, EncArmBranchHigh
<1> HIDE DEF lo, hi
<1> QED BY SMT, <1>1, <1>2, ArmBranch

\* bx i
EncArmBx(i) == \hff10 + i

LEMMA StepArmBx ==
  ASSUME NEW m, NEW code, ~m.thumb, m.pc + 2 \in DOMAIN code, NEW i \in 0..15,
         code[m.pc] = EncArmBx(i), code[m.pc + 2] = \he12f
  PROVE  Step(m, code) = Interwork(m, Reg(m, i))
<1>1. Step(m, code) = ARM32(m, code, \hff10 + i, \he12f)
  BY SMT, StepArm DEF EncArmBx
<1> QED BY SMT, <1>1, ArmBx

LEMMA StepArmNop ==
  ASSUME NEW m, NEW code, ~m.thumb, m.pc + 2 \in DOMAIN code,
         code[m.pc] = \hf000, code[m.pc + 2] = \he320
  PROVE  Step(m, code) = Skip(m, 4)
<1>1. Step(m, code) = ARM32(m, code, \hf000, \he320)
  BY SMT, StepArm
<1> QED BY SMT, <1>1, ArmNop
====

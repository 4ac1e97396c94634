---- MODULE RelocatorArm64Proofs ----
(***************************************************************************)
(* Theorems of RelocatorArm64: a program that can be moved does, moved,    *)
(* what it did where it was.                                               *)
(*                                                                         *)
(* From the bits of a word to the behaviour of a call: what the decoder    *)
(* and the processor take a word for (K, the top ten bits, tells them      *)
(* apart), and that the writer's words are what they are meant to be; what *)
(* relocate_write makes of each class of instruction (GroupIs), and where  *)
(* in the output it is (Pos, Laid); and the inductive invariant            *)
(* RelocatedInv, of which the part about the run says, at every word of    *)
(* every group, what the registers hold and what has been done.            *)
(***************************************************************************)
EXTENDS RelocatorArm64, SequenceTheorems, TLAPS

(* ------------------------------------------------------------------------ *)
(* Tuples that are joined                                                      *)

LEMMA Joined ==
  ASSUME NEW S, NEW s \in Seq(S), NEW t \in Seq(S), NEW q \in Seq(S),
         Len(q) = Len(s) + Len(t),
         \A i \in 1..Len(s) : q[i] = s[i],
         \A i \in 1..Len(t) : q[Len(s) + i] = t[i]
  PROVE  s \o t = q
<1> DEFINE r == s \o t
<1>1. /\ r \in Seq(S) /\ Len(r) = Len(s) + Len(t)
      /\ \A i \in 1..Len(s) + Len(t) : r[i] = IF i <= Len(s) THEN s[i] ELSE t[i - Len(s)]
  BY ConcatProperties
<1> HIDE DEF r
<1>2. Len(s) \in Nat /\ Len(t) \in Nat
  OBVIOUS
<1>3. ASSUME NEW i \in 1..Len(q) PROVE r[i] = q[i]
  <2>1. CASE i <= Len(s)
    BY <1>1, <1>2, <2>1
  <2>2. CASE ~(i <= Len(s))
    <3>1. PICK j \in 1..Len(t) : i = Len(s) + j
      <4>1. i - Len(s) \in 1..Len(t) /\ i = Len(s) + (i - Len(s))
        BY <1>2, <2>2
      <4>2. QED
        BY <4>1
    <3>2. r[i] = t[j]
      BY <1>1, <1>2, <2>2, <3>1
    <3>3. QED
      BY <3>1, <3>2
  <2>3. QED
    BY <2>1, <2>2
<1>4. r = q
  BY <1>1, <1>3, SeqEqual
<1>5. QED
  BY <1>4 DEF r

LEMMA Joined22 ==
  ASSUME NEW x1, NEW x2, NEW y1, NEW y2
  PROVE  <<x1, x2>> \o <<y1, y2>> = <<x1, x2, y1, y2>>
<1> DEFINE S == {x1, x2, y1, y2}
           s == <<x1, x2>>
           t == <<y1, y2>>
           q == <<x1, x2, y1, y2>>
<1>1. s \in Seq(S) /\ t \in Seq(S) /\ q \in Seq(S)
  OBVIOUS
<1>2. Len(s) = 2 /\ Len(t) = 2 /\ Len(q) = 4
  OBVIOUS
<1>3. (\A i \in 1..2 : q[i] = s[i]) /\ (\A i \in 1..2 : q[2 + i] = t[i])
  OBVIOUS
<1> HIDE DEF S, s, t, q
<1>4. /\ Len(q) = Len(s) + Len(t) /\ \A i \in 1..Len(s) : q[i] = s[i]
      /\ \A i \in 1..Len(t) : q[Len(s) + i] = t[i]
  BY <1>2, <1>3
<1>5. s \o t = q
  BY <1>1, <1>4, Joined
<1>6. QED
  BY <1>5 DEF s, t, q

LEMMA Joined41 ==
  ASSUME NEW x1, NEW x2, NEW x3, NEW x4, NEW y1
  PROVE  <<x1, x2, x3, x4>> \o <<y1>> = <<x1, x2, x3, x4, y1>>
<1> DEFINE S == {x1, x2, x3, x4, y1}
           s == <<x1, x2, x3, x4>>
           t == <<y1>>
           q == <<x1, x2, x3, x4, y1>>
<1>1. s \in Seq(S) /\ t \in Seq(S) /\ q \in Seq(S)
  OBVIOUS
<1>2. Len(s) = 4 /\ Len(t) = 1 /\ Len(q) = 5
  OBVIOUS
<1>3. (\A i \in 1..4 : q[i] = s[i]) /\ (\A i \in 1..1 : q[4 + i] = t[i])
  OBVIOUS
<1> HIDE DEF S, s, t, q
<1>4. /\ Len(q) = Len(s) + Len(t) /\ \A i \in 1..Len(s) : q[i] = s[i]
      /\ \A i \in 1..Len(t) : q[Len(s) + i] = t[i]
  BY <1>2, <1>3
<1>5. s \o t = q
  BY <1>1, <1>4, Joined
<1>6. QED
  BY <1>5 DEF s, t, q

LEMMA Joined32 ==
  ASSUME NEW x1, NEW x2, NEW x3, NEW y1, NEW y2
  PROVE  <<x1, x2, x3>> \o <<y1, y2>> = <<x1, x2, x3, y1, y2>>
<1> DEFINE S == {x1, x2, x3, y1, y2}
           s == <<x1, x2, x3>>
           t == <<y1, y2>>
           q == <<x1, x2, x3, y1, y2>>
<1>1. s \in Seq(S) /\ t \in Seq(S) /\ q \in Seq(S)
  OBVIOUS
<1>2. Len(s) = 3 /\ Len(t) = 2 /\ Len(q) = 5
  OBVIOUS
<1>3. (\A i \in 1..3 : q[i] = s[i]) /\ (\A i \in 1..2 : q[3 + i] = t[i])
  OBVIOUS
<1> HIDE DEF S, s, t, q
<1>4. /\ Len(q) = Len(s) + Len(t) /\ \A i \in 1..Len(s) : q[i] = s[i]
      /\ \A i \in 1..Len(t) : q[Len(s) + i] = t[i]
  BY <1>2, <1>3
<1>5. s \o t = q
  BY <1>1, <1>4, Joined
<1>6. QED
  BY <1>5 DEF s, t, q

LEMMA Joined24 ==
  ASSUME NEW x1, NEW x2, NEW y1, NEW y2, NEW y3, NEW y4
  PROVE  <<x1, x2>> \o <<y1, y2, y3, y4>> = <<x1, x2, y1, y2, y3, y4>>
<1> DEFINE S == {x1, x2, y1, y2, y3, y4}
           s == <<x1, x2>>
           t == <<y1, y2, y3, y4>>
           q == <<x1, x2, y1, y2, y3, y4>>
<1>1. s \in Seq(S) /\ t \in Seq(S) /\ q \in Seq(S)
  OBVIOUS
<1>2. Len(s) = 2 /\ Len(t) = 4 /\ Len(q) = 6
  OBVIOUS
<1>3. (\A i \in 1..2 : q[i] = s[i]) /\ (\A i \in 1..4 : q[2 + i] = t[i])
  OBVIOUS
<1> HIDE DEF S, s, t, q
<1>4. /\ Len(q) = Len(s) + Len(t) /\ \A i \in 1..Len(s) : q[i] = s[i]
      /\ \A i \in 1..Len(t) : q[Len(s) + i] = t[i]
  BY <1>2, <1>3
<1>5. s \o t = q
  BY <1>1, <1>4, Joined
<1>6. QED
  BY <1>5 DEF s, t, q
(* The classes of instructions, by the upper ten bits of a word                *)

K(w) == w[2] \div 64
Literals == (96..99) \cup (112..115) \cup (352..355) \cup (368..371)
              \cup (608..611) \cup (624..627) \cup (864..867) \cup (880..883)
Compares == (208..215) \cup (720..727)
BitTests == (216..223) \cup (728..735)
Adrs == (64..67) \cup (192..195) \cup (320..323) \cup (448..451)
          \cup (576..579) \cup (704..707) \cup (832..835) \cup (960..963)

LEMMA HalfwordIs ==
  ASSUME NEW h \in Halfword
  PROVE  h \in Nat /\ h < 65536
BY DEF Halfword

LEMMA IsHalfword ==
  ASSUME NEW h \in Nat, h < 65536
  PROVE  h \in Halfword
BY DEF Halfword

LEMMA Halves ==
  ASSUME NEW w \in InstructionWord
  PROVE  /\ w = <<w[1], w[2]>>
         /\ w[1] \in Nat /\ w[1] < 65536
         /\ w[2] \in Nat /\ w[2] < 65536
<1>1. w[1] \in Halfword /\ w[2] \in Halfword /\ w = <<w[1], w[2]>>
  BY DEF InstructionWord
<1>2. QED
  BY <1>1, HalfwordIs

LEMMA Shifts ==
  ASSUME NEW h \in Nat, h < 65536
  PROVE  /\ h \div 64 \in Nat /\ h \div 64 < 1024
         /\ h \div 2048 = (h \div 64) \div 32
         /\ h \div 256 = (h \div 64) \div 4
         /\ h \div 512 = (h \div 64) \div 8
         /\ h \div 1024 = (h \div 64) \div 16
         /\ h \div 32768 = (h \div 64) \div 512
<1>1. h \div 64 \in Nat /\ h \div 64 < 1024
  OBVIOUS
<1>2. h \div 2048 = (h \div 64) \div 32
  OBVIOUS
<1>3. h \div 256 = (h \div 64) \div 4
  OBVIOUS
<1>4. h \div 512 = (h \div 64) \div 8
  OBVIOUS
<1>5. h \div 1024 = (h \div 64) \div 16
  OBVIOUS
<1>6. h \div 32768 = (h \div 64) \div 512
  OBVIOUS
<1>7. QED
  BY <1>1, <1>2, <1>3, <1>4, <1>5, <1>6

LEMMA Fields ==
  ASSUME NEW w \in InstructionWord
  PROVE  /\ K(w) \in Nat /\ K(w) < 1024
         /\ get_insn_sub(w, 27, 3) = (K(w) \div 32) % 8
         /\ get_insn_sub(w, 24, 2) = (K(w) \div 4) % 4
         /\ get_insn_sub(w, 25, 6) = (K(w) \div 8) % 64
         /\ get_insn_sub(w, 24, 8) = (K(w) \div 4) % 256
         /\ get_insn_sub(w, 26, 6) = (K(w) \div 16) % 64
         /\ get_insn_sub(w, 26, 5) = (K(w) \div 16) % 32
         /\ get_insn_sub(w, 24, 5) = (K(w) \div 4) % 32
         /\ get_insn_sub(w, 31, 1) = (K(w) \div 512) % 2
         /\ get_insn_sub(w, 25, 7) = (K(w) \div 8) % 128
         /\ get_insn_sub(w, 22, 10) = K(w) % 1024
<1>1. PICK h \in Nat : h = w[2] /\ h < 65536
  BY Halves
<1>2. /\ get_insn_sub(w, 27, 3) = (h \div 2048) % 8
      /\ get_insn_sub(w, 24, 2) = (h \div 256) % 4
      /\ get_insn_sub(w, 25, 6) = (h \div 512) % 64
      /\ get_insn_sub(w, 24, 8) = (h \div 256) % 256
      /\ get_insn_sub(w, 26, 6) = (h \div 1024) % 64
      /\ get_insn_sub(w, 26, 5) = (h \div 1024) % 32
      /\ get_insn_sub(w, 24, 5) = (h \div 256) % 32
      /\ get_insn_sub(w, 31, 1) = (h \div 32768) % 2
      /\ get_insn_sub(w, 25, 7) = (h \div 512) % 128
      /\ get_insn_sub(w, 22, 10) = (h \div 64) % 1024
  BY <1>1 DEF get_insn_sub
<1>3. K(w) = h \div 64 /\ K(w) \in Nat /\ K(w) < 1024
  BY <1>1, Shifts DEF K
<1>4. /\ h \div 2048 = K(w) \div 32 /\ h \div 256 = K(w) \div 4 /\ h \div 512 = K(w) \div 8
      /\ h \div 1024 = K(w) \div 16 /\ h \div 32768 = K(w) \div 512
  BY <1>1, <1>3, Shifts
<1>5. QED
  BY <1>2, <1>3, <1>4

LEMMA Ranges ==
  ASSUME NEW k \in Nat, k < 1024
  PROVE  /\ (k \div 32) % 8 = 3 /\ (k \div 4) % 4 = 0 <=> k \in Literals
         /\ (k \div 8) % 64 = 26 <=> k \in Compares
         /\ (k \div 8) % 64 = 27 <=> k \in BitTests
         /\ (k \div 4) % 256 = 84 <=> k \in 336..339
         /\ (k \div 16) % 64 = 5 <=> k \in 80..95
         /\ (k \div 16) % 64 = 37 <=> k \in 592..607
         /\ (k \div 16) % 32 = 5 /\ (k \div 512) % 2 = 0 <=> k \in 80..95
         /\ (k \div 16) % 32 = 5 /\ (k \div 512) % 2 = 1 <=> k \in 592..607
         /\ (k \div 4) % 32 = 16 <=> k \in Adrs
         /\ (k \div 8) % 128 = 107 <=> k \in 856..863
         /\ k % 1024 = 997 <=> k = 997
<1>1. (k \div 32) % 8 = 3 /\ (k \div 4) % 4 = 0 <=> k \in Literals
  BY DEF Literals
<1>2. (k \div 8) % 64 = 26 <=> k \in Compares
  BY DEF Compares
<1>3. (k \div 8) % 64 = 27 <=> k \in BitTests
  BY DEF BitTests
<1>4. (k \div 4) % 256 = 84 <=> k \in 336..339
  OBVIOUS
<1>5. (k \div 16) % 64 = 5 <=> k \in 80..95
  OBVIOUS
<1>6. (k \div 16) % 64 = 37 <=> k \in 592..607
  OBVIOUS
<1>7. (k \div 16) % 32 = 5 /\ (k \div 512) % 2 = 0 <=> k \in 80..95
  OBVIOUS
<1>8. (k \div 16) % 32 = 5 /\ (k \div 512) % 2 = 1 <=> k \in 592..607
  OBVIOUS
<1>9. (k \div 4) % 32 = 16 <=> k \in Adrs
  BY DEF Adrs
<1>10. k % 1024 = 997 <=> k = 997
  OBVIOUS
<1>11. (k \div 8) % 128 = 107 <=> k \in 856..863
  OBVIOUS
<1>12. QED
  BY <1>1, <1>2, <1>3, <1>4, <1>5, <1>6, <1>7, <1>8, <1>9, <1>10, <1>11

\* The tests of Decode and of getInstType
LEMMA Classes ==
  ASSUME NEW w \in InstructionWord
  PROVE  /\ K(w) \in Nat /\ K(w) < 1024
         /\ get_insn_sub(w, 27, 3) = 3 /\ get_insn_sub(w, 24, 2) = 0 <=> K(w) \in Literals
         /\ get_insn_sub(w, 25, 6) = 26 <=> K(w) \in Compares
         /\ get_insn_sub(w, 25, 6) = 27 <=> K(w) \in BitTests
         /\ get_insn_sub(w, 24, 8) = 84 <=> K(w) \in 336..339
         /\ get_insn_sub(w, 26, 6) = 5 <=> K(w) \in 80..95
         /\ get_insn_sub(w, 26, 6) = 37 <=> K(w) \in 592..607
         /\ get_insn_sub(w, 31, 1) = 0 /\ get_insn_sub(w, 26, 5) = 5 <=> K(w) \in 80..95
         /\ get_insn_sub(w, 31, 1) = 1 /\ get_insn_sub(w, 26, 5) = 5 <=> K(w) \in 592..607
         /\ get_insn_sub(w, 24, 5) = 16 <=> K(w) \in Adrs
         /\ get_insn_sub(w, 25, 7) = 107 <=> K(w) \in 856..863
         /\ get_insn_sub(w, 22, 10) = 997 <=> K(w) = 997
         /\ w[2] = 0 => K(w) = 0
<1>1. K(w) \in Nat /\ K(w) < 1024
  BY Fields
<1>2. w[2] = 0 => K(w) = 0
  BY DEF K
<1>3. get_insn_sub(w, 27, 3) = 3 /\ get_insn_sub(w, 24, 2) = 0 <=> K(w) \in Literals
  BY <1>1, Fields, Ranges
<1>4. get_insn_sub(w, 25, 6) = 26 <=> K(w) \in Compares
  BY <1>1, Fields, Ranges
<1>5. get_insn_sub(w, 25, 6) = 27 <=> K(w) \in BitTests
  BY <1>1, Fields, Ranges
<1>6. get_insn_sub(w, 24, 8) = 84 <=> K(w) \in 336..339
  BY <1>1, Fields, Ranges
<1>7. get_insn_sub(w, 26, 6) = 5 <=> K(w) \in 80..95
  BY <1>1, Fields, Ranges
<1>8. get_insn_sub(w, 26, 6) = 37 <=> K(w) \in 592..607
  BY <1>1, Fields, Ranges
<1>9. get_insn_sub(w, 31, 1) = 0 /\ get_insn_sub(w, 26, 5) = 5 <=> K(w) \in 80..95
  BY <1>1, Fields, Ranges
<1>10. get_insn_sub(w, 31, 1) = 1 /\ get_insn_sub(w, 26, 5) = 5 <=> K(w) \in 592..607
  BY <1>1, Fields, Ranges
<1>11. get_insn_sub(w, 24, 5) = 16 <=> K(w) \in Adrs
  BY <1>1, Fields, Ranges
<1>12. get_insn_sub(w, 22, 10) = 997 <=> K(w) = 997
  BY <1>1, Fields, Ranges
<1>13. get_insn_sub(w, 25, 7) = 107 <=> K(w) \in 856..863
  BY <1>1, Fields, Ranges
<1>14. QED
  BY <1>1, <1>2, <1>3, <1>4, <1>5, <1>6, <1>7, <1>8, <1>9, <1>10, <1>11, <1>12, <1>13

\* A word is of one class
LEMMA Disjoint ==
  ASSUME NEW k \in Nat
  PROVE  /\ k \in Literals => k \notin Compares \cup BitTests \cup Adrs
         /\ k \in Literals => k \notin 336..339 /\ k \notin 80..95 /\ k \notin 592..607
         /\ k \in Compares => k \notin BitTests \cup Adrs
         /\ k \in Compares => k \notin 336..339 /\ k \notin 80..95 /\ k \notin 592..607
         /\ k \in BitTests => k \notin Adrs
         /\ k \in BitTests => k \notin 336..339 /\ k \notin 80..95 /\ k \notin 592..607
         /\ k \in Adrs => k \notin 336..339 /\ k \notin 80..95 /\ k \notin 592..607
         /\ k \in 336..339 => k \notin 80..95 /\ k \notin 592..607
         /\ k \in 80..95 => k \notin 592..607
         /\ k \in Literals \cup Compares \cup BitTests \cup Adrs =>
              k \notin {0, 997} /\ k \notin 856..863
         /\ k \in 336..339 => k \notin {0, 997} /\ k \notin 856..863
         /\ k \in 80..95 => k \notin {0, 997} /\ k \notin 856..863
         /\ k \in 592..607 => k \notin {0, 997} /\ k \notin 856..863
         /\ k \in 856..863 => k \notin {0, 997}
BY DEF Literals, Compares, BitTests, Adrs

Offset(w, start, length) == 4 * SignedSub(w, start, length)

LEMMA DecodeClass ==
  ASSUME NEW w \in InstructionWord
  PROVE  /\ K(w) \in Literals =>
              Decode(w) = Op(<<"ldr_literal", get_insn_sub(w, 26, 1), get_insn_sub(w, 30, 2)>>,
                             get_insn_sub(w, 0, 5), 0, Offset(w, 5, 19))
         /\ K(w) \in Compares =>
              Decode(w) = Op(<<"cbz">>, get_insn_sub(w, 0, 5), 0, Offset(w, 5, 19))
         /\ K(w) \in BitTests =>
              Decode(w) = Op(<<"tbz">>, get_insn_sub(w, 0, 5), 0, Offset(w, 5, 14))
         /\ K(w) \in 336..339 /\ get_insn_sub(w, 4, 1) = 0 =>
              Decode(w) = Op(<<"b.cond">>, 0, 0, Offset(w, 5, 19))
         /\ K(w) \in 80..95 => Decode(w) = Op(<<"b">>, 0, 0, Offset(w, 0, 26))
         /\ K(w) \in 592..607 => Decode(w) = Op(<<"bl">>, 0, 0, Offset(w, 0, 26))
         /\ \/ K(w) \in Literals \cup Compares \cup BitTests
            \/ K(w) \in 336..339 /\ get_insn_sub(w, 4, 1) = 0
            \/ K(w) \in 80..95 \/ K(w) \in 592..607
            \/ Decode(w).op[1] \in {"adr", "adrp", "br", "blr", "ret", "ldr", "udf", "plain"}
<1> DEFINE F(start, length) == get_insn_sub(w, start, length)
           S(start, length) == Offset(w, start, length)
           adr == IF F(31, 1) = 1 THEN "adrp" ELSE "adr"
           br == IF w = <<960, 54879>> THEN "ret" ELSE IF F(21, 3) = 1 THEN "blr" ELSE "br"
           d == Decode(w)
<1>1. d = CASE F(27, 3) = 3 /\ F(24, 2) = 0 ->
                   Op(<<"ldr_literal", F(26, 1), F(30, 2)>>, F(0, 5), 0, S(5, 19))
            [] F(25, 6) = 26 -> Op(<<"cbz">>, F(0, 5), 0, S(5, 19))
            [] F(25, 6) = 27 -> Op(<<"tbz">>, F(0, 5), 0, S(5, 14))
            [] F(24, 8) = 84 /\ F(4, 1) = 0 -> Op(<<"b.cond">>, 0, 0, S(5, 19))
            [] F(26, 6) = 5 -> Op(<<"b">>, 0, 0, S(0, 26))
            [] F(26, 6) = 37 -> Op(<<"bl">>, 0, 0, S(0, 26))
            [] F(24, 5) = 16 -> Op(<<adr>>, F(0, 5), 0, S(5, 19) + F(29, 2))
            [] F(25, 7) = 107 -> Op(<<br>>, 0, F(5, 5), 0)
            [] F(22, 10) = 997 -> Op(<<"ldr">>, F(0, 5), F(5, 5), 8 * F(10, 12))
            [] w[2] = 0 -> Op(<<"udf">>, 0, 0, 0)
            [] OTHER -> Op(<<"plain">>, 0, 0, 0)
  BY DEF Decode, Offset
<1>0. adr \in {"adr", "adrp"} /\ br \in {"br", "blr", "ret"}
  OBVIOUS
<1> HIDE DEF F, S, d, adr, br
<1>2. K(w) \in Literals => d = Op(<<"ldr_literal", F(26, 1), F(30, 2)>>, F(0, 5), 0, S(5, 19))
  BY <1>1, Classes, Disjoint DEF F
<1>3. K(w) \in Compares => d = Op(<<"cbz">>, F(0, 5), 0, S(5, 19))
  BY <1>1, Classes, Disjoint DEF F
<1>4. K(w) \in BitTests => d = Op(<<"tbz">>, F(0, 5), 0, S(5, 14))
  BY <1>1, Classes, Disjoint DEF F
<1>5. K(w) \in 336..339 /\ F(4, 1) = 0 => d = Op(<<"b.cond">>, 0, 0, S(5, 19))
  BY <1>1, Classes, Disjoint DEF F
<1>6. K(w) \in 80..95 => d = Op(<<"b">>, 0, 0, S(0, 26))
  BY <1>1, Classes, Disjoint DEF F
<1>7. K(w) \in 592..607 => d = Op(<<"bl">>, 0, 0, S(0, 26))
  BY <1>1, Classes, Disjoint DEF F
<1>8. \/ K(w) \in Literals \cup Compares \cup BitTests
      \/ K(w) \in 336..339 /\ F(4, 1) = 0
      \/ K(w) \in 80..95 \/ K(w) \in 592..607
      \/ d.op[1] \in {"adr", "adrp", "br", "blr", "ret", "ldr", "udf", "plain"}
  BY <1>0, <1>1, Classes DEF F, Op
<1>9. QED
  BY <1>2, <1>3, <1>4, <1>5, <1>6, <1>7, <1>8 DEF F, S, d

\* What getInstType matches
LEMMA TypeClass ==
  ASSUME NEW w \in InstructionWord
  PROVE  /\ K(w) \in Literals => getInstType(w) = "LoadLiteral"
         /\ K(w) \in Compares => getInstType(w) = "BaseCmpBranch"
         /\ K(w) \in 336..339 /\ get_insn_sub(w, 4, 1) = 0 => getInstType(w) = "BranchCond"
         /\ K(w) \in 80..95 => getInstType(w) = "B"
         /\ K(w) \in 592..607 => getInstType(w) = "BL"
         /\ \/ K(w) \in Literals \cup Compares
            \/ K(w) \in 336..339 /\ get_insn_sub(w, 4, 1) = 0
            \/ K(w) \in 80..95 \/ K(w) \in 592..607
            \/ getInstType(w) = "ARM64_INST_END"
<1> DEFINE Fits(i) ==
             /\ ARM64InstId[i] \in DOMAIN ARM64InstArrary
             /\ \A f \in ARM64InstArrary[ARM64InstId[i]] : get_insn_sub(w, f[1], f[2]) = f[3]
           matching == {i \in DOMAIN ARM64InstId : Fits(i)}
           class == {8, 11, 18, 29, 31}
           F(start, length) == get_insn_sub(w, start, length)
<1>1. getInstType(w) = IF matching = {} THEN "ARM64_INST_END" ELSE ARM64InstId[Min(matching)]
  BY DEF getInstType
<1>2. /\ ARM64InstId[8] = "LoadLiteral" /\ ARM64InstId[11] = "BaseCmpBranch"
      /\ ARM64InstId[18] = "BranchCond" /\ ARM64InstId[29] = "B" /\ ARM64InstId[31] = "BL"
      /\ DOMAIN ARM64InstId = 1..31
      /\ \A i \in 1..31 : i \in class \/
             ARM64InstId[i] \notin {"LoadLiteral", "BaseCmpBranch", "BranchCond", "B", "BL"}
  BY DEF ARM64InstId
<1>3. /\ DOMAIN ARM64InstArrary = {"LoadLiteral", "BaseCmpBranch", "BranchCond", "B", "BL"}
      /\ ARM64InstArrary["LoadLiteral"] = {<<27, 3, 3>>, <<24, 2, 0>>}
      /\ ARM64InstArrary["BaseCmpBranch"] = {<<25, 6, 26>>}
      /\ ARM64InstArrary["BranchCond"] = {<<24, 8, 84>>, <<4, 1, 0>>}
      /\ ARM64InstArrary["B"] = {<<31, 1, 0>>, <<26, 5, 5>>}
      /\ ARM64InstArrary["BL"] = {<<31, 1, 1>>, <<26, 5, 5>>}
  BY DEF ARM64InstArrary
<1>4. matching \subseteq class
  BY <1>2, <1>3
<1>5. /\ Fits(8) <=> K(w) \in Literals
      /\ Fits(11) <=> K(w) \in Compares
      /\ Fits(18) <=> K(w) \in 336..339 /\ F(4, 1) = 0
      /\ Fits(29) <=> K(w) \in 80..95
      /\ Fits(31) <=> K(w) \in 592..607
  <2>1. Fits(8) <=> F(27, 3) = 3 /\ F(24, 2) = 0
    BY <1>2, <1>3
  <2>2. Fits(11) <=> F(25, 6) = 26
    BY <1>2, <1>3
  <2>3. Fits(18) <=> F(24, 8) = 84 /\ F(4, 1) = 0
    BY <1>2, <1>3
  <2>4. Fits(29) <=> F(31, 1) = 0 /\ F(26, 5) = 5
    BY <1>2, <1>3
  <2>5. Fits(31) <=> F(31, 1) = 1 /\ F(26, 5) = 5
    BY <1>2, <1>3
  <2> HIDE DEF Fits
  <2>6. QED
    BY <2>1, <2>2, <2>3, <2>4, <2>5, Classes
<1>6. \A i \in class : i \in matching <=> Fits(i)
  BY <1>2
<1>7. \A i \in class : matching = {i} => getInstType(w) = ARM64InstId[i]
  <2>1. \A i \in class : Min({i}) = i
    BY DEF Min
  <2> HIDE DEF matching
  <2>2. QED
    BY <1>1, <2>1
<1>8. matching = {} => getInstType(w) = "ARM64_INST_END"
  BY <1>1
<1> HIDE DEF Fits, matching, F
<1>9. \A i \in class : Fits(i) /\ (\A j \in class : Fits(j) => j = i) => matching = {i}
  <2>1. \A j \in matching : j \in class /\ Fits(j)
    BY <1>4, <1>6
  <2> HIDE DEF class
  <2>2. QED
    BY <1>6, <2>1
<1>10. K(w) \in Nat
  BY Fields
<1>11. K(w) \in Literals => matching = {8}
  BY <1>5, <1>9, <1>10, Disjoint
<1>12. K(w) \in Compares => matching = {11}
  BY <1>5, <1>9, <1>10, Disjoint
<1>13. K(w) \in 336..339 /\ F(4, 1) = 0 => matching = {18}
  BY <1>5, <1>9, <1>10, Disjoint
<1>14. K(w) \in 80..95 => matching = {29}
  BY <1>5, <1>9, <1>10, Disjoint
<1>15. K(w) \in 592..607 => matching = {31}
  BY <1>5, <1>9, <1>10, Disjoint
<1>16. (\A i \in class : ~Fits(i)) => matching = {}
  BY <1>4, <1>6
<1>17. QED
  BY <1>2, <1>5, <1>7, <1>8, <1>11, <1>12, <1>13, <1>14, <1>15, <1>16 DEF F

\* A test with another distance
LEMMA TestWord ==
  ASSUME NEW w \in InstructionWord,
         K(w) \in Compares \/ (K(w) \in 336..339 /\ get_insn_sub(w, 4, 1) = 0)
  PROVE  LET t == BIT32SET(w, 5, 19, 2)
         IN  /\ t \in InstructionWord
             /\ Decode(t).op[1] \in {"cbz", "b.cond"}
             /\ Decode(t).offset = 8
<1> DEFINE low == w[1] % 32
           high == w[2] \div 256
           t == <<low + 64, high * 256>>
<1>1. w[1] \in Nat /\ w[1] < 65536 /\ w[2] \in Nat /\ w[2] < 65536
  BY Halves
<1>2. low \in Nat /\ low < 32 /\ high \in Nat /\ high < 256
  BY <1>1
<1>3. BIT32SET(w, 5, 19, 2) = t
  <2>1. get_insn_sub(w, 0, 5) = low
    BY <1>1 DEF get_insn_sub
  <2>2. get_insn_sub(w, 24, 8) = high
    BY <1>1 DEF get_insn_sub
  <2> HIDE DEF low, high
  <2>3. Shift(low, 0) = <<low, 0>>
    BY <1>2 DEF Shift
  <2>4. Shift(2, 5) = <<64, 0>>
    BY DEF Shift
  <2>5. Shift(high, 24) = <<0, high * 256>>
    BY <1>2 DEF Shift
  <2>6. BIT32SET(w, 5, 19, 2) = Shift(low, 0) | Shift(2, 5) | Shift(high, 24)
    BY <2>1, <2>2 DEF BIT32SET
  <2>7. QED
    BY <1>2, <2>3, <2>4, <2>5, <2>6 DEF |
<1>4. K(t) = (K(w) \div 4) * 4
  <2>1. high = (w[2] \div 64) \div 4
    BY <1>1
  <2>2. \A x \in Nat : (x * 256) \div 64 = x * 4
    OBVIOUS
  <2>3. K(t) = (high * 256) \div 64
    BY DEF K
  <2> HIDE DEF high
  <2>4. K(t) = high * 4
    BY <1>2, <2>2, <2>3
  <2>5. QED
    BY <2>1, <2>4 DEF K
<1>5. get_insn_sub(t, 4, 1) = get_insn_sub(w, 4, 1)
  <2>1. get_insn_sub(t, 4, 1) = ((low + 64) \div 16) % 2
    BY <1>2 DEF get_insn_sub
  <2>2. get_insn_sub(w, 4, 1) = (w[1] \div 16) % 2
    BY <1>1 DEF get_insn_sub
  <2>3. \A x \in Nat : (((x % 32) + 64) \div 16) % 2 = (x \div 16) % 2
    OBVIOUS
  <2>4. (((w[1] % 32) + 64) \div 16) % 2 = (w[1] \div 16) % 2
    BY <1>1, <2>3
  <2>5. QED
    BY <2>1, <2>2, <2>4, Zenon
<1>6. get_insn_sub(t, 5, 19) = 2
  <2>1. ((low + 64) \div 32) % 524288 = 2
    BY <1>2
  <2>2. (high * 256) % 256 = 0
    BY <1>2
  <2> HIDE DEF low, high
  <2>3. QED
    BY <1>2, <2>1, <2>2 DEF get_insn_sub
<1>7. t \in InstructionWord
  <2> HIDE DEF low, high
  <2>1. low + 64 \in Halfword /\ high * 256 \in Halfword
    BY <1>2, IsHalfword
  <2>2. QED
    BY <2>1 DEF InstructionWord
<1> HIDE DEF t
<1>8. Offset(t, 5, 19) = 8
  BY <1>6 DEF Offset, SignedSub
<1>9. K(w) \in Nat /\ K(w) < 1024
  BY Fields
<1>10. CASE K(w) \in Compares
  <2>1. K(t) \in Compares
    BY <1>4, <1>9, <1>10 DEF Compares
  <2>2. Decode(t) = Op(<<"cbz">>, get_insn_sub(t, 0, 5), 0, Offset(t, 5, 19))
    BY <1>7, <2>1, DecodeClass
  <2>3. QED
    BY <1>3, <1>7, <1>8, <2>2 DEF Op
<1>11. CASE K(w) \in 336..339 /\ get_insn_sub(w, 4, 1) = 0
  <2>1. K(t) \in 336..339
    BY <1>4, <1>9, <1>11
  <2>2. Decode(t) = Op(<<"b.cond">>, 0, 0, Offset(t, 5, 19))
    BY <1>5, <1>7, <1>11, <2>1, DecodeClass
  <2>3. QED
    BY <1>3, <1>7, <1>8, <2>2 DEF Op
<1>12. QED
  BY <1>10, <1>11

(* ------------------------------------------------------------------------ *)
(* The words of the writer                                                     *)

LEMMA LdrWord ==
  ASSUME NEW rt \in ARM64Reg, NEW off \in {8, 12}
  PROVE  /\ put_ldr_reg_imm(rt, off) \in InstructionWord
         /\ Decode(put_ldr_reg_imm(rt, off)) = Op(LoadX, rt, 0, off)
<1> DEFINE w == <<8 * off + rt, 22528>>
<1>1. put_ldr_reg_imm(rt, off) = w
  BY DEF put_ldr_reg_imm, |, Shift, arm64_register_describe, ARM64Reg
<1>2. w \in InstructionWord
  <2>1. 8 * off + rt \in Halfword /\ 22528 \in Halfword
    BY IsHalfword DEF ARM64Reg
  <2>2. QED
    BY <2>1 DEF InstructionWord
<1>3. K(w) \in Literals
  BY DEF K, Literals
<1>4. /\ get_insn_sub(w, 26, 1) = 0 /\ get_insn_sub(w, 30, 2) = 1
      /\ get_insn_sub(w, 0, 5) = rt /\ get_insn_sub(w, 5, 19) = off \div 4
  BY DEF get_insn_sub, ARM64Reg
<1> HIDE DEF w
<1>5. Offset(w, 5, 19) = off
  BY <1>4 DEF Offset, SignedSub
<1>6. QED
  BY <1>1, <1>2, <1>3, <1>4, <1>5, DecodeClass DEF LoadX

LEMMA LdrRegWord ==
  ASSUME NEW rt \in ARM64Reg
  PROVE  /\ put_ldr_reg_reg_offset(rt, rt, 0) \in InstructionWord
         /\ Decode(put_ldr_reg_reg_offset(rt, rt, 0)) = Op(<<"ldr">>, rt, rt, 0)
<1> DEFINE w == <<33 * rt, 63808>>
<1>1. put_ldr_reg_reg_offset(rt, rt, 0) = w
  BY DEF put_ldr_reg_reg_offset, |, Shift, arm64_register_describe, ARM64Reg
<1>2. w \in InstructionWord
  <2>1. 33 * rt \in Halfword /\ 63808 \in Halfword
    BY IsHalfword DEF ARM64Reg
  <2>2. QED
    BY <2>1 DEF InstructionWord
<1>3. K(w) = 997
  BY DEF K
<1>4. /\ get_insn_sub(w, 0, 5) = rt /\ get_insn_sub(w, 5, 5) = rt
      /\ get_insn_sub(w, 10, 12) = 0
  BY DEF get_insn_sub, ARM64Reg
<1> HIDE DEF w
<1>5. Decode(w) = Op(<<"ldr">>, rt, rt, 0)
  BY <1>2, <1>3, <1>4, Classes, Disjoint DEF Decode
<1>6. QED
  BY <1>1, <1>2, <1>5

\* br x17 and blr x17
LEMMA BranchRegWords ==
  /\ put_br_reg(17) \in InstructionWord /\ put_blr_reg(17) \in InstructionWord
  /\ Decode(put_br_reg(17)) = Op(<<"br">>, 0, 17, 0)
  /\ Decode(put_blr_reg(17)) = Op(<<"blr">>, 0, 17, 0)
<1> DEFINE br == <<544, 54815>>
           blr == <<544, 54847>>
<1>1. put_br_reg(17) = br /\ put_blr_reg(17) = blr
  BY DEF put_br_reg, put_blr_reg, |, Shift, arm64_register_describe
<1>2. br \in InstructionWord /\ blr \in InstructionWord
  <2>1. 544 \in Halfword /\ 54815 \in Halfword /\ 54847 \in Halfword
    BY IsHalfword
  <2>2. QED
    BY <2>1 DEF InstructionWord
<1>3. K(br) = 856 /\ K(blr) = 856
  BY DEF K
<1>4. /\ get_insn_sub(br, 5, 5) = 17 /\ get_insn_sub(br, 21, 3) = 0
      /\ get_insn_sub(blr, 5, 5) = 17 /\ get_insn_sub(blr, 21, 3) = 1
  BY DEF get_insn_sub
<1>5. br # <<960, 54879>> /\ blr # <<960, 54879>>
  OBVIOUS
<1> HIDE DEF br, blr
<1>6. Decode(br) = Op(<<"br">>, 0, 17, 0)
  BY <1>2, <1>3, <1>4, <1>5, Classes, Disjoint DEF Decode
<1>7. Decode(blr) = Op(<<"blr">>, 0, 17, 0)
  BY <1>2, <1>3, <1>4, <1>5, Classes, Disjoint DEF Decode
<1>8. QED
  BY <1>1, <1>2, <1>6, <1>7

\* A branch keeps its distance, whatever its sign
LEMMA BranchWord ==
  ASSUME NEW off \in Int, off % 4 = 0, off >= -(2^27), off < 2^27
  PROVE  /\ put_b_imm(off) \in InstructionWord
         /\ Decode(put_b_imm(off)) = Op(<<"b">>, 0, 0, off)
<1> DEFINE f == (off \div 4) % 2^26
           low == f % 65536
           high == f \div 65536
           w == <<low, 5120 + high>>
<1>1. f \in Nat /\ f < 67108864
  OBVIOUS
<1>2. off = IF f < 2^25 THEN 4 * f ELSE 4 * (f - 2^26)
  <2>1. off = 4 * (off \div 4) /\ off \div 4 >= -33554432 /\ off \div 4 < 33554432
    OBVIOUS
  <2>2. \A x \in Int : x >= -33554432 /\ x < 33554432 =>
          x = IF x % 67108864 < 33554432 THEN x % 67108864 ELSE (x % 67108864) - 67108864
    OBVIOUS
  <2>3. off \div 4 \in Int
    OBVIOUS
  <2>4. QED
    BY <2>1, <2>2, <2>3
<1> HIDE DEF f
<1>3. low \in Nat /\ low < 65536 /\ high \in Nat /\ high < 1024 /\ f = high * 65536 + low
  BY <1>1
<1>4. put_b_imm(off) = w
  <2>1. Shift(f, 0) = <<low, high>>
    BY <1>1 DEF Shift
  <2> HIDE DEF low, high
  <2>2. QED
    BY <1>3, <2>1 DEF put_b_imm, |, f
<1> HIDE DEF low, high
<1>5. w \in InstructionWord
  <2>1. low \in Halfword /\ 5120 + high \in Halfword
    BY <1>3, IsHalfword
  <2>2. QED
    BY <2>1 DEF InstructionWord
<1>6. K(w) \in 80..95
  BY <1>3 DEF K
<1>7. get_insn_sub(w, 0, 26) = f
  <2>1. (low \div 1) % 2^26 = low /\ (5120 + high) % 1024 = high
    BY <1>3
  <2>2. get_insn_sub(w, 0, 26) = low + high * 65536
    BY <1>3, <2>1 DEF get_insn_sub
  <2>3. QED
    BY <1>3, <2>2
<1> HIDE DEF w
<1>8. Offset(w, 0, 26) = off
  BY <1>1, <1>2, <1>7 DEF Offset, SignedSub
<1>9. QED
  BY <1>4, <1>5, <1>6, <1>8, DecodeClass

LEMMA AddressWords ==
  ASSUME NEW a \in Nat, a < 2^31
  PROVE  /\ Len(put_address(a)) = 2
         /\ put_address(a)[1] \in InstructionWord /\ put_address(a)[2] = <<0, 0>>
         /\ put_address(a)[1][2] < 32768
         /\ put_address(a)[1][1] + 65536 * put_address(a)[1][2] = a
<1> DEFINE low == a % 65536
           high == a \div 65536
<1>1. low \in Nat /\ low < 65536 /\ high \in Nat /\ high < 32768 /\ a = high * 65536 + low
  OBVIOUS
<1>2. put_address(a) = <<<<low, high>>, <<0, 0>>>>
  BY DEF put_address
<1> HIDE DEF low, high
<1>3. <<low, high>> \in InstructionWord
  <2>1. low \in Halfword /\ high \in Halfword
    BY <1>1, IsHalfword
  <2>2. QED
    BY <2>1 DEF InstructionWord
<1>4. QED
  BY <1>1, <1>2, <1>3

LEMMA ZeroWord == <<0, 0>> \in InstructionWord
<1>1. 0 \in Halfword
  BY IsHalfword
<1>2. QED
  BY <1>1 DEF InstructionWord

(* ------------------------------------------------------------------------ *)
(* The words of the program                                                    *)

LEMMA ProgramFields ==
  ASSUME NEW w \in InstructionWord
  PROVE  /\ get_insn_sub(w, 5, 19) \in Nat /\ get_insn_sub(w, 5, 19) < 524288
         /\ get_insn_sub(w, 0, 26) \in Nat /\ get_insn_sub(w, 0, 26) < 67108864
         /\ get_insn_sub(w, 0, 5) \in ARM64Reg
<1>1. w[1] \in Nat /\ w[1] < 65536 /\ w[2] \in Nat /\ w[2] < 65536
  BY Halves
<1>2. get_insn_sub(w, 5, 19) = ((w[1] \div 32) % 524288) + (w[2] % 256) * 2048
  BY <1>1 DEF get_insn_sub
<1>3. (w[1] \div 32) % 524288 \in Nat /\ (w[1] \div 32) % 524288 < 2048
  <2>1. w[1] \div 32 \in Nat /\ w[1] \div 32 < 2048
    BY <1>1
  <2>2. \A x \in Nat : x < 2048 => x % 524288 = x
    OBVIOUS
  <2>3. QED
    BY <2>1, <2>2
<1>4. w[2] % 256 \in Nat /\ w[2] % 256 < 256
  BY <1>1
<1>5. get_insn_sub(w, 0, 26) = (w[1] % 67108864) + (w[2] % 1024) * 65536
  BY <1>1 DEF get_insn_sub
<1>6. w[1] % 67108864 = w[1] /\ w[2] % 1024 \in Nat /\ w[2] % 1024 < 1024
  BY <1>1
<1>7. get_insn_sub(w, 0, 5) = w[1] % 32
  BY <1>1 DEF get_insn_sub
<1>8. w[1] % 32 \in ARM64Reg
  BY <1>1 DEF ARM64Reg
<1>9. QED
  BY <1>1, <1>2, <1>3, <1>4, <1>5, <1>6, <1>7, <1>8

\* A distance that is not negative is what the relocator takes it for
LEMMA Forward ==
  ASSUME NEW w \in InstructionWord
  PROVE  /\ Offset(w, 5, 19) >= 0 =>
              Offset(w, 5, 19) = 4 * get_insn_sub(w, 5, 19) /\ get_insn_sub(w, 5, 19) < 262144
         /\ Offset(w, 0, 26) >= 0 =>
              Offset(w, 0, 26) = 4 * get_insn_sub(w, 0, 26) /\ get_insn_sub(w, 0, 26) < 33554432
<1>1. PICK f \in Nat, g \in Nat : /\ f = get_insn_sub(w, 5, 19) /\ f < 524288
                                  /\ g = get_insn_sub(w, 0, 26) /\ g < 67108864
  BY ProgramFields
<1>2. Offset(w, 5, 19) = 4 * (IF f < 262144 THEN f ELSE f - 524288)
  BY <1>1 DEF Offset, SignedSub
<1>3. Offset(w, 0, 26) = 4 * (IF g < 33554432 THEN g ELSE g - 67108864)
  BY <1>1 DEF Offset, SignedSub
<1>4. QED
  BY <1>1, <1>2, <1>3

\* The classes of the words that can be moved
LEMMA MovesClass ==
  ASSUME NEW w \in InstructionWord, Moves(w)
  PROVE  LET d == Decode(w)
             type == getInstType(w)
             f == get_insn_sub(w, 5, 19)
             g == get_insn_sub(w, 0, 26)
         IN  \/ Anywhere(d) /\ type = "ARM64_INST_END"
             \/ /\ K(w) \in Literals /\ type = "LoadLiteral"
                /\ d = Op(LoadX, get_insn_sub(w, 0, 5), 0, 4 * f) /\ f < 262144
             \/ /\ K(w) \in Compares \/ (K(w) \in 336..339 /\ get_insn_sub(w, 4, 1) = 0)
                /\ type \in {"BaseCmpBranch", "BranchCond"}
                /\ d.op[1] \in {"cbz", "b.cond"} /\ d.offset = 4 * f /\ f < 262144
             \/ type = "B" /\ d = Op(<<"b">>, 0, 0, 4 * g) /\ g < 33554432
             \/ type = "BL" /\ d = Op(<<"bl">>, 0, 0, 4 * g) /\ g < 33554432
<1>1. CASE K(w) \in Literals
  <2>1. Decode(w) = Op(<<"ldr_literal", get_insn_sub(w, 26, 1), get_insn_sub(w, 30, 2)>>,
                       get_insn_sub(w, 0, 5), 0, Offset(w, 5, 19))
    BY <1>1, DecodeClass
  <2>2. Decode(w).op = LoadX /\ Decode(w).offset >= 0
    BY <2>1 DEF Moves, Anywhere, Rewritten, Op
  <2>3. Decode(w) = Op(LoadX, get_insn_sub(w, 0, 5), 0, Offset(w, 5, 19))
    BY <2>1, <2>2 DEF Op
  <2>4. Offset(w, 5, 19) >= 0
    BY <2>2, <2>3 DEF Op
  <2>5. QED
    BY <1>1, <2>3, <2>4, Forward, TypeClass
<1>2. CASE K(w) \in Compares
  <2>1. Decode(w) = Op(<<"cbz">>, get_insn_sub(w, 0, 5), 0, Offset(w, 5, 19))
    BY <1>2, DecodeClass
  <2>2. Offset(w, 5, 19) >= 0 /\ Decode(w).op[1] = "cbz" /\ Decode(w).offset = Offset(w, 5, 19)
    BY <2>1 DEF Moves, Anywhere, Rewritten, Op, LoadX
  <2>3. QED
    BY <1>2, <2>2, Forward, TypeClass
<1>3. CASE K(w) \in 336..339 /\ get_insn_sub(w, 4, 1) = 0
  <2>1. Decode(w) = Op(<<"b.cond">>, 0, 0, Offset(w, 5, 19))
    BY <1>3, DecodeClass
  <2>2. /\ Offset(w, 5, 19) >= 0 /\ Decode(w).op[1] = "b.cond"
        /\ Decode(w).offset = Offset(w, 5, 19)
    BY <2>1 DEF Moves, Anywhere, Rewritten, Op, LoadX
  <2>3. QED
    BY <1>3, <2>2, Forward, TypeClass
<1>4. CASE K(w) \in 80..95
  <2>1. Decode(w) = Op(<<"b">>, 0, 0, Offset(w, 0, 26))
    BY <1>4, DecodeClass
  <2>2. Offset(w, 0, 26) >= 0
    BY <2>1 DEF Moves, Anywhere, Rewritten, Op, LoadX
  <2>3. QED
    BY <1>4, <2>1, <2>2, Forward, TypeClass
<1>5. CASE K(w) \in 592..607
  <2>1. Decode(w) = Op(<<"bl">>, 0, 0, Offset(w, 0, 26))
    BY <1>5, DecodeClass
  <2>2. Offset(w, 0, 26) >= 0
    BY <2>1 DEF Moves, Anywhere, Rewritten, Op, LoadX
  <2>3. QED
    BY <1>5, <2>1, <2>2, Forward, TypeClass
<1>6. CASE /\ K(w) \notin Literals \cup Compares /\ K(w) \notin 80..95 /\ K(w) \notin 592..607
           /\ ~(K(w) \in 336..339 /\ get_insn_sub(w, 4, 1) = 0)
  <2>1. getInstType(w) = "ARM64_INST_END"
    BY <1>6, TypeClass
  <2>2. CASE K(w) \in BitTests
    <3>1. Decode(w).op[1] = "tbz" /\ Decode(w).op # LoadX
      BY <2>2, DecodeClass DEF Op, LoadX
    <3>2. QED
      BY <3>1 DEF Moves, Anywhere, Rewritten
  <2>3. CASE K(w) \notin BitTests
    <3>1. Decode(w).op[1] \in {"adr", "adrp", "br", "blr", "ret", "ldr", "udf", "plain"}
      BY <1>6, <2>3, DecodeClass
    <3>2. ~Rewritten(Decode(w))
      BY <3>1 DEF Rewritten, LoadX
    <3>3. QED
      BY <2>1, <3>2 DEF Moves
  <2>4. QED
    BY <2>2, <2>3
<1>7. QED
  BY <1>1, <1>2, <1>3, <1>4, <1>5, <1>6

(* ------------------------------------------------------------------------ *)
(* The groups of words that the instructions become                            *)

\* An address, in two words
HoldsAddress(u, v, a) ==
  v = <<0, 0>> /\ u[2] < 32768 /\ u[1] + 65536 * u[2] = a

\* The words of a group, as the processor takes them
IsJump(g, a) ==
  /\ Len(g) = 4
  /\ Decode(g[1]) = Op(LoadX, 17, 0, 8) /\ Decode(g[2]) = Op(<<"br">>, 0, 17, 0)
  /\ HoldsAddress(g[3], g[4], a)
IsLoad(g, rt, a) ==
  /\ Len(g) = 5 /\ rt \in ARM64Reg
  /\ Decode(g[1]) = Op(LoadX, rt, 0, 8) /\ Decode(g[2]) = Op(<<"b">>, 0, 0, 12)
  /\ HoldsAddress(g[3], g[4], a)
  /\ Decode(g[5]) = Op(<<"ldr">>, rt, rt, 0)
IsTest(g, a) ==
  /\ Len(g) = 6
  /\ Decode(g[1]).op[1] \in {"cbz", "b.cond"} /\ Decode(g[1]).offset = 8
  /\ Decode(g[2]) = Op(<<"b">>, 0, 0, 20)
  /\ Decode(g[3]) = Op(LoadX, 17, 0, 8) /\ Decode(g[4]) = Op(<<"br">>, 0, 17, 0)
  /\ HoldsAddress(g[5], g[6], a)
IsCall(g, a) ==
  /\ Len(g) = 5
  /\ Decode(g[1]) = Op(LoadX, 17, 0, 12) /\ Decode(g[2]) = Op(<<"blr">>, 0, 17, 0)
  /\ Decode(g[3]) = Op(<<"b">>, 0, 0, 12)
  /\ HoldsAddress(g[4], g[5], a)
Words(g) == g \in Seq(InstructionWord)

LEMMA Address ==
  ASSUME NEW a \in Nat, a < 2^31
  PROVE  \E u \in InstructionWord :
           put_address(a) = <<u, <<0, 0>>>> /\ HoldsAddress(u, <<0, 0>>, a)
<1> DEFINE u == <<a % 65536, a \div 65536>>
<1>1. put_address(a) = <<u, <<0, 0>>>>
  BY DEF put_address
<1> HIDE DEF u
<1>2. /\ put_address(a)[1] \in InstructionWord
      /\ put_address(a)[1][2] < 32768
      /\ put_address(a)[1][1] + 65536 * put_address(a)[1][2] = a
  BY AddressWords
<1>3. put_address(a)[1] = u
  BY <1>1
<1>4. QED
  BY <1>1, <1>2, <1>3 DEF HoldsAddress

LEMMA JumpWords ==
  ASSUME NEW a \in Nat, a < 2^31
  PROVE  IsJump(JumpTo(a), a) /\ Words(JumpTo(a))
<1>1. PICK u \in InstructionWord :
        put_address(a) = <<u, <<0, 0>>>> /\ HoldsAddress(u, <<0, 0>>, a)
  BY Address
<1> DEFINE ldr == put_ldr_reg_imm(17, 8)
           br == put_br_reg(17)
<1>2. JumpTo(a) = <<ldr, br, u, <<0, 0>>>>
  BY <1>1, Joined22 DEF JumpTo, ARM64_REG_X17
<1>3. ldr \in InstructionWord /\ Decode(ldr) = Op(LoadX, 17, 0, 8)
  BY LdrWord DEF ARM64Reg
<1>4. br \in InstructionWord /\ Decode(br) = Op(<<"br">>, 0, 17, 0)
  BY BranchRegWords
<1> HIDE DEF ldr, br
<1>5. QED
  BY <1>1, <1>2, <1>3, <1>4, ZeroWord DEF IsJump, Words

LEMMA LoadWords ==
  ASSUME NEW rt \in ARM64Reg, NEW a \in Nat, a < 2^31, NEW g,
         g = <<put_ldr_reg_imm(rt, 8), put_b_imm(12)>> \o put_address(a)
               \o <<put_ldr_reg_reg_offset(rt, rt, 0)>>
  PROVE  IsLoad(g, rt, a) /\ Words(g)
<1>1. PICK u \in InstructionWord :
        put_address(a) = <<u, <<0, 0>>>> /\ HoldsAddress(u, <<0, 0>>, a)
  BY Address
<1> DEFINE ldr == put_ldr_reg_imm(rt, 8)
           b == put_b_imm(12)
           ldrx == put_ldr_reg_reg_offset(rt, rt, 0)
<1>2. g = <<ldr, b, u, <<0, 0>>, ldrx>>
  <2>1. <<ldr, b>> \o put_address(a) = <<ldr, b, u, <<0, 0>>>>
    BY <1>1, Joined22
  <2> HIDE DEF ldr, b, ldrx
  <2>2. <<ldr, b, u, <<0, 0>>>> \o <<ldrx>> = <<ldr, b, u, <<0, 0>>, ldrx>>
    BY Joined41
  <2>3. QED
    BY <2>1, <2>2 DEF ldr, b, ldrx
<1>3. ldr \in InstructionWord /\ Decode(ldr) = Op(LoadX, rt, 0, 8)
  BY LdrWord
<1>4. b \in InstructionWord /\ Decode(b) = Op(<<"b">>, 0, 0, 12)
  BY BranchWord
<1>5. ldrx \in InstructionWord /\ Decode(ldrx) = Op(<<"ldr">>, rt, rt, 0)
  BY LdrRegWord
<1> HIDE DEF ldr, b, ldrx
<1>6. QED
  BY <1>1, <1>2, <1>3, <1>4, <1>5, ZeroWord DEF IsLoad, Words

LEMMA CallWords ==
  ASSUME NEW a \in Nat, a < 2^31, NEW g,
         g = <<put_ldr_reg_imm(ARM64_REG_X17, 12), put_blr_reg(ARM64_REG_X17), put_b_imm(12)>>
               \o put_address(a)
  PROVE  IsCall(g, a) /\ Words(g)
<1>1. PICK u \in InstructionWord :
        put_address(a) = <<u, <<0, 0>>>> /\ HoldsAddress(u, <<0, 0>>, a)
  BY Address
<1> DEFINE ldr == put_ldr_reg_imm(17, 12)
           blr == put_blr_reg(17)
           b == put_b_imm(12)
<1>2. g = <<ldr, blr, b, u, <<0, 0>>>>
  BY <1>1, Joined32 DEF ARM64_REG_X17
<1>3. ldr \in InstructionWord /\ Decode(ldr) = Op(LoadX, 17, 0, 12)
  BY LdrWord DEF ARM64Reg
<1>4. b \in InstructionWord /\ Decode(b) = Op(<<"b">>, 0, 0, 12)
  BY BranchWord
<1>5. blr \in InstructionWord /\ Decode(blr) = Op(<<"blr">>, 0, 17, 0)
  BY BranchRegWords
<1> HIDE DEF ldr, b, blr
<1>6. QED
  BY <1>1, <1>2, <1>3, <1>4, <1>5, ZeroWord DEF IsCall, Words

LEMMA TestWords ==
  ASSUME NEW w \in InstructionWord,
         K(w) \in Compares \/ (K(w) \in 336..339 /\ get_insn_sub(w, 4, 1) = 0),
         NEW a \in Nat, a < 2^31, NEW g,
         g = <<BIT32SET(w, 5, 19, 2), put_b_imm(20)>> \o JumpTo(a)
  PROVE  IsTest(g, a) /\ Words(g)
<1>1. PICK u \in InstructionWord :
        put_address(a) = <<u, <<0, 0>>>> /\ HoldsAddress(u, <<0, 0>>, a)
  BY Address
<1> DEFINE test == BIT32SET(w, 5, 19, 2)
           b == put_b_imm(20)
           ldr == put_ldr_reg_imm(17, 8)
           br == put_br_reg(17)
<1>2. g = <<test, b, ldr, br, u, <<0, 0>>>>
  <2>1. JumpTo(a) = <<ldr, br, u, <<0, 0>>>>
    BY <1>1, Joined22 DEF JumpTo, ARM64_REG_X17
  <2>2. g = <<test, b>> \o JumpTo(a)
    OBVIOUS
  <2> HIDE DEF test, b, ldr, br
  <2>3. <<test, b>> \o <<ldr, br, u, <<0, 0>>>> = <<test, b, ldr, br, u, <<0, 0>>>>
    BY Joined24
  <2>4. QED
    BY <2>1, <2>2, <2>3
<1>3. ldr \in InstructionWord /\ Decode(ldr) = Op(LoadX, 17, 0, 8)
  BY LdrWord DEF ARM64Reg
<1>4. br \in InstructionWord /\ Decode(br) = Op(<<"br">>, 0, 17, 0)
  BY BranchRegWords
<1>5. b \in InstructionWord /\ Decode(b) = Op(<<"b">>, 0, 0, 20)
  BY BranchWord
<1>6. /\ test \in InstructionWord /\ Decode(test).op[1] \in {"cbz", "b.cond"}
      /\ Decode(test).offset = 8
  BY TestWord
<1> HIDE DEF test, b, ldr, br
<1>7. /\ Len(g) = 6 /\ g[1] = test /\ g[2] = b /\ g[3] = ldr /\ g[4] = br
      /\ g[5] = u /\ g[6] = <<0, 0>>
  <2> DEFINE q == <<test, b, ldr, br, u, <<0, 0>>>>
  <2>1. /\ Len(q) = 6 /\ q[1] = test /\ q[2] = b /\ q[3] = ldr /\ q[4] = br
        /\ q[5] = u /\ q[6] = <<0, 0>>
    OBVIOUS
  <2>2. g = q
    BY <1>2
  <2> HIDE DEF q
  <2>3. QED
    BY <2>1, <2>2, Zenon
<1>8. IsTest(g, a)
  BY <1>1, <1>3, <1>4, <1>5, <1>6, <1>7 DEF IsTest
<1>9. Words(g)
  <2> DEFINE W == InstructionWord
  <2>1. \A x1, x2, x3, x4, x5, x6 \in W : <<x1, x2, x3, x4, x5, x6>> \in Seq(W)
    OBVIOUS
  <2>2. <<test, b, ldr, br, u, <<0, 0>>>> \in Seq(W)
    <3> HIDE DEF W
    <3>1. /\ test \in W /\ b \in W /\ ldr \in W
          /\ br \in W /\ u \in W /\ <<0, 0>> \in W
      BY <1>1, <1>3, <1>4, <1>5, <1>6, ZeroWord DEF W
    <3>2. QED
      BY <2>1, <3>1, Zenon
  <2>3. QED
    BY <1>2, <2>2 DEF Words
<1>10. QED
  BY <1>8, <1>9

(* ------------------------------------------------------------------------ *)
(* What the relocator makes of the program                                     *)

N == Len(program)

ProgramOK ==
  /\ program \in Programs /\ cave \in Caves
  /\ taken \in [1..N -> BOOLEAN]
  /\ \A k \in 1..N : taken[k] => Tests(program[k])

\* The output of instruction k, or the jump back behind the last one, and the address
\* in it
Group(k) == IF k <= N THEN relocate_write(ReadInst(k)) ELSE JumpTo(Start + 4 * N)
Dest(k) == IF k <= N THEN RealTarget(k) ELSE Start + 4 * N

LEMMA Bounds ==
  /\ Start \in Nat /\ Start % 4 = 0 /\ Base \in Nat /\ Base % 4 = 0
  /\ Enter \in Nat /\ Enter % 4 = 0 /\ Caller \in Nat /\ Caller % 4 = 0
  /\ \A c \in Caves : c \in Nat /\ c % 4 = 0
BY RelocatorAssumption

LEMMA ProgramIs ==
  ASSUME ProgramOK
  PROVE  /\ N \in {1, 4} /\ program \in Seq(InstructionWord)
         /\ \A k \in 1..N : program[k] \in InstructionWord
<1>1. program \in Seq(InstructionWord) /\ N \in {1, 4}
  BY RelocatorAssumption DEF ProgramOK, N
<1>2. QED
  BY <1>1, ElementOfSeq DEF N

\* The words that k is made of, by its class
GroupOK(k) ==
  LET d == Decode(program[k])
      g == Group(k)
  IN  \/ k <= N /\ Anywhere(d) /\ g = <<program[k]>>
      \/ k <= N /\ OpOf(k) = "ldr_literal" /\ d.op = LoadX /\ IsLoad(g, d.rt, Dest(k))
      \/ k <= N /\ OpOf(k) \in {"cbz", "b.cond"} /\ IsTest(g, Dest(k))
      \/ (k <= N => OpOf(k) = "b") /\ IsJump(g, Dest(k))
      \/ k <= N /\ OpOf(k) = "bl" /\ IsCall(g, Dest(k))

\* k refers to its destination by the pc, or is the jump back
Refers(k) == k <= N => OpOf(k) \in {"ldr_literal", "cbz", "b.cond", "b", "bl"}

LEMMA DestIs ==
  ASSUME ProgramOK, Relocatable, NEW k \in 1..N + 1
  PROVE  /\ Refers(k) => Dest(k) \in Nat /\ Dest(k) < 2^31 /\ Clear(Dest(k))
         /\ k <= N => Moves(program[k])
<1>1. /\ N \in {1, 4} /\ Start \in Nat /\ Start % 4 = 0 /\ Start <= 2^30
      /\ Movable(program)
  BY ProgramIs, Bounds DEF Relocatable, Layout, ProgramOK
<1>2. CASE k <= N
  <2> DEFINE d == Decode(program[k])
  <2>1. k \in DOMAIN program /\ k \in 1..4 /\ program[k] \in InstructionWord
    BY <1>1, <1>2, ProgramIs DEF N
  <2>2. Anywhere(d) \/ (Rewritten(d) /\ Clear(AddressOf(k) + d.offset))
    BY <1>1, <2>1 DEF Movable
  <2>3. Moves(program[k])
    BY <2>2 DEF Moves
  <2>4. ASSUME Refers(k) PROVE Dest(k) \in Nat /\ Dest(k) < 2^31 /\ Clear(Dest(k))
    <3>1. ~Anywhere(d)
      BY <1>2, <2>4 DEF Refers, OpOf, Anywhere
    <3> DEFINE off == d.offset
    <3>2. \E x \in Nat : off = 4 * x /\ x < 33554432
      <4>1. /\ get_insn_sub(program[k], 5, 19) \in Nat /\ get_insn_sub(program[k], 0, 26) \in Nat
        BY <2>1, ProgramFields
      <4>2. QED
        BY <2>1, <2>3, <3>1, <4>1, MovesClass DEF Op
    <3>3. Dest(k) = Start + 4 * (k - 1) + off /\ Clear(Dest(k))
      BY <1>2, <2>2, <3>1 DEF Dest, RealTarget, AddressOf
    <3> HIDE DEF off
    <3>4. QED
      BY <1>1, <2>1, <3>2, <3>3
  <2>5. QED
    BY <2>3, <2>4
<1>3. CASE ~(k <= N)
  <2>1. Dest(k) = Start + 4 * N
    BY <1>3 DEF Dest
  <2>2. Clear(Start + 4 * N)
    BY <1>1 DEF Movable, N
  <2>3. QED
    BY <1>1, <1>3, <2>1, <2>2
<1>4. QED
  BY <1>2, <1>3

LEMMA RelocateWrite ==
  ASSUME NEW inst
  PROVE  LET type == getInstType(inst.bytes)
         IN  /\ type = "LoadLiteral" => relocate_write(inst) = rewrite_LoadLiteral(inst)
             /\ type \in {"BaseCmpBranch", "BranchCond"} =>
                  relocate_write(inst) = rewrite_Test(inst)
             /\ type = "B" => relocate_write(inst) = rewrite_B(inst)
             /\ type = "BL" => relocate_write(inst) = rewrite_BL(inst)
             /\ type = "ARM64_INST_END" => relocate_write(inst) = <<inst.bytes>>
BY SMTT(30) DEF relocate_write

LEMMA GroupIs ==
  ASSUME ProgramOK, Relocatable, NEW k \in 1..N + 1
  PROVE  GroupOK(k) /\ Words(Group(k))
<1>1. /\ Refers(k) => Dest(k) \in Nat /\ Dest(k) < 2^31
      /\ k <= N => Moves(program[k])
  BY DestIs
<1>2. CASE ~(k <= N)
  <2>1. Group(k) = JumpTo(Dest(k)) /\ Refers(k)
    BY <1>2 DEF Group, Dest, Refers
  <2>2. QED
    BY <1>1, <1>2, <2>1, JumpWords DEF GroupOK
<1>3. CASE k <= N
  <2> DEFINE w == program[k]
             inst == ReadInst(k)
             f == get_insn_sub(w, 5, 19)
             g == get_insn_sub(w, 0, 26)
             type == getInstType(w)
  <2>1. N \in {1, 4} /\ w \in InstructionWord /\ Moves(w)
    BY <1>1, <1>3, ProgramIs
  <2>2. inst.bytes = w /\ inst.pc = AddressOf(k)
    BY DEF ReadInst, AddressOf
  <2>3. Group(k) = relocate_write(inst) /\ Dest(k) = AddressOf(k) + Decode(w).offset
    BY <1>3 DEF Group, Dest, RealTarget
  <2>4. /\ type = "LoadLiteral" => relocate_write(inst) = rewrite_LoadLiteral(inst)
        /\ type \in {"BaseCmpBranch", "BranchCond"} => relocate_write(inst) = rewrite_Test(inst)
        /\ type = "B" => relocate_write(inst) = rewrite_B(inst)
        /\ type = "BL" => relocate_write(inst) = rewrite_BL(inst)
        /\ type = "ARM64_INST_END" => relocate_write(inst) = <<w>>
    <3> HIDE DEF inst, type, w
    <3>1. type = getInstType(inst.bytes) /\ inst.bytes = w
      BY <2>2 DEF type
    <3>2. QED
      BY <3>1, RelocateWrite
  <2>5. TargetAddress(inst, 5, 19) = f * 4 + AddressOf(k)
    BY <2>2 DEF TargetAddress
  <2>6. TargetAddress(inst, 0, 26) = g * 4 + AddressOf(k)
    BY <2>2 DEF TargetAddress
  <2>7. f \in Nat /\ g \in Nat /\ AddressOf(k) \in Int
    BY <2>1, ProgramFields, Bounds DEF AddressOf
  <2>8. CASE Anywhere(Decode(w)) /\ type = "ARM64_INST_END"
    <3>1. Group(k) = <<w>>
      BY <2>3, <2>4, <2>8
    <3>2. QED
      BY <1>3, <2>1, <2>8, <3>1 DEF GroupOK, Words
  <2>9. CASE /\ type = "LoadLiteral"
             /\ Decode(w) = Op(LoadX, get_insn_sub(w, 0, 5), 0, 4 * f)
    <3>1. /\ Decode(w).rt = get_insn_sub(w, 0, 5) /\ Decode(w).op = LoadX
          /\ Dest(k) = f * 4 + AddressOf(k)
      BY <2>3, <2>7, <2>9 DEF Op
    <3>2. Group(k) = rewrite_LoadLiteral(inst)
      BY <2>3, <2>4, <2>9
    <3>3. IsLoad(Group(k), Decode(w).rt, Dest(k)) /\ Words(Group(k))
      <4>1. PICK rt \in ARM64Reg : rt = Decode(w).rt /\ rt = get_insn_sub(w, 0, 5)
        BY <2>1, <3>1, ProgramFields
      <4>2. PICK a \in Nat : a = Dest(k) /\ a < 2^31
        <5>1. Refers(k)
          BY <3>1 DEF Refers, OpOf, LoadX
        <5>2. QED
          BY <1>1, <5>1
      <4>3. rewrite_LoadLiteral(inst) =
              <<put_ldr_reg_imm(rt, 8), put_b_imm(12)>> \o put_address(a)
                \o <<put_ldr_reg_reg_offset(rt, rt, 0)>>
        <5>1. TargetAddress(inst, 5, 19) = a
          BY <2>5, <3>1, <4>2
        <5> HIDE DEF inst
        <5>2. QED
          BY <2>2, <4>1, <5>1, SMT DEF rewrite_LoadLiteral, arm64_register_disdescribe
      <4>4. IsLoad(Group(k), rt, a) /\ Words(Group(k))
        BY <3>2, <4>2, <4>3, LoadWords
      <4>5. QED
        BY <4>1, <4>2, <4>4
    <3>4. OpOf(k) = "ldr_literal"
      BY <3>1 DEF OpOf, LoadX
    <3>5. QED
      BY <1>3, <3>1, <3>3, <3>4 DEF GroupOK
  <2>10. CASE /\ K(w) \in Compares \/ (K(w) \in 336..339 /\ get_insn_sub(w, 4, 1) = 0)
              /\ type \in {"BaseCmpBranch", "BranchCond"}
              /\ Decode(w).op[1] \in {"cbz", "b.cond"} /\ Decode(w).offset = 4 * f
    <3>1. Dest(k) = f * 4 + AddressOf(k)
      BY <2>3, <2>7, <2>10
    <3>2. Group(k) = rewrite_Test(inst)
      BY <2>3, <2>4, <2>10
    <3>3. Dest(k) \in Nat /\ Dest(k) < 2^31
      BY <1>1, <2>10 DEF Refers, OpOf
    <3>4. IsTest(Group(k), Dest(k)) /\ Words(Group(k))
      BY <2>1, <2>2, <2>5, <2>10, <3>1, <3>2, <3>3, TestWords DEF rewrite_Test
    <3>5. QED
      BY <1>3, <2>10, <3>4 DEF GroupOK, OpOf
  <2>11. CASE type = "B" /\ Decode(w) = Op(<<"b">>, 0, 0, 4 * g)
    <3>1. Dest(k) = g * 4 + AddressOf(k) /\ OpOf(k) = "b"
      BY <2>3, <2>7, <2>11 DEF Op, OpOf
    <3>2. Group(k) = JumpTo(Dest(k))
      BY <2>3, <2>4, <2>6, <2>11, <3>1 DEF rewrite_B
    <3>3. Dest(k) \in Nat /\ Dest(k) < 2^31
      BY <1>1, <3>1 DEF Refers
    <3>4. QED
      BY <3>1, <3>2, <3>3, JumpWords DEF GroupOK
  <2>12. CASE type = "BL" /\ Decode(w) = Op(<<"bl">>, 0, 0, 4 * g)
    <3>1. Dest(k) = g * 4 + AddressOf(k) /\ OpOf(k) = "bl"
      BY <2>3, <2>7, <2>12 DEF Op, OpOf
    <3>2. Group(k) = rewrite_BL(inst)
      BY <2>3, <2>4, <2>12
    <3>3. Dest(k) \in Nat /\ Dest(k) < 2^31
      BY <1>1, <3>1 DEF Refers
    <3>4. IsCall(Group(k), Dest(k)) /\ Words(Group(k))
      BY <2>6, <3>1, <3>2, <3>3, CallWords DEF rewrite_BL
    <3>5. QED
      BY <1>3, <3>1, <3>4 DEF GroupOK
  <2>13. QED
    BY <2>1, <2>8, <2>9, <2>10, <2>11, <2>12, MovesClass DEF OpOf
<1>4. QED
  BY <1>2, <1>3

(* ------------------------------------------------------------------------ *)
(* Where the words are put                                                     *)

Size(k) == Len(Group(k))

\* The index of the first word of group k, for up to five groups before it
Pos(k) ==
  1 + (IF k > 1 THEN Size(1) ELSE 0) + (IF k > 2 THEN Size(2) ELSE 0)
    + (IF k > 3 THEN Size(3) ELSE 0) + (IF k > 4 THEN Size(4) ELSE 0)
    + (IF k > 5 THEN Size(5) ELSE 0)

\* out is the first n groups
Laid(out, n) ==
  /\ out \in Seq(InstructionWord) /\ Len(out) = Pos(n + 1) - 1
  /\ \A k \in 1..n : \A j \in 1..Size(k) : out[Pos(k) + j - 1] = Group(k)[j]

LEMMA SizeIs ==
  ASSUME ProgramOK, Relocatable, NEW k \in 1..N + 1
  PROVE  /\ Size(k) \in {1, 4, 5, 6} /\ (k = N + 1 => Size(k) = 4)
         /\ Group(k) \in Seq(InstructionWord)
<1>1. GroupOK(k) /\ Words(Group(k)) /\ N \in {1, 4}
  BY GroupIs, ProgramIs
<1>2. Len(<<program[k]>>) = 1
  OBVIOUS
<1>3. Size(k) \in {1, 4, 5, 6}
  BY <1>1, <1>2 DEF GroupOK, Size, IsLoad, IsTest, IsJump, IsCall
<1>4. k = N + 1 => Size(k) = 4
  BY <1>1 DEF GroupOK, Size, IsJump
<1>5. QED
  BY <1>1, <1>3, <1>4 DEF Words

LEMMA PosIs ==
  ASSUME ProgramOK, Relocatable
  PROVE  /\ Pos(1) = 1 /\ N \in {1, 4}
         /\ \A k \in 1..N + 2 : Pos(k) \in Nat \ {0} /\ Pos(k) <= 29
         /\ \A k \in 1..N + 1 : /\ Pos(k + 1) = Pos(k) + Size(k)
                                /\ Size(k) \in {1, 4, 5, 6}
         /\ \A i, j \in 1..N + 2 : i < j => Pos(i) + Size(i) <= Pos(j)
<1>1. N \in {1, 4}
  BY ProgramIs
<1>2. /\ \A k \in 1..N + 1 : Size(k) \in Nat \ {0} /\ Size(k) <= 6
      /\ Size(N + 1) = 4
      /\ \A k \in 1..N + 1 : Size(k) \in {1, 4, 5, 6}
  BY <1>1, SizeIs
<1>3. CASE N = 1
  <2>1. PICK s1, s2 \in Nat \ {0} : s1 = Size(1) /\ s2 = Size(2) /\ s1 <= 6 /\ s2 = 4
    BY <1>2, <1>3
  <2>2. Pos(1) = 1 /\ Pos(2) = 1 + s1 /\ Pos(3) = 1 + s1 + s2
    BY <2>1 DEF Pos
  <2>3. \A k \in 1..N + 2 : k \in {1, 2, 3}
    BY <1>3
  <2>4. QED
    BY <1>1, <1>2, <1>3, <2>1, <2>2, <2>3
<1>4. CASE N = 4
  <2>1. PICK s1, s2, s3, s4, s5 \in Nat \ {0} :
          /\ s1 = Size(1) /\ s2 = Size(2) /\ s3 = Size(3) /\ s4 = Size(4) /\ s5 = Size(5)
          /\ s1 <= 6 /\ s2 <= 6 /\ s3 <= 6 /\ s4 <= 6 /\ s5 = 4
    BY <1>2, <1>4
  <2>2. /\ Pos(1) = 1 /\ Pos(2) = 1 + s1 /\ Pos(3) = 1 + s1 + s2 /\ Pos(4) = 1 + s1 + s2 + s3
        /\ Pos(5) = 1 + s1 + s2 + s3 + s4 /\ Pos(6) = 1 + s1 + s2 + s3 + s4 + s5
    BY <2>1 DEF Pos
  <2>3. \A k \in 1..N + 2 : k \in {1, 2, 3, 4, 5, 6}
    BY <1>4
  <2>4. \A k \in 1..N + 1 : Pos(k + 1) = Pos(k) + Size(k)
    <3>1. \A k \in 1..N + 1 : k \in {1, 2, 3, 4, 5}
      BY <1>4
    <3>2. QED
      BY <2>1, <2>2, <3>1
  <2>5. \A i, j \in 1..N + 2 : i < j => Pos(i) + Size(i) <= Pos(j)
    BY <2>1, <2>2, <2>3
  <2>6. \A k \in 1..N + 2 : Pos(k) \in Nat \ {0} /\ Pos(k) <= 29
    BY <2>1, <2>2, <2>3
  <2>7. QED
    BY <1>1, <1>2, <2>2, <2>4, <2>5, <2>6
<1>5. QED
  BY <1>1, <1>3, <1>4

\* One more group
LEMMA LaidNext ==
  ASSUME ProgramOK, Relocatable, NEW n \in 0..N, NEW out, Laid(out, n)
  PROVE  Laid(out \o Group(n + 1), n + 1)
<1> DEFINE g == Group(n + 1)
           r == out \o g
<1>1. /\ N \in {1, 4} /\ n + 1 \in 1..N + 1 /\ n + 2 \in 1..N + 2
      /\ Pos(n + 2) = Pos(n + 1) + Size(n + 1) /\ Pos(n + 1) \in Nat \ {0}
  BY PosIs
<1>2. out \in Seq(InstructionWord) /\ Len(out) = Pos(n + 1) - 1
  BY DEF Laid
<1>3. g \in Seq(InstructionWord) /\ Len(g) = Size(n + 1) /\ Len(g) \in Nat
  BY <1>1, SizeIs DEF Size
<1>4. /\ r \in Seq(InstructionWord) /\ Len(r) = Len(out) + Len(g)
      /\ \A i \in 1..Len(out) + Len(g) : r[i] = IF i <= Len(out) THEN out[i] ELSE g[i - Len(out)]
  BY <1>2, <1>3, ConcatProperties
<1>5. Len(r) = Pos(n + 2) - 1
  BY <1>1, <1>2, <1>3, <1>4
<1> HIDE DEF g, r
<1>6. ASSUME NEW k \in 1..n + 1, NEW j \in 1..Size(k) PROVE r[Pos(k) + j - 1] = Group(k)[j]
  <2>1. k \in 1..N + 1 /\ Pos(k) \in Nat \ {0} /\ Size(k) \in Nat
    BY <1>1, PosIs
  <2> DEFINE i == Pos(k) + j - 1
  <2>2. CASE k <= n
    <3>1. Pos(k) + Size(k) <= Pos(n + 1)
      BY <1>1, <2>2, PosIs
    <3>2. i \in 1..Len(out)
      BY <1>1, <1>2, <2>1, <3>1
    <3>3. r[i] = out[i]
      BY <1>2, <1>3, <1>4, <3>2
    <3>4. k \in 1..n
      BY <2>2
    <3>5. QED
      BY <3>3, <3>4 DEF Laid
  <2>3. CASE k = n + 1
    <3>1. j \in 1..Len(g) /\ i = Len(out) + j
      BY <1>1, <1>2, <1>3, <2>3
    <3>2. i \in 1..Len(out) + Len(g) /\ ~(i <= Len(out)) /\ i - Len(out) = j
      BY <1>2, <1>3, <3>1
    <3>3. r[i] = g[j]
      BY <1>4, <3>2
    <3>4. QED
      BY <2>3, <3>3 DEF g
  <2>4. QED
    BY <2>2, <2>3
<1>7. n + 1 + 1 = n + 2
  OBVIOUS
<1>8. QED
  BY <1>4, <1>5, <1>6, <1>7 DEF Laid, g, r

\* A word of the output is the word of a group
LEMMA LaidAt ==
  ASSUME ProgramOK, Relocatable, Laid(output, N + 1), NEW k \in 1..N + 1, NEW j \in 1..Size(k)
  PROVE  /\ Pos(k) + j - 1 \in 1..Len(output) /\ Len(output) <= 28
         /\ output[Pos(k) + j - 1] = Group(k)[j]
<1>1. /\ N \in {1, 4} /\ N + 2 \in 1..N + 2 /\ Pos(N + 2) <= 29 /\ Pos(N + 2) \in Nat
      /\ Pos(k) \in Nat \ {0} /\ Size(k) \in Nat /\ Pos(k) + Size(k) <= Pos(N + 2)
  BY PosIs
<1>2. Len(output) = Pos(N + 2) - 1
  BY <1>1 DEF Laid
<1>3. output[Pos(k) + j - 1] = Group(k)[j]
  BY DEF Laid
<1>4. Pos(k) + j - 1 >= 1 /\ Pos(k) + j - 1 <= Pos(k) + Size(k) - 1
  BY <1>1
<1>5. Pos(k) + j - 1 \in 1..Len(output) /\ Len(output) <= 28
  BY <1>1, <1>2, <1>4
<1>6. QED
  BY <1>3, <1>5

(* ------------------------------------------------------------------------ *)
(* What the instructions have done, and which of them leaves                   *)

\* FlattenSeq is a recursive function: its values, up to the fourth
LEMMA Flattened ==
  ASSUME NEW s, Len(s) \in 1..4
  PROVE  /\ Len(s) = 1 => FlattenSeq(s) = s[1]
         /\ Len(s) = 2 => FlattenSeq(s) = s[1] \o s[2]
         /\ Len(s) = 3 => FlattenSeq(s) = s[1] \o s[2] \o s[3]
         /\ Len(s) = 4 => FlattenSeq(s) = s[1] \o s[2] \o s[3] \o s[4]
<1> DEFINE n == Len(s)
           F(f) == f = [i \in 1..n |-> IF i = 1 THEN s[i] ELSE f[i - 1] \o s[i]]
           w == [i \in 1..n |-> IF i = 1 THEN s[1]
                                ELSE IF i = 2 THEN s[1] \o s[2]
                                ELSE IF i = 3 THEN s[1] \o s[2] \o s[3]
                                ELSE s[1] \o s[2] \o s[3] \o s[4]]
           flatten == CHOOSE f : F(f)
<1>1. FlattenSeq(s) = flatten[n]
  <2>1. n # 0
    OBVIOUS
  <2>2. QED
    BY <2>1, Zenon DEF FlattenSeq
<1>2. F(w)
  <2> HIDE DEF n
  <2>1. n \in 1..4
    BY DEF n
  <2>2. ASSUME NEW i \in 1..n
        PROVE w[i] = IF i = 1 THEN s[i] ELSE w[i - 1] \o s[i]
    <3>1. i \in {1, 2, 3, 4}
      BY <2>1
    <3>2. QED
      BY <2>1, <3>1
  <2>3. QED
    BY <2>2
<1>3. F(flatten)
  <2> HIDE DEF F, w
  <2>1. QED
    BY <1>2
<1> HIDE DEF flatten, w
<1>4. \A i \in 1..n : flatten[i] = IF i = 1 THEN s[i] ELSE flatten[i - 1] \o s[i]
  BY <1>3
<1> HIDE DEF F
<1>5. n \in {1, 2, 3, 4}
  OBVIOUS
<1> HIDE DEF n
<1>6. flatten[1] = s[1]
  BY <1>4, <1>5
<1>7. /\ 2 # 1 /\ 3 # 1 /\ 4 # 1 /\ 2 - 1 = 1 /\ 3 - 1 = 2 /\ 4 - 1 = 3
      /\ n >= 2 => 2 \in 1..n
      /\ n >= 3 => 3 \in 1..n
      /\ n >= 4 => 4 \in 1..n
  BY <1>5
<1>8. /\ n >= 2 => flatten[2] = flatten[1] \o s[2]
      /\ n >= 3 => flatten[3] = flatten[2] \o s[3]
      /\ n >= 4 => flatten[4] = flatten[3] \o s[4]
  BY <1>4, <1>7, Zenon
<1>9. /\ n = 1 => FlattenSeq(s) = s[1]
      /\ n = 2 => FlattenSeq(s) = s[1] \o s[2]
      /\ n = 3 => FlattenSeq(s) = s[1] \o s[2] \o s[3]
      /\ n = 4 => FlattenSeq(s) = s[1] \o s[2] \o s[3] \o s[4]
  <2>1. n = 2 => n >= 2
    OBVIOUS
  <2>2. n = 3 => n >= 2 /\ n >= 3
    OBVIOUS
  <2>3. n = 4 => n >= 2 /\ n >= 3 /\ n >= 4
    OBVIOUS
  <2>4. QED
    BY <1>1, <1>6, <1>8, <2>1, <2>2, <2>3, Zenon
<1>10. QED
  BY <1>5, <1>9, Zenon DEF n

Event == {EventsOf(k)[1] : k \in 1..4}

LEMMA EventsAre ==
  ASSUME NEW k \in 1..4
  PROVE  /\ EventsOf(k) \in Seq(Event)
         /\ OpOf(k) \in {"cbz", "b.cond", "b", "ret"} => EventsOf(k) = << >>
         /\ OpOf(k) \in {"plain", "ldr", "br", "blr"} => EventsOf(k) = <<<<"plain", program[k]>>>>
         /\ OpOf(k) = "ldr_literal" =>
              EventsOf(k) = <<<<"load", Decode(program[k]).op, Decode(program[k]).rt,
                                RealTarget(k)>>>>
         /\ OpOf(k) = "bl" => EventsOf(k) = <<<<"call", RealTarget(k)>>>>
<1> DEFINE op == OpOf(k)
           x1 == <<"plain", program[k]>>
           x2 == <<"load", Decode(program[k]).op, Decode(program[k]).rt, RealTarget(k)>>
           x3 == <<"call", RealTarget(k)>>
           x4 == <<"adr", Decode(program[k]).rt, RealTarget(k)>>
           x5 == <<"adrp", Decode(program[k]).rt, PageOf(AddressOf(k)) + Decode(program[k]).offset>>
<1>1. EventsOf(k) = CASE op \in {"plain", "ldr", "br", "blr"} -> <<x1>>
                      [] op = "ldr_literal" -> <<x2>>
                      [] op = "bl" -> <<x3>>
                      [] op = "adr" -> <<x4>>
                      [] op = "adrp" -> <<x5>>
                      [] OTHER -> << >>
  BY DEF EventsOf
<1> HIDE DEF op, x1, x2, x3, x4, x5
<1>2. /\ op \in {"plain", "ldr", "br", "blr"} => EventsOf(k) = <<x1>>
      /\ op = "ldr_literal" => EventsOf(k) = <<x2>>
      /\ op = "bl" => EventsOf(k) = <<x3>>
      /\ op = "adr" => EventsOf(k) = <<x4>>
      /\ op = "adrp" => EventsOf(k) = <<x5>>
      /\ op \notin {"plain", "ldr", "br", "blr", "ldr_literal", "bl", "adr", "adrp"} =>
           EventsOf(k) = << >>
  BY <1>1, SMT
<1>3. EventsOf(k) = << >> \/ \E x : EventsOf(k) = <<x>>
  BY <1>2
<1>4. EventsOf(k)[1] \in Event
  BY DEF Event
<1>5. EventsOf(k) \in Seq(Event)
  <2>1. ASSUME NEW x, EventsOf(k) = <<x>> PROVE EventsOf(k) \in Seq(Event)
    <3>1. x \in Event
      BY <1>4, <2>1
    <3>2. QED
      BY <2>1, <3>1
  <2>2. << >> \in Seq(Event)
    OBVIOUS
  <2>3. QED
    BY <1>3, <2>1, <2>2
<1>6. QED
  BY <1>2, <1>5 DEF op, x1, x2, x3

\* One more instruction
LEMMA EventsNext ==
  /\ EventsUpTo(0) = << >>
  /\ \A k \in 0..4 : EventsUpTo(k) \in Seq(Event)
  /\ \A k \in 1..4 : EventsUpTo(k) = EventsUpTo(k - 1) \o EventsOf(k)
<1> DEFINE E(n) == [k \in 1..n |-> EventsOf(k)]
<1>1. \A n \in 0..4 : Len(E(n)) = n /\ EventsUpTo(n) = FlattenSeq(E(n))
  BY DEF EventsUpTo
<1>2. \A n \in 0..4 : \A k \in 1..n : E(n)[k] = EventsOf(k)
  OBVIOUS
<1>3. E(0) = << >>
  OBVIOUS
<1> HIDE DEF E
<1>4. EventsUpTo(0) = << >>
  BY <1>1, <1>3 DEF FlattenSeq
<1>5. /\ EventsUpTo(1) = EventsOf(1)
      /\ EventsUpTo(2) = EventsOf(1) \o EventsOf(2)
      /\ EventsUpTo(3) = EventsOf(1) \o EventsOf(2) \o EventsOf(3)
      /\ EventsUpTo(4) = EventsOf(1) \o EventsOf(2) \o EventsOf(3) \o EventsOf(4)
  <2>1. /\ Len(E(1)) = 1 /\ Len(E(2)) = 2 /\ Len(E(3)) = 3 /\ Len(E(4)) = 4
        /\ EventsUpTo(1) = FlattenSeq(E(1)) /\ EventsUpTo(2) = FlattenSeq(E(2))
        /\ EventsUpTo(3) = FlattenSeq(E(3)) /\ EventsUpTo(4) = FlattenSeq(E(4))
    BY <1>1
  <2>2. /\ E(1)[1] = EventsOf(1)
        /\ E(2)[1] = EventsOf(1) /\ E(2)[2] = EventsOf(2)
        /\ E(3)[1] = EventsOf(1) /\ E(3)[2] = EventsOf(2) /\ E(3)[3] = EventsOf(3)
        /\ E(4)[1] = EventsOf(1) /\ E(4)[2] = EventsOf(2) /\ E(4)[3] = EventsOf(3)
        /\ E(4)[4] = EventsOf(4)
    BY <1>2
  <2>3. /\ 1 \in 1..4 /\ 2 \in 1..4 /\ 3 \in 1..4 /\ 4 \in 1..4
    OBVIOUS
  <2>4. /\ FlattenSeq(E(1)) = E(1)[1]
        /\ FlattenSeq(E(2)) = E(2)[1] \o E(2)[2]
        /\ FlattenSeq(E(3)) = E(3)[1] \o E(3)[2] \o E(3)[3]
        /\ FlattenSeq(E(4)) = E(4)[1] \o E(4)[2] \o E(4)[3] \o E(4)[4]
    BY <2>1, <2>3, Flattened, Zenon
  <2>5. QED
    BY <2>1, <2>2, <2>4, Zenon
<1>6. /\ EventsOf(1) \in Seq(Event) /\ EventsOf(2) \in Seq(Event)
      /\ EventsOf(3) \in Seq(Event) /\ EventsOf(4) \in Seq(Event)
  BY EventsAre
<1>7. << >> \o EventsOf(1) = EventsOf(1)
  BY <1>6, ConcatEmptySeq
<1>8. \A k \in 1..4 : EventsUpTo(k) = EventsUpTo(k - 1) \o EventsOf(k)
  <2>1. \A k \in 1..4 : k \in {1, 2, 3, 4}
    OBVIOUS
  <2>2. 1 - 1 = 0 /\ 2 - 1 = 1 /\ 3 - 1 = 2 /\ 4 - 1 = 3
    OBVIOUS
  <2>3. QED
    BY <1>4, <1>5, <1>7, <2>1, <2>2
<1>9. \A k \in 0..4 : EventsUpTo(k) \in Seq(Event)
  <2>1. \A s, t \in Seq(Event) : s \o t \in Seq(Event)
    BY ConcatProperties
  <2>2. << >> \in Seq(Event)
    OBVIOUS
  <2>3. \A k \in 0..4 : k \in {0, 1, 2, 3, 4}
    OBVIOUS
  <2>4. QED
    <3>1. EventsUpTo(0) \in Seq(Event) /\ EventsUpTo(1) \in Seq(Event)
      BY <1>4, <1>5, <1>6, <2>2, Zenon
    <3>2. EventsUpTo(2) \in Seq(Event)
      BY <1>5, <1>6, <2>1, Zenon
    <3>3. EventsUpTo(3) = EventsUpTo(2) \o EventsOf(3)
      BY <1>5, Zenon
    <3>4. EventsUpTo(4) = EventsUpTo(3) \o EventsOf(4)
      BY <1>5, Zenon
    <3>5. EventsUpTo(3) \in Seq(Event)
      BY <1>6, <2>1, <3>2, <3>3, Zenon
    <3>6. EventsUpTo(4) \in Seq(Event)
      BY <1>6, <2>1, <3>4, <3>5, Zenon
    <3>7. QED
      BY <2>3, <3>1, <3>2, <3>5, <3>6
<1>10. QED
  BY <1>4, <1>8, <1>9

\* No instruction before k leaves
Comes(k) == \A m \in 1..k - 1 : ~Leaves(m)

LEMMA LeavesAtIs ==
  ASSUME N \in {1, 4}, NEW k \in 1..N + 1, Comes(k)
  PROVE  /\ LeavesAt \in 1..N + 1 /\ k <= LeavesAt
         /\ k <= N /\ Leaves(k) => LeavesAt = k
         /\ k = N + 1 => LeavesAt = N + 1
<1> DEFINE P(x) == (x <= N => Leaves(x)) /\ \A j \in 1..x - 1 : ~Leaves(j)
<1>1. LeavesAt = CHOOSE x \in 1..N + 1 : P(x)
  BY DEF LeavesAt, N
<1>2. \E x \in 1..N + 1 : P(x)
  <2>1. CASE N = 1
    <3>1. Leaves(1) => P(1)
      BY <2>1
    <3>2. ~Leaves(1) => P(2)
      BY <2>1
    <3> HIDE DEF P
    <3>3. QED
      BY <2>1, <3>1, <3>2
  <2>2. CASE N = 4
    <3>1. Leaves(1) => P(1)
      BY <2>2
    <3>2. ~Leaves(1) /\ Leaves(2) => P(2)
      BY <2>2
    <3>3. ~Leaves(1) /\ ~Leaves(2) /\ Leaves(3) => P(3)
      BY <2>2
    <3>4. ~Leaves(1) /\ ~Leaves(2) /\ ~Leaves(3) /\ Leaves(4) => P(4)
      BY <2>2
    <3>5. ~Leaves(1) /\ ~Leaves(2) /\ ~Leaves(3) /\ ~Leaves(4) => P(5)
      BY <2>2
    <3> HIDE DEF P
    <3>6. QED
      BY <2>2, <3>1, <3>2, <3>3, <3>4, <3>5
  <2>3. QED
    BY <2>1, <2>2
<1>3. LeavesAt \in 1..N + 1 /\ P(LeavesAt)
  BY <1>1, <1>2
<1>4. QED
  BY <1>3 DEF Comes

(* ------------------------------------------------------------------------ *)
(* The words that the processor finds                                          *)

\* The words of g, from a on
Stored(a, g) ==
  \A j \in 1..Len(g) : InCode(a + 4 * (j - 1)) /\ Fetch(a + 4 * (j - 1)) = g[j]

GroupAt(k) == Base + 4 * (Pos(k) - 1)

LEMMA RunCode ==
  ASSUME ProgramOK, Relocatable, Laid(output, N + 1), phase # "call"
  PROVE  /\ \A k \in 1..N + 1 : Stored(GroupAt(k), Group(k))
         /\ \A a \in Nat : Clear(a) => ~InCode(a)
<1> DEFINE c == [at |-> Base, words |-> output]
<1>1. Code = {c}
  BY DEF Code
<1>2. Base \in Nat /\ Base % 4 = 0 /\ NULL \notin Int
  BY Bounds DEF Relocatable, Layout
<1>3. Len(output) \in Nat /\ Len(output) <= 28
  <2>1. N + 1 \in 1..N + 1 /\ 1 \in 1..Size(N + 1)
    BY PosIs
  <2>2. QED
    BY <2>1, LaidAt DEF Laid
<1>4. ASSUME NEW a \in Nat, Clear(a) PROVE ~InCode(a)
  <2>1. ~Holds(c, a)
    BY <1>2, <1>3, <1>4 DEF Holds, Clear, OutputMax
  <2>2. QED
    BY <1>1, <2>1 DEF InCode
<1>5. ASSUME NEW p \in 1..Len(output)
      PROVE  InCode(Base + 4 * (p - 1)) /\ Fetch(Base + 4 * (p - 1)) = output[p]
  <2> DEFINE a == Base + 4 * (p - 1)
  <2>1. /\ a \in Int /\ a % 4 = 0 /\ a >= Base /\ a < Base + 4 * Len(output)
        /\ (a - Base) \div 4 + 1 = p
    BY <1>2, <1>3
  <2> HIDE DEF a
  <2>2. Holds(c, a)
    BY <2>1 DEF Holds
  <2>3. InCode(a)
    BY <1>1, <1>2, <2>1, <2>2 DEF InCode
  <2>4. (CHOOSE x \in Code : Holds(x, a)) = c
    BY <1>1, <2>2
  <2>5. Fetch(a) = output[p]
    <3>1. c.at = Base /\ c.words = output
      OBVIOUS
    <3> HIDE DEF c
    <3>2. Fetch(a) = c.words[(a - c.at) \div 4 + 1]
      BY <2>4, Zenon DEF Fetch
    <3>3. QED
      BY <2>1, <3>1, <3>2
  <2>6. QED
    BY <2>3, <2>5 DEF a
<1>6. ASSUME NEW k \in 1..N + 1 PROVE Stored(GroupAt(k), Group(k))
  <2>1. Pos(k) \in Nat \ {0} /\ Size(k) \in Nat
    BY PosIs
  <2>2. ASSUME NEW j \in 1..Size(k)
        PROVE  /\ InCode(Base + 4 * (Pos(k) - 1) + 4 * (j - 1))
               /\ Fetch(Base + 4 * (Pos(k) - 1) + 4 * (j - 1)) = Group(k)[j]
    <3>1. /\ Pos(k) + j - 1 \in 1..Len(output)
          /\ output[Pos(k) + j - 1] = Group(k)[j]
      BY LaidAt
    <3>2. Base + 4 * ((Pos(k) + j - 1) - 1) = Base + 4 * (Pos(k) - 1) + 4 * (j - 1)
      BY <1>2, <2>1
    <3>3. QED
      BY <1>5, <3>1, <3>2
  <2>3. QED
    BY <2>2 DEF Stored, Size, GroupAt
<1>7. QED
  BY <1>4, <1>6

LEMMA CallCode ==
  ASSUME ProgramOK, Relocatable, phase = "call", limit = 4 * N
  PROVE  /\ Stored(Start, Patch) /\ Stored(cave, EnterTransfer)
         /\ IsJump(EnterTransfer, Enter)
         /\ N = 1 => /\ Len(Patch) = 1
                     /\ Decode(Patch[1]) = Op(<<"b">>, 0, 0, cave - Start)
         /\ N = 4 => IsJump(Patch, Enter)
<1> DEFINE c1 == [at |-> Start, words |-> Patch]
           c2 == [at |-> cave, words |-> EnterTransfer]
<1>1. Code = {c1, c2}
  BY DEF Code
<1>2. /\ N \in {1, 4} /\ Start \in Nat /\ Start % 4 = 0 /\ NULL \notin Int
      /\ cave \in Nat /\ cave % 4 = 0 /\ Enter \in Nat /\ Enter <= 2^30
      /\ cave - Start >= -(2^27) /\ cave - Start < 2^27
      /\ cave >= Start + 16 \/ cave + 16 <= Start
  BY ProgramIs, Bounds DEF Relocatable, Layout, ProgramOK
<1>3. IsJump(JumpTo(Enter), Enter)
  BY <1>2, JumpWords
<1>4. N = 1 => Patch = <<put_b_imm(cave - Start)>>
  BY DEF Patch, ARM64_TINY_REDIRECT_SIZE
<1>5. N = 4 => Patch = JumpTo(Enter)
  BY DEF Patch, ARM64_TINY_REDIRECT_SIZE
<1>6. N = 1 => /\ Len(Patch) = 1
               /\ Decode(Patch[1]) = Op(<<"b">>, 0, 0, cave - Start)
  <2>1. (cave - Start) % 4 = 0 /\ cave - Start \in Int
    BY <1>2
  <2>2. Decode(put_b_imm(cave - Start)) = Op(<<"b">>, 0, 0, cave - Start)
    BY <1>2, <2>1, BranchWord
  <2>3. QED
    BY <1>4, <2>2
<1>7. Len(Patch) \in {1, 4} /\ Len(EnterTransfer) = 4
  BY <1>2, <1>3, <1>5, <1>6 DEF EnterTransfer, IsJump
<1>8. ASSUME NEW c \in Code, NEW j \in 1..Len(c.words)
      PROVE  /\ InCode(c.at + 4 * (j - 1))
             /\ Fetch(c.at + 4 * (j - 1)) = c.words[j]
  <2> DEFINE a == c.at + 4 * (j - 1)
  <2>1. /\ c1.at = Start /\ c1.words = Patch /\ c2.at = cave /\ c2.words = EnterTransfer
        /\ c.at \in Nat /\ c.at % 4 = 0 /\ Len(c.words) \in {1, 4}
    BY <1>1, <1>2, <1>7
  <2>2. /\ a \in Int /\ a % 4 = 0 /\ a >= c.at /\ a < c.at + 4 * Len(c.words)
        /\ (a - c.at) \div 4 + 1 = j
    <3>1. PICK b \in Nat, l \in {1, 4} : b = c.at /\ b % 4 = 0 /\ l = Len(c.words)
      BY <2>1
    <3>2. j \in 1..l /\ a = b + 4 * (j - 1)
      BY <3>1
    <3> HIDE DEF a
    <3>3. a \in Int /\ a % 4 = 0 /\ a >= b /\ a < b + 4 * l
      BY <3>1, <3>2
    <3>4. (a - b) \div 4 + 1 = j
      <4>1. \A x \in Nat : (4 * x) \div 4 = x
        OBVIOUS
      <4>2. a - b = 4 * (j - 1) /\ j - 1 \in Nat /\ (j - 1) + 1 = j
        BY <3>1, <3>2
      <4>3. QED
        BY <4>1, <4>2
    <3>5. QED
      BY <3>1, <3>3, <3>4
  <2> HIDE DEF a
  <2>3. Holds(c, a)
    BY <2>2 DEF Holds
  <2>4. InCode(a)
    BY <1>2, <2>2, <2>3 DEF InCode
  <2>5. \A x \in Code : Holds(x, a) => x = c
    <3>1. ~(Holds(c1, a) /\ Holds(c2, a))
      <4> HIDE DEF c1, c2
      <4>1. Holds(c1, a) => a >= Start /\ a < Start + 16
        <5>1. Holds(c1, a) => a >= Start /\ a < Start + 4 * Len(Patch)
          BY <2>1, Zenon DEF Holds
        <5>2. PICK l \in {1, 4} : l = Len(Patch)
          BY <1>7
        <5>3. Start \in Nat /\ a \in Int /\ (a < Start + 4 * l => a < Start + 16)
          BY <1>2, <2>2
        <5>4. QED
          BY <5>1, <5>2, <5>3, Zenon
      <4>2. Holds(c2, a) => a >= cave /\ a < cave + 16
        <5>1. Holds(c2, a) => a >= cave /\ a < cave + 4 * Len(EnterTransfer)
          BY <2>1, Zenon DEF Holds
        <5>2. QED
          BY <1>2, <1>7, <2>2, <5>1
      <4>3. QED
        BY <1>2, <2>2, <4>1, <4>2
    <3> HIDE DEF c1, c2
    <3>2. QED
      BY <1>1, <2>3, <3>1
  <2>6. (CHOOSE x \in Code : Holds(x, a)) = c
    BY <2>3, <2>5
  <2>7. Fetch(a) = c.words[j]
    <3>1. Fetch(a) = c.words[(a - c.at) \div 4 + 1]
      BY <2>6, Zenon DEF Fetch
    <3>2. QED
      BY <2>2, <3>1
  <2>8. QED
    BY <2>4, <2>7 DEF a
<1>9. Stored(Start, Patch) /\ Stored(cave, EnterTransfer)
  <2>1. /\ c1 \in Code /\ c1.at = Start /\ c1.words = Patch
        /\ c2 \in Code /\ c2.at = cave /\ c2.words = EnterTransfer
    BY <1>1
  <2> HIDE DEF c1, c2
  <2>2. QED
    BY <1>8, <2>1 DEF Stored
<1>10. QED
  BY <1>3, <1>5, <1>6, <1>9 DEF EnterTransfer

\* An address among the words
LEMMA StoredAddress ==
  ASSUME NEW a \in Int, NEW g, NEW x, Stored(a, g), Len(g) \in Nat,
         NEW j \in Nat \ {0}, j + 1 <= Len(g),
         HoldsAddress(g[j], g[j + 1], x)
  PROVE  InCode(a + 4 * (j - 1)) /\ Doubleword(a + 4 * (j - 1)) = x
<1> DEFINE b == a + 4 * (j - 1)
<1>1. j \in 1..Len(g) /\ j + 1 \in 1..Len(g) /\ a + 4 * ((j + 1) - 1) = b + 4
  OBVIOUS
<1>2. InCode(b) /\ Fetch(b) = g[j] /\ InCode(b + 4) /\ Fetch(b + 4) = g[j + 1]
  BY <1>1 DEF Stored
<1> HIDE DEF b
<1>3. Doubleword(b) = x
  BY <1>2 DEF Doubleword, HoldsAddress
<1>4. QED
  BY <1>2, <1>3 DEF b

(* ------------------------------------------------------------------------ *)
(* What a word does                                                            *)

LEMMA GoInside ==
  ASSUME NEW a, NEW es, Go(a, es), InCode(a), phase # "call"
  PROVE  events' = events \o es /\ pc' = a /\ phase' = phase /\ exit' = exit
BY DEF Go

LEMMA GoOutside ==
  ASSUME NEW a, NEW es, Go(a, es), ~InCode(a), phase # "call"
  PROVE  events' = events \o es /\ phase' = "left" /\ exit' = a /\ pc' = pc
BY DEF Go

LEMMA GoCall ==
  ASSUME NEW a, NEW es, Go(a, es), phase = "call", InCode(a) \/ a = Enter
  PROVE  /\ events' = events \o es /\ exit' = exit
         /\ \/ a = Enter /\ phase' = "run" /\ pc' = Base
            \/ a # Enter /\ phase' = "call" /\ pc' = a
BY DEF Go

LEMMA Executes ==
  ASSUME NEW w, Execute(w)
  PROVE  LET i == Decode(w)
             op == i.op[1]
         IN  /\ op = "ldr_literal" => Load(i, pc + i.offset)
             /\ op = "ldr" =>
                  IF regs[i.rn] = NULL
                  THEN regs' = [regs EXCEPT ![i.rt] = NULL] /\ Go(pc + 4, <<<<"plain", w>>>>)
                  ELSE Load([i EXCEPT !.op = LoadX], regs[i.rn] + i.offset)
             /\ op \in {"cbz", "tbz", "b.cond"} =>
                  /\ Go(pc + (IF taken[InstructionAt(pc)] THEN i.offset ELSE 4), << >>)
                  /\ regs' = regs
             /\ op = "b" => Go(pc + i.offset, << >>) /\ regs' = regs
             /\ op = "br" =>
                  /\ Go(regs[i.rn], IF regs[i.rn] = NULL THEN <<<<"plain", w>>>> ELSE << >>)
                  /\ regs' = regs
             /\ op = "blr" =>
                  /\ Go(pc + 4, IF regs[i.rn] = NULL THEN <<<<"plain", w>>>>
                                ELSE <<<<"call", regs[i.rn]>>>>)
                  /\ regs' = regs
             /\ op = "ret" => Go(Caller, << >>) /\ regs' = regs
             /\ op = "plain" => Go(pc + 4, <<<<"plain", w>>>>) /\ regs' = regs
<1> DEFINE i == Decode(w)
           op == i.op[1]
<1> HIDE DEF i
<1>1. CASE op = "ldr_literal"
  BY <1>1 DEF Execute, i
<1>2. CASE op = "ldr"
  BY <1>2 DEF Execute, i
<1>3. CASE op \in {"cbz", "tbz", "b.cond"}
  BY <1>3 DEF Execute, i
<1>4. CASE op = "b"
  BY <1>4 DEF Execute, i
<1>5. CASE op = "br"
  BY <1>5 DEF Execute, i
<1>6. CASE op = "blr"
  BY <1>6 DEF Execute, i
<1>7. CASE op = "ret"
  BY <1>7 DEF Execute, i
<1>8. CASE op = "plain"
  BY <1>8 DEF Execute, i
<1>9. QED
  BY <1>1, <1>2, <1>3, <1>4, <1>5, <1>6, <1>7, <1>8 DEF i

\* The words of the groups
LEMMA RunLoad ==
  ASSUME Run, NEW rt, NEW off, Decode(Fetch(pc)) = Op(LoadX, rt, 0, off), InCode(pc + off)
  PROVE  regs' = [regs EXCEPT ![rt] = Doubleword(pc + off)] /\ Go(pc + 4, << >>)
<1> DEFINE i == Decode(Fetch(pc))
<1>1. Execute(Fetch(pc))
  BY DEF Run
<1>2. i.op[1] = "ldr_literal" /\ i.offset = off /\ i.rt = rt
  BY DEF Op, LoadX
<1>3. Load(i, pc + off)
  <2> HIDE DEF i
  <2>1. i.op[1] = "ldr_literal" => Load(i, pc + i.offset)
    BY <1>1, Executes DEF i
  <2>2. QED
    BY <1>2, <2>1
<1> HIDE DEF i
<1>4. QED
  BY <1>2, <1>3 DEF Load

LEMMA RunLoadReg ==
  ASSUME Run, NEW rt, Decode(Fetch(pc)) = Op(<<"ldr">>, rt, rt, 0), regs[rt] \in Nat,
         regs[rt] # NULL, ~InCode(regs[rt])
  PROVE  regs' = [regs EXCEPT ![rt] = NULL] /\ Go(pc + 4, <<<<"load", LoadX, rt, regs[rt]>>>>)
<1> DEFINE i == Decode(Fetch(pc))
           j == [i EXCEPT !.op = LoadX]
<1>1. Execute(Fetch(pc))
  BY DEF Run
<1>2. i.op[1] = "ldr" /\ i.rn = rt /\ i.offset = 0 /\ j.op = LoadX /\ j.rt = rt
  BY DEF Op
<1>3. Load(j, regs[rt])
  <2> HIDE DEF i
  <2>1. i.op[1] = "ldr" /\ regs[i.rn] # NULL => Load(j, regs[i.rn] + i.offset)
    BY <1>1, Executes DEF i
  <2>2. regs[rt] + i.offset = regs[rt]
    BY <1>2
  <2> HIDE DEF j
  <2>3. QED
    BY <1>2, <2>1, <2>2
<1> HIDE DEF i, j
<1>4. QED
  BY <1>2, <1>3 DEF Load

LEMMA RunTest ==
  ASSUME Run, Decode(Fetch(pc)).op[1] \in {"cbz", "b.cond"}
  PROVE  /\ regs' = regs
         /\ Go(pc + (IF taken[InstructionAt(pc)] THEN Decode(Fetch(pc)).offset ELSE 4), << >>)
BY Executes DEF Run

LEMMA RunBranch ==
  ASSUME Run, NEW off, Decode(Fetch(pc)) = Op(<<"b">>, 0, 0, off)
  PROVE  regs' = regs /\ Go(pc + off, << >>)
<1>1. Execute(Fetch(pc))
  BY DEF Run
<1>2. Decode(Fetch(pc)).op[1] = "b" /\ Decode(Fetch(pc)).offset = off
  BY DEF Op
<1>3. QED
  BY <1>1, <1>2, Executes

LEMMA RunBranchReg ==
  ASSUME Run, Decode(Fetch(pc)) = Op(<<"br">>, 0, 17, 0), regs[17] # NULL
  PROVE  regs' = regs /\ Go(regs[17], << >>)
<1>1. Execute(Fetch(pc))
  BY DEF Run
<1>2. Decode(Fetch(pc)).op[1] = "br" /\ Decode(Fetch(pc)).rn = 17
  BY DEF Op
<1>3. QED
  BY <1>1, <1>2, Executes

LEMMA RunCall ==
  ASSUME Run, Decode(Fetch(pc)) = Op(<<"blr">>, 0, 17, 0), regs[17] # NULL
  PROVE  regs' = regs /\ Go(pc + 4, <<<<"call", regs[17]>>>>)
<1>1. Execute(Fetch(pc))
  BY DEF Run
<1>2. Decode(Fetch(pc)).op[1] = "blr" /\ Decode(Fetch(pc)).rn = 17
  BY DEF Op
<1>3. QED
  BY <1>1, <1>2, Executes

(* ------------------------------------------------------------------------ *)
(* The inductive invariant                                                     *)

\* The registers hold what the program put there, those in X and x17 apart
Own(r, X) == \A n \in ARM64Reg \ ({17} \cup X) : r[n] = NULL

\* At word j of group k, what the words before it have left in the registers r, and what
\* has been done
Midway(r, k, j) ==
  \/ j = 1 /\ Own(r, {})
  \/ /\ k <= N /\ OpOf(k) = "ldr_literal" /\ Own(r, {Decode(program[k]).rt})
     /\ j \in {2, 5} /\ r[Decode(program[k]).rt] = Dest(k)
  \/ /\ k <= N /\ OpOf(k) \in {"cbz", "b.cond"} /\ Own(r, {})
     /\ \/ j = 2 /\ ~taken[k]
        \/ j = 3 /\ taken[k]
        \/ j = 4 /\ taken[k] /\ r[17] = Dest(k)
  \/ (k <= N => OpOf(k) = "b") /\ j = 2 /\ r[17] = Dest(k)
  \/ /\ k <= N /\ OpOf(k) = "bl" /\ Own(r, {})
     /\ (j = 2 /\ r[17] = Dest(k)) \/ j = 3
EventsAt(k, j) == EventsUpTo(IF k <= N /\ OpOf(k) = "bl" /\ j = 3 THEN k ELSE k - 1)

\* With the pc p, the registers r and the events e
AtWord(p, r, e, k, j) ==
  /\ p = GroupAt(k) + 4 * (j - 1)
  /\ Comes(k) /\ e = EventsAt(k, j) /\ Midway(r, k, j)
InGroup(p, r, e) == \E k \in 1..N + 1 : \E j \in 1..Size(k) : AtWord(p, r, e, k, j)
HasLeft(e, x) == e = OriginalEvents /\ x = OriginalExit

\* On the way to the handler: the patch, and the trampoline where the patch is one branch
OnTheWay(p, r) ==
  \/ p = Start
  \/ N = 1 /\ p = cave
  \/ (p = cave + 4 \/ (N = 4 /\ p = Start + 4)) /\ r[17] = Enter

Indexes(n) == [k \in 1..n |-> Pos(k)]
Writing == {"relocate", "finish", "double_write"}
Written == {"call", "run", "left"}

InputInv ==
  /\ ProgramOK /\ phase \in {"prepare"} \cup Writing \cup Written
  /\ limit = (IF phase = "prepare" THEN 0 ELSE 4 * N)
  /\ phase \in {"prepare"} \cup Written => input = 0 /\ io_indexs = << >>
  /\ phase = "relocate" => input \in 0..N - 1
  /\ phase \in {"finish", "double_write"} => input = N
  /\ phase \in Writing => io_indexs = Indexes(input)
OutputInv ==
  /\ phase = "prepare" => output = << >>
  /\ phase \in {"relocate", "finish"} => Laid(output, input)
  /\ phase \in {"double_write"} \cup Written => Laid(output, N + 1)
  /\ phase \in {"prepare"} \cup Writing => begins = io_indexs
  /\ phase \in Written => begins = Indexes(N)
CpuInv ==
  /\ pc \in Nat /\ DOMAIN regs = ARM64Reg
  /\ phase \notin {"run", "left"} => events = << >> /\ Own(regs, {})
  /\ phase = "call" => OnTheWay(pc, regs)
  /\ phase = "run" => InGroup(pc, regs, events)
  /\ phase = "left" => HasLeft(events, exit)
RelocatedInv == InputInv /\ OutputInv /\ CpuInv

\* What the program alone determines stays
LEMMA Rigid ==
  ASSUME inputVars' = inputVars
  PROVE  /\ N' = N /\ (ProgramOK => ProgramOK')
         /\ \A k : Group(k)' = Group(k) /\ Size(k)' = Size(k) /\ Pos(k)' = Pos(k)
         /\ \A k : Dest(k)' = Dest(k) /\ OpOf(k)' = OpOf(k) /\ EventsUpTo(k)' = EventsUpTo(k)
         /\ \A k : Leaves(k)' = Leaves(k) /\ Comes(k)' = Comes(k)
         /\ OriginalEvents' = OriginalEvents /\ OriginalExit' = OriginalExit
<1>1. program' = program /\ taken' = taken /\ cave' = cave
  BY DEF inputVars
<1>2. N' = N
  BY <1>1 DEF N
<1>3. ProgramOK => ProgramOK'
  BY <1>1, <1>2 DEF ProgramOK
<1>4. \A k : Group(k)' = Group(k)
  BY <1>1, <1>2 DEF Group, ReadInst
<1>5. \A k : Size(k)' = Size(k)
  BY <1>4 DEF Size
<1>6. \A k : Pos(k)' = Pos(k)
  BY <1>5 DEF Pos
<1>7. \A k : OpOf(k)' = OpOf(k) /\ RealTarget(k)' = RealTarget(k)
  BY <1>1 DEF OpOf, RealTarget, AddressOf
<1>8. \A k : Dest(k)' = Dest(k)
  BY <1>2, <1>7 DEF Dest
<1>9. \A k : EventsOf(k)' = EventsOf(k)
  BY <1>1, <1>7 DEF EventsOf, AddressOf
<1>10. \A k : EventsUpTo(k)' = EventsUpTo(k)
  BY <1>9 DEF EventsUpTo
<1>11. \A k : Leaves(k)' = Leaves(k)
  BY <1>1, <1>7 DEF Leaves
<1>12. \A k : Comes(k)' = Comes(k)
  BY <1>11 DEF Comes
<1>13. LeavesAt' = LeavesAt
  BY <1>1, <1>11 DEF LeavesAt
<1>14. OriginalEvents' = OriginalEvents
  BY <1>1, <1>10, <1>13 DEF OriginalEvents
<1>15. OriginalExit' = OriginalExit
  <2>1. \A k : ExitOf(k)' = ExitOf(k)
    BY <1>7 DEF ExitOf
  <2>2. QED
    BY <1>1, <1>13, <2>1 DEF OriginalExit
<1>16. QED
  BY <1>2, <1>3, <1>4, <1>5, <1>6, <1>7, <1>8, <1>10, <1>11, <1>12, <1>14, <1>15
LEMMA LaidRigid ==
  ASSUME inputVars' = inputVars
  PROVE  /\ Laid(output, input)' <=> Laid(output', input')
         /\ Laid(output, N + 1)' <=> Laid(output', N + 1)
         /\ Indexes(input)' = Indexes(input') /\ Indexes(N)' = Indexes(N)
<1>1. /\ N' = N
      /\ \A k : Group(k)' = Group(k) /\ Size(k)' = Size(k) /\ Pos(k)' = Pos(k)
  BY Rigid
<1>2. Laid(output, input)' <=> Laid(output', input')
  BY <1>1 DEF Laid
<1>3. Laid(output, N + 1)' <=> Laid(output', N + 1)
  BY <1>1 DEF Laid
<1>4. Indexes(input)' = Indexes(input') /\ Indexes(N)' = Indexes(N)
  BY <1>1 DEF Indexes
<1>5. QED
  BY <1>2, <1>3, <1>4

(* ------------------------------------------------------------------------ *)
(* The relocator's steps                                                       *)

LEMMA InitRelocated == Init => RelocatedInv
<1> SUFFICES ASSUME Init PROVE RelocatedInv
  OBVIOUS
<1>1. ProgramOK
  BY DEF Init, ProgramOK, N
<1>2. InputInv
  BY <1>1 DEF Init, InputInv, NewRelocator, Writing, Written
<1>3. OutputInv
  BY DEF Init, OutputInv, NewRelocator, Writing, Written
<1>4. CpuInv
  BY Bounds DEF Init, CpuInv, Own
<1>5. QED
  BY <1>2, <1>3, <1>4 DEF RelocatedInv

LEMMA LimitIs ==
  ASSUME ProgramOK, Relocatable
  PROVE  Limit = 4 * N
<1>1. N \in {1, 4}
  BY ProgramIs
<1>2. CASE N = 1
  BY <1>2 DEF Limit, N, ARM64_TINY_REDIRECT_SIZE
<1>3. CASE N = 4
  <2>1. ASSUME NEW k \in 1..4 PROVE getInstType(program[k]) # "BImm"
    <3>1. k \in 1..N + 1 /\ k <= N /\ k \in 1..N
      BY <1>3
    <3>2. Moves(program[k]) /\ program[k] \in InstructionWord
      BY <3>1, DestIs, ProgramIs
    <3>3. QED
      BY <3>2, MovesClass
  <2>2. try_relocate(ARM64_FULL_REDIRECT_SIZE) = 0
    BY <2>1 DEF try_relocate, ARM64_FULL_REDIRECT_SIZE
  <2>3. QED
    BY <1>3, <2>2 DEF Limit, N, ARM64_TINY_REDIRECT_SIZE, ARM64_FULL_REDIRECT_SIZE
<1>4. QED
  BY <1>1, <1>2, <1>3

LEMMA PrepareRelocated ==
  ASSUME RelocatedInv, Relocatable, Prepare
  PROVE  RelocatedInv'
<1>1. /\ phase = "prepare" /\ phase' = "relocate" /\ limit' = Limit
      /\ inputVars' = inputVars /\ cpuVars' = cpuVars
      /\ input' = input /\ io_indexs' = io_indexs /\ output' = output /\ begins' = begins
  BY DEF Prepare
<1>2. /\ ProgramOK /\ input = 0 /\ io_indexs = << >> /\ output = << >>
      /\ begins = << >> /\ pc \in Nat /\ DOMAIN regs = ARM64Reg /\ events = << >>
      /\ Own(regs, {})
  BY <1>1 DEF RelocatedInv, InputInv, OutputInv, CpuInv
<1>3. N \in {1, 4} /\ Limit = 4 * N /\ Pos(1) = 1
  BY <1>2, LimitIs, PosIs
<1>4. Indexes(0) = << >>
  BY DEF Indexes
<1>5. Laid(<< >>, 0)
  <2>1. Len(<< >>) = Pos(0 + 1) - 1 /\ << >> \in Seq(InstructionWord)
    BY <1>3
  <2>2. QED
    BY <2>1 DEF Laid
<1>6. ProgramOK' /\ N' = N
  BY <1>1, <1>2, Rigid
<1>7. InputInv'
  BY <1>1, <1>2, <1>3, <1>4, <1>6, LaidRigid DEF InputInv, Writing, Written
<1>8. OutputInv'
  BY <1>1, <1>2, <1>5, LaidRigid DEF OutputInv, Writing, Written
<1>9. CpuInv'
  BY <1>1, <1>2 DEF CpuInv, cpuVars, Own
<1>10. QED
  BY <1>7, <1>8, <1>9 DEF RelocatedInv

LEMMA ReadRelocated ==
  ASSUME RelocatedInv, Relocatable, ReadAndRelocate
  PROVE  RelocatedInv'
<1>1. /\ phase = "relocate" /\ limit' = limit /\ input' = input + 1
      /\ io_indexs' = Append(io_indexs, Len(output) + 1)
      /\ output' = output \o relocate_write(ReadInst(input'))
      /\ begins' = io_indexs'
      /\ phase' = (IF 4 * input' < limit THEN "relocate" ELSE "finish")
      /\ inputVars' = inputVars /\ cpuVars' = cpuVars
  BY DEF ReadAndRelocate
<1>2. /\ ProgramOK /\ input \in 0..N - 1 /\ io_indexs = Indexes(input)
      /\ limit = 4 * N /\ Laid(output, input)
      /\ pc \in Nat /\ DOMAIN regs = ARM64Reg /\ events = << >> /\ Own(regs, {})
  BY <1>1 DEF RelocatedInv, InputInv, OutputInv, CpuInv, Writing, Written
<1>3. N \in {1, 4} /\ input + 1 \in 1..N /\ input \in 0..N
  BY <1>2, ProgramIs
<1>4. ReadInst(input') = ReadInst(input + 1)
  BY <1>1
<1>5. output' = output \o Group(input + 1)
  BY <1>1, <1>3, <1>4 DEF Group
<1>6. Laid(output', input')
  BY <1>1, <1>2, <1>3, <1>5, LaidNext
<1>7. io_indexs' = Indexes(input')
  <2>1. Len(output) + 1 = Pos(input + 1)
    <3>1. Pos(input + 1) \in Nat
      BY <1>2, <1>3, PosIs
    <3>2. QED
      BY <1>2, <3>1 DEF Laid
  <2>2. Append(Indexes(input), Pos(input + 1)) = Indexes(input + 1)
    <3>1. input \in Nat
      BY <1>3
    <3>2. QED
      BY <3>1 DEF Indexes
  <2>3. QED
    BY <1>1, <1>2, <2>1, <2>2
<1>8. \/ phase' = "relocate" /\ input' \in 0..N - 1
      \/ phase' = "finish" /\ input' = N
  <2>1. \A n \in {1, 4} : \A i \in 0..n - 1 :
          IF 4 * (i + 1) < 4 * n THEN i + 1 \in 0..n - 1 ELSE i + 1 = n
    OBVIOUS
  <2>2. 4 * input' < limit <=> 4 * (input + 1) < 4 * N
    BY <1>1, <1>2
  <2>3. CASE 4 * input' < limit
    <3>1. phase' = "relocate"
      BY <1>1, <2>3, Zenon
    <3>2. input + 1 \in 0..N - 1
      BY <1>2, <1>3, <2>1, <2>2, <2>3
    <3>3. QED
      BY <1>1, <3>1, <3>2
  <2>4. CASE ~(4 * input' < limit)
    BY <1>1, <1>2, <1>3, <2>1, <2>2, <2>4
  <2>5. QED
    BY <2>3, <2>4
<1>9. ProgramOK' /\ N' = N
  BY <1>1, <1>2, Rigid
<1>10. InputInv'
  BY <1>1, <1>2, <1>7, <1>8, <1>9, LaidRigid DEF InputInv, Writing, Written
<1>11. OutputInv'
  BY <1>1, <1>6, <1>8, LaidRigid DEF OutputInv, Writing, Written
<1>12. CpuInv'
  BY <1>1, <1>2, <1>8 DEF CpuInv, cpuVars, Own
<1>13. QED
  BY <1>10, <1>11, <1>12 DEF RelocatedInv

LEMMA PutJumpBackRelocated ==
  ASSUME RelocatedInv, Relocatable, PutJumpBack
  PROVE  RelocatedInv'
<1>1. /\ phase = "finish" /\ phase' = "double_write"
      /\ output' = output \o JumpTo(Start + 4 * input)
      /\ inputVars' = inputVars /\ cpuVars' = cpuVars /\ limit' = limit
      /\ input' = input /\ io_indexs' = io_indexs /\ begins' = begins
  BY DEF PutJumpBack
<1>2. /\ ProgramOK /\ input = N /\ io_indexs = Indexes(input) /\ begins = io_indexs
      /\ limit = 4 * N /\ Laid(output, N)
      /\ pc \in Nat /\ DOMAIN regs = ARM64Reg /\ events = << >> /\ Own(regs, {})
  BY <1>1 DEF RelocatedInv, InputInv, OutputInv, CpuInv, Writing, Written
<1>3. N \in {1, 4}
  BY <1>2, ProgramIs
<1>4. output' = output \o Group(N + 1)
  BY <1>1, <1>2, <1>3 DEF Group
<1>5. Laid(output', N + 1)
  BY <1>2, <1>3, <1>4, LaidNext
<1>6. ProgramOK' /\ N' = N
  BY <1>1, <1>2, Rigid
<1>7. InputInv'
  BY <1>1, <1>2, <1>6, LaidRigid DEF InputInv, Writing, Written
<1>8. OutputInv'
  BY <1>1, <1>2, <1>5, LaidRigid DEF OutputInv, Writing, Written
<1>9. CpuInv'
  BY <1>1, <1>2 DEF CpuInv, cpuVars, Own
<1>10. QED
  BY <1>7, <1>8, <1>9 DEF RelocatedInv

LEMMA DoubleWriteRelocated ==
  ASSUME RelocatedInv, Relocatable, DoubleWrite
  PROVE  RelocatedInv'
<1>1. /\ phase = "double_write" /\ phase' = "call" /\ pc' = Start
      /\ input' = 0 /\ io_indexs' = << >>
      /\ output' = << >> \o SubSeq(output, Len(<< >>) + 1, Len(output))
      /\ inputVars' = inputVars /\ limit' = limit /\ begins' = begins
      /\ regs' = regs /\ events' = events /\ exit' = exit
  BY DEF DoubleWrite, ResetRelocator
<1>2. /\ ProgramOK /\ input = N /\ begins = Indexes(input)
      /\ limit = 4 * N /\ Laid(output, N + 1)
      /\ DOMAIN regs = ARM64Reg /\ events = << >> /\ Own(regs, {})
  BY <1>1 DEF RelocatedInv, InputInv, OutputInv, CpuInv, Writing, Written
<1>3. output' = output
  <2>1. output \in Seq(InstructionWord)
    BY <1>2 DEF Laid
  <2>2. SubSeq(output, 0 + 1, Len(output)) = output
    BY <2>1
  <2>3. << >> \o output = output
    BY <2>1, ConcatEmptySeq
  <2>4. Len(<< >>) = 0
    OBVIOUS
  <2>5. QED
    BY <1>1, <2>2, <2>3, <2>4
<1>4. ProgramOK' /\ N' = N /\ Start \in Nat
  BY <1>1, <1>2, Bounds, Rigid
<1>5. InputInv'
  BY <1>1, <1>2, <1>4, LaidRigid DEF InputInv, Writing, Written
<1>6. OutputInv'
  BY <1>1, <1>2, <1>3, LaidRigid DEF OutputInv, Writing, Written
<1>7. CpuInv'
  BY <1>1, <1>2, <1>4 DEF CpuInv, OnTheWay, Own
<1>8. QED
  BY <1>5, <1>6, <1>7 DEF RelocatedInv

(* ------------------------------------------------------------------------ *)
(* The processor's steps                                                       *)

\* x17 is the library's; the word that is loaded from is the program's when it is loaded
LEMMA OwnIs ==
  ASSUME DOMAIN regs = ARM64Reg, NEW X, NEW n, NEW v
  PROVE  /\ Own(regs, X) => Own([regs EXCEPT ![17] = v], X)
         /\ Own(regs, {}) => Own([regs EXCEPT ![n] = v], {n})
         /\ Own(regs, {n}) \/ Own(regs, {}) => Own([regs EXCEPT ![n] = NULL], {})
BY DEF Own

\* The word j of g loads rt with the address m words behind it
LEMMA LoadsAddress ==
  ASSUME Run, NEW a \in Nat, NEW g, Len(g) \in Nat, Stored(a, g), NEW j \in 1..Len(g),
         NEW rt, NEW m \in {2, 3}, NEW x, pc = a + 4 * (j - 1),
         Decode(g[j]) = Op(LoadX, rt, 0, 4 * m), j + m + 1 <= Len(g),
         HoldsAddress(g[j + m], g[j + m + 1], x)
  PROVE  regs' = [regs EXCEPT ![rt] = x] /\ Go(a + 4 * j, << >>)
<1>1. Fetch(pc) = g[j]
  BY DEF Stored
<1>2. /\ pc + 4 * m = a + 4 * ((j + m) - 1) /\ j + m \in Nat \ {0} /\ (j + m) + 1 <= Len(g)
      /\ pc + 4 = a + 4 * j
  OBVIOUS
<1>3. InCode(a + 4 * ((j + m) - 1)) /\ Doubleword(a + 4 * ((j + m) - 1)) = x
  <2>1. \A b \in Int : \A n \in Nat \ {0} :
          Stored(b, g) /\ n + 1 <= Len(g) /\ HoldsAddress(g[n], g[n + 1], x) =>
            InCode(b + 4 * (n - 1)) /\ Doubleword(b + 4 * (n - 1)) = x
    BY StoredAddress
  <2>2. a \in Int
    OBVIOUS
  <2>3. QED
    BY <1>2, <2>1, <2>2
<1>4. InCode(pc + 4 * m) /\ Doubleword(pc + 4 * m) = x
  BY <1>2, <1>3
<1>5. regs' = [regs EXCEPT ![rt] = Doubleword(pc + 4 * m)] /\ Go(pc + 4, << >>)
  BY <1>1, <1>4, RunLoad
<1>6. QED
  BY <1>2, <1>4, <1>5

LEMMA GroupAtIs ==
  ASSUME ProgramOK, Relocatable
  PROVE  /\ \A k \in 1..N + 1 : GroupAt(k) \in Nat
         /\ \A k \in 1..N : GroupAt(k + 1) = GroupAt(k) + 4 * Size(k)
         /\ GroupAt(1) = Base
<1>1. ASSUME NEW k \in 1..N + 1 PROVE GroupAt(k) \in Nat
  <2>1. Pos(k) \in Nat \ {0} /\ Base \in Nat
    BY PosIs, Bounds
  <2>2. QED
    BY <2>1 DEF GroupAt
<1>2. ASSUME NEW k \in 1..N PROVE GroupAt(k + 1) = GroupAt(k) + 4 * Size(k)
  <2>1. /\ Pos(k) \in Nat \ {0} /\ Size(k) \in Nat /\ Base \in Nat
        /\ Pos(k + 1) = Pos(k) + Size(k)
    BY PosIs, Bounds
  <2>2. QED
    BY <2>1 DEF GroupAt
<1>3. GroupAt(1) = Base
  BY PosIs, Bounds DEF GroupAt
<1>4. QED
  BY <1>1, <1>2, <1>3

\* Control goes to word i of group k
LEMMA GoWithin ==
  ASSUME ProgramOK, Relocatable, Laid(output, N + 1), phase = "run",
         NEW k \in 1..N + 1, NEW i \in 1..Size(k), NEW es, Go(GroupAt(k) + 4 * (i - 1), es),
         Comes(k), events \o es = EventsAt(k, i), Midway(regs', k, i)
  PROVE  phase' = "run" /\ pc' \in Nat /\ InGroup(pc', regs', events')
<1>1. GroupAt(k) \in Nat
  BY GroupAtIs
<1>2. InCode(GroupAt(k) + 4 * (i - 1))
  BY RunCode DEF Stored, Size
<1>3. pc' = GroupAt(k) + 4 * (i - 1) /\ phase' = "run" /\ events' = EventsAt(k, i)
  BY <1>2, GoInside
<1>4. InGroup(pc', regs', events')
  BY <1>3 DEF InGroup, AtWord
<1>5. pc' \in Nat
  BY <1>1, <1>3
<1>6. QED
  BY <1>3, <1>4, <1>5

\* Control leaves from group k
LEMMA GoAway ==
  ASSUME ProgramOK, Relocatable, phase = "run",
         NEW k \in 1..N + 1, Comes(k), NEW a, NEW es, ~InCode(a), Go(a, es),
         events = EventsUpTo(k - 1),
         k <= N => Leaves(k) /\ EventsOf(k) = es /\ a = ExitOf(k),
         k = N + 1 => es = << >> /\ a = Dest(k)
  PROVE  phase' = "left" /\ pc' = pc /\ HasLeft(events', exit')
<1>1. N \in {1, 4}
  BY ProgramIs
<1>2. events' = events \o es /\ phase' = "left" /\ exit' = a /\ pc' = pc
  <2>1. phase # "call"
    OBVIOUS
  <2>2. QED
    BY <2>1, GoOutside
<1>3. LeavesAt = k
  BY <1>1, LeavesAtIs
<1>4. events \in Seq(Event)
  <2>1. k - 1 \in 0..4
    BY <1>1
  <2>2. QED
    BY <2>1, EventsNext
<1>5. OriginalEvents = events \o es /\ OriginalExit = a
  <2>1. CASE k <= N
    <3>1. k \in 1..4
      BY <1>1, <2>1
    <3>2. OriginalEvents = EventsUpTo(k)
      BY <1>3, <2>1, Zenon DEF OriginalEvents, N
    <3>3. EventsUpTo(k) = EventsUpTo(k - 1) \o es
      BY <2>1, <3>1, EventsNext
    <3>4. OriginalExit = a
      BY <1>3, <2>1, Zenon DEF OriginalExit, N
    <3>5. QED
      BY <3>2, <3>3, <3>4
  <2>2. CASE k = N + 1
    <3>1. OriginalEvents = EventsUpTo(N) /\ k - 1 = N
      BY <1>1, <1>3, <2>2 DEF OriginalEvents, N
    <3>2. events \o << >> = events
      BY <1>4, ConcatEmptySeq
    <3>3. OriginalExit = a
      BY <1>1, <1>3, <2>2 DEF OriginalExit, Dest, N
    <3>4. QED
      BY <2>2, <3>1, <3>2, <3>3
  <2>3. QED
    BY <1>1, <2>1, <2>2
<1>6. QED
  BY <1>2, <1>5 DEF HasLeft

\* Control is at word j of group k, and stays in the groups or leaves as it should
InRun(k, j) ==
  /\ ProgramOK /\ Laid(output, N + 1) /\ begins = Indexes(N)
  /\ phase = "run" /\ DOMAIN regs = ARM64Reg /\ AtWord(pc, regs, events, k, j)
Goes ==
  /\ DOMAIN regs' = ARM64Reg
  /\ \/ phase' = "run" /\ pc' \in Nat /\ InGroup(pc', regs', events')
     \/ phase' = "left" /\ pc' = pc /\ HasLeft(events', exit')

LEMMA InRunIs ==
  ASSUME Relocatable, NEW k \in 1..N + 1, NEW j \in 1..Size(k), InRun(k, j)
  PROVE  /\ N \in {1, 4} /\ GroupOK(k) /\ Stored(GroupAt(k), Group(k))
         /\ GroupAt(k) \in Nat /\ pc = GroupAt(k) + 4 * (j - 1)
         /\ Size(k) = Len(Group(k)) /\ Size(k) \in {1, 4, 5, 6}
         /\ Fetch(pc) = Group(k)[j]
         /\ Refers(k) => Dest(k) \in Nat /\ Dest(k) # NULL /\ ~InCode(Dest(k))
         /\ ~InCode(Caller) /\ ~InCode(NULL)
         /\ Comes(k) /\ events = EventsAt(k, j) /\ Midway(regs, k, j)
         /\ events \in Seq(Event) /\ events \o << >> = events
<1>1. /\ ProgramOK /\ Laid(output, N + 1) /\ phase # "call"
      /\ pc = GroupAt(k) + 4 * (j - 1)
      /\ Comes(k) /\ events = EventsAt(k, j) /\ Midway(regs, k, j)
  BY DEF InRun, AtWord
<1>2. /\ N \in {1, 4} /\ GroupOK(k) /\ Stored(GroupAt(k), Group(k))
      /\ GroupAt(k) \in Nat /\ Size(k) = Len(Group(k)) /\ Size(k) \in {1, 4, 5, 6}
  BY <1>1, ProgramIs, GroupIs, RunCode, GroupAtIs, SizeIs DEF Size
<1>3. Fetch(pc) = Group(k)[j]
  BY <1>1, <1>2 DEF Stored
<1>4. /\ Refers(k) => Dest(k) \in Nat /\ Dest(k) # NULL /\ ~InCode(Dest(k))
      /\ ~InCode(Caller) /\ ~InCode(NULL)
  <2>1. \A a \in Nat : Clear(a) => ~InCode(a)
    BY <1>1, RunCode
  <2>2. Refers(k) => Dest(k) \in Nat /\ Clear(Dest(k))
    BY <1>1, DestIs
  <2>3. NULL \notin Int /\ Caller \in Nat /\ Clear(Caller)
    BY Bounds DEF Relocatable, Layout
  <2>4. QED
    BY <2>1, <2>2, <2>3 DEF InCode
<1>5. events \in Seq(Event)
  <2>1. k - 1 \in 0..4 /\ (k <= N => k \in 0..4)
    BY <1>2
  <2>2. QED
    BY <1>1, <2>1, EventsNext DEF EventsAt
<1>6. events \o << >> = events
  BY <1>5, ConcatEmptySeq
<1>7. QED
  BY <1>1, <1>2, <1>3, <1>4, <1>5, <1>6

\* Control goes from the end of a group to the next one
LEMMA NextGroup ==
  ASSUME Relocatable, NEW k \in 1..N, NEW j \in 1..Size(k), InRun(k, j),
         NEW es, Go(GroupAt(k) + 4 * Size(k), es), ~Leaves(k), events \o es = EventsUpTo(k),
         Own(regs', {})
  PROVE  phase' = "run" /\ pc' \in Nat /\ InGroup(pc', regs', events')
<1>1. N \in {1, 4} /\ k \in 1..N + 1
  BY ProgramIs DEF InRun
<1>2. /\ ProgramOK /\ Laid(output, N + 1) /\ phase = "run" /\ Comes(k)
  BY DEF InRun, AtWord
<1>3. /\ GroupAt(k + 1) = GroupAt(k) + 4 * Size(k) /\ GroupAt(k + 1) \in Nat
      /\ k + 1 \in 1..N + 1
  BY <1>1, <1>2, GroupAtIs
<1>4. 1 \in 1..Size(k + 1)
  <2>1. Size(k + 1) \in {1, 4, 5, 6}
    BY <1>2, <1>3, SizeIs
  <2>2. QED
    BY <2>1
<1>5. Comes(k + 1)
  BY <1>1, <1>2 DEF Comes
<1>6. EventsAt(k + 1, 1) = EventsUpTo(k)
  BY <1>1 DEF EventsAt
<1>7. GroupAt(k + 1) + 4 * (1 - 1) = GroupAt(k) + 4 * Size(k)
  BY <1>3
<1>8. Midway(regs', k + 1, 1)
  BY DEF Midway
<1>9. QED
  BY <1>2, <1>3, <1>4, <1>5, <1>6, <1>7, <1>8, GoWithin

\* Which of the instructions leave
LEMMA LeavesIs ==
  ASSUME ProgramOK, NEW k \in 1..N
  PROVE  /\ OpOf(k) \in {"plain", "ldr", "blr", "ldr_literal", "bl"} => ~Leaves(k)
         /\ OpOf(k) \in {"cbz", "b.cond"} => (Leaves(k) <=> taken[k])
         /\ OpOf(k) \in {"b", "br", "ret"} => Leaves(k)
         /\ taken[k] \in BOOLEAN
<1>1. taken[k] \in BOOLEAN /\ (taken[k] => OpOf(k) \in {"cbz", "b.cond", "tbz"})
  BY DEF ProgramOK, Tests, OpOf
<1>2. QED
  BY <1>1 DEF Leaves

LEMMA EventsOfIs ==
  ASSUME ProgramOK, NEW k \in 1..N
  PROVE  /\ EventsUpTo(k) = EventsUpTo(k - 1) \o EventsOf(k)
         /\ OpOf(k) \in {"cbz", "b.cond", "b", "ret"} => EventsOf(k) = << >>
         /\ OpOf(k) \in {"plain", "ldr", "br", "blr"} => EventsOf(k) = <<<<"plain", program[k]>>>>
         /\ OpOf(k) = "ldr_literal" =>
              EventsOf(k) = <<<<"load", Decode(program[k]).op, Decode(program[k]).rt, Dest(k)>>>>
         /\ OpOf(k) = "bl" => EventsOf(k) = <<<<"call", Dest(k)>>>>
<1>1. k \in 1..4
  BY ProgramIs
<1>2. Dest(k) = RealTarget(k)
  BY DEF Dest
<1>3. QED
  BY <1>1, <1>2, EventsNext, EventsAre

\* A test asks for the condition of the instruction that it was made from
LEMMA InstructionAtIs ==
  ASSUME Relocatable, NEW k \in 1..N, InRun(k, 1)
  PROVE  InstructionAt(pc) = k
<1>1. N \in {1, 4} /\ ProgramOK /\ begins = Indexes(N) /\ Base \in Nat
  BY ProgramIs, Bounds DEF InRun
<1>2. pc = Base + 4 * (Pos(k) - 1)
  <2>1. Base + 4 * (Pos(k) - 1) \in Nat
    BY <1>1, GroupAtIs DEF GroupAt
  <2>2. QED
    BY <2>1 DEF InRun, AtWord, GroupAt
<1> DEFINE S == {1} \cup {m \in DOMAIN begins : Base + 4 * (begins[m] - 1) <= pc}
<1>3. ASSUME NEW m \in 1..N PROVE Base + 4 * (begins[m] - 1) <= pc <=> m <= k
  <2>1. /\ begins[m] = Pos(m) /\ Pos(m) \in Nat \ {0} /\ Pos(k) \in Nat \ {0}
        /\ Size(m) \in {1, 4, 5, 6} /\ Size(k) \in {1, 4, 5, 6}
        /\ m < k => Pos(m) + Size(m) <= Pos(k)
        /\ k < m => Pos(k) + Size(k) <= Pos(m)
    <3>1. m \in 1..N + 2 /\ k \in 1..N + 2 /\ m \in 1..N + 1 /\ k \in 1..N + 1
      BY <1>1
    <3>2. begins[m] = Pos(m)
      BY <1>1 DEF Indexes
    <3>3. QED
      BY <1>1, <3>1, <3>2, PosIs
  <2>2. m <= k <=> Pos(m) <= Pos(k)
    BY <2>1
  <2>3. QED
    BY <1>1, <1>2, <2>1, <2>2
<1>4. S = 1..k
  <2>1. DOMAIN begins = 1..N
    BY <1>1 DEF Indexes
  <2>2. QED
    BY <1>1, <1>3, <2>1
<1> HIDE DEF S
<1>5. Max(S) = k
  BY <1>4 DEF Max
<1>6. QED
  BY <1>5 DEF InstructionAt, S

LEMMA PlainGoes ==
  ASSUME Run, Relocatable, NEW k \in 1..N, NEW j \in 1..Size(k), InRun(k, j),
         Anywhere(Decode(program[k])), Group(k) = <<program[k]>>
  PROVE  Goes
<1> DEFINE d == Decode(program[k])
           es == <<<<"plain", program[k]>>>>
<1>1. /\ k \in 1..N + 1 /\ k <= N /\ k # N + 1
      /\ ProgramOK /\ phase = "run" /\ DOMAIN regs = ARM64Reg
  BY ProgramIs DEF InRun
<1>2. /\ GroupAt(k) \in Nat /\ pc = GroupAt(k) + 4 * (j - 1) /\ Size(k) = Len(Group(k))
      /\ Fetch(pc) = Group(k)[j] /\ Comes(k) /\ events = EventsAt(k, j) /\ Midway(regs, k, j)
      /\ ~InCode(Caller) /\ ~InCode(NULL)
  BY <1>1, InRunIs
<1>3. Size(k) = 1 /\ j = 1 /\ Fetch(pc) = program[k] /\ pc + 4 = GroupAt(k) + 4 * Size(k)
  BY <1>2
<1>4. events = EventsUpTo(k - 1) /\ Own(regs, {})
  BY <1>2, <1>3 DEF EventsAt, Midway
<1>5. Execute(program[k])
  BY <1>3 DEF Run
<1>6. OpOf(k) \in {"plain", "ldr", "br", "blr"} => EventsOf(k) = es /\ events \o es = EventsUpTo(k)
  BY <1>1, <1>4, EventsOfIs
<1>7. OpOf(k) \in {"ldr", "br", "blr"} => regs[d.rn] = NULL
  BY <1>4 DEF Anywhere, OpOf, Own, ARM64_REG_X17
<1> HIDE DEF es
<1>8. ASSUME Go(pc + 4, es), Own(regs', {}), DOMAIN regs' = ARM64Reg,
             OpOf(k) \in {"plain", "ldr", "blr"}
      PROVE  Goes
  <2>1. ~Leaves(k) /\ events \o es = EventsUpTo(k) /\ Go(GroupAt(k) + 4 * Size(k), es)
    BY <1>1, <1>3, <1>6, <1>8, LeavesIs
  <2>2. phase' = "run" /\ pc' \in Nat /\ InGroup(pc', regs', events')
    BY <1>8, <2>1, NextGroup
  <2>3. QED
    BY <1>8, <2>2 DEF Goes
<1>9. CASE OpOf(k) = "plain"
  <2>1. Go(pc + 4, es) /\ regs' = regs
    BY <1>5, <1>9, Executes DEF OpOf, es
  <2>2. QED
    BY <1>1, <1>4, <1>8, <1>9, <2>1
<1>10. CASE OpOf(k) = "ldr"
  <2>1. Go(pc + 4, es) /\ regs' = [regs EXCEPT ![d.rt] = NULL]
    BY <1>5, <1>7, <1>10, Executes DEF OpOf, es
  <2>2. Own(regs', {}) /\ DOMAIN regs' = ARM64Reg
    BY <1>1, <1>4, <2>1, OwnIs
  <2>3. QED
    BY <1>8, <1>10, <2>1, <2>2
<1>11. CASE OpOf(k) = "blr"
  <2>1. Go(pc + 4, es) /\ regs' = regs
    BY <1>5, <1>7, <1>11, Executes DEF OpOf, es
  <2>2. QED
    BY <1>1, <1>4, <1>8, <1>11, <2>1
<1>12. CASE OpOf(k) = "br"
  <2>1. Go(NULL, es) /\ regs' = regs
    BY <1>5, <1>7, <1>12, Executes DEF OpOf, es
  <2>2. EventsOf(k) = es /\ Leaves(k) /\ NULL = ExitOf(k)
    BY <1>1, <1>6, <1>12, LeavesIs DEF ExitOf
  <2>3. phase' = "left" /\ pc' = pc /\ HasLeft(events', exit')
    BY <1>1, <1>2, <1>4, <2>1, <2>2, GoAway
  <2>4. QED
    BY <1>1, <2>1, <2>3 DEF Goes
<1>13. CASE OpOf(k) = "ret"
  <2>1. Go(Caller, << >>) /\ regs' = regs
    BY <1>5, <1>13, Executes DEF OpOf
  <2>2. EventsOf(k) = << >> /\ Leaves(k) /\ Caller = ExitOf(k)
    BY <1>1, <1>13, EventsOfIs, LeavesIs DEF ExitOf
  <2>3. phase' = "left" /\ pc' = pc /\ HasLeft(events', exit')
    BY <1>1, <1>2, <1>4, <2>1, <2>2, GoAway
  <2>4. QED
    BY <1>1, <2>1, <2>3 DEF Goes
<1>14. QED
  BY <1>9, <1>10, <1>11, <1>12, <1>13 DEF Anywhere, OpOf

LEMMA JumpGoes ==
  ASSUME Run, Relocatable, NEW k \in 1..N + 1, NEW j \in 1..Size(k), InRun(k, j),
         k <= N => OpOf(k) = "b", IsJump(Group(k), Dest(k))
  PROVE  Goes
<1>1. ProgramOK /\ phase = "run" /\ Laid(output, N + 1) /\ DOMAIN regs = ARM64Reg
  BY DEF InRun
<1> DEFINE g == Group(k)
           a == GroupAt(k)
<1>2. /\ a \in Nat /\ pc = a + 4 * (j - 1) /\ Size(k) = Len(g) /\ Stored(a, g)
      /\ Fetch(pc) = g[j] /\ Comes(k) /\ events = EventsAt(k, j) /\ Midway(regs, k, j)
      /\ events \o << >> = events
      /\ Dest(k) \in Nat /\ Dest(k) # NULL /\ ~InCode(Dest(k))
  BY InRunIs DEF Refers
<1>3. /\ Len(g) = 4 /\ Decode(g[1]) = Op(LoadX, 17, 0, 8)
      /\ Decode(g[2]) = Op(<<"br">>, 0, 17, 0) /\ HoldsAddress(g[3], g[4], Dest(k))
  BY DEF IsJump
<1>4. events = EventsUpTo(k - 1)
  BY <1>2 DEF EventsAt
<1>5. j = 1 \/ (j = 2 /\ regs[17] = Dest(k))
  BY <1>2 DEF Midway
<1> HIDE DEF g, a
<1>6. CASE j = 1
  <2>1. regs' = [regs EXCEPT ![17] = Dest(k)] /\ Go(a + 4, << >>)
    <3>1. /\ pc = a + 4 * (1 - 1) /\ 1 \in 1..Len(g) /\ 1 + 2 + 1 <= Len(g) /\ 2 \in {2, 3}
          /\ Decode(g[1]) = Op(LoadX, 17, 0, 4 * 2) /\ Len(g) \in Nat /\ a + 4 * 1 = a + 4
          /\ HoldsAddress(g[1 + 2], g[1 + 2 + 1], Dest(k))
      BY <1>2, <1>3, <1>6
    <3>2. regs' = [regs EXCEPT ![17] = Dest(k)] /\ Go(a + 4 * 1, << >>)
      BY <1>2, <3>1, LoadsAddress, Zenon
    <3>3. QED
      BY <3>1, <3>2
  <2>2. DOMAIN regs' = ARM64Reg /\ regs'[17] = Dest(k)
    BY <1>1, <2>1 DEF ARM64Reg
  <2>3. Midway(regs', k, 2) /\ EventsAt(k, 2) = events /\ 2 \in 1..Size(k)
    BY <1>2, <1>3, <1>4, <2>2 DEF Midway, EventsAt
  <2>4. a + 4 * (2 - 1) = a + 4
    BY <1>2
  <2>5. phase' = "run" /\ pc' \in Nat /\ InGroup(pc', regs', events')
    BY <1>1, <1>2, <2>1, <2>3, <2>4, GoWithin DEF a
  <2>6. QED
    BY <2>2, <2>5 DEF Goes
<1>7. CASE j = 2 /\ regs[17] = Dest(k)
  <2>1. regs' = regs /\ Go(Dest(k), << >>)
    BY <1>2, <1>3, <1>7, RunBranchReg
  <2>2. k <= N => EventsOf(k) = << >> /\ Leaves(k)
    BY <1>1, EventsOfIs, LeavesIs
  <2>3. k <= N => Dest(k) = ExitOf(k)
    BY DEF ExitOf, Dest
  <2>4. phase' = "left" /\ pc' = pc /\ HasLeft(events', exit')
    BY <1>1, <1>2, <1>4, <2>1, <2>2, <2>3, GoAway
  <2>5. QED
    BY <1>1, <2>1, <2>4 DEF Goes
<1>8. QED
  BY <1>5, <1>6, <1>7

LEMMA LoadGoes ==
  ASSUME Run, Relocatable, NEW k \in 1..N, NEW j \in 1..Size(k), InRun(k, j),
         OpOf(k) = "ldr_literal", Decode(program[k]).op = LoadX,
         IsLoad(Group(k), Decode(program[k]).rt, Dest(k))
  PROVE  Goes
<1>1. /\ k \in 1..N + 1 /\ ProgramOK /\ phase = "run" /\ phase # "call"
      /\ Laid(output, N + 1) /\ DOMAIN regs = ARM64Reg
  BY ProgramIs DEF InRun
<1> DEFINE g == Group(k)
           a == GroupAt(k)
           rt == Decode(program[k]).rt
<1>2. /\ a \in Nat /\ pc = a + 4 * (j - 1) /\ Size(k) = Len(g) /\ Stored(a, g)
      /\ Fetch(pc) = g[j] /\ Comes(k) /\ events = EventsAt(k, j) /\ Midway(regs, k, j)
      /\ events \o << >> = events
      /\ Dest(k) \in Nat /\ Dest(k) # NULL /\ ~InCode(Dest(k))
  BY <1>1, InRunIs DEF Refers
<1>3. /\ Len(g) = 5 /\ Decode(g[1]) = Op(LoadX, rt, 0, 8) /\ rt \in ARM64Reg
      /\ Decode(g[2]) = Op(<<"b">>, 0, 0, 12) /\ HoldsAddress(g[3], g[4], Dest(k))
      /\ Decode(g[5]) = Op(<<"ldr">>, rt, rt, 0)
  BY DEF IsLoad
<1>4. events = EventsUpTo(k - 1)
  BY <1>2 DEF EventsAt
<1>5. (j = 1 /\ Own(regs, {})) \/ (j \in {2, 5} /\ regs[rt] = Dest(k) /\ Own(regs, {rt}))
  BY <1>2 DEF Midway
<1> HIDE DEF g, a
<1>6. CASE j = 1 /\ Own(regs, {})
  <2> HIDE DEF rt
  <2>1. regs' = [regs EXCEPT ![rt] = Dest(k)] /\ Go(a + 4, << >>)
    <3>1. /\ pc = a + 4 * (1 - 1) /\ 1 \in 1..Len(g) /\ 1 + 2 + 1 <= Len(g) /\ 2 \in {2, 3}
          /\ Decode(g[1]) = Op(LoadX, rt, 0, 4 * 2) /\ Len(g) \in Nat /\ a + 4 * 1 = a + 4
          /\ HoldsAddress(g[1 + 2], g[1 + 2 + 1], Dest(k))
      BY <1>2, <1>3, <1>6
    <3>2. regs' = [regs EXCEPT ![rt] = Dest(k)] /\ Go(a + 4 * 1, << >>)
      BY <1>2, <3>1, LoadsAddress, Zenon
    <3>3. QED
      BY <3>1, <3>2
  <2>2. DOMAIN regs' = ARM64Reg /\ regs'[rt] = Dest(k) /\ Own(regs', {rt})
    BY <1>1, <1>3, <1>6, <2>1, OwnIs
  <2>3. Midway(regs', k, 2) /\ EventsAt(k, 2) = events /\ 2 \in 1..Size(k)
    BY <1>2, <1>3, <1>4, <2>2 DEF Midway, EventsAt, rt
  <2>4. a + 4 * (2 - 1) = a + 4
    BY <1>2
  <2>5. phase' = "run" /\ pc' \in Nat /\ InGroup(pc', regs', events')
    BY <1>1, <1>2, <2>1, <2>3, <2>4, GoWithin DEF a
  <2>6. QED
    BY <2>2, <2>5 DEF Goes
<1>7. CASE j = 2 /\ regs[rt] = Dest(k) /\ Own(regs, {rt})
  <2>1. regs' = regs /\ Go(a + 16, << >>)
    <3>1. regs' = regs /\ Go(pc + 12, << >>)
      BY <1>2, <1>3, <1>7, RunBranch
    <3>2. pc + 12 = a + 16
      BY <1>2, <1>7
    <3>3. QED
      BY <3>1, <3>2
  <2>2. Midway(regs', k, 5) /\ EventsAt(k, 5) = events /\ 5 \in 1..Size(k)
    BY <1>2, <1>3, <1>4, <1>7, <2>1 DEF Midway, EventsAt, rt
  <2>3. a + 4 * (5 - 1) = a + 16
    BY <1>2
  <2>4. phase' = "run" /\ pc' \in Nat /\ InGroup(pc', regs', events')
    BY <1>1, <1>2, <2>1, <2>2, <2>3, GoWithin DEF a
  <2>5. QED
    BY <1>1, <2>1, <2>4 DEF Goes
<1>8. CASE j = 5 /\ regs[rt] = Dest(k) /\ Own(regs, {rt})
  <2> DEFINE es == <<<<"load", LoadX, rt, Dest(k)>>>>
  <2>1. regs' = [regs EXCEPT ![rt] = NULL] /\ Go(pc + 4, es)
    <3>1. ~InCode(regs[rt]) /\ regs[rt] \in Nat /\ regs[rt] # NULL
      BY <1>2, <1>8
    <3>2. Decode(Fetch(pc)) = Op(<<"ldr">>, rt, rt, 0)
      BY <1>2, <1>3, <1>8
    <3> HIDE DEF rt
    <3>3. QED
      BY <1>8, <3>1, <3>2, RunLoadReg
  <2>2. pc + 4 = a + 4 * Size(k)
    BY <1>2, <1>3, <1>8
  <2>3. events \o es = EventsUpTo(k) /\ ~Leaves(k)
    BY <1>1, <1>4, EventsOfIs, LeavesIs
  <2> HIDE DEF es
  <2>4. Go(GroupAt(k) + 4 * Size(k), es)
    BY <2>1, <2>2 DEF a
  <2>5. DOMAIN regs' = ARM64Reg /\ Own(regs', {})
    BY <1>1, <1>8, <2>1, OwnIs
  <2>6. phase' = "run" /\ pc' \in Nat /\ InGroup(pc', regs', events')
    BY <2>3, <2>4, <2>5, NextGroup
  <2>7. QED
    BY <2>5, <2>6 DEF Goes
<1>9. QED
  BY <1>5, <1>6, <1>7, <1>8

LEMMA TestGoes ==
  ASSUME Run, Relocatable, NEW k \in 1..N, NEW j \in 1..Size(k), InRun(k, j),
         OpOf(k) \in {"cbz", "b.cond"}, IsTest(Group(k), Dest(k))
  PROVE  Goes
<1>1. /\ k \in 1..N + 1 /\ ProgramOK /\ phase = "run" /\ Laid(output, N + 1)
      /\ DOMAIN regs = ARM64Reg
  BY ProgramIs DEF InRun
<1> DEFINE g == Group(k)
           a == GroupAt(k)
<1>2. /\ a \in Nat /\ pc = a + 4 * (j - 1) /\ Size(k) = Len(g) /\ Stored(a, g)
      /\ Fetch(pc) = g[j] /\ Comes(k) /\ events = EventsAt(k, j) /\ Midway(regs, k, j)
      /\ events \o << >> = events
      /\ Dest(k) \in Nat /\ Dest(k) # NULL /\ ~InCode(Dest(k))
  BY <1>1, InRunIs DEF Refers
<1>3. /\ Len(g) = 6 /\ Decode(g[1]).op[1] \in {"cbz", "b.cond"} /\ Decode(g[1]).offset = 8
      /\ Decode(g[2]) = Op(<<"b">>, 0, 0, 20) /\ Decode(g[3]) = Op(LoadX, 17, 0, 8)
      /\ Decode(g[4]) = Op(<<"br">>, 0, 17, 0) /\ HoldsAddress(g[5], g[6], Dest(k))
  BY DEF IsTest
<1>4. events = EventsUpTo(k - 1)
  BY <1>2 DEF EventsAt
<1>5. /\ Own(regs, {})
      /\ \/ j = 1
         \/ j = 2 /\ ~taken[k]
         \/ j = 3 /\ taken[k]
         \/ j = 4 /\ taken[k] /\ regs[17] = Dest(k)
  BY <1>2 DEF Midway
<1>6. EventsOf(k) = << >> /\ (Leaves(k) <=> taken[k]) /\ EventsUpTo(k) = EventsUpTo(k - 1) \o << >>
  BY <1>1, EventsOfIs, LeavesIs
<1> HIDE DEF g, a
<1>7. CASE j = 1
  <2>1. regs' = regs /\ Go(pc + (IF taken[k] THEN 8 ELSE 4), << >>)
    <3>1. InstructionAt(pc) = k
      BY <1>7, InstructionAtIs
    <3>2. Fetch(pc) = g[1]
      BY <1>2, <1>7
    <3>3. QED
      BY <1>3, <3>1, <3>2, RunTest
  <2>2. CASE taken[k]
    <3>1. pc + 8 = a + 4 * (3 - 1) /\ 3 \in 1..Size(k)
      BY <1>2, <1>3, <1>7
    <3>2. Go(a + 4 * (3 - 1), << >>)
      BY <2>1, <2>2, <3>1, Zenon
    <3>3. Midway(regs', k, 3) /\ EventsAt(k, 3) = events
      BY <1>4, <1>5, <2>1, <2>2 DEF Midway, EventsAt
    <3>4. phase' = "run" /\ pc' \in Nat /\ InGroup(pc', regs', events')
      BY <1>1, <1>2, <3>1, <3>2, <3>3, GoWithin DEF a
    <3>5. QED
      BY <1>1, <2>1, <3>4 DEF Goes
  <2>3. CASE ~taken[k]
    <3>1. pc + 4 = a + 4 * (2 - 1) /\ 2 \in 1..Size(k)
      BY <1>2, <1>3, <1>7
    <3>2. Go(a + 4 * (2 - 1), << >>)
      BY <2>1, <2>3, <3>1, Zenon
    <3>3. Midway(regs', k, 2) /\ EventsAt(k, 2) = events
      BY <1>4, <1>5, <2>1, <2>3 DEF Midway, EventsAt
    <3>4. phase' = "run" /\ pc' \in Nat /\ InGroup(pc', regs', events')
      BY <1>1, <1>2, <3>1, <3>2, <3>3, GoWithin DEF a
    <3>5. QED
      BY <1>1, <2>1, <3>4 DEF Goes
  <2>4. QED
    BY <2>2, <2>3
<1>8. CASE j = 2 /\ ~taken[k]
  <2>1. regs' = regs /\ Go(pc + 20, << >>)
    BY <1>2, <1>3, <1>8, RunBranch
  <2>2. pc + 20 = GroupAt(k) + 4 * Size(k)
    BY <1>2, <1>3, <1>8 DEF a
  <2>3. ~Leaves(k) /\ events \o << >> = EventsUpTo(k)
    BY <1>4, <1>6, <1>8
  <2>4. phase' = "run" /\ pc' \in Nat /\ InGroup(pc', regs', events')
    BY <1>5, <2>1, <2>2, <2>3, NextGroup
  <2>5. QED
    BY <1>1, <2>1, <2>4 DEF Goes
<1>9. CASE j = 3 /\ taken[k]
  <2>1. regs' = [regs EXCEPT ![17] = Dest(k)] /\ Go(a + 12, << >>)
    <3>1. /\ pc = a + 4 * (3 - 1) /\ 3 \in 1..Len(g) /\ 3 + 2 + 1 <= Len(g) /\ 2 \in {2, 3}
          /\ Decode(g[3]) = Op(LoadX, 17, 0, 4 * 2) /\ Len(g) \in Nat /\ a + 4 * 3 = a + 12
          /\ HoldsAddress(g[3 + 2], g[3 + 2 + 1], Dest(k))
      BY <1>2, <1>3, <1>9
    <3>2. regs' = [regs EXCEPT ![17] = Dest(k)] /\ Go(a + 4 * 3, << >>)
      BY <1>2, <3>1, LoadsAddress, Zenon
    <3>3. QED
      BY <3>1, <3>2
  <2>2. DOMAIN regs' = ARM64Reg /\ regs'[17] = Dest(k) /\ Own(regs', {})
    <3>1. Own([regs EXCEPT ![17] = Dest(k)], {})
      BY <1>1, <1>5, OwnIs
    <3>2. QED
      BY <1>1, <2>1, <3>1 DEF ARM64Reg
  <2>3. Midway(regs', k, 4) /\ EventsAt(k, 4) = events /\ 4 \in 1..Size(k)
    BY <1>2, <1>3, <1>4, <1>9, <2>2 DEF Midway, EventsAt
  <2>4. a + 4 * (4 - 1) = a + 12
    BY <1>2
  <2>5. phase' = "run" /\ pc' \in Nat /\ InGroup(pc', regs', events')
    BY <1>1, <1>2, <2>1, <2>3, <2>4, GoWithin DEF a
  <2>6. QED
    BY <2>2, <2>5 DEF Goes
<1>10. CASE j = 4 /\ taken[k] /\ regs[17] = Dest(k)
  <2>1. regs' = regs /\ Go(Dest(k), << >>)
    BY <1>2, <1>3, <1>10, RunBranchReg
  <2>2. Leaves(k) /\ EventsOf(k) = << >>
    BY <1>6, <1>10
  <2>3. Dest(k) = ExitOf(k)
    BY DEF ExitOf, Dest
  <2>4. phase' = "left" /\ pc' = pc /\ HasLeft(events', exit')
    BY <1>1, <1>2, <1>4, <2>1, <2>2, <2>3, GoAway
  <2>5. QED
    BY <1>1, <2>1, <2>4 DEF Goes
<1>11. QED
  BY <1>5, <1>7, <1>8, <1>9, <1>10

LEMMA CallGoes ==
  ASSUME Run, Relocatable, NEW k \in 1..N, NEW j \in 1..Size(k), InRun(k, j),
         OpOf(k) = "bl", IsCall(Group(k), Dest(k))
  PROVE  Goes
<1>1. /\ k \in 1..N + 1 /\ ProgramOK /\ phase = "run" /\ Laid(output, N + 1)
      /\ DOMAIN regs = ARM64Reg
  BY ProgramIs DEF InRun
<1> DEFINE g == Group(k)
           a == GroupAt(k)
           es == <<<<"call", Dest(k)>>>>
<1>2. /\ a \in Nat /\ pc = a + 4 * (j - 1) /\ Size(k) = Len(g) /\ Stored(a, g)
      /\ Fetch(pc) = g[j] /\ Comes(k) /\ events = EventsAt(k, j) /\ Midway(regs, k, j)
      /\ events \o << >> = events /\ Dest(k) # NULL
  BY <1>1, InRunIs DEF Refers
<1>3. /\ Len(g) = 5 /\ Decode(g[1]) = Op(LoadX, 17, 0, 12)
      /\ Decode(g[2]) = Op(<<"blr">>, 0, 17, 0) /\ Decode(g[3]) = Op(<<"b">>, 0, 0, 12)
      /\ HoldsAddress(g[4], g[5], Dest(k))
  BY DEF IsCall
<1>4. EventsUpTo(k - 1) \o es = EventsUpTo(k) /\ ~Leaves(k)
  BY <1>1, EventsOfIs, LeavesIs
<1>5. Own(regs, {}) /\ (j = 1 \/ (j = 2 /\ regs[17] = Dest(k)) \/ j = 3)
  BY <1>2 DEF Midway
<1>6. IF j = 3 THEN events = EventsUpTo(k) ELSE events = EventsUpTo(k - 1)
  BY <1>2 DEF EventsAt
<1> HIDE DEF g, a, es
<1>7. CASE j = 1
  <2>1. regs' = [regs EXCEPT ![17] = Dest(k)] /\ Go(a + 4, << >>)
    <3>1. /\ pc = a + 4 * (1 - 1) /\ 1 \in 1..Len(g) /\ 1 + 3 + 1 <= Len(g) /\ 3 \in {2, 3}
          /\ Decode(g[1]) = Op(LoadX, 17, 0, 4 * 3) /\ Len(g) \in Nat /\ a + 4 * 1 = a + 4
          /\ HoldsAddress(g[1 + 3], g[1 + 3 + 1], Dest(k))
      BY <1>2, <1>3, <1>7
    <3>2. regs' = [regs EXCEPT ![17] = Dest(k)] /\ Go(a + 4 * 1, << >>)
      BY <1>2, <3>1, LoadsAddress, Zenon
    <3>3. QED
      BY <3>1, <3>2
  <2>2. DOMAIN regs' = ARM64Reg /\ regs'[17] = Dest(k) /\ Own(regs', {})
    <3>1. Own([regs EXCEPT ![17] = Dest(k)], {})
      BY <1>1, <1>5, OwnIs
    <3>2. QED
      BY <1>1, <2>1, <3>1 DEF ARM64Reg
  <2>3. Midway(regs', k, 2) /\ EventsAt(k, 2) = events /\ 2 \in 1..Size(k)
    BY <1>2, <1>3, <1>6, <1>7, <2>2 DEF Midway, EventsAt
  <2>4. a + 4 * (2 - 1) = a + 4
    BY <1>2
  <2>5. phase' = "run" /\ pc' \in Nat /\ InGroup(pc', regs', events')
    BY <1>1, <1>2, <2>1, <2>3, <2>4, GoWithin DEF a
  <2>6. QED
    BY <2>2, <2>5 DEF Goes
<1>8. CASE j = 2 /\ regs[17] = Dest(k)
  <2>1. regs' = regs /\ Go(pc + 4, es)
    <3>1. regs' = regs /\ Go(pc + 4, <<<<"call", regs[17]>>>>)
      BY <1>2, <1>3, <1>8, RunCall
    <3>2. QED
      BY <1>8, <3>1 DEF es
  <2>2. pc + 4 = a + 4 * (3 - 1) /\ 3 \in 1..Size(k)
    BY <1>2, <1>3, <1>8
  <2>3. Midway(regs', k, 3) /\ EventsAt(k, 3) = EventsUpTo(k)
    BY <1>5, <2>1 DEF Midway, EventsAt
  <2>4. events \o es = EventsUpTo(k)
    BY <1>4, <1>6, <1>8
  <2>5. phase' = "run" /\ pc' \in Nat /\ InGroup(pc', regs', events')
    BY <1>1, <1>2, <2>1, <2>2, <2>3, <2>4, GoWithin DEF a
  <2>6. QED
    BY <1>1, <2>1, <2>5 DEF Goes
<1>9. CASE j = 3
  <2>1. regs' = regs /\ Go(pc + 12, << >>)
    BY <1>2, <1>3, <1>9, RunBranch
  <2>2. pc + 12 = GroupAt(k) + 4 * Size(k)
    BY <1>2, <1>3, <1>9 DEF a
  <2>3. events \o << >> = EventsUpTo(k)
    BY <1>2, <1>6, <1>9
  <2>4. phase' = "run" /\ pc' \in Nat /\ InGroup(pc', regs', events')
    BY <1>4, <1>5, <2>1, <2>2, <2>3, NextGroup
  <2>5. QED
    BY <1>1, <2>1, <2>4 DEF Goes
<1>10. QED
  BY <1>5, <1>7, <1>8, <1>9

LEMMA RunGoes ==
  ASSUME Run, Relocatable, RelocatedInv, phase = "run"
  PROVE  Goes
<1>1. PICK k \in 1..N + 1 : \E j \in 1..Size(k) : AtWord(pc, regs, events, k, j)
  BY DEF RelocatedInv, CpuInv, InGroup
<1>2. PICK j \in 1..Size(k) : AtWord(pc, regs, events, k, j)
  BY <1>1
<1>3. InRun(k, j)
  BY <1>2 DEF RelocatedInv, InputInv, OutputInv, CpuInv, InRun, Written
<1>4. GroupOK(k) /\ N \in {1, 4}
  BY <1>3, InRunIs
<1>5. CASE k <= N /\ Anywhere(Decode(program[k])) /\ Group(k) = <<program[k]>>
  <2>1. k \in 1..N
    BY <1>4, <1>5
  <2>2. QED
    BY <1>3, <1>5, <2>1, PlainGoes
<1>6. CASE /\ k <= N /\ OpOf(k) = "ldr_literal" /\ Decode(program[k]).op = LoadX
           /\ IsLoad(Group(k), Decode(program[k]).rt, Dest(k))
  <2>1. k \in 1..N
    BY <1>4, <1>6
  <2>2. QED
    BY <1>3, <1>6, <2>1, LoadGoes
<1>7. CASE k <= N /\ OpOf(k) \in {"cbz", "b.cond"} /\ IsTest(Group(k), Dest(k))
  <2>1. k \in 1..N
    BY <1>4, <1>7
  <2>2. QED
    BY <1>3, <1>7, <2>1, TestGoes
<1>8. CASE (k <= N => OpOf(k) = "b") /\ IsJump(Group(k), Dest(k))
  BY <1>3, <1>8, JumpGoes
<1>9. CASE k <= N /\ OpOf(k) = "bl" /\ IsCall(Group(k), Dest(k))
  <2>1. k \in 1..N
    BY <1>4, <1>9
  <2>2. QED
    BY <1>3, <1>9, <2>1, CallGoes
<1>10. QED
  BY <1>4, <1>5, <1>6, <1>7, <1>8, <1>9 DEF GroupOK

\* Control comes to b, on the way to the handler
LEMMA ComesTo ==
  ASSUME ProgramOK, Relocatable, phase = "call", events = << >>, NEW b \in Nat, Go(b, << >>),
         InCode(b) \/ b = Enter, b # Enter => OnTheWay(b, regs'), Own(regs', {})
  PROVE  /\ pc' \in Nat /\ events' = << >>
         /\ \/ phase' = "run" /\ InGroup(pc', regs', events')
            \/ phase' = "call" /\ OnTheWay(pc', regs')
<1>1. \A es : Go(b, es) => /\ events' = events \o es
                           /\ \/ b = Enter /\ phase' = "run" /\ pc' = Base
                              \/ b # Enter /\ phase' = "call" /\ pc' = b
  BY GoCall
<1>2. events' = << >>
  <2>1. << >> \o << >> = << >>
    BY ConcatEmptySeq, EmptySeq
  <2>2. QED
    BY <1>1, <2>1
<1>3. CASE b = Enter
  <2>1. N \in {1, 4} /\ 1 \in 1..N + 1 /\ Size(1) \in {1, 4, 5, 6} /\ GroupAt(1) = Base
    BY ProgramIs, PosIs, GroupAtIs
  <2>2. Base \in Nat /\ Base = GroupAt(1) + 4 * (1 - 1) /\ 1 \in 1..Size(1)
    BY <2>1, Bounds
  <2>3. EventsAt(1, 1) = << >>
    BY EventsNext DEF EventsAt
  <2>4. Comes(1) /\ Midway(regs', 1, 1)
    BY DEF Comes, Midway
  <2>5. AtWord(Base, regs', << >>, 1, 1)
    BY <2>2, <2>3, <2>4 DEF AtWord
  <2>6. InGroup(Base, regs', << >>)
    BY <2>1, <2>2, <2>5 DEF InGroup
  <2>7. QED
    BY <1>1, <1>2, <1>3, <2>2, <2>6
<1>4. CASE b # Enter
  BY <1>1, <1>2, <1>4
<1>5. QED
  BY <1>3, <1>4

LEMMA PatchGoes ==
  ASSUME Run, Relocatable, RelocatedInv, phase = "call"
  PROVE  /\ DOMAIN regs' = ARM64Reg /\ pc' \in Nat /\ events' = << >> /\ Own(regs', {})
         /\ \/ phase' = "run" /\ InGroup(pc', regs', events')
            \/ phase' = "call" /\ OnTheWay(pc', regs')
<1>1. /\ ProgramOK /\ limit = 4 * N /\ DOMAIN regs = ARM64Reg /\ pc \in Nat
      /\ events = << >> /\ OnTheWay(pc, regs) /\ Own(regs, {})
  BY DEF RelocatedInv, InputInv, CpuInv
<1>2. /\ N \in {1, 4} /\ Start \in Nat /\ cave \in Nat /\ Enter \in Nat /\ Enter # NULL
  BY <1>1, ProgramIs, Bounds DEF ProgramOK, Relocatable, Layout
<1>3. /\ Stored(Start, Patch) /\ Stored(cave, EnterTransfer)
      /\ IsJump(EnterTransfer, Enter)
      /\ N = 1 => /\ Len(Patch) = 1
                  /\ Decode(Patch[1]) = Op(<<"b">>, 0, 0, cave - Start)
      /\ N = 4 => IsJump(Patch, Enter)
  BY <1>1, CallCode
\* The jump g at a
<1>4. ASSUME NEW a \in Nat, NEW g, Stored(a, g), IsJump(g, Enter),
             a = cave \/ (N = 4 /\ a = Start), pc = a
      PROVE  /\ DOMAIN regs' = ARM64Reg /\ pc' \in Nat /\ events' = << >> /\ Own(regs', {})
             /\ \/ phase' = "run" /\ InGroup(pc', regs', events')
                \/ phase' = "call" /\ OnTheWay(pc', regs')
  <2>1. regs' = [regs EXCEPT ![17] = Enter] /\ Go(a + 4, << >>)
    <3>1. /\ pc = a + 4 * (1 - 1) /\ 1 \in 1..Len(g) /\ 1 + 2 + 1 <= Len(g) /\ 2 \in {2, 3}
          /\ Decode(g[1]) = Op(LoadX, 17, 0, 4 * 2) /\ Len(g) \in Nat /\ a + 4 * 1 = a + 4
          /\ HoldsAddress(g[1 + 2], g[1 + 2 + 1], Enter)
      BY <1>4 DEF IsJump
    <3>2. regs' = [regs EXCEPT ![17] = Enter] /\ Go(a + 4 * 1, << >>)
      BY <1>4, <3>1, LoadsAddress, Zenon
    <3>3. QED
      BY <3>1, <3>2
  <2>2. DOMAIN regs' = ARM64Reg /\ regs'[17] = Enter /\ Own(regs', {})
    <3>1. Own([regs EXCEPT ![17] = Enter], {})
      BY <1>1, OwnIs
    <3>2. QED
      BY <1>1, <2>1, <3>1 DEF ARM64Reg
  <2>3. InCode(a + 4)
    <3>1. 2 \in 1..Len(g) /\ a + 4 * (2 - 1) = a + 4
      BY <1>4 DEF IsJump
    <3>2. QED
      BY <1>4, <3>1 DEF Stored
  <2>4. OnTheWay(a + 4, regs')
    BY <1>4, <2>2 DEF OnTheWay
  <2>5. a + 4 \in Nat
    OBVIOUS
  <2>6. QED
    BY <1>1, <2>1, <2>2, <2>3, <2>4, <2>5, ComesTo
<1>5. ASSUME NEW a \in Nat, NEW g, Stored(a, g), IsJump(g, Enter), pc = a + 4,
             regs[17] = Enter
      PROVE  /\ DOMAIN regs' = ARM64Reg /\ pc' \in Nat /\ events' = << >> /\ Own(regs', {})
             /\ \/ phase' = "run" /\ InGroup(pc', regs', events')
                \/ phase' = "call" /\ OnTheWay(pc', regs')
  <2>1. Fetch(pc) = g[2] /\ Decode(g[2]) = Op(<<"br">>, 0, 17, 0)
    <3>1. 2 \in 1..Len(g) /\ a + 4 * (2 - 1) = a + 4
      BY <1>5 DEF IsJump
    <3>2. QED
      BY <1>5, <3>1 DEF Stored, IsJump
  <2>2. regs' = regs /\ Go(Enter, << >>)
    BY <1>2, <1>5, <2>1, RunBranchReg
  <2>3. QED
    BY <1>1, <1>2, <2>2, ComesTo
<1>6. CASE pc = Start /\ N = 1
  <2>1. Fetch(pc) = Patch[1]
    <3>1. Len(Patch) = 1 /\ Stored(Start, Patch)
      BY <1>3, <1>6
    <3>2. 1 \in 1..Len(Patch) /\ Start + 4 * (1 - 1) = Start
      BY <1>2, <3>1
    <3>3. QED
      BY <1>6, <3>1, <3>2 DEF Stored
  <2>2. regs' = regs /\ Go(pc + (cave - Start), << >>)
    BY <1>3, <1>6, <2>1, RunBranch
  <2>3. pc + (cave - Start) = cave
    BY <1>2, <1>6
  <2>4. InCode(cave)
    <3>1. 1 \in 1..Len(EnterTransfer) /\ cave + 4 * (1 - 1) = cave
      BY <1>2, <1>3 DEF IsJump
    <3>2. QED
      BY <1>3, <3>1 DEF Stored
  <2>5. OnTheWay(cave, regs')
    BY <1>6 DEF OnTheWay
  <2>6. QED
    BY <1>1, <1>2, <2>2, <2>3, <2>4, <2>5, ComesTo
<1>7. CASE pc = Start /\ N = 4
  BY <1>2, <1>3, <1>4, <1>7
<1>8. CASE N = 1 /\ pc = cave
  BY <1>2, <1>3, <1>4, <1>8
<1>9. CASE pc = cave + 4 /\ regs[17] = Enter
  BY <1>2, <1>3, <1>5, <1>9
<1>10. CASE N = 4 /\ pc = Start + 4 /\ regs[17] = Enter
  BY <1>2, <1>3, <1>5, <1>10
<1>11. QED
  BY <1>1, <1>2, <1>6, <1>7, <1>8, <1>9, <1>10 DEF OnTheWay

LEMMA CpuRigid ==
  ASSUME inputVars' = inputVars
  PROVE  /\ InGroup(pc, regs, events)' <=> InGroup(pc', regs', events')
         /\ HasLeft(events, exit)' <=> HasLeft(events', exit')
         /\ OnTheWay(pc, regs)' <=> OnTheWay(pc', regs')
         /\ Own(regs, {})' <=> Own(regs', {})
<1>1. program' = program /\ taken' = taken /\ cave' = cave
  BY DEF inputVars
<1>2. /\ N' = N
      /\ \A k : Size(k)' = Size(k) /\ Pos(k)' = Pos(k) /\ Dest(k)' = Dest(k)
      /\ \A k : OpOf(k)' = OpOf(k) /\ EventsUpTo(k)' = EventsUpTo(k)
      /\ \A k : Comes(k)' = Comes(k)
      /\ OriginalEvents' = OriginalEvents /\ OriginalExit' = OriginalExit
  BY Rigid
<1>3. \A k, j : Midway(regs, k, j)' <=> Midway(regs', k, j)
  BY <1>1, <1>2 DEF Midway, Own
<1>4. \A k, j : EventsAt(k, j)' = EventsAt(k, j)
  BY <1>2 DEF EventsAt
<1>5. \A k : GroupAt(k)' = GroupAt(k)
  BY <1>2 DEF GroupAt
<1>6. \A k, j : AtWord(pc, regs, events, k, j)' <=> AtWord(pc', regs', events', k, j)
  BY <1>2, <1>3, <1>4, <1>5 DEF AtWord
<1>7. InGroup(pc, regs, events)' <=> InGroup(pc', regs', events')
  BY <1>2, <1>6 DEF InGroup
<1>8. HasLeft(events, exit)' <=> HasLeft(events', exit')
  BY <1>2 DEF HasLeft
<1>9. OnTheWay(pc, regs)' <=> OnTheWay(pc', regs')
  BY <1>1, <1>2 DEF OnTheWay
<1>10. Own(regs, {})' <=> Own(regs', {})
  BY DEF Own
<1>11. QED
  BY <1>7, <1>8, <1>9, <1>10

LEMMA RunRelocated ==
  ASSUME RelocatedInv, Relocatable, Run
  PROVE  RelocatedInv'
<1>1. /\ phase \in {"call", "run"} /\ inputVars' = inputVars /\ limit' = limit
      /\ input' = input /\ io_indexs' = io_indexs /\ output' = output /\ begins' = begins
  BY DEF Run, Executable, relocatorVars
<1>2. /\ ProgramOK /\ limit = 4 * N /\ input = 0 /\ io_indexs = << >>
      /\ Laid(output, N + 1) /\ begins = Indexes(N)
  BY <1>1 DEF RelocatedInv, InputInv, OutputInv, Written
<1>3. /\ phase' \in Written /\ pc' \in Nat /\ DOMAIN regs' = ARM64Reg
      /\ phase' = "call" => events' = << >> /\ OnTheWay(pc', regs') /\ Own(regs', {})
      /\ phase' = "run" => InGroup(pc', regs', events')
      /\ phase' = "left" => HasLeft(events', exit')
  <2>1. CASE phase = "call"
    BY <2>1, PatchGoes DEF Written
  <2>2. CASE phase = "run"
    <3>1. Goes /\ pc \in Nat
      BY <2>2, RunGoes DEF RelocatedInv, CpuInv
    <3>2. QED
      BY <3>1 DEF Goes, Written
  <2>3. QED
    BY <1>1, <2>1, <2>2
<1>4. ProgramOK' /\ N' = N
  BY <1>1, <1>2, Rigid
<1>5. InputInv'
  BY <1>1, <1>2, <1>3, <1>4, LaidRigid DEF InputInv, Writing, Written
<1>6. OutputInv'
  BY <1>1, <1>2, <1>3, LaidRigid DEF OutputInv, Writing, Written
<1>7. CpuInv'
  BY <1>1, <1>3, CpuRigid DEF CpuInv, Written
<1>8. QED
  BY <1>5, <1>6, <1>7 DEF RelocatedInv

LEMMA RelocatedStep ==
  ASSUME Relocatable, RelocatedInv, [Next]_vars
  PROVE  RelocatedInv'
<1>1. CASE UNCHANGED vars
  <2>1. /\ inputVars' = inputVars /\ phase' = phase /\ limit' = limit
        /\ input' = input /\ io_indexs' = io_indexs /\ output' = output /\ begins' = begins
        /\ pc' = pc /\ regs' = regs /\ events' = events /\ exit' = exit
    BY <1>1 DEF vars, relocatorVars, cpuVars
  <2>2. N' = N /\ (ProgramOK => ProgramOK')
    BY <2>1, Rigid
  <2>3. InputInv'
    BY <2>1, <2>2, LaidRigid DEF RelocatedInv, InputInv
  <2>4. OutputInv'
    BY <2>1, LaidRigid DEF RelocatedInv, OutputInv
  <2>5. CpuInv'
    BY <2>1, CpuRigid DEF RelocatedInv, CpuInv
  <2>6. QED
    BY <2>3, <2>4, <2>5 DEF RelocatedInv
<1>2. CASE Prepare
  BY <1>2, PrepareRelocated
<1>3. CASE ReadAndRelocate
  BY <1>3, ReadRelocated
<1>4. CASE PutJumpBack
  BY <1>4, PutJumpBackRelocated
<1>5. CASE DoubleWrite
  BY <1>5, DoubleWriteRelocated
<1>6. CASE Run
  BY <1>6, RunRelocated
<1>7. CASE Done
  BY <1>1, <1>7 DEF Done
<1>8. QED
  BY <1>1, <1>2, <1>3, <1>4, <1>5, <1>6, <1>7 DEF Next

LEMMA RelocatedAlways ==
  ASSUME Relocatable
  PROVE  Spec => []RelocatedInv
<1>1. Init => RelocatedInv
  BY InitRelocated
<1>2. RelocatedInv /\ [Next]_vars => RelocatedInv'
  BY RelocatedStep
<1>3. QED
  BY <1>1, <1>2, PTL DEF Spec

(* ------------------------------------------------------------------------ *)
(* Theorems                                                                    *)

(***************************************************************************)
(* The relocator's indexes stay in its input and its output, whose words   *)
(* are instructions, and the processor's pc and registers are what they    *)
(* should be, for every program that can be moved.                         *)
(***************************************************************************)
THEOREM RelocatorTypes ==
  ASSUME Relocatable
  PROVE  Spec => []TypeOK
<1>1. RelocatedInv => TypeOK
  <2> SUFFICES ASSUME RelocatedInv PROVE TypeOK
    OBVIOUS
  <2>1. ProgramOK /\ InputInv /\ OutputInv /\ CpuInv
    BY DEF RelocatedInv, InputInv
  <2>2. /\ program \in Seq(InstructionWord) /\ cave \in Caves /\ N \in {1, 4}
        /\ DOMAIN regs = ARM64Reg /\ pc \in Nat
    BY <2>1, ProgramIs DEF ProgramOK, CpuInv
  <2>3. output \in Seq(InstructionWord)
    <3>1. output = << >> \/ Laid(output, input) \/ Laid(output, N + 1)
      BY <2>1 DEF InputInv, OutputInv, Writing, Written
    <3>2. << >> \in Seq(InstructionWord)
      BY EmptySeq
    <3>3. QED
      BY <3>1, <3>2 DEF Laid
  <2>4. \A i \in DOMAIN output : output[i] \in InstructionWord
    BY <2>3, ElementOfSeq
  <2>5. limit \in {0, ARM64_TINY_REDIRECT_SIZE, ARM64_FULL_REDIRECT_SIZE}
    BY <2>1, <2>2 DEF InputInv, ARM64_TINY_REDIRECT_SIZE, ARM64_FULL_REDIRECT_SIZE
  <2>6. input \in 0..N
    BY <2>1, <2>2 DEF InputInv, Writing, Written
  <2>7. io_indexs \in Seq(1..Len(output)) /\ Len(io_indexs) = input
    <3>1. CASE io_indexs = << >> /\ input = 0
      BY <3>1
    <3>2. CASE phase \in Writing
      <4>1. io_indexs = Indexes(input)
        BY <2>1, <3>2 DEF InputInv
      <4>2. ASSUME NEW k \in 1..input PROVE Pos(k) \in 1..Len(output)
        <5>1. /\ input \in 0..N /\ input + 1 \in 1..N + 1
              /\ k \in 1..N + 1 /\ k < input + 1
          BY <2>2, <2>6
        <5>2. /\ Pos(k) \in Nat \ {0} /\ Size(k) \in {1, 4, 5, 6}
              /\ Pos(input + 1) \in Nat /\ Pos(k) + Size(k) <= Pos(input + 1)
          BY <2>1, <5>1, PosIs
        <5>3. Len(output) >= Pos(input + 1) - 1
          <6>1. CASE phase \in {"relocate", "finish"}
            BY <2>1, <5>2, <6>1 DEF OutputInv, Laid
          <6>2. CASE phase = "double_write"
            <7>1. input = N /\ Laid(output, N + 1)
              BY <2>1, <6>2 DEF InputInv, OutputInv
            <7>2. Pos(N + 1) + Size(N + 1) = Pos(N + 1 + 1) /\ Size(N + 1) \in {1, 4, 5, 6}
              BY <2>1, <2>2, PosIs
            <7>3. Len(output) = Pos(N + 1 + 1) - 1
              BY <7>1 DEF Laid
            <7>4. QED
              BY <5>2, <7>1, <7>2, <7>3
          <6>3. QED
            BY <3>2, <6>1, <6>2 DEF Writing
        <5>4. Len(output) \in Nat
          BY <2>3
        <5>5. QED
          BY <5>2, <5>3, <5>4
      <4>3. input \in Nat
        BY <2>2, <2>6
      <4>4. QED
        BY <4>1, <4>2, <4>3 DEF Indexes
    <3>3. QED
      BY <2>1, <3>1, <3>2 DEF InputInv, Writing, Written
  <2>8. phase \in {"prepare", "relocate", "finish", "double_write", "call", "run", "left"}
    BY <2>1 DEF InputInv, Writing, Written
  <2>9. QED
    BY <2>2, <2>4, <2>5, <2>6, <2>7, <2>8 DEF TypeOK, N
<1>2. QED
  BY <1>1, RelocatedAlways, PTL

(***************************************************************************)
(* A call of a hooked target does what the instructions under the patch    *)
(* did, and goes where they went, for every program that can be moved,     *)
(* wherever target, trampolines and callers are.  A program that can be    *)
(* moved (Movable) has no adr, adrp, tbz, tbnz or prfm of a literal, and   *)
(* no literal load but the 64-bit one into a general register; its b, bl,  *)
(* b.cond, cbz, cbnz and literal loads lead forward and out of the patch;  *)
(* its ldr Xt, [Xn, #imm], br, blr and ret do not go through x17.  Other   *)
(* instructions are compared as words.                                     *)
(***************************************************************************)
THEOREM RelocatedSameEffect ==
  ASSUME Relocatable
  PROVE  Spec => []SameEffect
<1>1. RelocatedInv => SameEffect
  BY DEF RelocatedInv, CpuInv, HasLeft, SameEffect
<1>2. QED
  BY <1>1, RelocatedAlways, PTL

(***************************************************************************)
(* Where the output of an instruction begins, exactly the instructions     *)
(* before it have been carried out, and none of them leaves, for the       *)
(* programs of RelocatedSameEffect.                                        *)
(***************************************************************************)
THEOREM RelocatedGroupsSimulate ==
  ASSUME Relocatable
  PROVE  Spec => []GroupsSimulate
<1>1. RelocatedInv => GroupsSimulate
  <2> SUFFICES ASSUME RelocatedInv, phase = "run", NEW m \in DOMAIN begins,
                      pc = Base + 4 * (begins[m] - 1)
               PROVE  m <= LeavesAt /\ events = EventsUpTo(m - 1)
    BY DEF GroupsSimulate
  <2>1. /\ ProgramOK /\ begins = Indexes(N)
    BY DEF RelocatedInv, InputInv, OutputInv, Written
  <2>2. N \in {1, 4} /\ Base \in Nat
    BY <2>1, ProgramIs, Bounds
  <2>3. m \in 1..N /\ begins[m] = Pos(m)
    BY <2>1 DEF Indexes
  <2>4. PICK k \in 1..N + 1 : \E j \in 1..Size(k) : AtWord(pc, regs, events, k, j)
    BY DEF RelocatedInv, CpuInv, InGroup
  <2>5. PICK j \in 1..Size(k) : AtWord(pc, regs, events, k, j)
    BY <2>4
  <2>6. pc = Base + 4 * (Pos(k) - 1) + 4 * (j - 1) /\ Comes(k) /\ events = EventsAt(k, j)
    BY <2>5 DEF AtWord, GroupAt
  <2>7. /\ Pos(k) \in Nat \ {0} /\ Pos(m) \in Nat \ {0}
        /\ Size(k) \in {1, 4, 5, 6} /\ Size(m) \in {1, 4, 5, 6}
        /\ m < k => Pos(m) + Size(m) <= Pos(k)
        /\ k < m => Pos(k) + Size(k) <= Pos(m)
    <3>1. m \in 1..N + 2 /\ k \in 1..N + 2 /\ m \in 1..N + 1 /\ k \in 1..N + 1
      BY <2>2, <2>3
    <3>2. QED
      BY <2>1, <3>1, PosIs
  <2>8. Pos(m) = Pos(k) + j - 1
    BY <2>2, <2>3, <2>6, <2>7
  <2>9. ~(m < k) /\ ~(k < m)
    BY <2>7, <2>8
  <2>10. m = k /\ j = 1
    BY <2>2, <2>3, <2>7, <2>8, <2>9
  <2>11. m <= LeavesAt
    BY <2>2, <2>6, <2>10, LeavesAtIs
  <2>12. QED
    BY <2>6, <2>10, <2>11 DEF EventsAt
<1>2. QED
  BY <1>1, RelocatedAlways, PTL
====

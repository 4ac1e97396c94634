---- MODULE InterceptorArm32Proofs ----
(***************************************************************************)
(* A theorem of InterceptorArm32, for every set of jobs: what the writers  *)
(* for Thumb and ARM put does what their calls say.                        *)
(*                                                                         *)
(* What is put is a sequence of items, each a few halfwords (Puts).  At an *)
(* address it is a memory in which each of them is where its place says    *)
(* (CodeAt), and ArmProcessorProofs says what one step of the processor    *)
(* makes of them.  A call of a writer is right if the processor gets, in a *)
(* few steps, out of the memory and to where the call asks it to be (Does, *)
(* Meets).                                                                 *)
(***************************************************************************)
EXTENDS InterceptorArm32, ArmProcessorProofs

(* ------------------------------------------------------------------------ *)
(* What is put, and where it is then                                          *)

Puts(items, H) == items \in Seq(Seq(Int)) /\ H \in Seq(Int) /\ FlattenSeq(items) = H

LEMMA PutsNone == Puts(<< >>, << >>)
  BY DEF Puts, FlattenSeq

LEMMA PutsOne ==
  ASSUME NEW h \in Int
  PROVE  Puts(<<<<h>>>>, <<h>>)
<1>1. <<h>> \in Seq(Int)
  OBVIOUS
<1> QED BY Zenon, <1>1, FlattenOne DEF Puts

LEMMA PutsTwo ==
  ASSUME NEW h \in Int, NEW k \in Int
  PROVE  Puts(<<<<h, k>>>>, <<h, k>>)
<1>1. <<h, k>> \in Seq(Int)
  OBVIOUS
<1> QED BY Zenon, <1>1, FlattenOne DEF Puts

LEMMA PutsBoth ==
  ASSUME NEW s, NEW H, Puts(s, H), NEW u, NEW K, Puts(u, K)
  PROVE  Puts(s \o u, H \o K)
<1>1. s \in Seq(Seq(Int)) /\ u \in Seq(Seq(Int))
  BY DEF Puts
<1>2. s \o u \in Seq(Seq(Int)) /\ FlattenSeq(s \o u) = H \o K
  BY <1>1, FlattenConcat DEF Puts
<1>3. H \o K \in Seq(Int)
  BY ConcatProperties DEF Puts
<1> QED BY <1>2, <1>3 DEF Puts

\* The halfwords H are in code, from a on, and nothing else is
CodeAt(mem, a, H) ==
  /\ DOMAIN mem = {a + 2 * (i - 1) : i \in 1..Len(H)}
  /\ \A i \in 1..Len(H) : mem[a + 2 * (i - 1)] = H[i]

LEMMA PutsAt ==
  ASSUME NEW items, NEW H, Puts(items, H), NEW a \in Int
  PROVE  CodeAt(At(a, items), a, H) /\ SizeOf(items) = 2 * Len(H)
<1>1. DOMAIN H = 1..Len(H) /\ Len(H) \in Nat
  BY DEF Puts
<1>2. FlattenSeq(items) = H
  BY DEF Puts
<1>3. At(a, items) = [b \in {a + 2 * (i - 1) : i \in 1..Len(H)} |-> H[(b - a) \div 2 + 1]]
  BY <1>1, <1>2 DEF At
<1>4. ASSUME NEW i \in 1..Len(H) PROVE At(a, items)[a + 2 * (i - 1)] = H[i]
  <2>1. PICK b : b = a + 2 * (i - 1)
    OBVIOUS
  <2>2. b - a = 2 * (i - 1)
    BY <1>1, <2>1
  <2>3. (b - a) \div 2 + 1 = i
    BY <1>1, <2>2
  <2>4. b \in {a + 2 * (j - 1) : j \in 1..Len(H)}
    BY <2>1
  <2> QED BY Zenon, <1>3, <2>1, <2>3, <2>4
<1>5. DOMAIN At(a, items) = {a + 2 * (i - 1) : i \in 1..Len(H)}
  BY <1>3
<1>6. SizeOf(items) = 2 * Len(H)
  BY <1>2 DEF SizeOf
<1> QED BY <1>4, <1>5, <1>6 DEF CodeAt

LEMMA CodeOutside ==
  ASSUME NEW mem, NEW a \in Int, NEW H, Len(H) \in Nat, CodeAt(mem, a, H),
         NEW b \in Int, b < a \/ b >= a + 2 * Len(H)
  PROVE  b \notin DOMAIN mem
  BY SMT DEF CodeAt

HalfwordAt(a, i) == a + 2 * (i - 1)

LEMMA CodeInside ==
  ASSUME NEW mem, NEW a \in Int, NEW H, CodeAt(mem, a, H)
  PROVE  \A i \in 1..Len(H) : HalfwordAt(a, i) \in DOMAIN mem /\ mem[HalfwordAt(a, i)] = H[i]
  BY Zenon DEF CodeAt, HalfwordAt

LEMMA Code1 ==
  ASSUME NEW mem, NEW a \in Int,
         NEW h1,
         CodeAt(mem, a, <<h1>>)
  PROVE  /\ a \in DOMAIN mem /\ mem[a] = h1
         /\ \A b \in Int : b < a \/ b >= a + 2 => b \notin DOMAIN mem
<1> DEFINE H == <<h1>>
<1>1. /\ Len(H) = 1
      /\ H[1] = h1
  OBVIOUS
<1>2. CodeAt(mem, a, H)
  OBVIOUS
<1> HIDE DEF H
<1>i. \A i \in 1..Len(H) : HalfwordAt(a, i) \in DOMAIN mem /\ mem[HalfwordAt(a, i)] = H[i]
  BY SMT, <1>2, CodeInside
<1>3. a \in DOMAIN mem /\ mem[a] = h1
  <2>1. 1 \in 1..Len(H) /\ HalfwordAt(a, 1) = a
    BY SMT, <1>1 DEF HalfwordAt
  <2> QED BY Zenon, <1>1, <1>i, <2>1
<1>4. ASSUME NEW b \in Int, b < a \/ b >= a + 2 PROVE b \notin DOMAIN mem
  <2>1. Len(H) \in Nat /\ (b < a \/ b >= a + 2 * Len(H))
    BY SMT, <1>1, <1>4
  <2> QED BY Zenon, <1>2, <2>1, CodeOutside
<1> QED BY Zenon, <1>3, <1>4

LEMMA Code2 ==
  ASSUME NEW mem, NEW a \in Int,
         NEW h1, NEW h2,
         CodeAt(mem, a, <<h1, h2>>)
  PROVE  /\ a \in DOMAIN mem /\ mem[a] = h1
         /\ a + 2 \in DOMAIN mem /\ mem[a + 2] = h2
         /\ \A b \in Int : b < a \/ b >= a + 4 => b \notin DOMAIN mem
<1> DEFINE H == <<h1, h2>>
<1>1. /\ Len(H) = 2
      /\ H[1] = h1
      /\ H[2] = h2
  OBVIOUS
<1>2. CodeAt(mem, a, H)
  OBVIOUS
<1> HIDE DEF H
<1>i. \A i \in 1..Len(H) : HalfwordAt(a, i) \in DOMAIN mem /\ mem[HalfwordAt(a, i)] = H[i]
  BY SMT, <1>2, CodeInside
<1>3. a \in DOMAIN mem /\ mem[a] = h1
  <2>1. 1 \in 1..Len(H) /\ HalfwordAt(a, 1) = a
    BY SMT, <1>1 DEF HalfwordAt
  <2> QED BY Zenon, <1>1, <1>i, <2>1
<1>4. a + 2 \in DOMAIN mem /\ mem[a + 2] = h2
  <2>1. 2 \in 1..Len(H) /\ HalfwordAt(a, 2) = a + 2
    BY SMT, <1>1 DEF HalfwordAt
  <2> QED BY Zenon, <1>1, <1>i, <2>1
<1>5. ASSUME NEW b \in Int, b < a \/ b >= a + 4 PROVE b \notin DOMAIN mem
  <2>1. Len(H) \in Nat /\ (b < a \/ b >= a + 2 * Len(H))
    BY SMT, <1>1, <1>5
  <2> QED BY Zenon, <1>2, <2>1, CodeOutside
<1> QED BY Zenon, <1>3, <1>4, <1>5

LEMMA Code3 ==
  ASSUME NEW mem, NEW a \in Int,
         NEW h1, NEW h2, NEW h3,
         CodeAt(mem, a, <<h1, h2, h3>>)
  PROVE  /\ a \in DOMAIN mem /\ mem[a] = h1
         /\ a + 2 \in DOMAIN mem /\ mem[a + 2] = h2
         /\ a + 4 \in DOMAIN mem /\ mem[a + 4] = h3
         /\ \A b \in Int : b < a \/ b >= a + 6 => b \notin DOMAIN mem
<1> DEFINE H == <<h1, h2, h3>>
<1>1. /\ Len(H) = 3
      /\ H[1] = h1
      /\ H[2] = h2
      /\ H[3] = h3
  OBVIOUS
<1>2. CodeAt(mem, a, H)
  OBVIOUS
<1> HIDE DEF H
<1>i. \A i \in 1..Len(H) : HalfwordAt(a, i) \in DOMAIN mem /\ mem[HalfwordAt(a, i)] = H[i]
  BY SMT, <1>2, CodeInside
<1>3. a \in DOMAIN mem /\ mem[a] = h1
  <2>1. 1 \in 1..Len(H) /\ HalfwordAt(a, 1) = a
    BY SMT, <1>1 DEF HalfwordAt
  <2> QED BY Zenon, <1>1, <1>i, <2>1
<1>4. a + 2 \in DOMAIN mem /\ mem[a + 2] = h2
  <2>1. 2 \in 1..Len(H) /\ HalfwordAt(a, 2) = a + 2
    BY SMT, <1>1 DEF HalfwordAt
  <2> QED BY Zenon, <1>1, <1>i, <2>1
<1>5. a + 4 \in DOMAIN mem /\ mem[a + 4] = h3
  <2>1. 3 \in 1..Len(H) /\ HalfwordAt(a, 3) = a + 4
    BY SMT, <1>1 DEF HalfwordAt
  <2> QED BY Zenon, <1>1, <1>i, <2>1
<1>6. ASSUME NEW b \in Int, b < a \/ b >= a + 6 PROVE b \notin DOMAIN mem
  <2>1. Len(H) \in Nat /\ (b < a \/ b >= a + 2 * Len(H))
    BY SMT, <1>1, <1>6
  <2> QED BY Zenon, <1>2, <2>1, CodeOutside
<1> QED BY Zenon, <1>3, <1>4, <1>5, <1>6

LEMMA Code4 ==
  ASSUME NEW mem, NEW a \in Int,
         NEW h1, NEW h2, NEW h3, NEW h4,
         CodeAt(mem, a, <<h1, h2, h3, h4>>)
  PROVE  /\ a \in DOMAIN mem /\ mem[a] = h1
         /\ a + 2 \in DOMAIN mem /\ mem[a + 2] = h2
         /\ a + 4 \in DOMAIN mem /\ mem[a + 4] = h3
         /\ a + 6 \in DOMAIN mem /\ mem[a + 6] = h4
         /\ \A b \in Int : b < a \/ b >= a + 8 => b \notin DOMAIN mem
<1> DEFINE H == <<h1, h2, h3, h4>>
<1>1. /\ Len(H) = 4
      /\ H[1] = h1
      /\ H[2] = h2
      /\ H[3] = h3
      /\ H[4] = h4
  OBVIOUS
<1>2. CodeAt(mem, a, H)
  OBVIOUS
<1> HIDE DEF H
<1>i. \A i \in 1..Len(H) : HalfwordAt(a, i) \in DOMAIN mem /\ mem[HalfwordAt(a, i)] = H[i]
  BY SMT, <1>2, CodeInside
<1>3. a \in DOMAIN mem /\ mem[a] = h1
  <2>1. 1 \in 1..Len(H) /\ HalfwordAt(a, 1) = a
    BY SMT, <1>1 DEF HalfwordAt
  <2> QED BY Zenon, <1>1, <1>i, <2>1
<1>4. a + 2 \in DOMAIN mem /\ mem[a + 2] = h2
  <2>1. 2 \in 1..Len(H) /\ HalfwordAt(a, 2) = a + 2
    BY SMT, <1>1 DEF HalfwordAt
  <2> QED BY Zenon, <1>1, <1>i, <2>1
<1>5. a + 4 \in DOMAIN mem /\ mem[a + 4] = h3
  <2>1. 3 \in 1..Len(H) /\ HalfwordAt(a, 3) = a + 4
    BY SMT, <1>1 DEF HalfwordAt
  <2> QED BY Zenon, <1>1, <1>i, <2>1
<1>6. a + 6 \in DOMAIN mem /\ mem[a + 6] = h4
  <2>1. 4 \in 1..Len(H) /\ HalfwordAt(a, 4) = a + 6
    BY SMT, <1>1 DEF HalfwordAt
  <2> QED BY Zenon, <1>1, <1>i, <2>1
<1>7. ASSUME NEW b \in Int, b < a \/ b >= a + 8 PROVE b \notin DOMAIN mem
  <2>1. Len(H) \in Nat /\ (b < a \/ b >= a + 2 * Len(H))
    BY SMT, <1>1, <1>7
  <2> QED BY Zenon, <1>2, <2>1, CodeOutside
<1> QED BY Zenon, <1>3, <1>4, <1>5, <1>6, <1>7

LEMMA Code5 ==
  ASSUME NEW mem, NEW a \in Int,
         NEW h1, NEW h2, NEW h3, NEW h4, NEW h5,
         CodeAt(mem, a, <<h1, h2, h3, h4, h5>>)
  PROVE  /\ a \in DOMAIN mem /\ mem[a] = h1
         /\ a + 2 \in DOMAIN mem /\ mem[a + 2] = h2
         /\ a + 4 \in DOMAIN mem /\ mem[a + 4] = h3
         /\ a + 6 \in DOMAIN mem /\ mem[a + 6] = h4
         /\ a + 8 \in DOMAIN mem /\ mem[a + 8] = h5
         /\ \A b \in Int : b < a \/ b >= a + 10 => b \notin DOMAIN mem
<1> DEFINE H == <<h1, h2, h3, h4, h5>>
<1>1. /\ Len(H) = 5
      /\ H[1] = h1
      /\ H[2] = h2
      /\ H[3] = h3
      /\ H[4] = h4
      /\ H[5] = h5
  OBVIOUS
<1>2. CodeAt(mem, a, H)
  OBVIOUS
<1> HIDE DEF H
<1>i. \A i \in 1..Len(H) : HalfwordAt(a, i) \in DOMAIN mem /\ mem[HalfwordAt(a, i)] = H[i]
  BY SMT, <1>2, CodeInside
<1>3. a \in DOMAIN mem /\ mem[a] = h1
  <2>1. 1 \in 1..Len(H) /\ HalfwordAt(a, 1) = a
    BY SMT, <1>1 DEF HalfwordAt
  <2> QED BY Zenon, <1>1, <1>i, <2>1
<1>4. a + 2 \in DOMAIN mem /\ mem[a + 2] = h2
  <2>1. 2 \in 1..Len(H) /\ HalfwordAt(a, 2) = a + 2
    BY SMT, <1>1 DEF HalfwordAt
  <2> QED BY Zenon, <1>1, <1>i, <2>1
<1>5. a + 4 \in DOMAIN mem /\ mem[a + 4] = h3
  <2>1. 3 \in 1..Len(H) /\ HalfwordAt(a, 3) = a + 4
    BY SMT, <1>1 DEF HalfwordAt
  <2> QED BY Zenon, <1>1, <1>i, <2>1
<1>6. a + 6 \in DOMAIN mem /\ mem[a + 6] = h4
  <2>1. 4 \in 1..Len(H) /\ HalfwordAt(a, 4) = a + 6
    BY SMT, <1>1 DEF HalfwordAt
  <2> QED BY Zenon, <1>1, <1>i, <2>1
<1>7. a + 8 \in DOMAIN mem /\ mem[a + 8] = h5
  <2>1. 5 \in 1..Len(H) /\ HalfwordAt(a, 5) = a + 8
    BY SMT, <1>1 DEF HalfwordAt
  <2> QED BY Zenon, <1>1, <1>i, <2>1
<1>8. ASSUME NEW b \in Int, b < a \/ b >= a + 10 PROVE b \notin DOMAIN mem
  <2>1. Len(H) \in Nat /\ (b < a \/ b >= a + 2 * Len(H))
    BY SMT, <1>1, <1>8
  <2> QED BY Zenon, <1>2, <2>1, CodeOutside
<1> QED BY Zenon, <1>3, <1>4, <1>5, <1>6, <1>7, <1>8

LEMMA Code6 ==
  ASSUME NEW mem, NEW a \in Int,
         NEW h1, NEW h2, NEW h3, NEW h4, NEW h5, NEW h6,
         CodeAt(mem, a, <<h1, h2, h3, h4, h5, h6>>)
  PROVE  /\ a \in DOMAIN mem /\ mem[a] = h1
         /\ a + 2 \in DOMAIN mem /\ mem[a + 2] = h2
         /\ a + 4 \in DOMAIN mem /\ mem[a + 4] = h3
         /\ a + 6 \in DOMAIN mem /\ mem[a + 6] = h4
         /\ a + 8 \in DOMAIN mem /\ mem[a + 8] = h5
         /\ a + 10 \in DOMAIN mem /\ mem[a + 10] = h6
         /\ \A b \in Int : b < a \/ b >= a + 12 => b \notin DOMAIN mem
<1> DEFINE H == <<h1, h2, h3, h4, h5, h6>>
<1>1. /\ Len(H) = 6
      /\ H[1] = h1
      /\ H[2] = h2
      /\ H[3] = h3
      /\ H[4] = h4
      /\ H[5] = h5
      /\ H[6] = h6
  OBVIOUS
<1>2. CodeAt(mem, a, H)
  OBVIOUS
<1> HIDE DEF H
<1>i. \A i \in 1..Len(H) : HalfwordAt(a, i) \in DOMAIN mem /\ mem[HalfwordAt(a, i)] = H[i]
  BY SMT, <1>2, CodeInside
<1>3. a \in DOMAIN mem /\ mem[a] = h1
  <2>1. 1 \in 1..Len(H) /\ HalfwordAt(a, 1) = a
    BY SMT, <1>1 DEF HalfwordAt
  <2> QED BY Zenon, <1>1, <1>i, <2>1
<1>4. a + 2 \in DOMAIN mem /\ mem[a + 2] = h2
  <2>1. 2 \in 1..Len(H) /\ HalfwordAt(a, 2) = a + 2
    BY SMT, <1>1 DEF HalfwordAt
  <2> QED BY Zenon, <1>1, <1>i, <2>1
<1>5. a + 4 \in DOMAIN mem /\ mem[a + 4] = h3
  <2>1. 3 \in 1..Len(H) /\ HalfwordAt(a, 3) = a + 4
    BY SMT, <1>1 DEF HalfwordAt
  <2> QED BY Zenon, <1>1, <1>i, <2>1
<1>6. a + 6 \in DOMAIN mem /\ mem[a + 6] = h4
  <2>1. 4 \in 1..Len(H) /\ HalfwordAt(a, 4) = a + 6
    BY SMT, <1>1 DEF HalfwordAt
  <2> QED BY Zenon, <1>1, <1>i, <2>1
<1>7. a + 8 \in DOMAIN mem /\ mem[a + 8] = h5
  <2>1. 5 \in 1..Len(H) /\ HalfwordAt(a, 5) = a + 8
    BY SMT, <1>1 DEF HalfwordAt
  <2> QED BY Zenon, <1>1, <1>i, <2>1
<1>8. a + 10 \in DOMAIN mem /\ mem[a + 10] = h6
  <2>1. 6 \in 1..Len(H) /\ HalfwordAt(a, 6) = a + 10
    BY SMT, <1>1 DEF HalfwordAt
  <2> QED BY Zenon, <1>1, <1>i, <2>1
<1>9. ASSUME NEW b \in Int, b < a \/ b >= a + 12 PROVE b \notin DOMAIN mem
  <2>1. Len(H) \in Nat /\ (b < a \/ b >= a + 2 * Len(H))
    BY SMT, <1>1, <1>9
  <2> QED BY Zenon, <1>2, <2>1, CodeOutside
<1> QED BY Zenon, <1>3, <1>4, <1>5, <1>6, <1>7, <1>8, <1>9

LEMMA Code12 ==
  ASSUME NEW mem, NEW a \in Int,
         NEW h1, NEW h2, NEW h3, NEW h4, NEW h5, NEW h6, NEW h7, NEW h8, NEW h9, NEW h10,
         NEW h11, NEW h12,
         CodeAt(mem, a, <<h1, h2, h3, h4, h5, h6, h7, h8, h9, h10, h11, h12>>)
  PROVE  /\ a \in DOMAIN mem /\ mem[a] = h1
         /\ a + 2 \in DOMAIN mem /\ mem[a + 2] = h2
         /\ a + 4 \in DOMAIN mem /\ mem[a + 4] = h3
         /\ a + 6 \in DOMAIN mem /\ mem[a + 6] = h4
         /\ a + 8 \in DOMAIN mem /\ mem[a + 8] = h5
         /\ a + 10 \in DOMAIN mem /\ mem[a + 10] = h6
         /\ a + 12 \in DOMAIN mem /\ mem[a + 12] = h7
         /\ a + 14 \in DOMAIN mem /\ mem[a + 14] = h8
         /\ a + 16 \in DOMAIN mem /\ mem[a + 16] = h9
         /\ a + 18 \in DOMAIN mem /\ mem[a + 18] = h10
         /\ a + 20 \in DOMAIN mem /\ mem[a + 20] = h11
         /\ a + 22 \in DOMAIN mem /\ mem[a + 22] = h12
         /\ \A b \in Int : b < a \/ b >= a + 24 => b \notin DOMAIN mem
<1> DEFINE H == <<h1, h2, h3, h4, h5, h6, h7, h8, h9, h10, h11, h12>>
<1>1. /\ Len(H) = 12
      /\ H[1] = h1
      /\ H[2] = h2
      /\ H[3] = h3
      /\ H[4] = h4
      /\ H[5] = h5
      /\ H[6] = h6
      /\ H[7] = h7
      /\ H[8] = h8
      /\ H[9] = h9
      /\ H[10] = h10
      /\ H[11] = h11
      /\ H[12] = h12
  OBVIOUS
<1>2. CodeAt(mem, a, H)
  OBVIOUS
<1> HIDE DEF H
<1>i. \A i \in 1..Len(H) : HalfwordAt(a, i) \in DOMAIN mem /\ mem[HalfwordAt(a, i)] = H[i]
  BY SMT, <1>2, CodeInside
<1>3. a \in DOMAIN mem /\ mem[a] = h1
  <2>1. 1 \in 1..Len(H) /\ HalfwordAt(a, 1) = a
    BY SMT, <1>1 DEF HalfwordAt
  <2> QED BY Zenon, <1>1, <1>i, <2>1
<1>4. a + 2 \in DOMAIN mem /\ mem[a + 2] = h2
  <2>1. 2 \in 1..Len(H) /\ HalfwordAt(a, 2) = a + 2
    BY SMT, <1>1 DEF HalfwordAt
  <2> QED BY Zenon, <1>1, <1>i, <2>1
<1>5. a + 4 \in DOMAIN mem /\ mem[a + 4] = h3
  <2>1. 3 \in 1..Len(H) /\ HalfwordAt(a, 3) = a + 4
    BY SMT, <1>1 DEF HalfwordAt
  <2> QED BY Zenon, <1>1, <1>i, <2>1
<1>6. a + 6 \in DOMAIN mem /\ mem[a + 6] = h4
  <2>1. 4 \in 1..Len(H) /\ HalfwordAt(a, 4) = a + 6
    BY SMT, <1>1 DEF HalfwordAt
  <2> QED BY Zenon, <1>1, <1>i, <2>1
<1>7. a + 8 \in DOMAIN mem /\ mem[a + 8] = h5
  <2>1. 5 \in 1..Len(H) /\ HalfwordAt(a, 5) = a + 8
    BY SMT, <1>1 DEF HalfwordAt
  <2> QED BY Zenon, <1>1, <1>i, <2>1
<1>8. a + 10 \in DOMAIN mem /\ mem[a + 10] = h6
  <2>1. 6 \in 1..Len(H) /\ HalfwordAt(a, 6) = a + 10
    BY SMT, <1>1 DEF HalfwordAt
  <2> QED BY Zenon, <1>1, <1>i, <2>1
<1>9. a + 12 \in DOMAIN mem /\ mem[a + 12] = h7
  <2>1. 7 \in 1..Len(H) /\ HalfwordAt(a, 7) = a + 12
    BY SMT, <1>1 DEF HalfwordAt
  <2> QED BY Zenon, <1>1, <1>i, <2>1
<1>10. a + 14 \in DOMAIN mem /\ mem[a + 14] = h8
  <2>1. 8 \in 1..Len(H) /\ HalfwordAt(a, 8) = a + 14
    BY SMT, <1>1 DEF HalfwordAt
  <2> QED BY Zenon, <1>1, <1>i, <2>1
<1>11. a + 16 \in DOMAIN mem /\ mem[a + 16] = h9
  <2>1. 9 \in 1..Len(H) /\ HalfwordAt(a, 9) = a + 16
    BY SMT, <1>1 DEF HalfwordAt
  <2> QED BY Zenon, <1>1, <1>i, <2>1
<1>12. a + 18 \in DOMAIN mem /\ mem[a + 18] = h10
  <2>1. 10 \in 1..Len(H) /\ HalfwordAt(a, 10) = a + 18
    BY SMT, <1>1 DEF HalfwordAt
  <2> QED BY Zenon, <1>1, <1>i, <2>1
<1>13. a + 20 \in DOMAIN mem /\ mem[a + 20] = h11
  <2>1. 11 \in 1..Len(H) /\ HalfwordAt(a, 11) = a + 20
    BY SMT, <1>1 DEF HalfwordAt
  <2> QED BY Zenon, <1>1, <1>i, <2>1
<1>14. a + 22 \in DOMAIN mem /\ mem[a + 22] = h12
  <2>1. 12 \in 1..Len(H) /\ HalfwordAt(a, 12) = a + 22
    BY SMT, <1>1 DEF HalfwordAt
  <2> QED BY Zenon, <1>1, <1>i, <2>1
<1>15. ASSUME NEW b \in Int, b < a \/ b >= a + 24 PROVE b \notin DOMAIN mem
  <2>1. Len(H) \in Nat /\ (b < a \/ b >= a + 2 * Len(H))
    BY SMT, <1>1, <1>15
  <2> QED BY Zenon, <1>2, <2>1, CodeOutside
<1> QED BY Zenon, <1>3, <1>4, <1>5, <1>6, <1>7, <1>8, <1>9, <1>10, <1>11, <1>12, <1>13, <1>14, <1>15

(* ------------------------------------------------------------------------ *)
(* Getting through: in so many steps the machine x has left the code and is   *)
(* as g is, but for stores g knows nothing of                                 *)

Reach0(x, mem, g) ==
  /\ x.pc \notin DOMAIN mem
  /\ x.pc = g.pc /\ x.thumb = g.thumb /\ x.r = g.r
  /\ \A a \in DOMAIN g.ram : x.ram[a] = g.ram[a]
Reach1(x, mem, g) == Reach0(x, mem, g) \/ (x.pc \in DOMAIN mem /\ Reach0(Step(x, mem), mem, g))
Reach2(x, mem, g) == Reach1(x, mem, g) \/ (x.pc \in DOMAIN mem /\ Reach1(Step(x, mem), mem, g))
Reach3(x, mem, g) == Reach2(x, mem, g) \/ (x.pc \in DOMAIN mem /\ Reach2(Step(x, mem), mem, g))
Reach4(x, mem, g) == Reach3(x, mem, g) \/ (x.pc \in DOMAIN mem /\ Reach3(Step(x, mem), mem, g))
Reach5(x, mem, g) == Reach4(x, mem, g) \/ (x.pc \in DOMAIN mem /\ Reach4(Step(x, mem), mem, g))
Reach6(x, mem, g) == Reach5(x, mem, g) \/ (x.pc \in DOMAIN mem /\ Reach5(Step(x, mem), mem, g))

LEMMA ReachStep ==
  ASSUME NEW x, NEW mem, NEW g, Reach6(x, mem, g), x.pc \in DOMAIN mem
  PROVE  Reach6(Step(x, mem), mem, g)
<1>1. ~Reach0(x, mem, g)
  BY DEF Reach0
<1>2. Reach1(x, mem, g) => Reach1(Step(x, mem), mem, g)
  BY Zenon, <1>1 DEF Reach1
<1>3. Reach2(x, mem, g) => Reach2(Step(x, mem), mem, g)
  BY Zenon, <1>2 DEF Reach2
<1>4. Reach3(x, mem, g) => Reach3(Step(x, mem), mem, g)
  BY Zenon, <1>3 DEF Reach3
<1>5. Reach4(x, mem, g) => Reach4(Step(x, mem), mem, g)
  BY Zenon, <1>4 DEF Reach4
<1>6. Reach5(x, mem, g) => Reach5(Step(x, mem), mem, g)
  BY Zenon, <1>5 DEF Reach5
<1> QED BY Zenon, <1>6 DEF Reach6

LEMMA ReachEnd ==
  ASSUME NEW x, NEW mem, NEW g, Reach6(x, mem, g), x.pc \notin DOMAIN mem
  PROVE  Reach0(x, mem, g)
  BY Zenon DEF Reach6, Reach5, Reach4, Reach3, Reach2, Reach1

LEMMA Reached ==
  ASSUME NEW x, NEW mem, NEW g, NEW p, NEW t, NEW r, NEW ram,
         IsAt(x, p, t, r, ram), IsAt(g, p, t, r, ram), p \notin DOMAIN mem
  PROVE  Reach0(x, mem, g)
<1>1. x.thumb = g.thumb
  BY SMT DEF IsAt
<1> QED BY Zenon, <1>1 DEF Reach0, IsAt

LEMMA ReachOne ==
  ASSUME NEW x, NEW mem, NEW g, x.pc \in DOMAIN mem, Reach0(Step(x, mem), mem, g)
  PROVE  Reach6(x, mem, g)
  BY Zenon DEF Reach6, Reach5, Reach4, Reach3, Reach2, Reach1

LEMMA ReachTwo ==
  ASSUME NEW x, NEW mem, NEW g, x.pc \in DOMAIN mem,
         NEW y, y = Step(x, mem), y.pc \in DOMAIN mem, Reach0(Step(y, mem), mem, g)
  PROVE  Reach6(x, mem, g)
  BY Zenon DEF Reach6, Reach5, Reach4, Reach3, Reach2, Reach1

LEMMA ReachThree ==
  ASSUME NEW x, NEW mem, NEW g, x.pc \in DOMAIN mem,
         NEW y, y = Step(x, mem), y.pc \in DOMAIN mem,
         NEW z, z = Step(y, mem), z.pc \in DOMAIN mem, Reach0(Step(z, mem), mem, g)
  PROVE  Reach6(x, mem, g)
  BY Zenon DEF Reach6, Reach5, Reach4, Reach3, Reach2, Reach1

(* ------------------------------------------------------------------------ *)
(* The Thumb writers, call by call: x runs what was put and gets where the    *)
(* call says                                                                  *)

Does(x, at, items, g) == Reach6(x, At(at, items), g)
\* There is no code but the n bytes from at on
Outside(mem, at, n) == \A b \in Int : b < at \/ b >= at + n => b \notin DOMAIN mem

\* The distances adr has
WordsEight(v) == v \in 1..255 /\ v % 4 = 0

LEMMA PutsPair ==
  ASSUME NEW h \in Int, NEW k \in Int
  PROVE  Puts(<<<<h>>>> \o <<<<k>>>>, <<h, k>>)
<1>1. <<h>> \in Seq(Int) /\ <<k>> \in Seq(Int)
  OBVIOUS
<1> DEFINE s == <<h>>
           u == <<k>>
           w == <<h, k>>
<1>2. /\ s \in Seq(Int) /\ Len(s) = 1 /\ s[1] = h /\ u \in Seq(Int) /\ Len(u) = 1 /\ u[1] = k
      /\ w \in Seq(Int) /\ Len(w) = 2 /\ w[1] = h /\ w[2] = k
  OBVIOUS
<1> HIDE DEF s, u, w
<1>3. /\ s \o u \in Seq(Int) /\ Len(s \o u) = Len(s) + Len(u)
      /\ \A i \in 1 .. Len(s) + Len(u) :
           (s \o u)[i] = IF i <= Len(s) THEN s[i] ELSE u[i - Len(s)]
  BY Zenon, <1>2, ConcatProperties
<1>a. Len(s \o u) = 2
  BY SMT, <1>2, <1>3
<1>b. (s \o u)[1] = h
  BY SMT, <1>2, <1>3
<1>c. (s \o u)[2] = k
  BY SMT, <1>2, <1>3
<1>4. s \o u = w
  BY SMT, <1>2, <1>3, <1>a, <1>b, <1>c
<1> QED BY Zenon, <1>4, PutsOne, PutsBoth DEF s, u, w

Sits1(items, mem, at, h) ==
  /\ SizeOf(items) = 2 /\ Outside(mem, at, 2)
  /\ at \in DOMAIN mem /\ mem[at] = h

LEMMA InOne ==
  ASSUME NEW at \in Int, NEW items, NEW h, Puts(items, <<h>>), NEW mem, mem = At(at, items)
  PROVE  Sits1(items, mem, at, h)
<1>1. CodeAt(mem, at, <<h>>) /\ SizeOf(items) = 2 * Len(<<h>>)
  BY Zenon, PutsAt
<1>2. SizeOf(items) = 2
  BY SMT, <1>1
<1> QED BY Zenon, <1>1, <1>2, Code1 DEF Outside, Sits1

Sits2(items, mem, at, h, k) ==
  /\ SizeOf(items) = 4 /\ Outside(mem, at, 4)
  /\ at \in DOMAIN mem /\ mem[at] = h
  /\ at + 2 \in DOMAIN mem /\ mem[at + 2] = k

LEMMA InTwo ==
  ASSUME NEW at \in Int, NEW items, NEW h, NEW k, Puts(items, <<h, k>>), NEW mem,
         mem = At(at, items)
  PROVE  Sits2(items, mem, at, h, k)
<1>1. CodeAt(mem, at, <<h, k>>) /\ SizeOf(items) = 2 * Len(<<h, k>>)
  BY Zenon, PutsAt
<1>2. SizeOf(items) = 4
  BY SMT, <1>1
<1>3. /\ at \in DOMAIN mem /\ mem[at] = h /\ at + 2 \in DOMAIN mem /\ mem[at + 2] = k
      /\ \A b \in Int : b < at \/ b >= at + 4 => b \notin DOMAIN mem
  BY SMT, <1>1, Code2
<1> QED BY Zenon, <1>2, <1>3 DEF Outside, Sits2

LEMMA DoesOne ==
  ASSUME NEW x, NEW at, NEW items, NEW mem, mem = At(at, items), x.pc = at, at \in DOMAIN mem,
         NEW g, NEW p, NEW t, NEW r, NEW ram,
         IsAt(Step(x, mem), p, t, r, ram), IsAt(g, p, t, r, ram), p \notin DOMAIN mem
  PROVE  Does(x, at, items, g)
<1>1. Reach0(Step(x, mem), mem, g)
  BY Zenon, Reached
<1> QED BY Zenon, <1>1, ReachOne DEF Does

LEMMA NotIn ==
  ASSUME NEW mem, NEW at \in Int, NEW n \in Int, Outside(mem, at, n), NEW p \in Int,
         p < at \/ p >= at + n
  PROVE  p \notin DOMAIN mem
  BY Zenon DEF Outside

\* What is read or written at a is not among the few instructions put at at
Far(a, at) == a \in Int /\ (a < at \/ a >= at + 24)

LEMMA FarRead ==
  ASSUME NEW x, NEW p, NEW t, NEW r, IsAt(x, p, t, r, << >>), NEW a, NEW at \in Int, Far(a, at),
         NEW mem, NEW n \in 0..24, Outside(mem, at, n)
  PROVE  Load(x, mem, a) = Content(a)
<1>1. a \notin DOMAIN mem
  BY SMT DEF Far, Outside
<1> QED BY Zenon, <1>1, LoadContent

LEMMA ThumbNop ==
  ASSUME NEW x, NEW at \in Int, NEW r, IsAt(x, at, 1, r, << >>)
  PROVE  SizeOf(thumb_put_nop) = 2 /\ Does(x, at, thumb_put_nop, Skip(x, 2))
<1>1. Puts(thumb_put_nop, <<EncNop>>)
  BY PutsOne DEF thumb_put_nop, thumb_put_instruction, EncNop
<1>2. IsAt(Skip(x, 2), at + 2, 1, r, << >>)
  BY Zenon, AtSkip
<1>3. x.thumb /\ x.pc = at
  BY DEF IsAt
<1> DEFINE mem == At(at, thumb_put_nop)
<1> HIDE DEF mem
<1>4. SizeOf(thumb_put_nop) = 2 /\ at \in DOMAIN mem /\ mem[at] = EncNop /\ Outside(mem, at, 2)
  <2>1. Sits1(thumb_put_nop, mem, at, EncNop)
    BY Zenon, <1>1, InOne DEF mem
  <2> QED BY Zenon, <2>1 DEF Sits1
<1>5. Step(x, mem) = Skip(x, 2)
  BY Zenon, <1>3, <1>4, StepNop
<1>6. at + 2 \notin DOMAIN mem
  BY SMT, <1>4 DEF Outside
<1> QED BY Zenon, <1>2, <1>3, <1>4, <1>5, <1>6, DoesOne DEF mem

LEMMA ThumbLdrT1 ==
  ASSUME NEW x, NEW at \in Int, NEW r, IsAt(x, at, 1, r, << >>), NEW a \in 0..7, NEW b \in 0..7,
         NEW q \in Nat, q < 32, NEW access, access = r[b] + q * 4, Far(access, at), NEW items,
         items = thumb_put_transfer_T1(1, a, b, q * 4)
  PROVE  SizeOf(items) = 2 /\ Does(x, at, items, Set(x, a, Content(access), 2))
<1> DEFINE h == EncTransfer1(1, a, b, q)
<1>1. h \in Int
  BY SMT DEF EncTransfer1, Twelve, Eight
<1>2. items = <<<<h>>>>
  <2>1. (q * 4) \div 4 = q
    BY SMT DEF Eight
  <2> QED BY SMT, <2>1 DEF thumb_put_transfer_T1, EncTransfer1, thumb_put_instruction
<1> HIDE DEF h
<1>3. Puts(items, <<h>>)
  BY Zenon, <1>1, <1>2, PutsOne
<1>4. a \in 0..14 /\ b \in 0..14 /\ q * 4 \in Int /\ x.pc = at /\ x.thumb
  BY SMT DEF IsAt, Twelve, Eight
<1> DEFINE s == [r EXCEPT ![a] = Content(access)]
<1> DEFINE p == at + 2
<1>5. IsAt(Set(x, a, Content(access), 2), p, 1, s, << >>)
  BY Zenon, <1>4, AtSet
<1>m. PICK mem : mem = At(at, items)
  OBVIOUS
<1>6. SizeOf(items) = 2 /\ at \in DOMAIN mem /\ mem[at] = h /\ Outside(mem, at, 2)
  <2>1. Sits1(items, mem, at, h)
    BY Zenon, <1>3, <1>m, InOne
  <2> QED BY Zenon, <2>1 DEF Sits1
<1>7. Step(x, mem) = Transfer(x, mem, 1, a, b, q * 4, 1, 0, 2)
  <2>1. mem[x.pc] = EncTransfer1(1, a, b, q)
    BY Zenon, <1>4, <1>6 DEF h
  <2>t. x.thumb
    BY Zenon, <1>4
  <2>2. Transfer1In(mem, x.pc, 1, a, b, q)
    BY SMT, <2>1 DEF Transfer1In
  <2> QED BY Zenon, <2>t, <2>2, StepTransfer1
<1>8. Load(x, mem, r[b] + q * 4) = Content(access)
  <2>1. 2 \in 0..24
    BY SMT
  <2> QED BY Zenon, <1>6, <2>1, FarRead
<1>9. IsAt(Step(x, mem), p, 1, s, << >>)
  <2>1. IsAt(Transfer(x, mem, 1, a, b, q * 4, 1, 0, 2), at + 2, 1,
             [r EXCEPT ![a] = Load(x, mem, r[b] + q * 4)], << >>)
    BY Zenon, <1>4, AtLoad
  <2> QED BY Zenon, <1>7, <1>8, <2>1
<1>10. p \notin DOMAIN mem
  BY SMT, <1>6 DEF Outside
<1> HIDE DEF s, p
<1> QED BY Zenon, <1>4, <1>5, <1>6, <1>9, <1>10, <1>m, DoesOne

LEMMA ThumbLdrT2 ==
  ASSUME NEW x, NEW at \in Int, NEW r, IsAt(x, at, 1, r, << >>), NEW a \in 0..7, NEW q \in Nat,
         Eight(q), NEW access, access = r[13] + q * 4, Far(access, at), NEW items,
         items = thumb_put_transfer_T2(1, a, 13, q * 4)
  PROVE  SizeOf(items) = 2 /\ Does(x, at, items, Set(x, a, Content(access), 2))
<1> DEFINE h == EncTransfer2(1, a, q)
<1>1. h \in Int
  BY SMT DEF EncTransfer2, Twelve, Eight
<1>2. items = <<<<h>>>>
  <2>1. (q * 4) \div 4 = q
    BY SMT DEF Eight
  <2> QED BY SMT, <2>1 DEF thumb_put_transfer_T2, EncTransfer2, thumb_put_instruction
<1> HIDE DEF h
<1>3. Puts(items, <<h>>)
  BY Zenon, <1>1, <1>2, PutsOne
<1>4. a \in 0..14 /\ 13 \in 0..14 /\ q * 4 \in Int /\ x.pc = at /\ x.thumb
  BY SMT DEF IsAt, Twelve, Eight
<1> DEFINE s == [r EXCEPT ![a] = Content(access)]
<1> DEFINE p == at + 2
<1>5. IsAt(Set(x, a, Content(access), 2), p, 1, s, << >>)
  BY Zenon, <1>4, AtSet
<1>m. PICK mem : mem = At(at, items)
  OBVIOUS
<1>6. SizeOf(items) = 2 /\ at \in DOMAIN mem /\ mem[at] = h /\ Outside(mem, at, 2)
  <2>1. Sits1(items, mem, at, h)
    BY Zenon, <1>3, <1>m, InOne
  <2> QED BY Zenon, <2>1 DEF Sits1
<1>7. Step(x, mem) = Transfer(x, mem, 1, a, 13, q * 4, 1, 0, 2)
  <2>1. mem[x.pc] = EncTransfer2(1, a, q)
    BY Zenon, <1>4, <1>6 DEF h
  <2>t. x.thumb
    BY Zenon, <1>4
  <2>2. Transfer2In(mem, x.pc, 1, a, q)
    BY SMT, <2>1 DEF Transfer2In
  <2> QED BY Zenon, <2>t, <2>2, StepTransfer2
<1>8. Load(x, mem, r[13] + q * 4) = Content(access)
  <2>1. 2 \in 0..24
    BY SMT
  <2> QED BY Zenon, <1>6, <2>1, FarRead
<1>9. IsAt(Step(x, mem), p, 1, s, << >>)
  <2>1. IsAt(Transfer(x, mem, 1, a, 13, q * 4, 1, 0, 2), at + 2, 1,
             [r EXCEPT ![a] = Load(x, mem, r[13] + q * 4)], << >>)
    BY Zenon, <1>4, AtLoad
  <2> QED BY Zenon, <1>7, <1>8, <2>1
<1>10. p \notin DOMAIN mem
  BY SMT, <1>6 DEF Outside
<1> HIDE DEF s, p
<1> QED BY Zenon, <1>4, <1>5, <1>6, <1>9, <1>10, <1>m, DoesOne

LEMMA ThumbLdrT3 ==
  ASSUME NEW x, NEW at \in Int, NEW r, IsAt(x, at, 1, r, << >>), NEW a \in 0..14, NEW b \in 0..14,
         NEW v \in Nat, Twelve(v), NEW access, access = r[b] + v, Far(access, at), NEW items,
         items = thumb_put_transfer_T3(1, a, b, v)
  PROVE  SizeOf(items) = 4 /\ Does(x, at, items, Set(x, a, Content(access), 4))
<1> DEFINE h == EncTransferHigh(1, b)
<1> DEFINE k == EncLow(a, v)
<1>1. h \in Int /\ k \in Int
  BY SMT DEF EncTransferHigh, EncLow, Twelve, Eight
<1>2. items = <<<<h>>>> \o <<<<k>>>>
  <2>1. b # PC
    BY SMT DEF PC
  <2>2. items = (IF b = PC THEN thumb_put_ldr_reg_imm(a, v) ELSE << >>)
                   \o thumb_put_instruction(h) \o thumb_put_instruction(k)
    BY SMT DEF thumb_put_transfer_T3, EncLow, EncTransferHigh
  <2>3. << >> \o <<<<h>>>> = <<<<h>>>>
    BY SMT
  <2> QED BY Zenon, <2>1, <2>2, <2>3 DEF thumb_put_instruction
<1> HIDE DEF h
<1> HIDE DEF k
<1>3. Puts(items, <<h, k>>)
  BY Zenon, <1>1, <1>2, PutsPair
<1>4. v \in Int /\ x.pc = at /\ x.thumb
  BY SMT DEF IsAt, Twelve, Eight
<1> DEFINE s == [r EXCEPT ![a] = Content(access)]
<1> DEFINE p == at + 4
<1>5. IsAt(Set(x, a, Content(access), 4), p, 1, s, << >>)
  BY Zenon, <1>4, AtSet
<1>m. PICK mem : mem = At(at, items)
  OBVIOUS
<1>6. /\ SizeOf(items) = 4 /\ at \in DOMAIN mem /\ mem[at] = h
      /\ at + 2 \in DOMAIN mem /\ mem[at + 2] = k /\ Outside(mem, at, 4)
  <2>1. Sits2(items, mem, at, h, k)
    BY Zenon, <1>3, <1>m, InTwo
  <2> QED BY Zenon, <2>1 DEF Sits2
<1>7. Step(x, mem) = Transfer(x, mem, 1, a, b, v, 1, 0, 4)
  <2>1. /\ mem[x.pc] = EncTransferHigh(1, b)
        /\ x.pc + 2 \in DOMAIN mem /\ mem[x.pc + 2] = EncLow(a, v)
    BY Zenon, <1>4, <1>6 DEF h, k
  <2>t. x.thumb
    BY Zenon, <1>4
  <2>2. Transfer3In(mem, x.pc, 1, a, b, v)
    BY SMT, <2>1 DEF Transfer3In
  <2> QED BY Zenon, <2>t, <2>2, StepTransfer3
<1>8. Load(x, mem, r[b] + v) = Content(access)
  <2>1. 4 \in 0..24
    BY SMT
  <2> QED BY Zenon, <1>6, <2>1, FarRead
<1>9. IsAt(Step(x, mem), p, 1, s, << >>)
  <2>1. IsAt(Transfer(x, mem, 1, a, b, v, 1, 0, 4), at + 4, 1,
             [r EXCEPT ![a] = Load(x, mem, r[b] + v)], << >>)
    BY Zenon, <1>4, AtLoad
  <2> QED BY Zenon, <1>7, <1>8, <2>1
<1>10. p \notin DOMAIN mem
  BY SMT, <1>6 DEF Outside
<1> HIDE DEF s, p
<1> QED BY Zenon, <1>4, <1>5, <1>6, <1>9, <1>10, <1>m, DoesOne

LEMMA ThumbStrT1 ==
  ASSUME NEW x, NEW at \in Int, NEW r, IsAt(x, at, 1, r, << >>), NEW a \in 0..7, NEW b \in 0..7,
         NEW q \in Nat, q < 32, NEW access, access = r[b] + q * 4, Far(access, at), NEW items,
         items = thumb_put_transfer_T1(0, a, b, q * 4)
  PROVE  SizeOf(items) = 2 /\ Does(x, at, items, Store(Skip(x, 2), access, r[a]))
<1> DEFINE h == EncTransfer1(0, a, b, q)
<1>1. h \in Int
  BY SMT DEF EncTransfer1, Twelve, Eight
<1>2. items = <<<<h>>>>
  <2>1. (q * 4) \div 4 = q
    BY SMT DEF Eight
  <2> QED BY SMT, <2>1 DEF thumb_put_transfer_T1, EncTransfer1, thumb_put_instruction
<1> HIDE DEF h
<1>3. Puts(items, <<h>>)
  BY Zenon, <1>1, <1>2, PutsOne
<1>4. a \in 0..14 /\ b \in 0..14 /\ q * 4 \in Int /\ x.pc = at /\ x.thumb
  BY SMT DEF IsAt, Twelve, Eight
<1> DEFINE ram == Stored(<< >>, access, r[a])
<1> DEFINE p == at + 2
<1>5. IsAt(Store(Skip(x, 2), access, r[a]), p, 1, r, ram)
  BY Zenon, AtSkip, AtStore
<1>m. PICK mem : mem = At(at, items)
  OBVIOUS
<1>6. SizeOf(items) = 2 /\ at \in DOMAIN mem /\ mem[at] = h /\ Outside(mem, at, 2)
  <2>1. Sits1(items, mem, at, h)
    BY Zenon, <1>3, <1>m, InOne
  <2> QED BY Zenon, <2>1 DEF Sits1
<1>7. Step(x, mem) = Transfer(x, mem, 0, a, b, q * 4, 1, 0, 2)
  <2>1. mem[x.pc] = EncTransfer1(0, a, b, q)
    BY Zenon, <1>4, <1>6 DEF h
  <2>t. x.thumb
    BY Zenon, <1>4
  <2>2. Transfer1In(mem, x.pc, 0, a, b, q)
    BY SMT, <2>1 DEF Transfer1In
  <2> QED BY Zenon, <2>t, <2>2, StepTransfer1
<1>9. IsAt(Step(x, mem), p, 1, r, ram)
  <2>1. IsAt(Transfer(x, mem, 0, a, b, q * 4, 1, 0, 2), at + 2, 1, r,
             Stored(<< >>, r[b] + q * 4, r[a]))
    BY Zenon, <1>4, AtStr
  <2> QED BY Zenon, <1>7, <2>1
<1>10. p \notin DOMAIN mem
  BY SMT, <1>6 DEF Outside
<1> HIDE DEF ram, p
<1> QED BY Zenon, <1>4, <1>5, <1>6, <1>9, <1>10, <1>m, DoesOne

LEMMA ThumbStrT2 ==
  ASSUME NEW x, NEW at \in Int, NEW r, IsAt(x, at, 1, r, << >>), NEW a \in 0..7, NEW q \in Nat,
         Eight(q), NEW access, access = r[13] + q * 4, Far(access, at), NEW items,
         items = thumb_put_transfer_T2(0, a, 13, q * 4)
  PROVE  SizeOf(items) = 2 /\ Does(x, at, items, Store(Skip(x, 2), access, r[a]))
<1> DEFINE h == EncTransfer2(0, a, q)
<1>1. h \in Int
  BY SMT DEF EncTransfer2, Twelve, Eight
<1>2. items = <<<<h>>>>
  <2>1. (q * 4) \div 4 = q
    BY SMT DEF Eight
  <2> QED BY SMT, <2>1 DEF thumb_put_transfer_T2, EncTransfer2, thumb_put_instruction
<1> HIDE DEF h
<1>3. Puts(items, <<h>>)
  BY Zenon, <1>1, <1>2, PutsOne
<1>4. a \in 0..14 /\ 13 \in 0..14 /\ q * 4 \in Int /\ x.pc = at /\ x.thumb
  BY SMT DEF IsAt, Twelve, Eight
<1> DEFINE ram == Stored(<< >>, access, r[a])
<1> DEFINE p == at + 2
<1>5. IsAt(Store(Skip(x, 2), access, r[a]), p, 1, r, ram)
  BY Zenon, AtSkip, AtStore
<1>m. PICK mem : mem = At(at, items)
  OBVIOUS
<1>6. SizeOf(items) = 2 /\ at \in DOMAIN mem /\ mem[at] = h /\ Outside(mem, at, 2)
  <2>1. Sits1(items, mem, at, h)
    BY Zenon, <1>3, <1>m, InOne
  <2> QED BY Zenon, <2>1 DEF Sits1
<1>7. Step(x, mem) = Transfer(x, mem, 0, a, 13, q * 4, 1, 0, 2)
  <2>1. mem[x.pc] = EncTransfer2(0, a, q)
    BY Zenon, <1>4, <1>6 DEF h
  <2>t. x.thumb
    BY Zenon, <1>4
  <2>2. Transfer2In(mem, x.pc, 0, a, q)
    BY SMT, <2>1 DEF Transfer2In
  <2> QED BY Zenon, <2>t, <2>2, StepTransfer2
<1>9. IsAt(Step(x, mem), p, 1, r, ram)
  <2>1. IsAt(Transfer(x, mem, 0, a, 13, q * 4, 1, 0, 2), at + 2, 1, r,
             Stored(<< >>, r[13] + q * 4, r[a]))
    BY Zenon, <1>4, AtStr
  <2> QED BY Zenon, <1>7, <2>1
<1>10. p \notin DOMAIN mem
  BY SMT, <1>6 DEF Outside
<1> HIDE DEF ram, p
<1> QED BY Zenon, <1>4, <1>5, <1>6, <1>9, <1>10, <1>m, DoesOne

LEMMA ThumbStrT3 ==
  ASSUME NEW x, NEW at \in Int, NEW r, IsAt(x, at, 1, r, << >>), NEW a \in 0..14, NEW b \in 0..14,
         NEW v \in Nat, Twelve(v), NEW access, access = r[b] + v, Far(access, at), NEW items,
         items = thumb_put_transfer_T3(0, a, b, v)
  PROVE  SizeOf(items) = 4 /\ Does(x, at, items, Store(Skip(x, 4), access, r[a]))
<1> DEFINE h == EncTransferHigh(0, b)
<1> DEFINE k == EncLow(a, v)
<1>1. h \in Int /\ k \in Int
  BY SMT DEF EncTransferHigh, EncLow, Twelve, Eight
<1>2. items = <<<<h>>>> \o <<<<k>>>>
  <2>1. b # PC
    BY SMT DEF PC
  <2>2. items = (IF b = PC THEN thumb_put_ldr_reg_imm(a, v) ELSE << >>)
                   \o thumb_put_instruction(h) \o thumb_put_instruction(k)
    BY SMT DEF thumb_put_transfer_T3, EncLow, EncTransferHigh
  <2>3. << >> \o <<<<h>>>> = <<<<h>>>>
    BY SMT
  <2> QED BY Zenon, <2>1, <2>2, <2>3 DEF thumb_put_instruction
<1> HIDE DEF h
<1> HIDE DEF k
<1>3. Puts(items, <<h, k>>)
  BY Zenon, <1>1, <1>2, PutsPair
<1>4. v \in Int /\ x.pc = at /\ x.thumb
  BY SMT DEF IsAt, Twelve, Eight
<1> DEFINE ram == Stored(<< >>, access, r[a])
<1> DEFINE p == at + 4
<1>5. IsAt(Store(Skip(x, 4), access, r[a]), p, 1, r, ram)
  BY Zenon, AtSkip, AtStore
<1>m. PICK mem : mem = At(at, items)
  OBVIOUS
<1>6. /\ SizeOf(items) = 4 /\ at \in DOMAIN mem /\ mem[at] = h
      /\ at + 2 \in DOMAIN mem /\ mem[at + 2] = k /\ Outside(mem, at, 4)
  <2>1. Sits2(items, mem, at, h, k)
    BY Zenon, <1>3, <1>m, InTwo
  <2> QED BY Zenon, <2>1 DEF Sits2
<1>7. Step(x, mem) = Transfer(x, mem, 0, a, b, v, 1, 0, 4)
  <2>1. /\ mem[x.pc] = EncTransferHigh(0, b)
        /\ x.pc + 2 \in DOMAIN mem /\ mem[x.pc + 2] = EncLow(a, v)
    BY Zenon, <1>4, <1>6 DEF h, k
  <2>t. x.thumb
    BY Zenon, <1>4
  <2>2. Transfer3In(mem, x.pc, 0, a, b, v)
    BY SMT, <2>1 DEF Transfer3In
  <2> QED BY Zenon, <2>t, <2>2, StepTransfer3
<1>9. IsAt(Step(x, mem), p, 1, r, ram)
  <2>1. IsAt(Transfer(x, mem, 0, a, b, v, 1, 0, 4), at + 4, 1, r,
             Stored(<< >>, r[b] + v, r[a]))
    BY Zenon, <1>4, AtStr
  <2> QED BY Zenon, <1>7, <2>1
<1>10. p \notin DOMAIN mem
  BY SMT, <1>6 DEF Outside
<1> HIDE DEF ram, p
<1> QED BY Zenon, <1>4, <1>5, <1>6, <1>9, <1>10, <1>m, DoesOne

LEMMA ExceptSwap ==
  ASSUME NEW r, NEW a, NEW b, a # b, NEW v, NEW w
  PROVE  [[r EXCEPT ![a] = v] EXCEPT ![b] = w] = [[r EXCEPT ![b] = w] EXCEPT ![a] = v]
<1> DEFINE f == [y \in DOMAIN r |-> IF y = b THEN w ELSE IF y = a THEN v ELSE r[y]]
<1>1. [[r EXCEPT ![a] = v] EXCEPT ![b] = w] = f
  OBVIOUS
<1>2. [[r EXCEPT ![b] = w] EXCEPT ![a] = v] = f
  OBVIOUS
<1> QED BY <1>1, <1>2

\* A distance of a sign and eight bits
LEMMA SignedEight ==
  ASSUME NEW v \in Int, ABS(v) < 256
  PROVE  \E up \in {0, 1}, q \in Nat : /\ up = Bit(v > 0) /\ q = ABS(v) /\ Eight(q)
                                        /\ Toward(up, q) = v
<1>1. Bit(v > 0) \in {0, 1} /\ ABS(v) \in Nat /\ Eight(ABS(v)) /\ Toward(Bit(v > 0), ABS(v)) = v
  BY SMT DEF Bit, ABS, Eight, Toward
<1> QED BY Zenon, <1>1

LEMMA ThumbLdrT4 ==
  ASSUME NEW x, NEW at \in Int, NEW r, IsAt(x, at, 1, r, << >>), NEW a \in 0..14, NEW b \in 0..14,
         NEW v \in Int, ABS(v) < 256, NEW access, access = r[b] + v, Far(access, at), NEW items,
         items = thumb_put_transfer_T4(1, a, b, v, 1, 0)
  PROVE  SizeOf(items) = 4 /\ Does(x, at, items, Set(x, a, Content(access), 4))
<1>0. PICK up \in {0, 1}, q \in Nat : up = Bit(v > 0) /\ q = ABS(v) /\ Eight(q) /\ Toward(up, q) = v
  BY Zenon, SignedEight
<1> DEFINE h == EncIndexHigh(1, b)
<1> DEFINE k == EncIndexLow(a, 1, up, 0, q)
<1>1. h \in Int /\ k \in Int
  BY SMT, <1>0 DEF EncIndexHigh, EncIndexLow, Bit, ABS, Twelve, Eight
<1>2. items = <<<<h>>>> \o <<<<k>>>>
  <2>1. b # PC /\ ~(ABS(v) >= 256)
    BY SMT DEF PC, ABS
  <2>2. items = IF ABS(v) >= 256 THEN << >>
                ELSE IF b = PC THEN thumb_put_ldr_reg_imm(a, v)
                ELSE thumb_put_instruction(h) \o thumb_put_instruction(k)
    BY SMT, <1>0 DEF thumb_put_transfer_T4, EncIndexLow, EncIndexHigh, Bit
  <2> QED BY Zenon, <2>1, <2>2 DEF thumb_put_instruction
<1> HIDE DEF h
<1> HIDE DEF k
<1>3. Puts(items, <<h, k>>)
  BY Zenon, <1>1, <1>2, PutsPair
<1>4. x.pc = at /\ x.thumb
  BY SMT DEF IsAt, Twelve, Eight
<1> DEFINE s == [r EXCEPT ![a] = Content(access)]
<1> DEFINE p == at + 4
<1>5. IsAt(Set(x, a, Content(access), 4), p, 1, s, << >>)
  BY Zenon, AtSet
<1>m. PICK mem : mem = At(at, items)
  OBVIOUS
<1>6. /\ SizeOf(items) = 4 /\ at \in DOMAIN mem /\ mem[at] = h
      /\ at + 2 \in DOMAIN mem /\ mem[at + 2] = k /\ Outside(mem, at, 4)
  <2>1. Sits2(items, mem, at, h, k)
    BY Zenon, <1>3, <1>m, InTwo
  <2> QED BY Zenon, <2>1 DEF Sits2
<1>7. Step(x, mem) = Transfer(x, mem, 1, a, b, v, 1, 0, 4)
  <2>1. /\ mem[x.pc] = EncIndexHigh(1, b)
        /\ x.pc + 2 \in DOMAIN mem /\ mem[x.pc + 2] = EncIndexLow(a, 1, up, 0, q)
    BY Zenon, <1>4, <1>6 DEF h, k
  <2>3. up \in {0, 1} /\ q \in Nat /\ Eight(q) /\ Toward(up, q) = v
    BY <1>0
  <2>t. x.thumb
    BY Zenon, <1>4
  <2>2. Transfer4In(mem, x.pc, 1, a, b, q, 1, up, 0)
    BY SMT, <2>1, <2>3 DEF Transfer4In
  <2>4. Step(x, mem) = Transfer(x, mem, 1, a, b, Toward(up, q), 1, 0, 4)
    BY ZenonT(30), <2>t, <2>2, StepTransfer4
  <2> QED BY Zenon, <2>3, <2>4
<1>8. Load(x, mem, r[b] + v) = Content(access)
  <2>1. 4 \in 0..24
    BY SMT
  <2> QED BY Zenon, <1>6, <2>1, FarRead
<1>9. IsAt(Step(x, mem), p, 1, s, << >>)
  <2>1. IsAt(Transfer(x, mem, 1, a, b, v, 1, 0, 4), at + 4, 1,
             [r EXCEPT ![a] = Load(x, mem, r[b] + v)], << >>)
    BY Zenon, <1>4, AtLoad
  <2> QED BY Zenon, <1>7, <1>8, <2>1
<1>10. p \notin DOMAIN mem
  BY SMT, <1>6 DEF Outside
<1> HIDE DEF s, p
<1> QED BY Zenon, <1>4, <1>5, <1>6, <1>9, <1>10, <1>m, DoesOne

\* A transfer that changes the register of its address
Indexed(x, at, r, a, b, v, index, access) ==
  /\ at \in Int /\ a \in 0..14 /\ b \in 0..14 /\ v \in Int /\ index \in {0, 1}
  /\ IsAt(x, at, 1, r, << >>) /\ a # b /\ ABS(v) < 256 /\ r[b] \in Int
  /\ access = r[b] + (IF index = 1 THEN v ELSE 0) /\ Far(access, at)

LEMMA ThumbLdrIndex ==
  ASSUME NEW x, NEW at, NEW r, NEW a, NEW b, NEW v, NEW index, NEW access,
         Indexed(x, at, r, a, b, v, index, access), NEW items,
         items = thumb_put_transfer_T4(1, a, b, v, index, 1)
  PROVE  /\ SizeOf(items) = 4
         /\ Does(x, at, items, [Set(x, a, Content(access), 4) EXCEPT !.r[b] = r[b] + v])
<1>a. /\ at \in Int /\ a \in 0..14 /\ b \in 0..14 /\ v \in Int /\ index \in {0, 1}
      /\ IsAt(x, at, 1, r, << >>) /\ a # b /\ ABS(v) < 256 /\ r[b] \in Int
      /\ access = r[b] + (IF index = 1 THEN v ELSE 0) /\ Far(access, at)
  BY Zenon DEF Indexed
<1> USE <1>a
<1>0. PICK up \in {0, 1}, q \in Nat : up = Bit(v > 0) /\ q = ABS(v) /\ Eight(q) /\ Toward(up, q) = v
  BY Zenon, SignedEight
<1> DEFINE h == EncIndexHigh(1, b)
<1> DEFINE k == EncIndexLow(a, index, up, 1, q)
<1>1. h \in Int /\ k \in Int
  BY SMT, <1>0 DEF EncIndexHigh, EncIndexLow, Bit, ABS, Twelve, Eight
<1>2. items = <<<<h>>>> \o <<<<k>>>>
  <2>1. b # PC /\ ~(ABS(v) >= 256)
    BY SMT DEF PC, ABS
  <2>2. items = IF ABS(v) >= 256 THEN << >>
                ELSE IF b = PC THEN thumb_put_ldr_reg_imm(a, v)
                ELSE thumb_put_instruction(h) \o thumb_put_instruction(k)
    BY SMT, <1>0 DEF thumb_put_transfer_T4, EncIndexLow, EncIndexHigh, Bit
  <2> QED BY Zenon, <2>1, <2>2 DEF thumb_put_instruction
<1> HIDE DEF h
<1> HIDE DEF k
<1>3. Puts(items, <<h, k>>)
  BY Zenon, <1>1, <1>2, PutsPair
<1>4. x.pc = at /\ x.thumb
  BY SMT DEF IsAt, Twelve, Eight
<1> DEFINE s == [[r EXCEPT ![b] = r[b] + v] EXCEPT ![a] = Content(access)]
<1> DEFINE p == at + 4
<1>5. IsAt([Set(x, a, Content(access), 4) EXCEPT !.r[b] = r[b] + v], p, 1, s, << >>)
  <2>1. IsAt(Set(x, a, Content(access), 4), at + 4, 1, [r EXCEPT ![a] = Content(access)], << >>)
    BY Zenon, AtSet
  <2>2. [[r EXCEPT ![a] = Content(access)] EXCEPT ![b] = r[b] + v] = s
    BY Zenon, ExceptSwap
  <2>3. IsAt([Set(x, a, Content(access), 4) EXCEPT !.r[b] = r[b] + v], at + 4, 1,
             [[r EXCEPT ![a] = Content(access)] EXCEPT ![b] = r[b] + v], << >>)
    BY Zenon, <2>1, AtAssign
  <2> QED BY Zenon, <2>2, <2>3
<1>m. PICK mem : mem = At(at, items)
  OBVIOUS
<1>6. /\ SizeOf(items) = 4 /\ at \in DOMAIN mem /\ mem[at] = h
      /\ at + 2 \in DOMAIN mem /\ mem[at + 2] = k /\ Outside(mem, at, 4)
  <2>1. Sits2(items, mem, at, h, k)
    BY Zenon, <1>3, <1>m, InTwo
  <2> QED BY Zenon, <2>1 DEF Sits2
<1>7. Step(x, mem) = Transfer(x, mem, 1, a, b, v, index, 1, 4)
  <2>1. /\ mem[x.pc] = EncIndexHigh(1, b)
        /\ x.pc + 2 \in DOMAIN mem /\ mem[x.pc + 2] = EncIndexLow(a, index, up, 1, q)
    BY Zenon, <1>4, <1>6 DEF h, k
  <2>3. up \in {0, 1} /\ q \in Nat /\ Eight(q) /\ Toward(up, q) = v
    BY <1>0
  <2>t. x.thumb
    BY Zenon, <1>4
  <2>2. Transfer4In(mem, x.pc, 1, a, b, q, index, up, 1)
    BY SMT, <2>1, <2>3 DEF Transfer4In
  <2>4. Step(x, mem) = Transfer(x, mem, 1, a, b, Toward(up, q), index, 1, 4)
    BY SMT, <2>t, <2>2, StepTransfer4
  <2> QED BY Zenon, <2>3, <2>4
<1>8. Load(x, mem, r[b] + (IF index = 1 THEN v ELSE 0)) = Content(access)
  <2>1. 4 \in 0..24
    BY SMT
  <2> QED BY Zenon, <1>6, <2>1, FarRead
<1>9. IsAt(Step(x, mem), p, 1, s, << >>)
  <2>1. IsAt(Transfer(x, mem, 1, a, b, v, index, 1, 4), at + 4, 1,
             [[r EXCEPT ![b] = r[b] + v]
                EXCEPT ![a] = Load(x, mem, r[b] + (IF index = 1 THEN v ELSE 0))], << >>)
    BY Zenon, <1>4, AtLoadIndex
  <2> QED BY Zenon, <1>7, <1>8, <2>1
<1>10. p \notin DOMAIN mem
  BY SMT, <1>6 DEF Outside
<1> HIDE DEF s, p
<1> QED BY Zenon, <1>4, <1>5, <1>6, <1>9, <1>10, <1>m, DoesOne

LEMMA ThumbStrT4 ==
  ASSUME NEW x, NEW at \in Int, NEW r, IsAt(x, at, 1, r, << >>), NEW a \in 0..14, NEW b \in 0..14,
         NEW v \in Int, ABS(v) < 256, NEW access, access = r[b] + v, Far(access, at), NEW items,
         items = thumb_put_transfer_T4(0, a, b, v, 1, 0)
  PROVE  SizeOf(items) = 4 /\ Does(x, at, items, Store(Skip(x, 4), access, r[a]))
<1>0. PICK up \in {0, 1}, q \in Nat : up = Bit(v > 0) /\ q = ABS(v) /\ Eight(q) /\ Toward(up, q) = v
  BY Zenon, SignedEight
<1> DEFINE h == EncIndexHigh(0, b)
<1> DEFINE k == EncIndexLow(a, 1, up, 0, q)
<1>1. h \in Int /\ k \in Int
  BY SMT, <1>0 DEF EncIndexHigh, EncIndexLow, Bit, ABS, Twelve, Eight
<1>2. items = <<<<h>>>> \o <<<<k>>>>
  <2>1. b # PC /\ ~(ABS(v) >= 256)
    BY SMT DEF PC, ABS
  <2>2. items = IF ABS(v) >= 256 THEN << >>
                ELSE IF b = PC THEN thumb_put_ldr_reg_imm(a, v)
                ELSE thumb_put_instruction(h) \o thumb_put_instruction(k)
    BY SMT, <1>0 DEF thumb_put_transfer_T4, EncIndexLow, EncIndexHigh, Bit
  <2> QED BY Zenon, <2>1, <2>2 DEF thumb_put_instruction
<1> HIDE DEF h
<1> HIDE DEF k
<1>3. Puts(items, <<h, k>>)
  BY Zenon, <1>1, <1>2, PutsPair
<1>4. x.pc = at /\ x.thumb
  BY SMT DEF IsAt, Twelve, Eight
<1> DEFINE ram == Stored(<< >>, access, r[a])
<1> DEFINE p == at + 4
<1>5. IsAt(Store(Skip(x, 4), access, r[a]), p, 1, r, ram)
  BY Zenon, AtSkip, AtStore
<1>m. PICK mem : mem = At(at, items)
  OBVIOUS
<1>6. /\ SizeOf(items) = 4 /\ at \in DOMAIN mem /\ mem[at] = h
      /\ at + 2 \in DOMAIN mem /\ mem[at + 2] = k /\ Outside(mem, at, 4)
  <2>1. Sits2(items, mem, at, h, k)
    BY Zenon, <1>3, <1>m, InTwo
  <2> QED BY Zenon, <2>1 DEF Sits2
<1>7. Step(x, mem) = Transfer(x, mem, 0, a, b, v, 1, 0, 4)
  <2>1. /\ mem[x.pc] = EncIndexHigh(0, b)
        /\ x.pc + 2 \in DOMAIN mem /\ mem[x.pc + 2] = EncIndexLow(a, 1, up, 0, q)
    BY Zenon, <1>4, <1>6 DEF h, k
  <2>3. up \in {0, 1} /\ q \in Nat /\ Eight(q) /\ Toward(up, q) = v
    BY <1>0
  <2>t. x.thumb
    BY Zenon, <1>4
  <2>2. Transfer4In(mem, x.pc, 0, a, b, q, 1, up, 0)
    BY SMT, <2>1, <2>3 DEF Transfer4In
  <2>4. Step(x, mem) = Transfer(x, mem, 0, a, b, Toward(up, q), 1, 0, 4)
    BY Zenon, <2>t, <2>2, StepTransfer4
  <2> QED BY Zenon, <2>3, <2>4
<1>9. IsAt(Step(x, mem), p, 1, r, ram)
  <2>1. IsAt(Transfer(x, mem, 0, a, b, v, 1, 0, 4), at + 4, 1, r,
             Stored(<< >>, r[b] + v, r[a]))
    BY Zenon, <1>4, AtStr
  <2> QED BY Zenon, <1>7, <2>1
<1>10. p \notin DOMAIN mem
  BY SMT, <1>6 DEF Outside
<1> HIDE DEF ram, p
<1> QED BY Zenon, <1>4, <1>5, <1>6, <1>9, <1>10, <1>m, DoesOne

LEMMA ThumbStrIndex ==
  ASSUME NEW x, NEW at, NEW r, NEW a, NEW b, NEW v, NEW index, NEW access,
         Indexed(x, at, r, a, b, v, index, access), NEW items,
         items = thumb_put_transfer_T4(0, a, b, v, index, 1)
  PROVE  /\ SizeOf(items) = 4
         /\ Does(x, at, items, Store([Skip(x, 4) EXCEPT !.r[b] = r[b] + v], access, r[a]))
<1>a. /\ at \in Int /\ a \in 0..14 /\ b \in 0..14 /\ v \in Int /\ index \in {0, 1}
      /\ IsAt(x, at, 1, r, << >>) /\ a # b /\ ABS(v) < 256 /\ r[b] \in Int
      /\ access = r[b] + (IF index = 1 THEN v ELSE 0) /\ Far(access, at)
  BY Zenon DEF Indexed
<1> USE <1>a
<1>0. PICK up \in {0, 1}, q \in Nat : up = Bit(v > 0) /\ q = ABS(v) /\ Eight(q) /\ Toward(up, q) = v
  BY Zenon, SignedEight
<1> DEFINE h == EncIndexHigh(0, b)
<1> DEFINE k == EncIndexLow(a, index, up, 1, q)
<1>1. h \in Int /\ k \in Int
  BY SMT, <1>0 DEF EncIndexHigh, EncIndexLow, Bit, ABS, Twelve, Eight
<1>2. items = <<<<h>>>> \o <<<<k>>>>
  <2>1. b # PC /\ ~(ABS(v) >= 256)
    BY SMT DEF PC, ABS
  <2>2. items = IF ABS(v) >= 256 THEN << >>
                ELSE IF b = PC THEN thumb_put_ldr_reg_imm(a, v)
                ELSE thumb_put_instruction(h) \o thumb_put_instruction(k)
    BY SMT, <1>0 DEF thumb_put_transfer_T4, EncIndexLow, EncIndexHigh, Bit
  <2> QED BY Zenon, <2>1, <2>2 DEF thumb_put_instruction
<1> HIDE DEF h
<1> HIDE DEF k
<1>3. Puts(items, <<h, k>>)
  BY Zenon, <1>1, <1>2, PutsPair
<1>4. x.pc = at /\ x.thumb
  BY SMT DEF IsAt, Twelve, Eight
<1> DEFINE s == [r EXCEPT ![b] = r[b] + v]
<1> DEFINE ram == Stored(<< >>, access, r[a])
<1> DEFINE p == at + 4
<1>5. IsAt(Store([Skip(x, 4) EXCEPT !.r[b] = r[b] + v], access, r[a]), p, 1, s, ram)
  BY Zenon, AtSkip, AtAssign, AtStore
<1>m. PICK mem : mem = At(at, items)
  OBVIOUS
<1>6. /\ SizeOf(items) = 4 /\ at \in DOMAIN mem /\ mem[at] = h
      /\ at + 2 \in DOMAIN mem /\ mem[at + 2] = k /\ Outside(mem, at, 4)
  <2>1. Sits2(items, mem, at, h, k)
    BY Zenon, <1>3, <1>m, InTwo
  <2> QED BY Zenon, <2>1 DEF Sits2
<1>7. Step(x, mem) = Transfer(x, mem, 0, a, b, v, index, 1, 4)
  <2>1. /\ mem[x.pc] = EncIndexHigh(0, b)
        /\ x.pc + 2 \in DOMAIN mem /\ mem[x.pc + 2] = EncIndexLow(a, index, up, 1, q)
    BY Zenon, <1>4, <1>6 DEF h, k
  <2>3. up \in {0, 1} /\ q \in Nat /\ Eight(q) /\ Toward(up, q) = v
    BY <1>0
  <2>t. x.thumb
    BY Zenon, <1>4
  <2>2. Transfer4In(mem, x.pc, 0, a, b, q, index, up, 1)
    BY SMT, <2>1, <2>3 DEF Transfer4In
  <2>4. Step(x, mem) = Transfer(x, mem, 0, a, b, Toward(up, q), index, 1, 4)
    BY SMT, <2>t, <2>2, StepTransfer4
  <2> QED BY Zenon, <2>3, <2>4
<1>9. IsAt(Step(x, mem), p, 1, s, ram)
  <2>1. IsAt(Transfer(x, mem, 0, a, b, v, index, 1, 4), at + 4, 1,
             [r EXCEPT ![b] = r[b] + v], Stored(<< >>, r[b] + (IF index = 1 THEN v ELSE 0), r[a]))
    BY Zenon, <1>4, AtStrIndex
  <2> QED BY Zenon, <1>7, <2>1
<1>10. p \notin DOMAIN mem
  BY SMT, <1>6 DEF Outside
<1> HIDE DEF s, ram, p
<1> QED BY Zenon, <1>4, <1>5, <1>6, <1>9, <1>10, <1>m, DoesOne

LEMMA ThumbAddSP ==
  ASSUME NEW x, NEW at \in Int, NEW r, IsAt(x, at, 1, r, << >>), NEW v \in Int, NEW w \in Int,
         v = 4 * w, -127 <= w, w <= 127, r[13] \in Int, NEW items,
         items = thumb_put_add_reg_imm(13, v)
  PROVE  SizeOf(items) = 2 /\ Does(x, at, items, Set(x, 13, r[13] + v, 2))
<1>0. PICK i, q : i = Bit(v < 0) /\ q = ABS(w)
  OBVIOUS
<1> DEFINE h == EncAddSP(i, q)
<1>1. h \in Int
  BY SMT, <1>0 DEF EncAddSP, Bit, ABS, Twelve, Eight
<1>2. items = <<<<h>>>>
  <2>1. ABS(v) \div 4 = q
    BY SMT, <1>0 DEF ABS
  <2>2. h = \hb000 + Bit(v < 0) * \h0080 + ABS(v) \div 4
    BY SMT, <1>0, <2>1 DEF EncAddSP, Bit
  <2>3. 13 = SP
    BY DEF SP
  <2> HIDE DEF h
  <2> QED BY SMT, <2>2, <2>3 DEF thumb_put_add_reg_imm, thumb_put_instruction, Bit
<1> HIDE DEF h
<1>3. Puts(items, <<h>>)
  BY Zenon, <1>1, <1>2, PutsOne
<1>4. x.r = r /\ 13 \in 0..14 /\ x.pc = at /\ x.thumb
  BY SMT DEF IsAt, Twelve, Eight
<1> DEFINE s == [r EXCEPT ![13] = r[13] + v]
<1> DEFINE p == at + 2
<1>5. IsAt(Set(x, 13, r[13] + v, 2), p, 1, s, << >>)
  BY Zenon, <1>4, AtSet
<1>m. PICK mem : mem = At(at, items)
  OBVIOUS
<1>6. SizeOf(items) = 2 /\ at \in DOMAIN mem /\ mem[at] = h /\ Outside(mem, at, 2)
  <2>1. Sits1(items, mem, at, h)
    BY Zenon, <1>3, <1>m, InOne
  <2> QED BY Zenon, <2>1 DEF Sits1
<1>7. Step(x, mem) = Set(x, 13, r[13] + v, 2)
  <2>1. mem[x.pc] = EncAddSP(i, q)
    BY Zenon, <1>4, <1>6 DEF h
  <2>3. /\ i \in {0, 1} /\ q \in Nat /\ q < 128 /\ r[13] + (IF i = 1 THEN -4 ELSE 4) * q = r[13] + v
    BY SMT, <1>0 DEF Bit, ABS
  <2>t. x.thumb
    BY Zenon, <1>4
  <2>2. AddSPIn(mem, x.pc, i, q)
    BY SMT, <2>1, <2>3 DEF AddSPIn
  <2>4. Step(x, mem) = Set(x, 13, x.r[13] + (IF i = 1 THEN -4 ELSE 4) * q, 2)
    BY Zenon, <2>t, <2>2, StepAddSP
  <2> QED BY Zenon, <1>4, <2>3, <2>4
<1>9. IsAt(Step(x, mem), p, 1, s, << >>)
  <2>1. IsAt(Set(x, 13, r[13] + v, 2), at + 2, 1,
             [r EXCEPT ![13] = r[13] + v], << >>)
    BY Zenon, <1>4, AtSet
  <2> QED BY Zenon, <1>7, <2>1
<1>10. p \notin DOMAIN mem
  BY SMT, <1>6 DEF Outside
<1> HIDE DEF s, p
<1> QED BY Zenon, <1>4, <1>5, <1>6, <1>9, <1>10, <1>m, DoesOne

LEMMA ThumbAddImm8 ==
  ASSUME NEW x, NEW at \in Int, NEW r, IsAt(x, at, 1, r, << >>), NEW d \in 0..7, NEW v \in Int,
         ABS(v) < 256, r[d] \in Int, NEW items, items = thumb_put_add_reg_imm(d, v)
  PROVE  SizeOf(items) = 2 /\ Does(x, at, items, Set(x, d, r[d] + v, 2))
<1>0. PICK i, q : i = Bit(v < 0) /\ q = ABS(v)
  OBVIOUS
<1> DEFINE h == EncAddImm8(i, d, q)
<1>1. h \in Int
  BY SMT, <1>0 DEF EncAddImm8, Bit, ABS, Twelve, Eight
<1>2. items = <<<<h>>>>
  <2>1. d # SP
    BY SMT DEF SP
  <2> QED BY SMT, <1>0, <2>1 DEF thumb_put_add_reg_imm, thumb_put_instruction, EncAddImm8
<1> HIDE DEF h
<1>3. Puts(items, <<h>>)
  BY Zenon, <1>1, <1>2, PutsOne
<1>4. x.r = r /\ d \in 0..14 /\ x.pc = at /\ x.thumb
  BY SMT DEF IsAt, Twelve, Eight
<1> DEFINE s == [r EXCEPT ![d] = r[d] + v]
<1> DEFINE p == at + 2
<1>5. IsAt(Set(x, d, r[d] + v, 2), p, 1, s, << >>)
  BY Zenon, <1>4, AtSet
<1>m. PICK mem : mem = At(at, items)
  OBVIOUS
<1>6. SizeOf(items) = 2 /\ at \in DOMAIN mem /\ mem[at] = h /\ Outside(mem, at, 2)
  <2>1. Sits1(items, mem, at, h)
    BY Zenon, <1>3, <1>m, InOne
  <2> QED BY Zenon, <2>1 DEF Sits1
<1>7. Step(x, mem) = SetZ(x, d, r[d] + v, 2)
  <2>1. mem[x.pc] = EncAddImm8(i, d, q)
    BY Zenon, <1>4, <1>6 DEF h
  <2>3. /\ i \in {0, 1} /\ q \in Nat /\ Eight(q) /\ Moved(i, r[d], q) = r[d] + v
    BY SMT, <1>0 DEF Bit, ABS, Eight, Moved
  <2>t. x.thumb
    BY Zenon, <1>4
  <2>2. AddImm8In(mem, x.pc, i, d, q)
    BY SMT, <2>1, <2>3 DEF AddImm8In
  <2>4. Step(x, mem) = SetZ(x, d, Moved(i, x.r[d], q), 2)
    <3>1. Adds(x, mem, d, d, i, q)
      BY SMT, <2>t, <2>2, StepAddImm8
    <3> QED BY Zenon, <3>1 DEF Adds
  <2> QED BY Zenon, <1>4, <2>3, <2>4
<1>9. IsAt(Step(x, mem), p, 1, s, << >>)
  <2>1. IsAt(SetZ(x, d, r[d] + v, 2), at + 2, 1,
             [r EXCEPT ![d] = r[d] + v], << >>)
    BY Zenon, <1>4, AtSetZ
  <2> QED BY Zenon, <1>7, <2>1
<1>10. p \notin DOMAIN mem
  BY SMT, <1>6 DEF Outside
<1> HIDE DEF s, p
<1> QED BY Zenon, <1>4, <1>5, <1>6, <1>9, <1>10, <1>m, DoesOne

LEMMA ThumbAddImm3 ==
  ASSUME NEW x, NEW at \in Int, NEW r, IsAt(x, at, 1, r, << >>), NEW d \in 0..7, NEW n \in 0..7,
         n # d, NEW v \in Int, ABS(v) < 8, r[n] \in Int, NEW items,
         items = thumb_put_add_reg_reg_imm(d, n, v)
  PROVE  SizeOf(items) = 2 /\ Does(x, at, items, Set(x, d, r[n] + v, 2))
<1>0. PICK i, q : i = Bit(v < 0) /\ q = ABS(v)
  OBVIOUS
<1> DEFINE h == EncAddImm3(i, d, n, q)
<1>1. h \in Int
  BY SMT, <1>0 DEF EncAddImm3, Bit, ABS, Twelve, Eight
<1>2. items = <<<<h>>>>
  <2>1. items = IF n = d THEN thumb_put_add_reg_imm(d, v)
                ELSE thumb_put_instruction(\h1c00 + i * 512 + q * 64 + n * 8 + d)
    BY SMTT(30), <1>0 DEF thumb_put_add_reg_reg_imm
  <2> QED BY SMT, <2>1 DEF thumb_put_instruction, EncAddImm3
<1> HIDE DEF h
<1>3. Puts(items, <<h>>)
  BY Zenon, <1>1, <1>2, PutsOne
<1>4. x.r = r /\ d \in 0..14 /\ x.pc = at /\ x.thumb
  BY SMT DEF IsAt, Twelve, Eight
<1> DEFINE s == [r EXCEPT ![d] = r[n] + v]
<1> DEFINE p == at + 2
<1>5. IsAt(Set(x, d, r[n] + v, 2), p, 1, s, << >>)
  BY Zenon, <1>4, AtSet
<1>m. PICK mem : mem = At(at, items)
  OBVIOUS
<1>6. SizeOf(items) = 2 /\ at \in DOMAIN mem /\ mem[at] = h /\ Outside(mem, at, 2)
  <2>1. Sits1(items, mem, at, h)
    BY Zenon, <1>3, <1>m, InOne
  <2> QED BY Zenon, <2>1 DEF Sits1
<1>7. Step(x, mem) = SetZ(x, d, r[n] + v, 2)
  <2>1. mem[x.pc] = EncAddImm3(i, d, n, q)
    BY Zenon, <1>4, <1>6 DEF h
  <2>3. /\ i \in {0, 1} /\ q \in 0..7 /\ Moved(i, r[n], q) = r[n] + v
    BY SMT, <1>0 DEF Bit, ABS, Moved
  <2>t. x.thumb
    BY Zenon, <1>4
  <2>2. AddImm3In(mem, x.pc, i, d, n, q)
    BY SMT, <2>1, <2>3 DEF AddImm3In
  <2>4. Step(x, mem) = SetZ(x, d, Moved(i, x.r[n], q), 2)
    <3>1. Adds(x, mem, d, n, i, q)
      BY SMT, <2>t, <2>2, StepAddImm3
    <3> QED BY Zenon, <3>1 DEF Adds
  <2> QED BY Zenon, <1>4, <2>3, <2>4
<1>9. IsAt(Step(x, mem), p, 1, s, << >>)
  <2>1. IsAt(SetZ(x, d, r[n] + v, 2), at + 2, 1,
             [r EXCEPT ![d] = r[n] + v], << >>)
    BY Zenon, <1>4, AtSetZ
  <2> QED BY Zenon, <1>7, <2>1
<1>10. p \notin DOMAIN mem
  BY SMT, <1>6 DEF Outside
<1> HIDE DEF s, p
<1> QED BY Zenon, <1>4, <1>5, <1>6, <1>9, <1>10, <1>m, DoesOne

LEMMA ThumbAdrSP ==
  ASSUME NEW x, NEW at \in Int, NEW r, IsAt(x, at, 1, r, << >>), NEW d \in 0..7, NEW v \in Int,
         NEW w \in Nat, v = 4 * w, 0 < w, Eight(v), NEW items,
         items = thumb_put_add_reg_reg_imm(d, 13, v)
  PROVE  SizeOf(items) = 2 /\ Does(x, at, items, Set(x, d, r[13] + v, 2))
<1> DEFINE h == EncAdr(1, d, w)
<1>1. h \in Int
  BY SMT DEF EncAdr, Twelve, Eight
<1>2. items = <<<<h>>>>
  <2>1. /\ v \div 4 = w /\ v % 4 = 0 /\ v \in 1..255
        /\ d # 13 /\ ~(13 <= 7) /\ 13 \in {SP, PC} /\ Bit(13 = SP) = 1
    BY SMT DEF Eight, SP, PC, Bit
  <2>2. items = IF 13 = d THEN thumb_put_add_reg_imm(d, v)
                ELSE thumb_put_instruction(\ha000 + Bit(13 = SP) * \h0800 + d * 256 + v \div 4)
    BY SMTT(30), <2>1 DEF thumb_put_add_reg_reg_imm
  <2> QED BY SMT, <2>1, <2>2 DEF thumb_put_instruction, EncAdr
<1> HIDE DEF h
<1>3. Puts(items, <<h>>)
  BY Zenon, <1>1, <1>2, PutsOne
<1>4. x.r = r /\ d \in 0..14 /\ x.pc = at /\ x.thumb
  BY SMT DEF IsAt, Twelve, Eight
<1> DEFINE s == [r EXCEPT ![d] = r[13] + v]
<1> DEFINE p == at + 2
<1>5. IsAt(Set(x, d, r[13] + v, 2), p, 1, s, << >>)
  BY Zenon, <1>4, AtSet
<1>m. PICK mem : mem = At(at, items)
  OBVIOUS
<1>6. SizeOf(items) = 2 /\ at \in DOMAIN mem /\ mem[at] = h /\ Outside(mem, at, 2)
  <2>1. Sits1(items, mem, at, h)
    BY Zenon, <1>3, <1>m, InOne
  <2> QED BY Zenon, <2>1 DEF Sits1
<1>7. Step(x, mem) = Set(x, d, r[13] + v, 2)
  <2>1. mem[x.pc] = EncAdr(1, d, w)
    BY Zenon, <1>4, <1>6 DEF h
  <2>3. /\ 1 \in {0, 1} /\ w \in Nat /\ Eight(w) /\ w * 4 = v
    BY SMT DEF Eight
  <2>t. x.thumb
    BY Zenon, <1>4
  <2>2. AdrIn(mem, x.pc, 1, d, w)
    BY SMT, <2>1, <2>3 DEF AdrIn
  <2>4. Step(x, mem) = Set(x, d, (IF 1 = 1 THEN x.r[13] ELSE Aligned(Here(x))) + w * 4, 2)
    BY Zenon, <2>t, <2>2, StepAdr
  <2>5. x.r[13] = r[13]
    BY SMT, <1>4
  <2> QED BY SMT, <2>3, <2>4, <2>5 DEF Aligned, ALIGN_FLOOR
<1>9. IsAt(Step(x, mem), p, 1, s, << >>)
  <2>1. IsAt(Set(x, d, r[13] + v, 2), at + 2, 1,
             [r EXCEPT ![d] = r[13] + v], << >>)
    BY Zenon, <1>4, AtSet
  <2> QED BY Zenon, <1>7, <2>1
<1>10. p \notin DOMAIN mem
  BY SMT, <1>6 DEF Outside
<1> HIDE DEF s, p
<1> QED BY Zenon, <1>4, <1>5, <1>6, <1>9, <1>10, <1>m, DoesOne

LEMMA ThumbAdrPC ==
  ASSUME NEW x, NEW at \in Int, NEW r, IsAt(x, at, 1, r, << >>), NEW d \in 0..7, NEW v \in Int,
         NEW w \in Nat, v = 4 * w, 0 < w, Eight(v), NEW items,
         items = thumb_put_add_reg_reg_imm(d, 15, v)
  PROVE  SizeOf(items) = 2 /\ Does(x, at, items, Set(x, d, ALIGN_FLOOR(at + 4, 4) + v, 2))
<1> DEFINE h == EncAdr(0, d, w)
<1>1. h \in Int
  BY SMT DEF EncAdr, Twelve, Eight
<1>2. items = <<<<h>>>>
  <2>1. /\ v \div 4 = w /\ v % 4 = 0 /\ v \in 1..255
        /\ d # 15 /\ ~(15 <= 7) /\ 15 \in {SP, PC} /\ Bit(15 = SP) = 0
    BY SMT DEF Eight, SP, PC, Bit
  <2>2. items = IF 15 = d THEN thumb_put_add_reg_imm(d, v)
                ELSE thumb_put_instruction(\ha000 + Bit(15 = SP) * \h0800 + d * 256 + v \div 4)
    BY SMT, <2>1 DEF thumb_put_add_reg_reg_imm
  <2> QED BY SMT, <2>1, <2>2 DEF thumb_put_instruction, EncAdr
<1> HIDE DEF h
<1>3. Puts(items, <<h>>)
  BY Zenon, <1>1, <1>2, PutsOne
<1>4. x.r = r /\ d \in 0..14 /\ x.pc = at /\ x.thumb
  BY SMT DEF IsAt, Twelve, Eight
<1> DEFINE s == [r EXCEPT ![d] = ALIGN_FLOOR(at + 4, 4) + v]
<1> DEFINE p == at + 2
<1>5. IsAt(Set(x, d, ALIGN_FLOOR(at + 4, 4) + v, 2), p, 1, s, << >>)
  BY Zenon, <1>4, AtSet
<1>m. PICK mem : mem = At(at, items)
  OBVIOUS
<1>6. SizeOf(items) = 2 /\ at \in DOMAIN mem /\ mem[at] = h /\ Outside(mem, at, 2)
  <2>1. Sits1(items, mem, at, h)
    BY Zenon, <1>3, <1>m, InOne
  <2> QED BY Zenon, <2>1 DEF Sits1
<1>7. Step(x, mem) = Set(x, d, ALIGN_FLOOR(at + 4, 4) + v, 2)
  <2>1. mem[x.pc] = EncAdr(0, d, w)
    BY Zenon, <1>4, <1>6 DEF h
  <2>3. /\ 0 \in {0, 1} /\ w \in Nat /\ Eight(w) /\ w * 4 = v
    BY SMT DEF Eight
  <2>t. x.thumb
    BY Zenon, <1>4
  <2>2. AdrIn(mem, x.pc, 0, d, w)
    BY SMT, <2>1, <2>3 DEF AdrIn
  <2>4. Step(x, mem) = Set(x, d, (IF 0 = 1 THEN x.r[13] ELSE Aligned(Here(x))) + w * 4, 2)
    BY Zenon, <2>t, <2>2, StepAdr
  <2>5. Here(x) = at + 4
    BY SMT, <1>4, AtHere
  <2> QED BY SMT, <2>3, <2>4, <2>5 DEF Aligned, ALIGN_FLOOR
<1>9. IsAt(Step(x, mem), p, 1, s, << >>)
  <2>1. IsAt(Set(x, d, ALIGN_FLOOR(at + 4, 4) + v, 2), at + 2, 1,
             [r EXCEPT ![d] = ALIGN_FLOOR(at + 4, 4) + v], << >>)
    BY Zenon, <1>4, AtSet
  <2> QED BY Zenon, <1>7, <2>1
<1>10. p \notin DOMAIN mem
  BY SMT, <1>6 DEF Outside
<1> HIDE DEF s, p
<1> QED BY Zenon, <1>4, <1>5, <1>6, <1>9, <1>10, <1>m, DoesOne

\* A sum that takes an instruction of two halfwords
WideSum(x, at, r, d, n, v, base) ==
  /\ at \in Int /\ IsAt(x, at, 1, r, << >>) /\ d \in 0..14 /\ n \in 0..15 /\ v \in Int
  /\ base \in Int
  /\ n # d /\ Twelve(ABS(v)) /\ ~(d <= 7 /\ n <= 7 /\ ABS(v) < 8)
  /\ ~(n \in {SP, PC} /\ d <= 7 /\ WordsEight(v))
  /\ base = IF n = PC THEN ALIGN_FLOOR(at + 4, 4) ELSE r[n]

LEMMA ThumbAddWide ==
  ASSUME NEW x, NEW at, NEW r, NEW d, NEW n, NEW v, NEW base, WideSum(x, at, r, d, n, v, base),
         NEW items, items = thumb_put_add_reg_reg_imm(d, n, v)
  PROVE  SizeOf(items) = 4 /\ Does(x, at, items, Set(x, d, base + v, 4))
<1>a. /\ at \in Int /\ IsAt(x, at, 1, r, << >>) /\ d \in 0..14 /\ n \in 0..15 /\ v \in Int
      /\ base \in Int /\ n # d /\ Twelve(ABS(v)) /\ ~(d <= 7 /\ n <= 7 /\ ABS(v) < 8)
      /\ ~(n \in {SP, PC} /\ d <= 7 /\ WordsEight(v))
      /\ base = IF n = PC THEN ALIGN_FLOOR(at + 4, 4) ELSE r[n]
  BY Zenon DEF WideSum
<1> USE <1>a
<1>0. PICK i, q : i = Bit(v < 0) /\ q = ABS(v)
  OBVIOUS
<1> DEFINE h == EncAddHigh(i, n, q)
<1> DEFINE k == EncAddLow(d, q)
<1>1. h \in Int /\ k \in Int
  BY SMT, <1>0 DEF EncAddHigh, EncAddLow, Sub, Bit, ABS, Twelve, Eight
<1>2. items = <<<<h>>>> \o <<<<k>>>>
  <2>1. /\ EncAddHigh(i, n, q)
             = (IF v < 0 THEN \hf2a0 ELSE \hf200) + Sub(ABS(v), 11, 1) * 1024 + n
        /\ EncAddLow(d, q) = Sub(ABS(v), 8, 3) * 4096 + d * 256 + Sub(ABS(v), 0, 8)
    BY SMT, <1>0 DEF EncAddHigh, EncAddLow, Bit
  <2>2. items = IF n = d THEN thumb_put_add_reg_imm(d, v)
                ELSE IF d <= 7 /\ n <= 7 /\ ABS(v) < 8
                THEN thumb_put_instruction(\h1c00 + Bit(v < 0) * 512 + ABS(v) * 64 + n * 8 + d)
                ELSE IF n \in {SP, PC} /\ d <= 7 /\ v \in 1..255 /\ v % 4 = 0
                THEN thumb_put_instruction(\ha000 + Bit(n = SP) * \h0800 + d * 256 + v \div 4)
                ELSE thumb_put_instruction(h) \o thumb_put_instruction(k)
    BY SMT, <2>1 DEF thumb_put_add_reg_reg_imm
  <2>3. items = thumb_put_instruction(h) \o thumb_put_instruction(k)
    BY SMT, <2>2 DEF WordsEight
  <2> QED BY Zenon, <2>3 DEF thumb_put_instruction
<1> HIDE DEF h
<1> HIDE DEF k
<1>3. Puts(items, <<h, k>>)
  BY Zenon, <1>1, <1>2, PutsPair
<1>4. x.r = r /\ x.pc = at /\ x.thumb
  BY SMT DEF IsAt, Twelve, Eight
<1> DEFINE s == [r EXCEPT ![d] = base + v]
<1> DEFINE p == at + 4
<1>5. IsAt(Set(x, d, base + v, 4), p, 1, s, << >>)
  BY Zenon, <1>4, AtSet
<1>m. PICK mem : mem = At(at, items)
  OBVIOUS
<1>6. /\ SizeOf(items) = 4 /\ at \in DOMAIN mem /\ mem[at] = h
      /\ at + 2 \in DOMAIN mem /\ mem[at + 2] = k /\ Outside(mem, at, 4)
  <2>1. Sits2(items, mem, at, h, k)
    BY Zenon, <1>3, <1>m, InTwo
  <2> QED BY Zenon, <2>1 DEF Sits2
<1>7. Step(x, mem) = Set(x, d, base + v, 4)
  <2>1. /\ mem[x.pc] = EncAddHigh(i, n, q)
        /\ x.pc + 2 \in DOMAIN mem /\ mem[x.pc + 2] = EncAddLow(d, q)
    BY Zenon, <1>4, <1>6 DEF h, k
  <2>2. /\ i \in {0, 1} /\ q \in Nat /\ d \in 0..15 /\ Moved(i, base, q) = base + v
    BY SMT, <1>0 DEF Bit, ABS, Moved
  <2>3. x.thumb /\ Twelve(q)
    BY <1>0, <1>4
  <2>4. Step(x, mem) = Set(x, d, Moved(i, Base(x, n), q), 4)
    <3>1. AddWideIn(mem, x.pc, i, d, n, q)
      BY SMT, <2>1, <2>2, <2>3 DEF AddWideIn
    <3> QED BY SMT, <2>3, <3>1, StepAddWide
  <2>5. Base(x, n) = base
    <3>1. Here(x) = at + 4
      BY SMT, AtHere
    <3> QED BY SMT, <1>4, <3>1 DEF Base, Aligned, ALIGN_FLOOR, PC
  <2> QED BY Zenon, <2>2, <2>4, <2>5
<1>9. IsAt(Step(x, mem), p, 1, s, << >>)
  <2>1. IsAt(Set(x, d, base + v, 4), at + 4, 1,
             [r EXCEPT ![d] = base + v], << >>)
    BY Zenon, <1>4, AtSet
  <2> QED BY Zenon, <1>7, <2>1
<1>10. p \notin DOMAIN mem
  BY SMT, <1>6 DEF Outside
<1> HIDE DEF s, p
<1> QED BY Zenon, <1>4, <1>5, <1>6, <1>9, <1>10, <1>m, DoesOne

\* What pop adds, behind the load
PopBy(o, i) == o = 4 /\ i = 0
\* The distances of a branch, in halfwords
Branch(w) == w >= -1024 /\ w < 1024
Wide(w) == w >= -8388608 /\ w < 8388608

LEMMA ThumbAddReg ==
  ASSUME NEW x, NEW at \in Int, NEW r, IsAt(x, at, 1, r, << >>), NEW d \in 0..7, NEW n \in 0..7,
         NEW i \in 0..7, NEW items, items = thumb_put_add_reg_reg_reg(d, n, i)
  PROVE  SizeOf(items) = 2 /\ Does(x, at, items, Set(x, d, r[n] + r[i], 2))
<1> DEFINE h == EncAddReg(d, n, i)
<1>1. h \in Int
  BY SMT DEF EncAddReg, Twelve, Eight
<1>2. items = <<<<h>>>>
  BY Zenon DEF thumb_put_add_reg_reg_reg, thumb_put_instruction, EncAddReg
<1> HIDE DEF h
<1>3. Puts(items, <<h>>)
  BY Zenon, <1>1, <1>2, PutsOne
<1>4. x.r = r /\ d \in 0..14 /\ x.pc = at /\ x.thumb
  BY SMT DEF IsAt, Twelve, Eight
<1> DEFINE s == [r EXCEPT ![d] = r[n] + r[i]]
<1> DEFINE p == at + 2
<1>5. IsAt(Set(x, d, r[n] + r[i], 2), p, 1, s, << >>)
  BY Zenon, <1>4, AtSet
<1>m. PICK mem : mem = At(at, items)
  OBVIOUS
<1>6. SizeOf(items) = 2 /\ at \in DOMAIN mem /\ mem[at] = h /\ Outside(mem, at, 2)
  <2>1. Sits1(items, mem, at, h)
    BY Zenon, <1>3, <1>m, InOne
  <2> QED BY Zenon, <2>1 DEF Sits1
<1>7. Step(x, mem) = SetZ(x, d, r[n] + r[i], 2)
  <2>1. mem[x.pc] = EncAddReg(d, n, i)
    BY Zenon, <1>4, <1>6 DEF h
  <2>t. x.thumb
    BY Zenon, <1>4
  <2>2. AddRegIn(mem, x.pc, d, n, i)
    BY SMT, <2>1 DEF AddRegIn
  <2>3. Step(x, mem) = SetZ(x, d, x.r[n] + x.r[i], 2)
    <3>1. AddsReg(x, mem, d, n, i)
      BY SMT, <2>t, <2>2, StepAddReg
    <3> QED BY Zenon, <3>1 DEF AddsReg
  <2> QED BY Zenon, <1>4, <2>3
<1>9. IsAt(Step(x, mem), p, 1, s, << >>)
  <2>1. IsAt(SetZ(x, d, r[n] + r[i], 2), at + 2, 1,
             [r EXCEPT ![d] = r[n] + r[i]], << >>)
    BY Zenon, <1>4, AtSetZ
  <2> QED BY Zenon, <1>7, <2>1
<1>10. p \notin DOMAIN mem
  BY SMT, <1>6 DEF Outside
<1> HIDE DEF s, p
<1> QED BY Zenon, <1>4, <1>5, <1>6, <1>9, <1>10, <1>m, DoesOne

LEMMA ThumbPush ==
  ASSUME NEW x, NEW at \in Int, NEW r, IsAt(x, at, 1, r, << >>), NEW a \in 0..7, NEW o \in Int,
         o = -4, r[13] \in Int, NEW items, items = thumb_put_push_reg(a)
  PROVE  /\ SizeOf(items) = 2
         /\ Does(x, at, items, Store([Skip(x, 2) EXCEPT !.r[13] = r[13] + o], r[13] + o, r[a]))
<1> DEFINE h == EncPush(a)
<1>1. h \in Int
  BY SMT DEF EncPush, Twelve, Eight
<1>2. items = <<<<h>>>>
  BY SMT DEF thumb_put_push_reg, thumb_put_instruction, EncPush
<1> HIDE DEF h
<1>3. Puts(items, <<h>>)
  BY Zenon, <1>1, <1>2, PutsOne
<1>4. a \in 0..14 /\ 13 \in 0..14 /\ a # 13 /\ 0 \in {0, 1} /\ 1 \in {0, 1} /\ x.pc = at /\
      x.thumb
  BY SMT DEF IsAt, Twelve, Eight
<1> DEFINE s == [r EXCEPT ![13] = r[13] + o]
<1> DEFINE ram == Stored(<< >>, r[13] + o, r[a])
<1> DEFINE p == at + 2
<1>5. IsAt(Store([Skip(x, 2) EXCEPT !.r[13] = r[13] + o], r[13] + o, r[a]), p, 1, s, ram)
  BY Zenon, <1>4, AtSkip, AtAssign, AtStore
<1>m. PICK mem : mem = At(at, items)
  OBVIOUS
<1>6. SizeOf(items) = 2 /\ at \in DOMAIN mem /\ mem[at] = h /\ Outside(mem, at, 2)
  <2>1. Sits1(items, mem, at, h)
    BY Zenon, <1>3, <1>m, InOne
  <2> QED BY Zenon, <2>1 DEF Sits1
<1>7. Step(x, mem) = Transfer(x, mem, 0, a, 13, o, 1, 1, 2)
  <2>1. mem[x.pc] = EncPush(a)
    BY Zenon, <1>4, <1>6 DEF h
  <2>t. x.thumb
    BY Zenon, <1>4
  <2>2. Step(x, mem) = Transfer(x, mem, 0, a, 13, -4, 1, 1, 2)
    BY Zenon, <2>t, <2>1, StepPush
  <2> QED BY SMT, <2>2 DEF PopBy
<1>9. IsAt(Step(x, mem), p, 1, s, ram)
  <2>1. IsAt(Transfer(x, mem, 0, a, 13, o, 1, 1, 2), at + 2, 1,
             [r EXCEPT ![13] = r[13] + o], Stored(<< >>, r[13] + (IF 1 = 1 THEN o ELSE 0), r[a]))
    BY Zenon, <1>4, AtStrIndex
  <2> QED BY Zenon, <1>7, <2>1
<1>10. p \notin DOMAIN mem
  BY SMT, <1>6 DEF Outside
<1> HIDE DEF s, ram, p
<1> QED BY Zenon, <1>4, <1>5, <1>6, <1>9, <1>10, <1>m, DoesOne

\* A pop of one register: by o, with the access in front of it or behind
Popped(x, at, r, a, o, i, access) ==
  /\ at \in Int /\ IsAt(x, at, 1, r, << >>) /\ a \in 0..7 /\ o \in Int /\ i \in {0, 1}
  /\ PopBy(o, i)
  /\ r[13] \in Int /\ access = r[13] + (IF i = 1 THEN o ELSE 0) /\ Far(access, at)

LEMMA ThumbPop ==
  ASSUME NEW x, NEW at, NEW r, NEW a, NEW o, NEW i, NEW access, Popped(x, at, r, a, o, i, access),
         NEW items, items = thumb_put_pop_reg(a)
  PROVE  /\ SizeOf(items) = 2
         /\ Does(x, at, items, [Set(x, a, Content(access), 2) EXCEPT !.r[13] = r[13] + o])
<1>a. /\ at \in Int /\ IsAt(x, at, 1, r, << >>) /\ a \in 0..7 /\ o \in Int /\ i \in {0, 1}
      /\ PopBy(o, i)
      /\ r[13] \in Int /\ access = r[13] + (IF i = 1 THEN o ELSE 0) /\ Far(access, at)
  BY Zenon DEF Popped
<1> USE <1>a
<1> DEFINE h == EncPop(a)
<1>1. h \in Int
  BY SMT DEF EncPop, Twelve, Eight
<1>2. items = <<<<h>>>>
  BY SMT DEF thumb_put_pop_reg, thumb_put_instruction, EncPop
<1> HIDE DEF h
<1>3. Puts(items, <<h>>)
  BY Zenon, <1>1, <1>2, PutsOne
<1>4. a \in 0..14 /\ 13 \in 0..14 /\ a # 13 /\ 0 \in {0, 1} /\ 1 \in {0, 1} /\ x.pc = at /\
      x.thumb
  BY SMT DEF IsAt, Twelve, Eight
<1> DEFINE s == [[r EXCEPT ![13] = r[13] + o] EXCEPT ![a] = Content(access)]
<1> DEFINE p == at + 2
<1>5. IsAt([Set(x, a, Content(access), 2) EXCEPT !.r[13] = r[13] + o], p, 1, s, << >>)
  <2>1. IsAt(Set(x, a, Content(access), 2), at + 2, 1, [r EXCEPT ![a] = Content(access)], << >>)
    BY Zenon, <1>4, AtSet
  <2>2. [[r EXCEPT ![a] = Content(access)] EXCEPT ![13] = r[13] + o] = s
    <3>1. PICK b : b = 13
      OBVIOUS
    <3>2. a # b
      BY <1>4, <3>1
    <3>3. [[r EXCEPT ![a] = Content(access)] EXCEPT ![b] = r[b] + o]
            = [[r EXCEPT ![b] = r[b] + o] EXCEPT ![a] = Content(access)]
      BY Zenon, <3>2, ExceptSwap
    <3> QED BY Zenon, <3>1, <3>3
  <2>3. IsAt([Set(x, a, Content(access), 2) EXCEPT !.r[13] = r[13] + o], at + 2, 1,
             [[r EXCEPT ![a] = Content(access)] EXCEPT ![13] = r[13] + o], << >>)
    BY Zenon, <1>4, <2>1, AtAssign
  <2> QED BY Zenon, <2>2, <2>3
<1>m. PICK mem : mem = At(at, items)
  OBVIOUS
<1>6. SizeOf(items) = 2 /\ at \in DOMAIN mem /\ mem[at] = h /\ Outside(mem, at, 2)
  <2>1. Sits1(items, mem, at, h)
    BY Zenon, <1>3, <1>m, InOne
  <2> QED BY Zenon, <2>1 DEF Sits1
<1>7. Step(x, mem) = Transfer(x, mem, 1, a, 13, o, i, 1, 2)
  <2>1. mem[x.pc] = EncPop(a)
    BY Zenon, <1>4, <1>6 DEF h
  <2>t. x.thumb
    BY Zenon, <1>4
  <2>2. Step(x, mem) = Transfer(x, mem, 1, a, 13, 4, 0, 1, 2)
    BY Zenon, <2>t, <2>1, StepPop
  <2> QED BY SMT, <2>2 DEF PopBy
<1>8. Load(x, mem, r[13] + (IF i = 1 THEN o ELSE 0)) = Content(access)
  <2>1. 2 \in 0..24
    BY SMT
  <2> QED BY Zenon, <1>6, <2>1, FarRead
<1>9. IsAt(Step(x, mem), p, 1, s, << >>)
  <2>1. IsAt(Transfer(x, mem, 1, a, 13, o, i, 1, 2), at + 2, 1,
             [[r EXCEPT ![13] = r[13] + o]
                EXCEPT ![a] = Load(x, mem, r[13] + (IF i = 1 THEN o ELSE 0))], << >>)
    BY Zenon, <1>4, AtLoadIndex
  <2> QED BY Zenon, <1>7, <1>8, <2>1
<1>10. p \notin DOMAIN mem
  BY SMT, <1>6 DEF Outside
<1> HIDE DEF s, p
<1> QED BY Zenon, <1>4, <1>5, <1>6, <1>9, <1>10, <1>m, DoesOne

LEMMA ThumbBlx ==
  ASSUME NEW x, NEW at \in Int, NEW r, IsAt(x, at, 1, r, << >>), NEW a \in 0..14, r[a] \in Int,
         Far(r[a] - (r[a] % 2), at), NEW items, items = thumb_put_blx_reg(a)
  PROVE  SizeOf(items) = 2 /\ Does(x, at, items, Interwork(Link(x, 2), r[a]))
<1> DEFINE h == EncBlx(a)
<1>1. h \in Int
  BY SMT DEF EncBlx, Twelve, Eight
<1>2. items = <<<<h>>>>
  BY SMT DEF thumb_put_blx_reg, thumb_put_instruction, EncBlx
<1> HIDE DEF h
<1>3. Puts(items, <<h>>)
  BY Zenon, <1>1, <1>2, PutsOne
<1>4. a \in 0..15 /\ 1 \in {0, 1} /\ 2 \in Int /\ x.pc = at /\ x.thumb
  BY SMT DEF IsAt, Twelve, Eight
<1> DEFINE s == [r EXCEPT ![14] = at + 2 + 1]
<1> DEFINE p == r[a] - (r[a] % 2)
<1>5. IsAt(Interwork(Link(x, 2), r[a]), p, r[a] % 2, s, << >>)
  BY Zenon, <1>4, AtLink, AtInterwork
<1>m. PICK mem : mem = At(at, items)
  OBVIOUS
<1>6. SizeOf(items) = 2 /\ at \in DOMAIN mem /\ mem[at] = h /\ Outside(mem, at, 2)
  <2>1. Sits1(items, mem, at, h)
    BY Zenon, <1>3, <1>m, InOne
  <2> QED BY Zenon, <2>1 DEF Sits1
<1>7. Step(x, mem) = Interwork(Link(x, 2), r[a])
  <2>1. mem[x.pc] = EncBlx(a)
    BY Zenon, <1>4, <1>6 DEF h
  <2>t. x.thumb
    BY Zenon, <1>4
  <2>2. Step(x, mem) = Interwork(Link(x, 2), Reg(x, a))
    BY Zenon, <1>4, <2>t, <2>1, StepBlx
  <2>3. Reg(x, a) = r[a]
    BY Zenon, AtReg
  <2> QED BY Zenon, <2>2, <2>3
<1>9. IsAt(Step(x, mem), p, r[a] % 2, s, << >>)
  BY Zenon, <1>5, <1>7
<1>10. p \notin DOMAIN mem
  BY SMT, <1>6 DEF Outside, Far
<1> HIDE DEF s, p
<1> QED BY Zenon, <1>4, <1>5, <1>6, <1>9, <1>10, <1>m, DoesOne

LEMMA ThumbBxAligned ==
  ASSUME NEW x, NEW at \in Int, NEW r, IsAt(x, at, 1, r, << >>), NEW a \in 0..14, r[a] \in Int,
         Far(r[a] - (r[a] % 2), at), (at + 4) % 4 = 0, NEW items,
         items = thumb_put_bx_reg(at + 4, a)
  PROVE  SizeOf(items) = 4 /\ Does(x, at, items, Interwork(x, r[a]))
<1> DEFINE h == EncBx(a)
<1> DEFINE k == EncNop
<1>1. h \in Int /\ k \in Int
  BY SMT DEF EncBx, EncNop, Twelve, Eight
<1>2. items = <<<<h>>>> \o <<<<k>>>>
  <2>1. items = << >> \o thumb_put_instruction(h) \o thumb_put_instruction(k)
    BY SMT DEF thumb_put_bx_reg, EncBx, EncNop, thumb_put_nop
  <2>2. << >> \o <<<<h>>>> = <<<<h>>>>
    BY SMT
  <2> QED BY Zenon, <2>1, <2>2 DEF thumb_put_instruction
<1> HIDE DEF h
<1> HIDE DEF k
<1>3. Puts(items, <<h, k>>)
  BY Zenon, <1>1, <1>2, PutsPair
<1>4. a \in 0..15 /\ x.pc = at /\ x.thumb
  BY SMT DEF IsAt, Twelve, Eight
<1> DEFINE p == r[a] - (r[a] % 2)
<1>5. IsAt(Interwork(x, r[a]), p, r[a] % 2, r, << >>)
  BY Zenon, AtInterwork
<1>m. PICK mem : mem = At(at, items)
  OBVIOUS
<1>6. /\ SizeOf(items) = 4 /\ at \in DOMAIN mem /\ mem[at] = h
      /\ at + 2 \in DOMAIN mem /\ mem[at + 2] = k /\ Outside(mem, at, 4)
  <2>1. Sits2(items, mem, at, h, k)
    BY Zenon, <1>3, <1>m, InTwo
  <2> QED BY Zenon, <2>1 DEF Sits2
<1>7. Step(x, mem) = Interwork(x, r[a])
  <2>1. mem[x.pc] = EncBx(a)
    BY Zenon, <1>4, <1>6 DEF h
  <2>t. x.thumb
    BY Zenon, <1>4
  <2>2. Step(x, mem) = Interwork(x, Reg(x, a))
    BY Zenon, <1>4, <2>t, <2>1, StepBx
  <2>3. Reg(x, a) = r[a]
    BY Zenon, AtReg
  <2> QED BY Zenon, <2>2, <2>3
<1>9. IsAt(Step(x, mem), p, r[a] % 2, r, << >>)
  BY Zenon, <1>5, <1>7
<1>10. p \notin DOMAIN mem
  BY SMT, <1>6 DEF Outside, Far
<1> HIDE DEF p
<1> QED BY Zenon, <1>4, <1>5, <1>6, <1>9, <1>10, <1>m, DoesOne

LEMMA ThumbB ==
  ASSUME NEW x, NEW at \in Int, NEW r, IsAt(x, at, 1, r, << >>), NEW w \in Int, Branch(w), w # -2,
         NEW v \in Int, v = 2 * w, NEW items, items = thumb_put_b_imm(v)
  PROVE  SizeOf(items) = 2 /\ Does(x, at, items, Goto(x, at + 4 + v))
<1> DEFINE h == EncBranch(w)
<1>1. h \in Int
  BY SMT DEF EncBranch, Sub, Twelve, Eight
<1>2. items = <<<<h>>>>
  BY SMT DEF thumb_put_b_imm, thumb_put_instruction, EncBranch
<1> HIDE DEF h
<1>3. Puts(items, <<h>>)
  BY Zenon, <1>1, <1>2, PutsOne
<1>4. x.pc = at /\ x.thumb
  BY SMT DEF IsAt, Twelve, Eight
<1> DEFINE p == at + 4 + v
<1>5. IsAt(Goto(x, at + 4 + v), p, 1, r, << >>)
  BY Zenon, AtGoto
<1>m. PICK mem : mem = At(at, items)
  OBVIOUS
<1>6. SizeOf(items) = 2 /\ at \in DOMAIN mem /\ mem[at] = h /\ Outside(mem, at, 2)
  <2>1. Sits1(items, mem, at, h)
    BY Zenon, <1>3, <1>m, InOne
  <2> QED BY Zenon, <2>1 DEF Sits1
<1>7. Step(x, mem) = Goto(x, at + 4 + v)
  <2>1. mem[x.pc] = EncBranch(w)
    BY Zenon, <1>4, <1>6 DEF h
  <2>t. x.thumb /\ w >= -1024 /\ w < 1024
    BY SMT, <1>4 DEF Branch
  <2>2. Step(x, mem) = Goto(x, Here(x) + 2 * w)
    BY SMT, <2>t, <2>1, StepBranch
  <2>3. Here(x) = at + 4
    BY SMT, AtHere
  <2> QED BY SMT, <2>2, <2>3
<1>9. IsAt(Step(x, mem), p, 1, r, << >>)
  BY Zenon, <1>5, <1>7
<1>10. p \notin DOMAIN mem
  BY SMT, <1>6 DEF Outside
<1> HIDE DEF p
<1> QED BY Zenon, <1>4, <1>5, <1>6, <1>9, <1>10, <1>m, DoesOne

LEMMA ThumbBWide ==
  ASSUME NEW x, NEW at \in Int, NEW r, IsAt(x, at, 1, r, << >>), NEW w \in Int, Wide(w),
         NEW v \in Int, v = 2 * w, w # -2, w # -1, NEW items, items = thumb_put_b_imm32(v)
  PROVE  SizeOf(items) = 4 /\ Does(x, at, items, Goto(x, at + 4 + v))
<1> DEFINE h == EncWideHigh(w)
<1> DEFINE k == EncWideLow(w, 0, 1)
<1>1. h \in Int /\ k \in Int
  BY SMT DEF EncWideHigh, EncWideLow, Sub, Bit, Twelve, Eight
<1>2. items = <<<<h>>>> \o <<<<k>>>>
  <2>1. v \div 2 = w
    BY SMT
  <2>2. Bit(v < 0) = Bit(w < 0)
    BY SMT DEF Bit
  <2>3. items = thumb_put_branch_imm(v, 0, 1)
    BY Zenon DEF thumb_put_b_imm32
  <2> QED BY SMT, <2>1, <2>3 DEF thumb_put_branch_imm, thumb_put_instruction, EncWideHigh,
       EncWideLow, Bit
<1> HIDE DEF h
<1> HIDE DEF k
<1>3. Puts(items, <<h, k>>)
  BY Zenon, <1>1, <1>2, PutsPair
<1>4. 1 \in {0, 1} /\ 4 \in Int /\ x.pc = at /\ x.thumb
  BY SMT DEF IsAt, Twelve, Eight
<1> DEFINE p == at + 4 + v
<1>5. IsAt(Goto(x, at + 4 + v), p, 1, r, << >>)
  BY Zenon, AtGoto
<1>m. PICK mem : mem = At(at, items)
  OBVIOUS
<1>6. /\ SizeOf(items) = 4 /\ at \in DOMAIN mem /\ mem[at] = h
      /\ at + 2 \in DOMAIN mem /\ mem[at + 2] = k /\ Outside(mem, at, 4)
  <2>1. Sits2(items, mem, at, h, k)
    BY Zenon, <1>3, <1>m, InTwo
  <2> QED BY Zenon, <2>1 DEF Sits2
<1>7. Step(x, mem) = Goto(x, at + 4 + v)
  <2>1. /\ mem[x.pc] = EncWideHigh(w)
        /\ x.pc + 2 \in DOMAIN mem /\ mem[x.pc + 2] = EncWideLow(w, 0, 1)
    BY Zenon, <1>4, <1>6 DEF h, k
  <2>t. x.thumb
    BY Zenon, <1>4
  <2>2. WideIn(mem, x.pc, w, 0, 1)
    BY SMT, <2>1 DEF WideIn, Wide
  <2>3. Step(x, mem) = IF 0 = 0 THEN Goto(x, Here(x) + 2 * w)
                       ELSE IF 1 = 1 THEN Goto(Link(x, 4), Here(x) + 2 * w)
                       ELSE Interwork(Link(x, 4), Aligned(Here(x)) + 2 * w)
    BY Zenon, <2>t, <2>2, StepWide
  <2>4. Here(x) = at + 4
    BY SMT, AtHere
  <2> QED BY SMT, <2>3, <2>4 DEF Aligned, ALIGN_FLOOR
<1>9. IsAt(Step(x, mem), p, 1, r, << >>)
  BY Zenon, <1>5, <1>7
<1>10. p \notin DOMAIN mem
  BY SMT, <1>6 DEF Outside, ALIGN_FLOOR
<1> HIDE DEF p
<1> QED BY Zenon, <1>4, <1>5, <1>6, <1>9, <1>10, <1>m, DoesOne

LEMMA ThumbBl ==
  ASSUME NEW x, NEW at \in Int, NEW r, IsAt(x, at, 1, r, << >>), NEW w \in Int, Wide(w),
         NEW v \in Int, v = 2 * w, w # -2, w # -1, NEW items, items = thumb_put_bl_imm(v)
  PROVE  SizeOf(items) = 4 /\ Does(x, at, items, Goto(Link(x, 4), at + 4 + v))
<1> DEFINE h == EncWideHigh(w)
<1> DEFINE k == EncWideLow(w, 1, 1)
<1>1. h \in Int /\ k \in Int
  BY SMT DEF EncWideHigh, EncWideLow, Sub, Bit, Twelve, Eight
<1>2. items = <<<<h>>>> \o <<<<k>>>>
  <2>1. v \div 2 = w
    BY SMT
  <2>2. Bit(v < 0) = Bit(w < 0)
    BY SMT DEF Bit
  <2>3. items = thumb_put_branch_imm(v, 1, 1)
    BY Zenon DEF thumb_put_bl_imm
  <2> QED BY SMT, <2>1, <2>3 DEF thumb_put_branch_imm, thumb_put_instruction, EncWideHigh,
       EncWideLow, Bit
<1> HIDE DEF h
<1> HIDE DEF k
<1>3. Puts(items, <<h, k>>)
  BY Zenon, <1>1, <1>2, PutsPair
<1>4. 1 \in {0, 1} /\ 4 \in Int /\ x.pc = at /\ x.thumb
  BY SMT DEF IsAt, Twelve, Eight
<1> DEFINE s == [r EXCEPT ![14] = at + 4 + 1]
<1> DEFINE p == at + 4 + v
<1>5. IsAt(Goto(Link(x, 4), at + 4 + v), p, 1, s, << >>)
  BY Zenon, <1>4, AtLink, AtGoto
<1>m. PICK mem : mem = At(at, items)
  OBVIOUS
<1>6. /\ SizeOf(items) = 4 /\ at \in DOMAIN mem /\ mem[at] = h
      /\ at + 2 \in DOMAIN mem /\ mem[at + 2] = k /\ Outside(mem, at, 4)
  <2>1. Sits2(items, mem, at, h, k)
    BY Zenon, <1>3, <1>m, InTwo
  <2> QED BY Zenon, <2>1 DEF Sits2
<1>7. Step(x, mem) = Goto(Link(x, 4), at + 4 + v)
  <2>1. /\ mem[x.pc] = EncWideHigh(w)
        /\ x.pc + 2 \in DOMAIN mem /\ mem[x.pc + 2] = EncWideLow(w, 1, 1)
    BY Zenon, <1>4, <1>6 DEF h, k
  <2>t. x.thumb
    BY Zenon, <1>4
  <2>2. WideIn(mem, x.pc, w, 1, 1)
    BY SMT, <2>1 DEF WideIn, Wide
  <2>3. Step(x, mem) = IF 1 = 0 THEN Goto(x, Here(x) + 2 * w)
                       ELSE IF 1 = 1 THEN Goto(Link(x, 4), Here(x) + 2 * w)
                       ELSE Interwork(Link(x, 4), Aligned(Here(x)) + 2 * w)
    BY Zenon, <2>t, <2>2, StepWide
  <2>4. Here(x) = at + 4
    BY SMT, AtHere
  <2> QED BY SMT, <2>3, <2>4 DEF Aligned, ALIGN_FLOOR
<1>9. IsAt(Step(x, mem), p, 1, s, << >>)
  BY Zenon, <1>5, <1>7
<1>10. p \notin DOMAIN mem
  BY SMT, <1>6 DEF Outside, ALIGN_FLOOR
<1> HIDE DEF s, p
<1> QED BY Zenon, <1>4, <1>5, <1>6, <1>9, <1>10, <1>m, DoesOne

LEMMA ThumbBlxImm ==
  ASSUME NEW x, NEW at \in Int, NEW r, IsAt(x, at, 1, r, << >>), NEW w \in Int, Wide(w),
         NEW v \in Int, v = 2 * w, w # -2, w # 0, w % 2 = 0, NEW items,
         items = thumb_put_blx_imm(v)
  PROVE  /\ SizeOf(items) = 4
         /\ Does(x, at, items, Interwork(Link(x, 4), ALIGN_FLOOR(at + 4, 4) + v))
<1> DEFINE h == EncWideHigh(w)
<1> DEFINE k == EncWideLow(w, 1, 0)
<1>1. h \in Int /\ k \in Int
  BY SMT DEF EncWideHigh, EncWideLow, Sub, Bit, Twelve, Eight
<1>2. items = <<<<h>>>> \o <<<<k>>>>
  <2>1. v \div 2 = w
    BY SMT
  <2>2. Bit(v < 0) = Bit(w < 0)
    BY SMT DEF Bit
  <2>3. items = thumb_put_branch_imm(v, 1, 0)
    BY Zenon DEF thumb_put_blx_imm
  <2> QED BY SMT, <2>1, <2>3 DEF thumb_put_branch_imm, thumb_put_instruction, EncWideHigh,
       EncWideLow, Bit
<1> HIDE DEF h
<1> HIDE DEF k
<1>3. Puts(items, <<h, k>>)
  BY Zenon, <1>1, <1>2, PutsPair
<1>4. 1 \in {0, 1} /\ 4 \in Int /\ x.pc = at /\ x.thumb
  BY SMT DEF IsAt, Twelve, Eight
<1> DEFINE s == [r EXCEPT ![14] = at + 4 + 1]
<1> DEFINE p == ALIGN_FLOOR(at + 4, 4) + v
<1>5. IsAt(Interwork(Link(x, 4), ALIGN_FLOOR(at + 4, 4) + v), p, 0, s, << >>)
  <2>1. p \in Int /\ p - (p % 2) = p /\ p % 2 = 0
    BY SMT DEF ALIGN_FLOOR
  <2> HIDE DEF p
  <2>2. IsAt(Interwork(Link(x, 4), p), p - (p % 2), p % 2, s, << >>)
    BY Zenon, <1>4, <2>1, AtLink, AtInterwork
  <2> QED BY Zenon, <2>1, <2>2 DEF p
<1>m. PICK mem : mem = At(at, items)
  OBVIOUS
<1>6. /\ SizeOf(items) = 4 /\ at \in DOMAIN mem /\ mem[at] = h
      /\ at + 2 \in DOMAIN mem /\ mem[at + 2] = k /\ Outside(mem, at, 4)
  <2>1. Sits2(items, mem, at, h, k)
    BY Zenon, <1>3, <1>m, InTwo
  <2> QED BY Zenon, <2>1 DEF Sits2
<1>7. Step(x, mem) = Interwork(Link(x, 4), ALIGN_FLOOR(at + 4, 4) + v)
  <2>1. /\ mem[x.pc] = EncWideHigh(w)
        /\ x.pc + 2 \in DOMAIN mem /\ mem[x.pc + 2] = EncWideLow(w, 1, 0)
    BY Zenon, <1>4, <1>6 DEF h, k
  <2>t. x.thumb
    BY Zenon, <1>4
  <2>2. WideIn(mem, x.pc, w, 1, 0)
    BY SMT, <2>1 DEF WideIn, Wide
  <2>3. Step(x, mem) = IF 1 = 0 THEN Goto(x, Here(x) + 2 * w)
                       ELSE IF 0 = 1 THEN Goto(Link(x, 4), Here(x) + 2 * w)
                       ELSE Interwork(Link(x, 4), Aligned(Here(x)) + 2 * w)
    BY ZenonT(30), <2>t, <2>2, StepWide
  <2>4. Here(x) = at + 4
    BY SMT, AtHere
  <2> QED BY SMT, <2>3, <2>4 DEF Aligned, ALIGN_FLOOR
<1>9. IsAt(Step(x, mem), p, 0, s, << >>)
  BY Zenon, <1>5, <1>7
<1>10. p \notin DOMAIN mem
  BY SMT, <1>6 DEF Outside, ALIGN_FLOOR
<1> HIDE DEF s, p
<1> QED BY Zenon, <1>4, <1>5, <1>6, <1>9, <1>10, <1>m, DoesOne

LEMMA ConcatIs ==
  ASSUME NEW H \in Seq(Int), NEW K \in Seq(Int), NEW W \in Seq(Int), Len(W) = Len(H) + Len(K),
         \A i \in 1..Len(H) : H[i] = W[i], \A i \in 1..Len(K) : K[i] = W[Len(H) + i]
  PROVE  H \o K = W
<1> DEFINE J == H \o K
<1>1. /\ J \in Seq(Int) /\ Len(J) = Len(H) + Len(K)
      /\ \A i \in 1 .. Len(H) + Len(K) : J[i] = IF i <= Len(H) THEN H[i] ELSE K[i - Len(H)]
  BY Zenon, ConcatProperties
<1> HIDE DEF J
<1>2. Len(H) \in Nat /\ Len(K) \in Nat
  OBVIOUS
<1>3. ASSUME NEW i \in 1..Len(J) PROVE J[i] = W[i]
  <2>1. i \in 1 .. Len(H) + Len(K) /\ J[i] = IF i <= Len(H) THEN H[i] ELSE K[i - Len(H)]
    BY <1>1
  <2>2. CASE i <= Len(H)
    BY SMT, <1>2, <2>1, <2>2
  <2>3. CASE ~(i <= Len(H))
    <3>1. i - Len(H) \in 1..Len(K)
      BY SMT, <1>2, <2>1, <2>3
    <3>2. K[i - Len(H)] = W[Len(H) + (i - Len(H))]
      BY Zenon, <3>1
    <3>3. Len(H) + (i - Len(H)) = i
      BY SMT, <1>2, <2>1
    <3> QED BY Zenon, <2>1, <2>3, <3>2, <3>3
  <2> QED BY <2>2, <2>3
<1>4. J = W
  BY SMT, <1>1, <1>3, SeqEqual
<1> QED BY <1>4 DEF J

LEMMA Join1and1 ==
  ASSUME NEW h1, NEW h2, NEW s, Puts(s, <<h1>>), NEW u, Puts(u, <<h2>>)
  PROVE  Puts(s \o u, <<h1, h2>>)
<1> DEFINE H == <<h1>>
           K == <<h2>>
           W == <<h1, h2>>
<1>0. H \in Seq(Int) /\ K \in Seq(Int)
  BY Zenon DEF Puts
<1>a. Len(H) = 1 /\ Len(K) = 1
  OBVIOUS
<1>b. H[1] = h1 /\ K[1] = h2
  OBVIOUS
<1>c. h1 \in Int /\ h2 \in Int
  <2>1. (\A i \in 1..1 : H[i] \in Int) /\ (\A i \in 1..1 : K[i] \in Int)
    <3> HIDE DEF H, K
    <3> QED BY Zenon, <1>0, <1>a, ElementOfSeq
  <2> HIDE DEF H, K
  <2> QED BY SMT, <1>b, <2>1
<1>1. H \in Seq(Int) /\ Len(H) = 1 /\ K \in Seq(Int) /\ Len(K) = 1 /\ W \in Seq(Int) /\ Len(W) = 2
  BY <1>c
<1>2. H[1] = W[1]
  OBVIOUS
<1>3. K[1] = W[2]
  OBVIOUS
<1>4. Puts(s, H) /\ Puts(u, K)
  OBVIOUS
<1> HIDE DEF H, K, W
<1>5. ASSUME NEW i \in 1..Len(H) PROVE H[i] = W[i]
  BY SMT, <1>1, <1>2
<1>6. ASSUME NEW i \in 1..Len(K) PROVE K[i] = W[Len(H) + i]
  BY SMT, <1>1, <1>3
<1>7. Len(W) = Len(H) + Len(K)
  BY SMT, <1>1
<1>8. H \o K = W
  BY Zenon, <1>1, <1>5, <1>6, <1>7, ConcatIs
<1> QED BY Zenon, <1>4, <1>8, PutsBoth DEF H, K, W

LEMMA Join2and1 ==
  ASSUME NEW h1, NEW h2, NEW h3, NEW s, Puts(s, <<h1, h2>>), NEW u, Puts(u, <<h3>>)
  PROVE  Puts(s \o u, <<h1, h2, h3>>)
<1> DEFINE H == <<h1, h2>>
           K == <<h3>>
           W == <<h1, h2, h3>>
<1>0. H \in Seq(Int) /\ K \in Seq(Int)
  BY Zenon DEF Puts
<1>a. Len(H) = 2 /\ Len(K) = 1
  OBVIOUS
<1>b. H[1] = h1 /\ H[2] = h2 /\ K[1] = h3
  OBVIOUS
<1>c. h1 \in Int /\ h2 \in Int /\ h3 \in Int
  <2>1. (\A i \in 1..2 : H[i] \in Int) /\ (\A i \in 1..1 : K[i] \in Int)
    <3> HIDE DEF H, K
    <3> QED BY Zenon, <1>0, <1>a, ElementOfSeq
  <2> HIDE DEF H, K
  <2> QED BY SMT, <1>b, <2>1
<1>1. H \in Seq(Int) /\ Len(H) = 2 /\ K \in Seq(Int) /\ Len(K) = 1 /\ W \in Seq(Int) /\ Len(W) = 3
  BY <1>c
<1>2. H[1] = W[1] /\ H[2] = W[2]
  OBVIOUS
<1>3. K[1] = W[3]
  OBVIOUS
<1>4. Puts(s, H) /\ Puts(u, K)
  OBVIOUS
<1> HIDE DEF H, K, W
<1>5. ASSUME NEW i \in 1..Len(H) PROVE H[i] = W[i]
  BY SMT, <1>1, <1>2
<1>6. ASSUME NEW i \in 1..Len(K) PROVE K[i] = W[Len(H) + i]
  BY SMT, <1>1, <1>3
<1>7. Len(W) = Len(H) + Len(K)
  BY SMT, <1>1
<1>8. H \o K = W
  BY Zenon, <1>1, <1>5, <1>6, <1>7, ConcatIs
<1> QED BY Zenon, <1>4, <1>8, PutsBoth DEF H, K, W

LEMMA Join3and1 ==
  ASSUME NEW h1, NEW h2, NEW h3, NEW h4, NEW s, Puts(s, <<h1, h2, h3>>), NEW u, Puts(u, <<h4>>)
  PROVE  Puts(s \o u, <<h1, h2, h3, h4>>)
<1> DEFINE H == <<h1, h2, h3>>
           K == <<h4>>
           W == <<h1, h2, h3, h4>>
<1>0. H \in Seq(Int) /\ K \in Seq(Int)
  BY Zenon DEF Puts
<1>a. Len(H) = 3 /\ Len(K) = 1
  OBVIOUS
<1>b. H[1] = h1 /\ H[2] = h2 /\ H[3] = h3 /\ K[1] = h4
  OBVIOUS
<1>c. h1 \in Int /\ h2 \in Int /\ h3 \in Int /\ h4 \in Int
  <2>1. (\A i \in 1..3 : H[i] \in Int) /\ (\A i \in 1..1 : K[i] \in Int)
    <3> HIDE DEF H, K
    <3> QED BY Zenon, <1>0, <1>a, ElementOfSeq
  <2> HIDE DEF H, K
  <2> QED BY SMT, <1>b, <2>1
<1>1. H \in Seq(Int) /\ Len(H) = 3 /\ K \in Seq(Int) /\ Len(K) = 1 /\ W \in Seq(Int) /\ Len(W) = 4
  BY <1>c
<1>2. H[1] = W[1] /\ H[2] = W[2] /\ H[3] = W[3]
  OBVIOUS
<1>3. K[1] = W[4]
  OBVIOUS
<1>4. Puts(s, H) /\ Puts(u, K)
  OBVIOUS
<1> HIDE DEF H, K, W
<1>5. ASSUME NEW i \in 1..Len(H) PROVE H[i] = W[i]
  BY SMT, <1>1, <1>2
<1>6. ASSUME NEW i \in 1..Len(K) PROVE K[i] = W[Len(H) + i]
  BY SMT, <1>1, <1>3
<1>7. Len(W) = Len(H) + Len(K)
  BY SMT, <1>1
<1>8. H \o K = W
  BY Zenon, <1>1, <1>5, <1>6, <1>7, ConcatIs
<1> QED BY Zenon, <1>4, <1>8, PutsBoth DEF H, K, W

LEMMA Join2and2 ==
  ASSUME NEW h1, NEW h2, NEW h3, NEW h4, NEW s, Puts(s, <<h1, h2>>), NEW u, Puts(u, <<h3, h4>>)
  PROVE  Puts(s \o u, <<h1, h2, h3, h4>>)
<1> DEFINE H == <<h1, h2>>
           K == <<h3, h4>>
           W == <<h1, h2, h3, h4>>
<1>0. H \in Seq(Int) /\ K \in Seq(Int)
  BY Zenon DEF Puts
<1>a. Len(H) = 2 /\ Len(K) = 2
  OBVIOUS
<1>b. H[1] = h1 /\ H[2] = h2 /\ K[1] = h3 /\ K[2] = h4
  OBVIOUS
<1>c. h1 \in Int /\ h2 \in Int /\ h3 \in Int /\ h4 \in Int
  <2>1. (\A i \in 1..2 : H[i] \in Int) /\ (\A i \in 1..2 : K[i] \in Int)
    <3> HIDE DEF H, K
    <3> QED BY Zenon, <1>0, <1>a, ElementOfSeq
  <2> HIDE DEF H, K
  <2> QED BY SMT, <1>b, <2>1
<1>1. H \in Seq(Int) /\ Len(H) = 2 /\ K \in Seq(Int) /\ Len(K) = 2 /\ W \in Seq(Int) /\ Len(W) = 4
  BY <1>c
<1>2. H[1] = W[1] /\ H[2] = W[2]
  OBVIOUS
<1>3. K[1] = W[3] /\ K[2] = W[4]
  OBVIOUS
<1>4. Puts(s, H) /\ Puts(u, K)
  OBVIOUS
<1> HIDE DEF H, K, W
<1>5. ASSUME NEW i \in 1..Len(H) PROVE H[i] = W[i]
  BY SMT, <1>1, <1>2
<1>6. ASSUME NEW i \in 1..Len(K) PROVE K[i] = W[Len(H) + i]
  BY SMT, <1>1, <1>3
<1>7. Len(W) = Len(H) + Len(K)
  BY SMT, <1>1
<1>8. H \o K = W
  BY Zenon, <1>1, <1>5, <1>6, <1>7, ConcatIs
<1> QED BY Zenon, <1>4, <1>8, PutsBoth DEF H, K, W

LEMMA Join3and2 ==
  ASSUME NEW h1, NEW h2, NEW h3, NEW h4, NEW h5, NEW s, Puts(s, <<h1, h2, h3>>), NEW u,
         Puts(u, <<h4, h5>>)
  PROVE  Puts(s \o u, <<h1, h2, h3, h4, h5>>)
<1> DEFINE H == <<h1, h2, h3>>
           K == <<h4, h5>>
           W == <<h1, h2, h3, h4, h5>>
<1>0. H \in Seq(Int) /\ K \in Seq(Int)
  BY Zenon DEF Puts
<1>a. Len(H) = 3 /\ Len(K) = 2
  OBVIOUS
<1>b. H[1] = h1 /\ H[2] = h2 /\ H[3] = h3 /\ K[1] = h4 /\ K[2] = h5
  OBVIOUS
<1>c. h1 \in Int /\ h2 \in Int /\ h3 \in Int /\ h4 \in Int /\ h5 \in Int
  <2>1. (\A i \in 1..3 : H[i] \in Int) /\ (\A i \in 1..2 : K[i] \in Int)
    <3> HIDE DEF H, K
    <3> QED BY Zenon, <1>0, <1>a, ElementOfSeq
  <2> HIDE DEF H, K
  <2> QED BY SMT, <1>b, <2>1
<1>1. H \in Seq(Int) /\ Len(H) = 3 /\ K \in Seq(Int) /\ Len(K) = 2 /\ W \in Seq(Int) /\ Len(W) = 5
  BY <1>c
<1>2. H[1] = W[1] /\ H[2] = W[2] /\ H[3] = W[3]
  OBVIOUS
<1>3. K[1] = W[4] /\ K[2] = W[5]
  OBVIOUS
<1>4. Puts(s, H) /\ Puts(u, K)
  OBVIOUS
<1> HIDE DEF H, K, W
<1>5. ASSUME NEW i \in 1..Len(H) PROVE H[i] = W[i]
  BY SMT, <1>1, <1>2
<1>6. ASSUME NEW i \in 1..Len(K) PROVE K[i] = W[Len(H) + i]
  BY SMT, <1>1, <1>3
<1>7. Len(W) = Len(H) + Len(K)
  BY SMT, <1>1
<1>8. H \o K = W
  BY Zenon, <1>1, <1>5, <1>6, <1>7, ConcatIs
<1> QED BY Zenon, <1>4, <1>8, PutsBoth DEF H, K, W

LEMMA Join4and2 ==
  ASSUME NEW h1, NEW h2, NEW h3, NEW h4, NEW h5, NEW h6, NEW s, Puts(s, <<h1, h2, h3, h4>>),
         NEW u, Puts(u, <<h5, h6>>)
  PROVE  Puts(s \o u, <<h1, h2, h3, h4, h5, h6>>)
<1> DEFINE H == <<h1, h2, h3, h4>>
           K == <<h5, h6>>
           W == <<h1, h2, h3, h4, h5, h6>>
<1>0. H \in Seq(Int) /\ K \in Seq(Int)
  BY Zenon DEF Puts
<1>a. Len(H) = 4 /\ Len(K) = 2
  OBVIOUS
<1>b. H[1] = h1 /\ H[2] = h2 /\ H[3] = h3 /\ H[4] = h4 /\ K[1] = h5 /\ K[2] = h6
  OBVIOUS
<1>c. h1 \in Int /\ h2 \in Int /\ h3 \in Int /\ h4 \in Int /\ h5 \in Int /\ h6 \in Int
  <2>1. (\A i \in 1..4 : H[i] \in Int) /\ (\A i \in 1..2 : K[i] \in Int)
    <3> HIDE DEF H, K
    <3> QED BY Zenon, <1>0, <1>a, ElementOfSeq
  <2> HIDE DEF H, K
  <2> QED BY SMT, <1>b, <2>1
<1>1. H \in Seq(Int) /\ Len(H) = 4 /\ K \in Seq(Int) /\ Len(K) = 2 /\ W \in Seq(Int) /\ Len(W) = 6
  BY <1>c
<1>2. H[1] = W[1] /\ H[2] = W[2] /\ H[3] = W[3] /\ H[4] = W[4]
  OBVIOUS
<1>3. K[1] = W[5] /\ K[2] = W[6]
  OBVIOUS
<1>4. Puts(s, H) /\ Puts(u, K)
  OBVIOUS
<1> HIDE DEF H, K, W
<1>5. ASSUME NEW i \in 1..Len(H) PROVE H[i] = W[i]
  BY SMT, <1>1, <1>2
<1>6. ASSUME NEW i \in 1..Len(K) PROVE K[i] = W[Len(H) + i]
  BY SMT, <1>1, <1>3
<1>7. Len(W) = Len(H) + Len(K)
  BY SMT, <1>1
<1>8. H \o K = W
  BY Zenon, <1>1, <1>5, <1>6, <1>7, ConcatIs
<1> QED BY Zenon, <1>4, <1>8, PutsBoth DEF H, K, W

LEMMA Join6and2 ==
  ASSUME NEW h1, NEW h2, NEW h3, NEW h4, NEW h5, NEW h6, NEW h7, NEW h8, NEW s,
         Puts(s, <<h1, h2, h3, h4, h5, h6>>), NEW u, Puts(u, <<h7, h8>>)
  PROVE  Puts(s \o u, <<h1, h2, h3, h4, h5, h6, h7, h8>>)
<1> DEFINE H == <<h1, h2, h3, h4, h5, h6>>
           K == <<h7, h8>>
           W == <<h1, h2, h3, h4, h5, h6, h7, h8>>
<1>0. H \in Seq(Int) /\ K \in Seq(Int)
  BY Zenon DEF Puts
<1>a. Len(H) = 6 /\ Len(K) = 2
  OBVIOUS
<1>b. H[1] = h1 /\ H[2] = h2 /\ H[3] = h3 /\ H[4] = h4 /\ H[5] = h5 /\ H[6] = h6 /\ K[1] = h7 /\
      K[2] = h8
  OBVIOUS
<1>c. /\ h1 \in Int /\ h2 \in Int /\ h3 \in Int /\ h4 \in Int /\ h5 \in Int /\ h6 \in Int
      /\ h7 \in Int /\ h8 \in Int
  <2>1. (\A i \in 1..6 : H[i] \in Int) /\ (\A i \in 1..2 : K[i] \in Int)
    <3> HIDE DEF H, K
    <3> QED BY Zenon, <1>0, <1>a, ElementOfSeq
  <2> HIDE DEF H, K
  <2> QED BY SMT, <1>b, <2>1
<1>1. H \in Seq(Int) /\ Len(H) = 6 /\ K \in Seq(Int) /\ Len(K) = 2 /\ W \in Seq(Int) /\ Len(W) = 8
  BY <1>c
<1>2. H[1] = W[1] /\ H[2] = W[2] /\ H[3] = W[3] /\ H[4] = W[4] /\ H[5] = W[5] /\ H[6] = W[6]
  OBVIOUS
<1>3. K[1] = W[7] /\ K[2] = W[8]
  OBVIOUS
<1>4. Puts(s, H) /\ Puts(u, K)
  OBVIOUS
<1> HIDE DEF H, K, W
<1>5. ASSUME NEW i \in 1..Len(H) PROVE H[i] = W[i]
  <2>1. i = 1 \/ i = 2 \/ i = 3 \/ i = 4 \/ i = 5 \/ i = 6
    BY SMT, <1>1
  <2> QED BY Zenon, <1>2, <2>1
<1>6. ASSUME NEW i \in 1..Len(K) PROVE K[i] = W[Len(H) + i]
  <2>1. (i = 1 /\ Len(H) + i = 7) \/ (i = 2 /\ Len(H) + i = 8)
    BY SMT, <1>1
  <2> QED BY Zenon, <1>3, <2>1
<1>7. Len(W) = Len(H) + Len(K)
  BY SMT, <1>1
<1>8. H \o K = W
  BY Zenon, <1>1, <1>5, <1>6, <1>7, ConcatIs
<1> QED BY Zenon, <1>4, <1>8, PutsBoth DEF H, K, W

LEMMA Join8and2 ==
  ASSUME NEW h1, NEW h2, NEW h3, NEW h4, NEW h5, NEW h6, NEW h7, NEW h8, NEW h9, NEW h10, NEW s,
         Puts(s, <<h1, h2, h3, h4, h5, h6, h7, h8>>), NEW u, Puts(u, <<h9, h10>>)
  PROVE  Puts(s \o u, <<h1, h2, h3, h4, h5, h6, h7, h8, h9, h10>>)
<1> DEFINE H == <<h1, h2, h3, h4, h5, h6, h7, h8>>
           K == <<h9, h10>>
           W == <<h1, h2, h3, h4, h5, h6, h7, h8, h9, h10>>
<1>0. H \in Seq(Int) /\ K \in Seq(Int)
  BY Zenon DEF Puts
<1>a. Len(H) = 8 /\ Len(K) = 2
  OBVIOUS
<1>b. H[1] = h1 /\ H[2] = h2 /\ H[3] = h3 /\ H[4] = h4 /\ H[5] = h5 /\ H[6] = h6 /\ H[7] = h7 /\
      H[8] = h8 /\ K[1] = h9 /\ K[2] = h10
  OBVIOUS
<1>c. /\ h1 \in Int /\ h2 \in Int /\ h3 \in Int /\ h4 \in Int /\ h5 \in Int /\ h6 \in Int
      /\ h7 \in Int /\ h8 \in Int /\ h9 \in Int /\ h10 \in Int
  <2>1. (\A i \in 1..8 : H[i] \in Int) /\ (\A i \in 1..2 : K[i] \in Int)
    <3> HIDE DEF H, K
    <3> QED BY Zenon, <1>0, <1>a, ElementOfSeq
  <2> HIDE DEF H, K
  <2> QED BY SMT, <1>b, <2>1
<1>1. H \in Seq(Int) /\ Len(H) = 8 /\ K \in Seq(Int) /\ Len(K) = 2 /\ W \in Seq(Int) /\ Len(W) = 10
  BY <1>c
<1>2. H[1] = W[1] /\ H[2] = W[2] /\ H[3] = W[3] /\ H[4] = W[4] /\ H[5] = W[5] /\ H[6] = W[6] /\
      H[7] = W[7] /\ H[8] = W[8]
  OBVIOUS
<1>3. K[1] = W[9] /\ K[2] = W[10]
  OBVIOUS
<1>4. Puts(s, H) /\ Puts(u, K)
  OBVIOUS
<1> HIDE DEF H, K, W
<1>5. ASSUME NEW i \in 1..Len(H) PROVE H[i] = W[i]
  <2>1. i = 1 \/ i = 2 \/ i = 3 \/ i = 4 \/ i = 5 \/ i = 6 \/ i = 7 \/ i = 8
    BY SMT, <1>1
  <2> QED BY Zenon, <1>2, <2>1
<1>6. ASSUME NEW i \in 1..Len(K) PROVE K[i] = W[Len(H) + i]
  <2>1. (i = 1 /\ Len(H) + i = 9) \/ (i = 2 /\ Len(H) + i = 10)
    BY SMT, <1>1
  <2> QED BY Zenon, <1>3, <2>1
<1>7. Len(W) = Len(H) + Len(K)
  BY SMT, <1>1
<1>8. H \o K = W
  BY Zenon, <1>1, <1>5, <1>6, <1>7, ConcatIs
<1> QED BY Zenon, <1>4, <1>8, PutsBoth DEF H, K, W

LEMMA Join10and2 ==
  ASSUME NEW h1, NEW h2, NEW h3, NEW h4, NEW h5, NEW h6, NEW h7, NEW h8, NEW h9, NEW h10, NEW h11,
         NEW h12, NEW s, Puts(s, <<h1, h2, h3, h4, h5, h6, h7, h8, h9, h10>>), NEW u,
         Puts(u, <<h11, h12>>)
  PROVE  Puts(s \o u, <<h1, h2, h3, h4, h5, h6, h7, h8, h9, h10, h11, h12>>)
<1> DEFINE H == <<h1, h2, h3, h4, h5, h6, h7, h8, h9, h10>>
           K == <<h11, h12>>
           W == <<h1, h2, h3, h4, h5, h6, h7, h8, h9, h10, h11, h12>>
<1>0. H \in Seq(Int) /\ K \in Seq(Int)
  BY Zenon DEF Puts
<1>a. Len(H) = 10 /\ Len(K) = 2
  OBVIOUS
<1>b. H[1] = h1 /\ H[2] = h2 /\ H[3] = h3 /\ H[4] = h4 /\ H[5] = h5 /\ H[6] = h6 /\ H[7] = h7 /\
      H[8] = h8 /\ H[9] = h9 /\ H[10] = h10 /\ K[1] = h11 /\ K[2] = h12
  OBVIOUS
<1>c. /\ h1 \in Int /\ h2 \in Int /\ h3 \in Int /\ h4 \in Int /\ h5 \in Int /\ h6 \in Int
      /\ h7 \in Int /\ h8 \in Int /\ h9 \in Int /\ h10 \in Int /\ h11 \in Int /\ h12 \in Int
  <2>1. (\A i \in 1..10 : H[i] \in Int) /\ (\A i \in 1..2 : K[i] \in Int)
    <3> HIDE DEF H, K
    <3> QED BY Zenon, <1>0, <1>a, ElementOfSeq
  <2> HIDE DEF H, K
  <2> QED BY SMT, <1>b, <2>1
<1>1. H \in Seq(Int) /\ Len(H) = 10 /\ K \in Seq(Int) /\ Len(K) = 2 /\ W \in Seq(Int) /\ Len(W) = 12
  BY <1>c
<1>2. H[1] = W[1] /\ H[2] = W[2] /\ H[3] = W[3] /\ H[4] = W[4] /\ H[5] = W[5] /\ H[6] = W[6] /\
      H[7] = W[7] /\ H[8] = W[8] /\ H[9] = W[9] /\ H[10] = W[10]
  OBVIOUS
<1>3. K[1] = W[11] /\ K[2] = W[12]
  OBVIOUS
<1>4. Puts(s, H) /\ Puts(u, K)
  OBVIOUS
<1> HIDE DEF H, K, W
<1>5. ASSUME NEW i \in 1..Len(H) PROVE H[i] = W[i]
  <2>1. i = 1 \/ i = 2 \/ i = 3 \/ i = 4 \/ i = 5 \/ i = 6 \/ i = 7 \/ i = 8 \/ i = 9 \/ i = 10
    BY SMT, <1>1
  <2> QED BY Zenon, <1>2, <2>1
<1>6. ASSUME NEW i \in 1..Len(K) PROVE K[i] = W[Len(H) + i]
  <2>1. (i = 1 /\ Len(H) + i = 11) \/ (i = 2 /\ Len(H) + i = 12)
    BY SMT, <1>1
  <2> QED BY Zenon, <1>3, <2>1
<1>7. Len(W) = Len(H) + Len(K)
  BY SMT, <1>1
<1>8. H \o K = W
  BY Zenon, <1>1, <1>5, <1>6, <1>7, ConcatIs
<1> QED BY Zenon, <1>4, <1>8, PutsBoth DEF H, K, W

Sits3(items, mem, at, h1, h2, h3) ==
  /\ SizeOf(items) = 6 /\ Outside(mem, at, 6)
  /\ at \in DOMAIN mem /\ mem[at] = h1
  /\ at + 2 \in DOMAIN mem /\ mem[at + 2] = h2
  /\ at + 4 \in DOMAIN mem /\ mem[at + 4] = h3

LEMMA In3 ==
  ASSUME NEW at \in Int, NEW items, NEW h1, NEW h2, NEW h3, Puts(items, <<h1, h2, h3>>), NEW mem,
         mem = At(at, items)
  PROVE  Sits3(items, mem, at, h1, h2, h3)
<1>1. CodeAt(mem, at, <<h1, h2, h3>>) /\ SizeOf(items) = 2 * Len(<<h1, h2, h3>>)
  BY Zenon, PutsAt
<1>2. SizeOf(items) = 6
  BY SMT, <1>1
<1>3. /\ \A b \in Int : b < at \/ b >= at + 6 => b \notin DOMAIN mem
      /\ at \in DOMAIN mem /\ mem[at] = h1
      /\ at + 2 \in DOMAIN mem /\ mem[at + 2] = h2
      /\ at + 4 \in DOMAIN mem /\ mem[at + 4] = h3
  BY SMT, <1>1, Code3
<1> QED BY Zenon, <1>2, <1>3 DEF Outside, Sits3

Sits4(items, mem, at, h1, h2, h3, h4) ==
  /\ SizeOf(items) = 8 /\ Outside(mem, at, 8)
  /\ at \in DOMAIN mem /\ mem[at] = h1
  /\ at + 2 \in DOMAIN mem /\ mem[at + 2] = h2
  /\ at + 4 \in DOMAIN mem /\ mem[at + 4] = h3
  /\ at + 6 \in DOMAIN mem /\ mem[at + 6] = h4

LEMMA In4 ==
  ASSUME NEW at \in Int, NEW items, NEW h1, NEW h2, NEW h3, NEW h4,
         Puts(items, <<h1, h2, h3, h4>>), NEW mem, mem = At(at, items)
  PROVE  Sits4(items, mem, at, h1, h2, h3, h4)
<1>1. CodeAt(mem, at, <<h1, h2, h3, h4>>) /\ SizeOf(items) = 2 * Len(<<h1, h2, h3, h4>>)
  BY Zenon, PutsAt
<1>2. SizeOf(items) = 8
  BY SMT, <1>1
<1>3. /\ \A b \in Int : b < at \/ b >= at + 8 => b \notin DOMAIN mem
      /\ at \in DOMAIN mem /\ mem[at] = h1
      /\ at + 2 \in DOMAIN mem /\ mem[at + 2] = h2
      /\ at + 4 \in DOMAIN mem /\ mem[at + 4] = h3
      /\ at + 6 \in DOMAIN mem /\ mem[at + 6] = h4
  BY SMT, <1>1, Code4
<1> QED BY Zenon, <1>2, <1>3 DEF Outside, Sits4

Sits5(items, mem, at, h1, h2, h3, h4, h5) ==
  /\ SizeOf(items) = 10 /\ Outside(mem, at, 10)
  /\ at \in DOMAIN mem /\ mem[at] = h1
  /\ at + 2 \in DOMAIN mem /\ mem[at + 2] = h2
  /\ at + 4 \in DOMAIN mem /\ mem[at + 4] = h3
  /\ at + 6 \in DOMAIN mem /\ mem[at + 6] = h4
  /\ at + 8 \in DOMAIN mem /\ mem[at + 8] = h5

LEMMA In5 ==
  ASSUME NEW at \in Int, NEW items, NEW h1, NEW h2, NEW h3, NEW h4, NEW h5,
         Puts(items, <<h1, h2, h3, h4, h5>>), NEW mem, mem = At(at, items)
  PROVE  Sits5(items, mem, at, h1, h2, h3, h4, h5)
<1>1. CodeAt(mem, at, <<h1, h2, h3, h4, h5>>) /\ SizeOf(items) = 2 * Len(<<h1, h2, h3, h4, h5>>)
  BY Zenon, PutsAt
<1>2. SizeOf(items) = 10
  BY SMT, <1>1
<1>3. /\ \A b \in Int : b < at \/ b >= at + 10 => b \notin DOMAIN mem
      /\ at \in DOMAIN mem /\ mem[at] = h1
      /\ at + 2 \in DOMAIN mem /\ mem[at + 2] = h2
      /\ at + 4 \in DOMAIN mem /\ mem[at + 4] = h3
      /\ at + 6 \in DOMAIN mem /\ mem[at + 6] = h4
      /\ at + 8 \in DOMAIN mem /\ mem[at + 8] = h5
  BY SMT, <1>1, Code5
<1> QED BY Zenon, <1>2, <1>3 DEF Outside, Sits5

Sits6(items, mem, at, h1, h2, h3, h4, h5, h6) ==
  /\ SizeOf(items) = 12 /\ Outside(mem, at, 12)
  /\ at \in DOMAIN mem /\ mem[at] = h1
  /\ at + 2 \in DOMAIN mem /\ mem[at + 2] = h2
  /\ at + 4 \in DOMAIN mem /\ mem[at + 4] = h3
  /\ at + 6 \in DOMAIN mem /\ mem[at + 6] = h4
  /\ at + 8 \in DOMAIN mem /\ mem[at + 8] = h5
  /\ at + 10 \in DOMAIN mem /\ mem[at + 10] = h6

LEMMA In6 ==
  ASSUME NEW at \in Int, NEW items, NEW h1, NEW h2, NEW h3, NEW h4, NEW h5, NEW h6,
         Puts(items, <<h1, h2, h3, h4, h5, h6>>), NEW mem, mem = At(at, items)
  PROVE  Sits6(items, mem, at, h1, h2, h3, h4, h5, h6)
<1>1. /\ CodeAt(mem, at, <<h1, h2, h3, h4, h5, h6>>)
      /\ SizeOf(items) = 2 * Len(<<h1, h2, h3, h4, h5, h6>>)
  BY Zenon, PutsAt
<1>2. SizeOf(items) = 12
  BY SMT, <1>1
<1>3. /\ \A b \in Int : b < at \/ b >= at + 12 => b \notin DOMAIN mem
      /\ at \in DOMAIN mem /\ mem[at] = h1
      /\ at + 2 \in DOMAIN mem /\ mem[at + 2] = h2
      /\ at + 4 \in DOMAIN mem /\ mem[at + 4] = h3
      /\ at + 6 \in DOMAIN mem /\ mem[at + 6] = h4
      /\ at + 8 \in DOMAIN mem /\ mem[at + 8] = h5
      /\ at + 10 \in DOMAIN mem /\ mem[at + 10] = h6
  BY SMT, <1>1, Code6
<1> QED BY Zenon, <1>2, <1>3 DEF Outside, Sits6

Sits12(items, mem, at, h1, h2, h3, h4, h5, h6, h7, h8, h9, h10, h11, h12) ==
  /\ SizeOf(items) = 24 /\ Outside(mem, at, 24)
  /\ at \in DOMAIN mem /\ mem[at] = h1
  /\ at + 2 \in DOMAIN mem /\ mem[at + 2] = h2
  /\ at + 4 \in DOMAIN mem /\ mem[at + 4] = h3
  /\ at + 6 \in DOMAIN mem /\ mem[at + 6] = h4
  /\ at + 8 \in DOMAIN mem /\ mem[at + 8] = h5
  /\ at + 10 \in DOMAIN mem /\ mem[at + 10] = h6
  /\ at + 12 \in DOMAIN mem /\ mem[at + 12] = h7
  /\ at + 14 \in DOMAIN mem /\ mem[at + 14] = h8
  /\ at + 16 \in DOMAIN mem /\ mem[at + 16] = h9
  /\ at + 18 \in DOMAIN mem /\ mem[at + 18] = h10
  /\ at + 20 \in DOMAIN mem /\ mem[at + 20] = h11
  /\ at + 22 \in DOMAIN mem /\ mem[at + 22] = h12

LEMMA In12 ==
  ASSUME NEW at \in Int, NEW items, NEW h1, NEW h2, NEW h3, NEW h4, NEW h5, NEW h6, NEW h7,
         NEW h8, NEW h9, NEW h10, NEW h11, NEW h12,
         Puts(items, <<h1, h2, h3, h4, h5, h6, h7, h8, h9, h10, h11, h12>>), NEW mem,
         mem = At(at, items)
  PROVE  Sits12(items, mem, at, h1, h2, h3, h4, h5, h6, h7, h8, h9, h10, h11, h12)
<1>1. /\ CodeAt(mem, at, <<h1, h2, h3, h4, h5, h6, h7, h8, h9, h10, h11, h12>>)
      /\ SizeOf(items) = 2 * Len(<<h1, h2, h3, h4, h5, h6, h7, h8, h9, h10, h11, h12>>)
  BY Zenon, PutsAt
<1>2. SizeOf(items) = 24
  BY SMT, <1>1
<1>3. /\ \A b \in Int : b < at \/ b >= at + 24 => b \notin DOMAIN mem
      /\ at \in DOMAIN mem /\ mem[at] = h1
      /\ at + 2 \in DOMAIN mem /\ mem[at + 2] = h2
      /\ at + 4 \in DOMAIN mem /\ mem[at + 4] = h3
      /\ at + 6 \in DOMAIN mem /\ mem[at + 6] = h4
      /\ at + 8 \in DOMAIN mem /\ mem[at + 8] = h5
      /\ at + 10 \in DOMAIN mem /\ mem[at + 10] = h6
      /\ at + 12 \in DOMAIN mem /\ mem[at + 12] = h7
      /\ at + 14 \in DOMAIN mem /\ mem[at + 14] = h8
      /\ at + 16 \in DOMAIN mem /\ mem[at + 16] = h9
      /\ at + 18 \in DOMAIN mem /\ mem[at + 18] = h10
      /\ at + 20 \in DOMAIN mem /\ mem[at + 20] = h11
      /\ at + 22 \in DOMAIN mem /\ mem[at + 22] = h12
  BY SMT, <1>1, Code12
<1> QED BY Zenon, <1>2, <1>3 DEF Outside, Sits12

\* v fits a word; the word is in mem at a
Wordly(v) == v \in Int /\ v >= -2147483648 /\ v < 2147483648
LowHalf(v) == v % 65536
HighHalf(v) == (v \div 65536) % 65536

LEMMA HalvesAreInt ==
  ASSUME NEW v, Wordly(v)
  PROVE  LowHalf(v) \in Int /\ HighHalf(v) \in Int
  BY SMT DEF Wordly, LowHalf, HighHalf

LEMMA PutsWord ==
  ASSUME NEW v, Wordly(v)
  PROVE  Puts(<<Word(v)>>, <<LowHalf(v), HighHalf(v)>>)
<1>1. LowHalf(v) \in Int /\ HighHalf(v) \in Int
  BY Zenon, HalvesAreInt
<1>2. Word(v) = <<LowHalf(v), HighHalf(v)>>
  BY SMT DEF Word, LowHalf, HighHalf
<1> QED BY Zenon, <1>1, <1>2, PutsTwo

WordAt(mem, a, v) == a \in DOMAIN mem /\ mem[a] = LowHalf(v) /\ mem[a + 2] = HighHalf(v)

LEMMA LoadWord ==
  ASSUME NEW x, NEW mem, NEW a, NEW v, Wordly(v), WordAt(mem, a, v)
  PROVE  Load(x, mem, a) = v
<1>1. v \in Int /\ v >= -2147483648 /\ v < 2147483648
  BY DEF Wordly
<1>2. a \in DOMAIN mem /\ mem[a] = v % 65536 /\ mem[a + 2] = (v \div 65536) % 65536
  BY SMT DEF WordAt, LowHalf, HighHalf
<1> QED BY SMT, <1>1, <1>2, LoadCode

\* Where a literal load at p finds its word
Literal(p, q, o, a) == o = q * 4 /\ a = ALIGN_FLOOR(p + 4, 4) + o
WideLiteral(p, q, a) == a = ALIGN_FLOOR(p + 4, 4) + q

LEMMA RunNop ==
  ASSUME NEW x, NEW mem, NEW p \in Int, NEW r, IsAt(x, p, 1, r, << >>),
                         mem[p] = EncNop
  PROVE  IsAt(Step(x, mem), p + 2, 1, r, << >>)
<1>1. x.thumb /\ x.pc = p
  BY Zenon DEF IsAt
<1>2. Step(x, mem) = Skip(x, 2)
  BY Zenon, <1>1, StepNop
<1>3. IsAt(Skip(x, 2), p + 2, 1, r, << >>)
  BY Zenon, AtSkip
<1> QED BY Zenon, <1>2, <1>3

LEMMA RunBranch ==
  ASSUME NEW x, NEW mem, NEW p \in Int, NEW r, IsAt(x, p, 1, r, << >>),
                            NEW w \in Int, Branch(w), mem[p] = EncBranch(w)
  PROVE  IsAt(Step(x, mem), p + 4 + 2 * w, 1, r, << >>)
<1>1. x.thumb /\ x.pc = p
  BY Zenon DEF IsAt
<1>2. w >= -1024 /\ w < 1024 /\ mem[x.pc] = EncBranch(w)
  BY <1>1 DEF Branch
<1>3. Step(x, mem) = Goto(x, Here(x) + 2 * w)
  BY SMT, <1>1, <1>2, StepBranch
<1>4. Here(x) = p + 4
  BY SMT, AtHere
<1>5. IsAt(Goto(x, p + 4 + 2 * w), p + 4 + 2 * w, 1, r, << >>)
  BY Zenon, AtGoto
<1> QED BY Zenon, <1>3, <1>4, <1>5

LEMMA RunBx ==
  ASSUME NEW x, NEW mem, NEW p \in Int, NEW r, IsAt(x, p, 1, r, << >>),
                        NEW i \in 0..14, r[i] \in Int, mem[p] = EncBx(i)
  PROVE  IsAt(Step(x, mem), r[i] - (r[i] % 2), r[i] % 2, r, << >>)
<1>1. x.thumb /\ x.pc = p
  BY Zenon DEF IsAt
<1>2. i \in 0..15
  BY SMT
<1>3. mem[x.pc] = EncBx(i)
  BY <1>1
<1>4. Step(x, mem) = Interwork(x, Reg(x, i))
  BY Zenon, <1>1, <1>2, <1>3, StepBx
<1>5. Reg(x, i) = r[i]
  BY Zenon, AtReg
<1>6. IsAt(Interwork(x, r[i]), r[i] - (r[i] % 2), r[i] % 2, r, << >>)
  BY Zenon, AtInterwork
<1> QED BY Zenon, <1>4, <1>5, <1>6

LEMMA RunLiteral ==
  ASSUME NEW x, NEW mem, NEW p \in Int, NEW r, IsAt(x, p, 1, r, << >>),
                             NEW i \in 0..7, NEW q \in Nat, Eight(q), mem[p] = EncLiteral(i, q),
                             NEW o \in Int, NEW a, Literal(p, q, o, a), NEW v, Wordly(v),
                             WordAt(mem, a, v)
  PROVE  IsAt(Step(x, mem), p + 2, 1, [r EXCEPT ![i] = v], << >>)
<1>1. x.thumb /\ x.pc = p
  BY Zenon DEF IsAt
<1>2. mem[x.pc] = EncLiteral(i, q) /\ o = q * 4
  BY SMT, <1>1 DEF Literal
<1>3. Step(x, mem) = Transfer(x, mem, 1, i, 15, o, 1, 0, 2)
  BY SMT, <1>1, <1>2, StepLiteral
<1>4. i \in 0..14
  BY SMT
<1>5. 1 \in {0, 1}
  BY SMT
<1>6. IsAt(Transfer(x, mem, 1, i, 15, o, 1, 0, 2), p + 2, 1,
           [r EXCEPT ![i] = Load(x, mem, Aligned(p + 8 - 4 * 1) + o)], << >>)
  BY Zenon, <1>4, <1>5, AtLiteral
<1>7. Load(x, mem, Aligned(p + 8 - 4 * 1) + o) = v
  <2>1. Aligned(p + 8 - 4 * 1) + o = a
    BY SMT DEF Literal, Aligned, ALIGN_FLOOR
  <2> QED BY Zenon, <2>1, LoadWord
<1> QED BY Zenon, <1>3, <1>6, <1>7

LEMMA RunLiteral32 ==
  ASSUME NEW x, NEW mem, NEW p \in Int, NEW r, IsAt(x, p, 1, r, << >>),
                               NEW i \in 0..14, NEW q \in Nat, Twelve(q), p + 2 \in DOMAIN mem,
                               mem[p] = EncLiteralHigh(1), mem[p + 2] = EncLow(i, q), NEW a,
                               WideLiteral(p, q, a), NEW v, Wordly(v), WordAt(mem, a, v)
  PROVE  IsAt(Step(x, mem), p + 4, 1, [r EXCEPT ![i] = v], << >>)
<1>1. x.thumb /\ x.pc = p
  BY Zenon DEF IsAt
<1>a. PICK o \in Int : o = q
  OBVIOUS
<1>2. Literal32In(mem, x.pc, 1, i, q)
  BY SMT, <1>1 DEF Literal32In
<1>3. Step(x, mem) = Transfer(x, mem, 1, i, 15, o, 1, 0, 4)
  <2>1. Step(x, mem) = Transfer(x, mem, 1, i, 15, (IF 1 = 1 THEN 1 ELSE -1) * q, 1, 0, 4)
    BY Zenon, <1>1, <1>2, StepLiteral32
  <2> QED BY SMT, <1>a, <2>1
<1>4. i \in 0..14
  OBVIOUS
<1>5. 1 \in {0, 1}
  BY SMT
<1>6. IsAt(Transfer(x, mem, 1, i, 15, o, 1, 0, 4), p + 4, 1,
           [r EXCEPT ![i] = Load(x, mem, Aligned(p + 8 - 4 * 1) + o)], << >>)
  BY Zenon, <1>4, <1>5, AtLiteral
<1>7. Load(x, mem, Aligned(p + 8 - 4 * 1) + o) = v
  <2>1. Aligned(p + 8 - 4 * 1) + o = a
    BY SMT, <1>a DEF WideLiteral, Aligned, ALIGN_FLOOR
  <2> QED BY Zenon, <2>1, LoadWord
<1> QED BY Zenon, <1>3, <1>6, <1>7

LEMMA RunLiteralPC ==
  ASSUME NEW x, NEW mem, NEW p \in Int, NEW r, IsAt(x, p, 1, r, << >>),
                               NEW q \in Nat, Twelve(q), p + 2 \in DOMAIN mem,
                               mem[p] = EncLiteralHigh(1), mem[p + 2] = EncLow(15, q), NEW a,
                               WideLiteral(p, q, a), NEW v, Wordly(v), WordAt(mem, a, v)
  PROVE  Step(x, mem) = Interwork(x, v)
<1>1. x.thumb /\ x.pc = p
  BY Zenon DEF IsAt
<1>a. PICK o \in Int : o = q
  OBVIOUS
<1>2. Literal32In(mem, x.pc, 1, 15, q)
  BY SMT, <1>1 DEF Literal32In
<1>3. Step(x, mem) = Transfer(x, mem, 1, 15, 15, o, 1, 0, 4)
  <2>1. Step(x, mem) = Transfer(x, mem, 1, 15, 15, (IF 1 = 1 THEN 1 ELSE -1) * q, 1, 0, 4)
    BY Zenon, <1>1, <1>2, StepLiteral32
  <2> QED BY SMT, <1>a, <2>1
<1>5. 1 \in {0, 1}
  BY SMT
<1>6. Transfer(x, mem, 1, 15, 15, o, 1, 0, 4)
        = Interwork(x, Load(x, mem, Aligned(p + 8 - 4 * 1) + o))
  <2>1. Here(x) = p + 8 - 4 * 1
    BY Zenon, <1>5, AtHere
  <2> QED BY SMT, <2>1 DEF Transfer, Set
<1>7. Load(x, mem, Aligned(p + 8 - 4 * 1) + o) = v
  <2>1. Aligned(p + 8 - 4 * 1) + o = a
    BY SMT, <1>a DEF WideLiteral, Aligned, ALIGN_FLOOR
  <2> QED BY Zenon, <2>1, LoadWord
<1> QED BY Zenon, <1>3, <1>6, <1>7

LEMMA DoesTwo ==
  ASSUME NEW x, NEW at, NEW items, NEW mem, mem = At(at, items), x.pc = at, at \in DOMAIN mem,
         NEW g,
         NEW y, y = Step(x, mem), NEW q, NEW t, NEW r, NEW ram, IsAt(y, q, t, r, ram),
         q \in DOMAIN mem,
         NEW p, NEW u, NEW s, NEW new, IsAt(Step(y, mem), p, u, s, new), IsAt(g, p, u, s, new),
         p \notin DOMAIN mem
  PROVE  Does(x, at, items, g)
<1>1. Reach0(Step(y, mem), mem, g)
  BY Zenon, Reached
<1>2. y.pc \in DOMAIN mem
  BY DEF IsAt
<1> QED BY Zenon, <1>1, <1>2, ReachTwo DEF Does

LEMMA DoesThree ==
  ASSUME NEW x, NEW at, NEW items, NEW mem, mem = At(at, items), x.pc = at, at \in DOMAIN mem,
         NEW g,
         NEW y, y = Step(x, mem), y.pc \in DOMAIN mem,
         NEW z, z = Step(y, mem), z.pc \in DOMAIN mem,
         NEW p, NEW u, NEW s, NEW new, IsAt(Step(z, mem), p, u, s, new), IsAt(g, p, u, s, new),
         p \notin DOMAIN mem
  PROVE  Does(x, at, items, g)
<1>1. Reach0(Step(z, mem), mem, g)
  BY Zenon, Reached
<1> QED BY Zenon, <1>1, ReachThree DEF Does

LEMMA PutsNop == Puts(thumb_put_nop, <<EncNop>>)
  BY PutsOne DEF thumb_put_nop, thumb_put_instruction, EncNop

LEMMA EncIsInt ==
  ASSUME NEW a \in 0..15
  PROVE  /\ EncNop \in Int /\ EncBranch(1) \in Int /\ EncLiteralHigh(1) \in Int
         /\ EncBx(a) \in Int /\ EncLiteral(a, 0) \in Int /\ EncLiteral(a, 1) \in Int
         /\ EncLow(a, 0) \in Int /\ EncLow(a, 4) \in Int
  BY SMT DEF EncNop, EncBranch, EncLiteralHigh, EncBx, EncLiteral, EncLow, Sub

LEMMA PutsBranch == Puts(thumb_put_b_imm(2), <<EncBranch(1)>>)
<1>1. EncBranch(1) \in Int
  BY SMT DEF EncBranch, Sub
<1>2. thumb_put_b_imm(2) = <<<<EncBranch(1)>>>>
  BY SMT DEF thumb_put_b_imm, thumb_put_instruction, EncBranch
<1> QED BY Zenon, <1>1, <1>2, PutsOne

LEMMA PutsLiteral ==
  ASSUME NEW a \in 0..7
  PROVE  /\ Puts(thumb_put_ldr_reg_imm(a, 0), <<EncLiteral(a, 0)>>)
         /\ Puts(thumb_put_ldr_reg_imm(a, 4), <<EncLiteral(a, 1)>>)
<1>1. EncLiteral(a, 0) \in Int /\ EncLiteral(a, 1) \in Int
  BY SMT DEF EncLiteral
<1>2. Sub(0, 2, 8) = 0 /\ Sub(4, 2, 8) = 1
  BY SMT DEF Sub
<1>3. thumb_put_ldr_reg_imm(a, 0) = <<<<EncLiteral(a, 0)>>>>
  BY SMT, <1>2 DEF thumb_put_ldr_reg_imm, thumb_put_instruction, EncLiteral
<1>4. thumb_put_ldr_reg_imm(a, 4) = <<<<EncLiteral(a, 1)>>>>
  BY SMT, <1>2 DEF thumb_put_ldr_reg_imm, thumb_put_instruction, EncLiteral
<1> QED BY Zenon, <1>1, <1>3, <1>4, PutsOne

LEMMA PutsLiteral32 ==
  ASSUME NEW a \in 8..15, NEW q \in {0, 4}
  PROVE  Puts(thumb_put_ldr_reg_imm(a, q), <<EncLiteralHigh(1), EncLow(a, q)>>)
<1> DEFINE h == EncLiteralHigh(1)
           k == EncLow(a, q)
<1>1. h \in Int /\ k \in Int
  BY SMT DEF EncLiteralHigh, EncLow
<1>2. thumb_put_ldr_reg_imm(a, q) = <<<<h>>>> \o <<<<k>>>>
  <2>1. ~(a <= 7) /\ q < 4096 /\ \hf85f + Bit(q >= 0) * 128 = h /\ a * 4096 + ABS(q) = k
    BY SMT DEF Bit, ABS, EncLiteralHigh, EncLow
  <2>2. thumb_put_ldr_reg_imm(a, q)
          = thumb_put_instruction(\hf85f + Bit(q >= 0) * 128)
              \o thumb_put_instruction(a * 4096 + ABS(q))
    BY SMT, <2>1 DEF thumb_put_ldr_reg_imm
  <2> QED BY SMT, <2>1, <2>2 DEF thumb_put_instruction
<1> HIDE DEF h, k
<1> QED BY Zenon, <1>1, <1>2, PutsPair DEF h, k

LEMMA PutsEmpty ==
  ASSUME NEW s, NEW H, Puts(s, H)
  PROVE  s \o << >> = s /\ << >> \o s = s
  BY Zenon, ConcatEmptySeq DEF Puts

LEMMA ThumbBxUnaligned ==
  ASSUME NEW x, NEW at \in Int, NEW r, IsAt(x, at, 1, r, << >>), NEW a \in 0..14, r[a] \in Int,
         Far(r[a] - (r[a] % 2), at), (at + 4) % 4 = 2, NEW items,
         items = thumb_put_bx_reg(at + 4, a)
  PROVE  SizeOf(items) = 6 /\ Does(x, at, items, Interwork(x, r[a]))
<1>1. items = thumb_put_nop \o <<<<EncBx(a)>>>> \o thumb_put_nop
  <2>1. (at + 4) % 4 # 0
    BY SMT
  <2> QED BY SMT, <2>1 DEF thumb_put_bx_reg, thumb_put_instruction, EncBx
<1>2. Puts(items, <<EncNop, EncBx(a), EncNop>>)
  <2>1. EncNop \in Int /\ EncBx(a) \in Int
    <3>1. a \in 0..15
      BY SMT
    <3> QED BY Zenon, <3>1, EncIsInt
  <2>2. Puts(<<<<EncBx(a)>>>>, <<EncBx(a)>>)
    BY Zenon, <2>1, PutsOne
  <2>3. Puts(thumb_put_nop \o <<<<EncBx(a)>>>>, <<EncNop, EncBx(a)>>)
    BY Zenon, <2>2, PutsNop, Join1and1
  <2> QED BY Zenon, <1>1, <2>3, PutsNop, Join2and1
<1>m. PICK mem : mem = At(at, items)
  OBVIOUS
<1>3. /\ SizeOf(items) = 6 /\ Outside(mem, at, 6)
      /\ at \in DOMAIN mem /\ mem[at] = EncNop
      /\ at + 2 \in DOMAIN mem /\ mem[at + 2] = EncBx(a)
      /\ at + 4 \in DOMAIN mem /\ mem[at + 4] = EncNop
  <2>1. Sits3(items, mem, at, EncNop, EncBx(a), EncNop)
    BY Zenon, <1>2, <1>m, In3
  <2> QED BY Zenon, <2>1 DEF Sits3
<1>y. PICK y : y = Step(x, mem)
  OBVIOUS
<1>4. IsAt(y, at + 2, 1, r, << >>)
  <2>1. IsAt(Step(x, mem), at + 2, 1, r, << >>)
    BY Zenon, <1>3, RunNop
  <2> QED BY Zenon, <1>y, <2>1
<1>5. IsAt(Step(y, mem), r[a] - (r[a] % 2), r[a] % 2, r, << >>)
  <2>1. at + 2 \in Int
    BY SMT
  <2> QED BY Zenon, <1>3, <1>4, <2>1, RunBx
<1> DEFINE p == r[a] - (r[a] % 2)
           s == r
<1>g. IsAt(Interwork(x, r[a]), p, r[a] % 2, s, << >>)
  BY Zenon, AtInterwork
<1>p. p \notin DOMAIN mem
  BY SMT, <1>3 DEF Outside, Far
<1>x. x.pc = at
  BY DEF IsAt
<1> HIDE DEF p, s
<1>5a. IsAt(Step(y, mem), p, r[a] % 2, s, << >>)
  BY Zenon, <1>5 DEF p, s
<1> QED BY Zenon, <1>m, <1>3, <1>y, <1>4, <1>5a, <1>g, <1>p, <1>x, DoesTwo

LEMMA ThumbLdrBLowAligned ==
  ASSUME NEW x, NEW at \in Int, NEW r, IsAt(x, at, 1, r, << >>), NEW a \in 0..7, NEW v, Wordly(v),
         (at + 4) % 4 = 0, NEW items, items = thumb_put_ldr_b_reg_address(at + 4, a, v)
  PROVE  SizeOf(items) = 8 /\ Does(x, at, items, Set(x, a, v, 8))
<1>1. items = thumb_put_ldr_reg_imm(a, 0) \o thumb_put_b_imm(2) \o <<Word(v)>>
  <2>1. a <= 7
    BY SMT
  <2>4. (at + 4) % 4 = 0
    BY SMT
  <2>2. Puts(thumb_put_ldr_reg_imm(a, 0), <<EncLiteral(a, 0)>>)
    BY Zenon, PutsLiteral
  <2>3. thumb_put_ldr_reg_imm(a, 0) \o << >> = thumb_put_ldr_reg_imm(a, 0)
    BY Zenon, <2>2, PutsEmpty
  <2> QED BY SMT, <2>1, <2>3, <2>4 DEF thumb_put_ldr_b_reg_address, thumb_put_bytes
<1>2. Puts(items, <<EncLiteral(a, 0), EncBranch(1), LowHalf(v), HighHalf(v)>>)
  <2>2. LowHalf(v) \in Int /\ HighHalf(v) \in Int /\ Puts(<<Word(v)>>, <<LowHalf(v), HighHalf(v)>>)
    BY Zenon, HalvesAreInt, PutsWord
  <2>3. Puts(thumb_put_ldr_reg_imm(a, 0), <<EncLiteral(a, 0)>>)
    BY Zenon, PutsLiteral
  <2>5. Puts(thumb_put_ldr_reg_imm(a, 0) \o thumb_put_b_imm(2), <<EncLiteral(a, 0), EncBranch(1)>>)
    BY Zenon, <2>3, PutsBranch, Join1and1
  <2> QED BY Zenon, <1>1, <2>2, <2>5, Join2and2
<1>m. PICK mem : mem = At(at, items)
  OBVIOUS
<1>3. /\ SizeOf(items) = 8 /\ Outside(mem, at, 8)
      /\ at \in DOMAIN mem /\ mem[at] = EncLiteral(a, 0)
      /\ at + 2 \in DOMAIN mem /\ mem[at + 2] = EncBranch(1)
      /\ at + 4 \in DOMAIN mem /\ mem[at + 4] = LowHalf(v)
      /\ at + 6 \in DOMAIN mem /\ mem[at + 6] = HighHalf(v)
  <2>1. Sits4(items, mem, at, EncLiteral(a, 0), EncBranch(1), LowHalf(v), HighHalf(v))
    BY Zenon, <1>2, <1>m, In4
  <2> QED BY Zenon, <2>1 DEF Sits4
<1>w. PICK word : word = at + 4
  OBVIOUS
<1>a. WordAt(mem, word, v)
  <2>1. at + 4 + 2 = at + 6
    BY SMT
  <2> QED BY SMT, <1>3, <1>w, <2>1 DEF WordAt
<1>b. PICK o \in Int, q \in Nat : q = 0 /\ o = 0
  BY SMT
<1>c. Eight(q) /\ Literal(at, q, o, word)
  BY SMT, <1>b, <1>w DEF Eight, Literal, ALIGN_FLOOR
<1>d. mem[at] = EncLiteral(a, q)
  BY Zenon, <1>3, <1>b
<1>e. IsAt(Step(x, mem), at + 2, 1, [r EXCEPT ![a] = v], << >>)
  BY Zenon, <1>a, <1>c, <1>d, RunLiteral
<1>y. PICK y : y = Step(x, mem)
  OBVIOUS
<1>f. IsAt(y, at + 2, 1, [r EXCEPT ![a] = v], << >>)
  BY Zenon, <1>e, <1>y
<1>i. IsAt(y, at + 2, 1, [r EXCEPT ![a] = v], << >>)
  BY SMT, <1>f
<1>j. PICK w \in Int : w = 1
  BY SMT
<1>k. at + 2 \in Int /\ Branch(w) /\ at + 2 + 4 + 2 * w = at + 8
  BY SMT, <1>j DEF Branch
<1>l. mem[at + 2] = EncBranch(w)
  BY Zenon, <1>3, <1>j
<1>n. IsAt(Step(y, mem), at + 2 + 4 + 2 * w, 1, [r EXCEPT ![a] = v], << >>)
  BY Zenon, <1>i, <1>k, <1>l, RunBranch
<1>q. IsAt(Step(y, mem), at + 8, 1, [r EXCEPT ![a] = v], << >>)
  BY Zenon, <1>k, <1>n
<1> DEFINE p == at + 8
           s == [r EXCEPT ![a] = v]
<1>g. IsAt(Set(x, a, v, 8), p, 1, s, << >>)
  <2>1. a \in 0..14
    BY SMT
  <2> QED BY Zenon, <2>1, AtSet
<1>p. p \notin DOMAIN mem
  BY SMT, <1>3 DEF Outside
<1>x. x.pc = at
  BY DEF IsAt
<1> HIDE DEF p, s
<1>r. IsAt(Step(y, mem), p, 1, s, << >>)
  BY Zenon, <1>q DEF p, s
<1> QED BY Zenon, <1>m, <1>3, <1>y, <1>f, <1>r, <1>g, <1>p, <1>x, DoesTwo

LEMMA ThumbLdrBLowUnaligned ==
  ASSUME NEW x, NEW at \in Int, NEW r, IsAt(x, at, 1, r, << >>), NEW a \in 0..7, NEW v, Wordly(v),
         (at + 4) % 4 = 2, NEW items, items = thumb_put_ldr_b_reg_address(at + 4, a, v)
  PROVE  SizeOf(items) = 10 /\ Does(x, at, items, Set(x, a, v, 10))
<1>1. items = thumb_put_ldr_reg_imm(a, 4) \o thumb_put_nop \o thumb_put_b_imm(2) \o <<Word(v)>>
  <2>1. a <= 7
    BY SMT
  <2>4. (at + 4) % 4 # 0
    BY SMT
  <2>2. Puts(thumb_put_ldr_reg_imm(a, 4), <<EncLiteral(a, 1)>>)
    BY Zenon, PutsLiteral
  <2>3. thumb_put_ldr_reg_imm(a, 4) \o << >> = thumb_put_ldr_reg_imm(a, 4)
    BY Zenon, <2>2, PutsEmpty
  <2> QED BY SMT, <2>1, <2>3, <2>4 DEF thumb_put_ldr_b_reg_address, thumb_put_bytes
<1>2. Puts(items, <<EncLiteral(a, 1), EncNop, EncBranch(1), LowHalf(v), HighHalf(v)>>)
  <2>2. LowHalf(v) \in Int /\ HighHalf(v) \in Int /\ Puts(<<Word(v)>>, <<LowHalf(v), HighHalf(v)>>)
    BY Zenon, HalvesAreInt, PutsWord
  <2>3. Puts(thumb_put_ldr_reg_imm(a, 4), <<EncLiteral(a, 1)>>)
    BY Zenon, PutsLiteral
  <2>4. Puts(thumb_put_ldr_reg_imm(a, 4) \o thumb_put_nop, <<EncLiteral(a, 1), EncNop>>)
    BY Zenon, <2>3, PutsNop, Join1and1
  <2>5. Puts(thumb_put_ldr_reg_imm(a, 4) \o thumb_put_nop \o thumb_put_b_imm(2),
             <<EncLiteral(a, 1), EncNop, EncBranch(1)>>)
    BY Zenon, <2>4, PutsBranch, Join2and1
  <2> QED BY Zenon, <1>1, <2>2, <2>5, Join3and2
<1>m. PICK mem : mem = At(at, items)
  OBVIOUS
<1>3. /\ SizeOf(items) = 10 /\ Outside(mem, at, 10)
      /\ at \in DOMAIN mem /\ mem[at] = EncLiteral(a, 1)
      /\ at + 2 \in DOMAIN mem /\ mem[at + 2] = EncNop
      /\ at + 4 \in DOMAIN mem /\ mem[at + 4] = EncBranch(1)
      /\ at + 6 \in DOMAIN mem /\ mem[at + 6] = LowHalf(v)
      /\ at + 8 \in DOMAIN mem /\ mem[at + 8] = HighHalf(v)
  <2>1. Sits5(items, mem, at, EncLiteral(a, 1), EncNop, EncBranch(1), LowHalf(v), HighHalf(v))
    BY Zenon, <1>2, <1>m, In5
  <2> QED BY Zenon, <2>1 DEF Sits5
<1>w. PICK word : word = at + 6
  OBVIOUS
<1>a. WordAt(mem, word, v)
  <2>1. at + 6 + 2 = at + 8
    BY SMT
  <2> QED BY SMT, <1>3, <1>w, <2>1 DEF WordAt
<1>b. PICK o \in Int, q \in Nat : q = 1 /\ o = 4
  BY SMT
<1>c. Eight(q) /\ Literal(at, q, o, word)
  BY SMT, <1>b, <1>w DEF Eight, Literal, ALIGN_FLOOR
<1>d. mem[at] = EncLiteral(a, q)
  BY Zenon, <1>3, <1>b
<1>e. IsAt(Step(x, mem), at + 2, 1, [r EXCEPT ![a] = v], << >>)
  BY Zenon, <1>a, <1>c, <1>d, RunLiteral
<1>y. PICK y : y = Step(x, mem)
  OBVIOUS
<1>f. IsAt(y, at + 2, 1, [r EXCEPT ![a] = v], << >>)
  BY Zenon, <1>e, <1>y
<1>z. PICK z : z = Step(y, mem)
  OBVIOUS
<1>h. IsAt(z, at + 2 + 2, 1, [r EXCEPT ![a] = v], << >>)
  <2>1. at + 2 \in Int
    BY SMT
  <2>2. IsAt(Step(y, mem), at + 2 + 2, 1, [r EXCEPT ![a] = v], << >>)
    BY Zenon, <1>3, <1>f, <2>1, RunNop
  <2> QED BY Zenon, <1>z, <2>2
<1>i. IsAt(z, at + 4, 1, [r EXCEPT ![a] = v], << >>)
  BY SMT, <1>h
<1>j. PICK w \in Int : w = 1
  BY SMT
<1>k. at + 4 \in Int /\ Branch(w) /\ at + 4 + 4 + 2 * w = at + 10
  BY SMT, <1>j DEF Branch
<1>l. mem[at + 4] = EncBranch(w)
  BY Zenon, <1>3, <1>j
<1>n. IsAt(Step(z, mem), at + 4 + 4 + 2 * w, 1, [r EXCEPT ![a] = v], << >>)
  BY Zenon, <1>i, <1>k, <1>l, RunBranch
<1>q. IsAt(Step(z, mem), at + 10, 1, [r EXCEPT ![a] = v], << >>)
  BY Zenon, <1>k, <1>n
<1> DEFINE p == at + 10
           s == [r EXCEPT ![a] = v]
<1>g. IsAt(Set(x, a, v, 10), p, 1, s, << >>)
  <2>1. a \in 0..14
    BY SMT
  <2> QED BY Zenon, <2>1, AtSet
<1>p. p \notin DOMAIN mem
  BY SMT, <1>3 DEF Outside
<1>x. x.pc = at
  BY DEF IsAt
<1> HIDE DEF p, s
<1>r. IsAt(Step(z, mem), p, 1, s, << >>)
  BY Zenon, <1>q DEF p, s
<1>s. y.pc \in DOMAIN mem /\ z.pc \in DOMAIN mem
  <2>1. y.pc = at + 2 /\ z.pc = at + 4
    BY Zenon, <1>f, <1>i DEF IsAt
  <2> QED BY Zenon, <1>3, <2>1
<1> QED BY Zenon, <1>m, <1>3, <1>y, <1>z, <1>s, <1>r, <1>g, <1>p, <1>x, DoesThree

LEMMA ThumbLdrBHighAligned ==
  ASSUME NEW x, NEW at \in Int, NEW r, IsAt(x, at, 1, r, << >>), NEW a \in 8..14, NEW v,
         Wordly(v), (at + 4) % 4 = 0, NEW items, items = thumb_put_ldr_b_reg_address(at + 4, a, v)
  PROVE  SizeOf(items) = 12 /\ Does(x, at, items, Set(x, a, v, 12))
<1>1. items = thumb_put_ldr_reg_imm(a, 4) \o thumb_put_nop \o thumb_put_b_imm(2) \o <<Word(v)>>
  <2>1. ~(a <= 7)
    BY SMT
  <2>4. (at + 4) % 4 = 0
    BY SMT
  <2>2. Puts(thumb_put_ldr_reg_imm(a, 4), <<EncLiteralHigh(1), EncLow(a, 4)>>)
    <3>1. a \in 8..15 /\ 4 \in {0, 4}
      BY SMT
    <3> QED BY Zenon, <3>1, PutsLiteral32
  <2>3. thumb_put_ldr_reg_imm(a, 4) \o << >> = thumb_put_ldr_reg_imm(a, 4)
    BY Zenon, <2>2, PutsEmpty
  <2> QED BY SMT, <2>1, <2>3, <2>4 DEF thumb_put_ldr_b_reg_address, thumb_put_bytes
<1>2. Puts(items,
           <<EncLiteralHigh(1), EncLow(a, 4), EncNop, EncBranch(1), LowHalf(v), HighHalf(v)>>)
  <2>2. LowHalf(v) \in Int /\ HighHalf(v) \in Int /\ Puts(<<Word(v)>>, <<LowHalf(v), HighHalf(v)>>)
    BY Zenon, HalvesAreInt, PutsWord
  <2>3. Puts(thumb_put_ldr_reg_imm(a, 4), <<EncLiteralHigh(1), EncLow(a, 4)>>)
    <3>1. a \in 8..15 /\ 4 \in {0, 4}
      BY SMT
    <3> QED BY Zenon, <3>1, PutsLiteral32
  <2>4. Puts(thumb_put_ldr_reg_imm(a, 4) \o thumb_put_nop,
             <<EncLiteralHigh(1), EncLow(a, 4), EncNop>>)
    BY Zenon, <2>3, PutsNop, Join2and1
  <2>5. Puts(thumb_put_ldr_reg_imm(a, 4) \o thumb_put_nop \o thumb_put_b_imm(2),
             <<EncLiteralHigh(1), EncLow(a, 4), EncNop, EncBranch(1)>>)
    BY Zenon, <2>4, PutsBranch, Join3and1
  <2> QED BY Zenon, <1>1, <2>2, <2>5, Join4and2
<1>m. PICK mem : mem = At(at, items)
  OBVIOUS
<1>3. /\ SizeOf(items) = 12 /\ Outside(mem, at, 12)
      /\ at \in DOMAIN mem /\ mem[at] = EncLiteralHigh(1)
      /\ at + 2 \in DOMAIN mem /\ mem[at + 2] = EncLow(a, 4)
      /\ at + 4 \in DOMAIN mem /\ mem[at + 4] = EncNop
      /\ at + 6 \in DOMAIN mem /\ mem[at + 6] = EncBranch(1)
      /\ at + 8 \in DOMAIN mem /\ mem[at + 8] = LowHalf(v)
      /\ at + 10 \in DOMAIN mem /\ mem[at + 10] = HighHalf(v)
  <2>1. Sits6(items, mem, at, EncLiteralHigh(1), EncLow(a, 4), EncNop, EncBranch(1), LowHalf(v),
              HighHalf(v))
    BY Zenon, <1>2, <1>m, In6
  <2> QED BY Zenon, <2>1 DEF Sits6
<1>w. PICK word : word = at + 8
  OBVIOUS
<1>a. WordAt(mem, word, v)
  <2>1. at + 8 + 2 = at + 10
    BY SMT
  <2> QED BY SMT, <1>3, <1>w, <2>1 DEF WordAt
<1>b. PICK q \in Nat : q = 4
  BY SMT
<1>c. Twelve(q) /\ WideLiteral(at, q, word) /\ a \in 0..14
  BY SMT, <1>b, <1>w DEF Twelve, WideLiteral, ALIGN_FLOOR
<1>d. mem[at + 2] = EncLow(a, q)
  BY Zenon, <1>3, <1>b
<1>e. IsAt(Step(x, mem), at + 4, 1, [r EXCEPT ![a] = v], << >>)
  BY Zenon, <1>3, <1>a, <1>c, <1>d, RunLiteral32
<1>y. PICK y : y = Step(x, mem)
  OBVIOUS
<1>f. IsAt(y, at + 4, 1, [r EXCEPT ![a] = v], << >>)
  BY Zenon, <1>e, <1>y
<1>z. PICK z : z = Step(y, mem)
  OBVIOUS
<1>h. IsAt(z, at + 4 + 2, 1, [r EXCEPT ![a] = v], << >>)
  <2>1. at + 4 \in Int
    BY SMT
  <2>2. IsAt(Step(y, mem), at + 4 + 2, 1, [r EXCEPT ![a] = v], << >>)
    BY Zenon, <1>3, <1>f, <2>1, RunNop
  <2> QED BY Zenon, <1>z, <2>2
<1>i. IsAt(z, at + 6, 1, [r EXCEPT ![a] = v], << >>)
  BY SMT, <1>h
<1>j. PICK w \in Int : w = 1
  BY SMT
<1>k. at + 6 \in Int /\ Branch(w) /\ at + 6 + 4 + 2 * w = at + 12
  BY SMT, <1>j DEF Branch
<1>l. mem[at + 6] = EncBranch(w)
  BY Zenon, <1>3, <1>j
<1>n. IsAt(Step(z, mem), at + 6 + 4 + 2 * w, 1, [r EXCEPT ![a] = v], << >>)
  BY Zenon, <1>i, <1>k, <1>l, RunBranch
<1>q. IsAt(Step(z, mem), at + 12, 1, [r EXCEPT ![a] = v], << >>)
  BY Zenon, <1>k, <1>n
<1> DEFINE p == at + 12
           s == [r EXCEPT ![a] = v]
<1>g. IsAt(Set(x, a, v, 12), p, 1, s, << >>)
  <2>1. a \in 0..14
    BY SMT
  <2> QED BY Zenon, <2>1, AtSet
<1>p. p \notin DOMAIN mem
  BY SMT, <1>3 DEF Outside
<1>x. x.pc = at
  BY DEF IsAt
<1> HIDE DEF p, s
<1>r. IsAt(Step(z, mem), p, 1, s, << >>)
  BY Zenon, <1>q DEF p, s
<1>s. y.pc \in DOMAIN mem /\ z.pc \in DOMAIN mem
  <2>1. y.pc = at + 4 /\ z.pc = at + 6
    BY Zenon, <1>f, <1>i DEF IsAt
  <2> QED BY Zenon, <1>3, <2>1
<1> QED BY Zenon, <1>m, <1>3, <1>y, <1>z, <1>s, <1>r, <1>g, <1>p, <1>x, DoesThree

LEMMA ThumbLdrBHighUnaligned ==
  ASSUME NEW x, NEW at \in Int, NEW r, IsAt(x, at, 1, r, << >>), NEW a \in 8..14, NEW v,
         Wordly(v), (at + 4) % 4 = 2, NEW items, items = thumb_put_ldr_b_reg_address(at + 4, a, v)
  PROVE  SizeOf(items) = 10 /\ Does(x, at, items, Set(x, a, v, 10))
<1>1. items = thumb_put_ldr_reg_imm(a, 4) \o thumb_put_b_imm(2) \o <<Word(v)>>
  <2>1. ~(a <= 7)
    BY SMT
  <2>4. (at + 4) % 4 # 0
    BY SMT
  <2>2. Puts(thumb_put_ldr_reg_imm(a, 4), <<EncLiteralHigh(1), EncLow(a, 4)>>)
    <3>1. a \in 8..15 /\ 4 \in {0, 4}
      BY SMT
    <3> QED BY Zenon, <3>1, PutsLiteral32
  <2>3. thumb_put_ldr_reg_imm(a, 4) \o << >> = thumb_put_ldr_reg_imm(a, 4)
    BY Zenon, <2>2, PutsEmpty
  <2> QED BY SMT, <2>1, <2>3, <2>4 DEF thumb_put_ldr_b_reg_address, thumb_put_bytes
<1>2. Puts(items, <<EncLiteralHigh(1), EncLow(a, 4), EncBranch(1), LowHalf(v), HighHalf(v)>>)
  <2>2. LowHalf(v) \in Int /\ HighHalf(v) \in Int /\ Puts(<<Word(v)>>, <<LowHalf(v), HighHalf(v)>>)
    BY Zenon, HalvesAreInt, PutsWord
  <2>3. Puts(thumb_put_ldr_reg_imm(a, 4), <<EncLiteralHigh(1), EncLow(a, 4)>>)
    <3>1. a \in 8..15 /\ 4 \in {0, 4}
      BY SMT
    <3> QED BY Zenon, <3>1, PutsLiteral32
  <2>5. Puts(thumb_put_ldr_reg_imm(a, 4) \o thumb_put_b_imm(2),
             <<EncLiteralHigh(1), EncLow(a, 4), EncBranch(1)>>)
    BY Zenon, <2>3, PutsBranch, Join2and1
  <2> QED BY Zenon, <1>1, <2>2, <2>5, Join3and2
<1>m. PICK mem : mem = At(at, items)
  OBVIOUS
<1>3. /\ SizeOf(items) = 10 /\ Outside(mem, at, 10)
      /\ at \in DOMAIN mem /\ mem[at] = EncLiteralHigh(1)
      /\ at + 2 \in DOMAIN mem /\ mem[at + 2] = EncLow(a, 4)
      /\ at + 4 \in DOMAIN mem /\ mem[at + 4] = EncBranch(1)
      /\ at + 6 \in DOMAIN mem /\ mem[at + 6] = LowHalf(v)
      /\ at + 8 \in DOMAIN mem /\ mem[at + 8] = HighHalf(v)
  <2>1. Sits5(items, mem, at, EncLiteralHigh(1), EncLow(a, 4), EncBranch(1), LowHalf(v),
              HighHalf(v))
    BY Zenon, <1>2, <1>m, In5
  <2> QED BY Zenon, <2>1 DEF Sits5
<1>w. PICK word : word = at + 6
  OBVIOUS
<1>a. WordAt(mem, word, v)
  <2>1. at + 6 + 2 = at + 8
    BY SMT
  <2> QED BY SMT, <1>3, <1>w, <2>1 DEF WordAt
<1>b. PICK q \in Nat : q = 4
  BY SMT
<1>c. Twelve(q) /\ WideLiteral(at, q, word) /\ a \in 0..14
  BY SMT, <1>b, <1>w DEF Twelve, WideLiteral, ALIGN_FLOOR
<1>d. mem[at + 2] = EncLow(a, q)
  BY Zenon, <1>3, <1>b
<1>e. IsAt(Step(x, mem), at + 4, 1, [r EXCEPT ![a] = v], << >>)
  BY Zenon, <1>3, <1>a, <1>c, <1>d, RunLiteral32
<1>y. PICK y : y = Step(x, mem)
  OBVIOUS
<1>f. IsAt(y, at + 4, 1, [r EXCEPT ![a] = v], << >>)
  BY Zenon, <1>e, <1>y
<1>i. IsAt(y, at + 4, 1, [r EXCEPT ![a] = v], << >>)
  BY SMT, <1>f
<1>j. PICK w \in Int : w = 1
  BY SMT
<1>k. at + 4 \in Int /\ Branch(w) /\ at + 4 + 4 + 2 * w = at + 10
  BY SMT, <1>j DEF Branch
<1>l. mem[at + 4] = EncBranch(w)
  BY Zenon, <1>3, <1>j
<1>n. IsAt(Step(y, mem), at + 4 + 4 + 2 * w, 1, [r EXCEPT ![a] = v], << >>)
  BY Zenon, <1>i, <1>k, <1>l, RunBranch
<1>q. IsAt(Step(y, mem), at + 10, 1, [r EXCEPT ![a] = v], << >>)
  BY Zenon, <1>k, <1>n
<1> DEFINE p == at + 10
           s == [r EXCEPT ![a] = v]
<1>g. IsAt(Set(x, a, v, 10), p, 1, s, << >>)
  <2>1. a \in 0..14
    BY SMT
  <2> QED BY Zenon, <2>1, AtSet
<1>p. p \notin DOMAIN mem
  BY SMT, <1>3 DEF Outside
<1>x. x.pc = at
  BY DEF IsAt
<1> HIDE DEF p, s
<1>r. IsAt(Step(y, mem), p, 1, s, << >>)
  BY Zenon, <1>q DEF p, s
<1> QED BY Zenon, <1>m, <1>3, <1>y, <1>f, <1>r, <1>g, <1>p, <1>x, DoesTwo

LEMMA ThumbLdrPCAligned ==
  ASSUME NEW x, NEW at \in Int, NEW r, IsAt(x, at, 1, r, << >>), NEW v, Wordly(v),
         Far(v - (v % 2), at), (at + 4) % 4 = 0, NEW items,
         items = thumb_put_ldr_reg_address(at + 4, PC, v)
  PROVE  SizeOf(items) = 8 /\ Does(x, at, items, Interwork(x, v))
<1>1. items = thumb_put_ldr_reg_imm(15, 0) \o <<Word(v)>>
  <2>4. (at + 4) % 4 = 0
    BY SMT
  <2>2. Puts(thumb_put_ldr_reg_imm(15, 0), <<EncLiteralHigh(1), EncLow(15, 0)>>)
    BY PutsLiteral32
  <2>3. thumb_put_ldr_reg_imm(15, 0) \o << >> = thumb_put_ldr_reg_imm(15, 0)
    BY Zenon, <2>2, PutsEmpty
  <2> QED BY SMT, <2>3, <2>4 DEF thumb_put_ldr_reg_address, thumb_put_bytes, PC
<1>2. Puts(items, <<EncLiteralHigh(1), EncLow(15, 0), LowHalf(v), HighHalf(v)>>)
  <2>2. LowHalf(v) \in Int /\ HighHalf(v) \in Int /\ Puts(<<Word(v)>>, <<LowHalf(v), HighHalf(v)>>)
    BY Zenon, HalvesAreInt, PutsWord
  <2>3. Puts(thumb_put_ldr_reg_imm(15, 0), <<EncLiteralHigh(1), EncLow(15, 0)>>)
    BY PutsLiteral32
  <2> QED BY Zenon, <1>1, <2>2, <2>3, Join2and2
<1>m. PICK mem : mem = At(at, items)
  OBVIOUS
<1>3. /\ SizeOf(items) = 8 /\ Outside(mem, at, 8)
      /\ at \in DOMAIN mem /\ mem[at] = EncLiteralHigh(1)
      /\ at + 2 \in DOMAIN mem /\ mem[at + 2] = EncLow(15, 0)
      /\ at + 4 \in DOMAIN mem /\ mem[at + 4] = LowHalf(v)
      /\ at + 6 \in DOMAIN mem /\ mem[at + 6] = HighHalf(v)
  <2>1. Sits4(items, mem, at, EncLiteralHigh(1), EncLow(15, 0), LowHalf(v), HighHalf(v))
    BY Zenon, <1>2, <1>m, In4
  <2> QED BY Zenon, <2>1 DEF Sits4
<1>w. PICK word : word = at + 4
  OBVIOUS
<1>a. WordAt(mem, word, v)
  <2>1. at + 4 + 2 = at + 6
    BY SMT
  <2> QED BY SMT, <1>3, <1>w, <2>1 DEF WordAt
<1>b. PICK q \in Nat : q = 0
  BY SMT
<1>c. Twelve(q) /\ WideLiteral(at, q, word)
  BY SMT, <1>b, <1>w DEF Twelve, WideLiteral, ALIGN_FLOOR
<1>d. mem[at + 2] = EncLow(15, q)
  BY Zenon, <1>3, <1>b
<1>e. Step(x, mem) = Interwork(x, v)
  BY Zenon, <1>3, <1>a, <1>c, <1>d, RunLiteralPC
<1>f. v \in Int
  BY DEF Wordly
<1> DEFINE p == v - (v % 2)
           s == r
<1>g. IsAt(Interwork(x, v), p, v % 2, s, << >>)
  BY Zenon, <1>f, AtInterwork
<1>p. p \notin DOMAIN mem
  BY SMT, <1>3, <1>f DEF Outside, Far
<1>x. x.pc = at
  BY DEF IsAt
<1> HIDE DEF p, s
<1> QED BY Zenon, <1>m, <1>3, <1>e, <1>g, <1>p, <1>x, DoesOne

LEMMA ThumbLdrPCUnaligned ==
  ASSUME NEW x, NEW at \in Int, NEW r, IsAt(x, at, 1, r, << >>), NEW v, Wordly(v),
         Far(v - (v % 2), at), (at + 4) % 4 = 2, NEW items,
         items = thumb_put_ldr_reg_address(at + 4, PC, v)
  PROVE  SizeOf(items) = 10 /\ Does(x, at, items, Interwork(x, v))
<1>1. items = thumb_put_ldr_reg_imm(15, 4) \o thumb_put_nop \o <<Word(v)>>
  <2>4. (at + 4) % 4 # 0
    BY SMT
  <2>2. Puts(thumb_put_ldr_reg_imm(15, 4), <<EncLiteralHigh(1), EncLow(15, 4)>>)
    BY PutsLiteral32
  <2>3. thumb_put_ldr_reg_imm(15, 4) \o << >> = thumb_put_ldr_reg_imm(15, 4)
    BY Zenon, <2>2, PutsEmpty
  <2> QED BY SMT, <2>3, <2>4 DEF thumb_put_ldr_reg_address, thumb_put_bytes, PC
<1>2. Puts(items, <<EncLiteralHigh(1), EncLow(15, 4), EncNop, LowHalf(v), HighHalf(v)>>)
  <2>2. LowHalf(v) \in Int /\ HighHalf(v) \in Int /\ Puts(<<Word(v)>>, <<LowHalf(v), HighHalf(v)>>)
    BY Zenon, HalvesAreInt, PutsWord
  <2>3. Puts(thumb_put_ldr_reg_imm(15, 4), <<EncLiteralHigh(1), EncLow(15, 4)>>)
    BY PutsLiteral32
  <2>4. Puts(thumb_put_ldr_reg_imm(15, 4) \o thumb_put_nop,
             <<EncLiteralHigh(1), EncLow(15, 4), EncNop>>)
    BY Zenon, <2>3, PutsNop, Join2and1
  <2> QED BY Zenon, <1>1, <2>2, <2>4, Join3and2
<1>m. PICK mem : mem = At(at, items)
  OBVIOUS
<1>3. /\ SizeOf(items) = 10 /\ Outside(mem, at, 10)
      /\ at \in DOMAIN mem /\ mem[at] = EncLiteralHigh(1)
      /\ at + 2 \in DOMAIN mem /\ mem[at + 2] = EncLow(15, 4)
      /\ at + 4 \in DOMAIN mem /\ mem[at + 4] = EncNop
      /\ at + 6 \in DOMAIN mem /\ mem[at + 6] = LowHalf(v)
      /\ at + 8 \in DOMAIN mem /\ mem[at + 8] = HighHalf(v)
  <2>1. Sits5(items, mem, at, EncLiteralHigh(1), EncLow(15, 4), EncNop, LowHalf(v), HighHalf(v))
    BY Zenon, <1>2, <1>m, In5
  <2> QED BY Zenon, <2>1 DEF Sits5
<1>w. PICK word : word = at + 6
  OBVIOUS
<1>a. WordAt(mem, word, v)
  <2>1. at + 6 + 2 = at + 8
    BY SMT
  <2> QED BY SMT, <1>3, <1>w, <2>1 DEF WordAt
<1>b. PICK q \in Nat : q = 4
  BY SMT
<1>c. Twelve(q) /\ WideLiteral(at, q, word)
  BY SMT, <1>b, <1>w DEF Twelve, WideLiteral, ALIGN_FLOOR
<1>d. mem[at + 2] = EncLow(15, q)
  BY Zenon, <1>3, <1>b
<1>e. Step(x, mem) = Interwork(x, v)
  BY Zenon, <1>3, <1>a, <1>c, <1>d, RunLiteralPC
<1>f. v \in Int
  BY DEF Wordly
<1> DEFINE p == v - (v % 2)
           s == r
<1>g. IsAt(Interwork(x, v), p, v % 2, s, << >>)
  BY Zenon, <1>f, AtInterwork
<1>p. p \notin DOMAIN mem
  BY SMT, <1>3, <1>f DEF Outside, Far
<1>x. x.pc = at
  BY DEF IsAt
<1> HIDE DEF p, s
<1> QED BY Zenon, <1>m, <1>3, <1>e, <1>g, <1>p, <1>x, DoesOne

(* ------------------------------------------------------------------------ *)
(* The ARM instructions the writers put, one step of each                     *)

ArmNopIn(mem, a) == a + 2 \in DOMAIN mem /\ mem[a] = \hf000 /\ mem[a + 2] = \he320

LEMMA RunArmNop ==
  ASSUME NEW x, NEW at \in Int, NEW r, NEW ram, IsAt(x, at, 0, r, ram), NEW mem, ArmNopIn(mem, at)
  PROVE  IsAt(Step(x, mem), at + 4, 0, r, ram)
<1>1. ~x.thumb /\ x.pc = at
  BY SMT DEF IsAt
<1>3. Step(x, mem) = Skip(x, 4)
  BY SMT, <1>1, StepArmNop DEF ArmNopIn
<1> QED BY Zenon, <1>3, AtSkip

LEMMA RunArmAdd ==
  ASSUME NEW x, NEW at \in Int, NEW r, NEW ram, IsAt(x, at, 0, r, ram), NEW mem, NEW minus,
         NEW d \in 0..14, NEW n, NEW imm, ArmAddIn(mem, at, minus, d, n, imm)
  PROVE  IsAt(Step(x, mem), at + 4, 0, [r EXCEPT ![d] = Moved(minus, Reg(x, n), imm)], ram)
<1>1. ~x.thumb /\ x.pc = at
  BY SMT DEF IsAt
<1>2. ArmAddIn(mem, x.pc, minus, d, n, imm)
  BY Zenon, <1>1
<1>3. Step(x, mem) = Set(x, d, Moved(minus, Reg(x, n), imm), 4)
  BY SMT, <1>1, <1>2, StepArmAdd
<1> QED BY Zenon, <1>3, AtSet

\* The transfer at a, its distance and whether it changes the register
ArmMoves(mem, a, load, t, n, v, index, back) ==
  \E imm, up, write : /\ ArmTransferIn(mem, a, t, n, imm, load, index, up, write)
                      /\ Back(index, write) = back /\ Toward(up, imm) = v

LEMMA RunArmTransfer ==
  ASSUME NEW x, NEW at, NEW r, NEW ram, IsAt(x, at, 0, r, ram), NEW mem,
         NEW load, NEW t, NEW n, NEW v, NEW index, NEW back,
         ArmMoves(mem, at, load, t, n, v, index, back)
  PROVE  Step(x, mem) = Transfer(x, mem, load, t, n, v, index, back, 4)
<1>1. ~x.thumb /\ x.pc = at
  BY SMT DEF IsAt
<1>2. PICK imm, up, write : /\ ArmTransferIn(mem, at, t, n, imm, load, index, up, write)
                            /\ Back(index, write) = back /\ Toward(up, imm) = v
  BY Zenon DEF ArmMoves
<1>3. ArmTransferIn(mem, x.pc, t, n, imm, load, index, up, write)
  BY Zenon, <1>1, <1>2
<1>4. Step(x, mem) = Transfer(x, mem, load, t, n, Toward(up, imm), index, Back(index, write), 4)
  BY ZenonT(30), <1>1, <1>3, StepArmTransfer
<1> QED BY Zenon, <1>2, <1>4

LEMMA RunArmLdr ==
  ASSUME NEW x, NEW at \in Int, NEW r, NEW ram, IsAt(x, at, 0, r, ram), NEW mem,
         NEW t \in 0..14, NEW n \in 0..14, NEW v \in Int, ArmMoves(mem, at, 1, t, n, v, 1, 0)
  PROVE  IsAt(Step(x, mem), at + 4, 0, [r EXCEPT ![t] = Load(x, mem, r[n] + v)], ram)
<1>1. Step(x, mem) = Transfer(x, mem, 1, t, n, v, 1, 0, 4)
  BY Zenon, RunArmTransfer
<1>2. IsAt(Transfer(x, mem, 1, t, n, v, 1, 0, 4), at + 4, 0,
           [r EXCEPT ![t] = Load(x, mem, r[n] + v)], ram)
  BY Zenon, AtLoad
<1> QED BY Zenon, <1>1, <1>2

LEMMA RunArmStr ==
  ASSUME NEW x, NEW at \in Int, NEW r, NEW ram, IsAt(x, at, 0, r, ram), NEW mem,
         NEW t \in 0..14, NEW n \in 0..14, NEW v \in Int, ArmMoves(mem, at, 0, t, n, v, 1, 0)
  PROVE  IsAt(Step(x, mem), at + 4, 0, r, Stored(ram, r[n] + v, r[t]))
<1>1. Step(x, mem) = Transfer(x, mem, 0, t, n, v, 1, 0, 4)
  BY Zenon, RunArmTransfer
<1> QED BY Zenon, <1>1, AtStr

OnWord(at) == at % 4 = 0

LEMMA ArmHere ==
  ASSUME NEW at \in Int, OnWord(at)
  PROVE  Aligned(at + 8 - 4 * 0) = at + 8
  BY SMT DEF OnWord, Aligned

LEMMA RunArmLiteral ==
  ASSUME NEW x, NEW at \in Int, OnWord(at), NEW r, NEW ram, IsAt(x, at, 0, r, ram), NEW mem,
         NEW t \in 0..14, NEW v \in Int, ArmMoves(mem, at, 1, t, 15, v, 1, 0)
  PROVE  IsAt(Step(x, mem), at + 4, 0, [r EXCEPT ![t] = Load(x, mem, at + 8 + v)], ram)
<1>1. Step(x, mem) = Transfer(x, mem, 1, t, 15, v, 1, 0, 4)
  BY Zenon, RunArmTransfer
<1>2. 0 \in {0, 1}
  OBVIOUS
<1>3. IsAt(Step(x, mem), at + 4, 0,
           [r EXCEPT ![t] = Load(x, mem, Aligned(at + 8 - 4 * 0) + v)], ram)
  BY Zenon, <1>1, <1>2, AtLiteral
<1> QED BY Zenon, <1>3, ArmHere

LEMMA RunArmLiteralPC ==
  ASSUME NEW x, NEW at \in Int, OnWord(at), NEW r, NEW ram, IsAt(x, at, 0, r, ram), NEW mem,
         NEW v \in Int, ArmMoves(mem, at, 1, 15, 15, v, 1, 0)
  PROVE  Step(x, mem) = Interwork(x, Load(x, mem, at + 8 + v))
<1>1. Step(x, mem) = Transfer(x, mem, 1, 15, 15, v, 1, 0, 4)
  BY Zenon, RunArmTransfer
<1>2. 0 \in {0, 1}
  OBVIOUS
<1>3. Transfer(x, mem, 1, 15, 15, v, 1, 0, 4)
        = Interwork(x, Load(x, mem, Aligned(at + 8 - 4 * 0) + v))
  BY SMT, <1>2, AtLiteralPC
<1> QED BY Zenon, <1>1, <1>3, ArmHere

LEMMA RunArmLdrIndex ==
  ASSUME NEW x, NEW at \in Int, NEW r, NEW ram, IsAt(x, at, 0, r, ram), NEW mem,
         NEW t \in 0..14, NEW n \in 0..14, NEW v \in Int, NEW index \in {0, 1},
         ArmMoves(mem, at, 1, t, n, v, index, 1), r[n] \in Int
  PROVE  IsAt(Step(x, mem), at + 4, 0,
              [[r EXCEPT ![n] = r[n] + v]
                 EXCEPT ![t] = Load(x, mem, r[n] + (IF index = 1 THEN v ELSE 0))], ram)
<1>1. Step(x, mem) = Transfer(x, mem, 1, t, n, v, index, 1, 4)
  BY Zenon, RunArmTransfer
<1>2. IsAt(Transfer(x, mem, 1, t, n, v, index, 1, 4), at + 4, 0,
           [[r EXCEPT ![n] = r[n] + v]
              EXCEPT ![t] = Load(x, mem, r[n] + (IF index = 1 THEN v ELSE 0))], ram)
  BY Zenon, AtLoadIndex
<1> QED BY Zenon, <1>1, <1>2

LEMMA RunArmStrIndex ==
  ASSUME NEW x, NEW at \in Int, NEW r, NEW ram, IsAt(x, at, 0, r, ram), NEW mem,
         NEW t \in 0..14, NEW n \in 0..14, NEW v \in Int, NEW index \in {0, 1},
         ArmMoves(mem, at, 0, t, n, v, index, 1), r[n] \in Int
  PROVE  IsAt(Step(x, mem), at + 4, 0, [r EXCEPT ![n] = r[n] + v],
              Stored(ram, r[n] + (IF index = 1 THEN v ELSE 0), r[t]))
<1>1. Step(x, mem) = Transfer(x, mem, 0, t, n, v, index, 1, 4)
  BY Zenon, RunArmTransfer
<1>2. IsAt(Transfer(x, mem, 0, t, n, v, index, 1, 4), at + 4, 0, [r EXCEPT ![n] = r[n] + v],
           Stored(ram, r[n] + (IF index = 1 THEN v ELSE 0), r[t]))
  BY Zenon, AtStrIndex
<1> QED BY Zenon, <1>1, <1>2

LEMMA RunArmLdrPC ==
  ASSUME NEW x, NEW at \in Int, NEW r, NEW ram, IsAt(x, at, 0, r, ram), NEW mem,
         NEW n \in 0..14, NEW v \in Int, ArmMoves(mem, at, 1, 15, n, v, 0, 1), r[n] \in Int,
         NEW to \in Int, Load(x, mem, r[n]) = to
  PROVE  IsAt(Step(x, mem), to - (to % 2), to % 2, [r EXCEPT ![n] = r[n] + v], ram)
<1>1. Step(x, mem) = Transfer(x, mem, 1, 15, n, v, 0, 1, 4)
  BY Zenon, RunArmTransfer
<1>2. IsAt(Transfer(x, mem, 1, 15, n, v, 0, 1, 4), to - (to % 2), to % 2,
           [r EXCEPT ![n] = r[n] + v], ram)
  BY Zenon, AtLoadPC
<1> QED BY Zenon, <1>1, <1>2

ArmBxIn(mem, a, i) == a + 2 \in DOMAIN mem /\ mem[a] = EncArmBx(i) /\ mem[a + 2] = \he12f

LEMMA RunArmBx ==
  ASSUME NEW x, NEW at \in Int, NEW r, NEW ram, IsAt(x, at, 0, r, ram), NEW mem, NEW i \in 0..14,
         ArmBxIn(mem, at, i), r[i] \in Int
  PROVE  IsAt(Step(x, mem), r[i] - (r[i] % 2), r[i] % 2, r, ram)
<1>1. ~x.thumb /\ x.pc = at
  BY SMT DEF IsAt
<1>2. Step(x, mem) = Interwork(x, Reg(x, i))
  BY SMT, <1>1, StepArmBx DEF ArmBxIn
<1>3. Step(x, mem) = Interwork(x, r[i])
  BY Zenon, <1>2, AtReg
<1>4. IsAt(Interwork(x, r[i]), r[i] - (r[i] % 2), r[i] % 2, r, ram)
  BY Zenon, AtInterwork
<1> QED BY Zenon, <1>3, <1>4

LEMMA RunArmB ==
  ASSUME NEW x, NEW at \in Int, NEW r, NEW ram, IsAt(x, at, 0, r, ram), NEW mem,
         NEW w \in Int, ArmBranchIn(mem, at, w, 0), NEW v, v = 4 * w
  PROVE  IsAt(Step(x, mem), at + 8 + v, 0, r, ram)
<1>1. ~x.thumb /\ x.pc = at
  BY SMT DEF IsAt
<1>2. ArmBranchIn(mem, x.pc, w, 0)
  BY Zenon, <1>1
<1>3. Step(x, mem) = Goto(IF 0 = 1 THEN Link(x, 4) ELSE x, Here(x) + 4 * w)
  BY SMT, <1>1, <1>2, StepArmBranch
<1>4. Here(x) = at + 8
  BY SMT, <1>1 DEF Here
<1>5. Step(x, mem) = Goto(x, at + 8 + v)
  BY SMT, <1>3, <1>4
<1> QED BY Zenon, <1>5, AtGoto

(* ------------------------------------------------------------------------ *)
(* The ARM writers put the instructions their names say                       *)

TwoAt(mem, a, h, k) == a \in DOMAIN mem /\ mem[a] = h /\ a + 2 \in DOMAIN mem /\ mem[a + 2] = k
PutsMove(items, load, t, n, v, index, back) ==
  \E h \in Int, k \in Int :
    /\ items = <<<<h, k>>>>
    /\ \A mem, a : TwoAt(mem, a, h, k) => ArmMoves(mem, a, load, t, n, v, index, back)
PutsAdd(items, minus, d, n, v) ==
  \E h \in Int, k \in Int :
    /\ items = <<<<h, k>>>>
    /\ \A mem, a : TwoAt(mem, a, h, k) => ArmAddIn(mem, a, minus, d, n, v)
PutsB(items, w) ==
  \E h \in Int, k \in Int :
    /\ items = <<<<h, k>>>>
    /\ \A mem, a : TwoAt(mem, a, h, k) => ArmBranchIn(mem, a, w, 0)
PutsBx(items, i) ==
  \E h \in Int, k \in Int :
    /\ items = <<<<h, k>>>>
    /\ \A mem, a : TwoAt(mem, a, h, k) => ArmBxIn(mem, a, i)
PutsArmNop(items) ==
  \E h \in Int, k \in Int :
    /\ items = <<<<h, k>>>>
    /\ \A mem, a : TwoAt(mem, a, h, k) => ArmNopIn(mem, a)
\* A distance of a sign and twelve bits
TwelveSigned(v) == ABS(v) <= 4095

LEMMA SignedTwelve ==
  ASSUME NEW v \in Int, TwelveSigned(v)
  PROVE  \E up \in {0, 1}, q \in Nat : /\ up = Bit(v >= 0) /\ q = ABS(v) /\ Twelve(q)
                                        /\ Toward(up, q) = v
<1>1. Bit(v >= 0) \in {0, 1} /\ ABS(v) \in Nat /\ Twelve(ABS(v)) /\ Toward(Bit(v >= 0), ABS(v)) = v
  BY SMT DEF Bit, ABS, Twelve, Toward, TwelveSigned
<1> QED BY Zenon, <1>1

LEMMA TwelveBits ==
  ASSUME NEW q \in Nat, Twelve(q)
  PROVE  Sub(q, 0, 12) = q
  BY SMT DEF Sub, Twelve

LEMMA BackIs == Back(1, 0) = 0 /\ Back(1, 1) = 1 /\ Back(0, 0) = 1 /\ Back(0, 1) = 1
  BY SMT DEF Back

MoveIs(t, n, imm, load, index, up, write) ==
  /\ t \in 0..15 /\ n \in 0..15 /\ imm \in Nat /\ Twelve(imm)
  /\ load \in {0, 1} /\ index \in {0, 1} /\ up \in {0, 1} /\ write \in {0, 1}

LEMMA MoveEncoded ==
  ASSUME NEW t, NEW n, NEW imm, NEW load, NEW index, NEW up, NEW write,
         MoveIs(t, n, imm, load, index, up, write),
         NEW items, items = <<<<EncLow(t, imm), EncArmTransferHigh(load, n, up, index, write)>>>>,
         NEW v, Toward(up, imm) = v, NEW back, Back(index, write) = back
  PROVE  PutsMove(items, load, t, n, v, index, back)
<1> DEFINE h == EncLow(t, imm)
           k == EncArmTransferHigh(load, n, up, index, write)
<1>1. h \in Int /\ k \in Int
  BY SMT DEF EncLow, EncArmTransferHigh, MoveIs
<1>2. ASSUME NEW mem, NEW a, TwoAt(mem, a, h, k)
      PROVE  ArmMoves(mem, a, load, t, n, v, index, back)
  <2>1. ArmTransferIn(mem, a, t, n, imm, load, index, up, write)
    BY Zenon, <1>2 DEF ArmTransferIn, TwoAt, MoveIs
  <2> QED BY Zenon, <2>1 DEF ArmMoves
<1> QED BY Zenon, <1>1, <1>2 DEF PutsMove

LEMMA PutsArmLdr ==
  ASSUME NEW a \in 0..15, NEW b \in 0..14, NEW v \in Int, TwelveSigned(v)
  PROVE  PutsMove(arm_put_ldr_reg_reg_imm(a, b, v), 1, a, b, v, 1, 0)
<1>1. PICK up \in {0, 1}, q \in Nat :
        up = Bit(v >= 0) /\ q = ABS(v) /\ Twelve(q) /\ Toward(up, q) = v
  BY Zenon, SignedTwelve
<1>2. MoveIs(a, b, q, 1, 1, up, 0)
  BY SMT, <1>1 DEF MoveIs
<1>3. Sub(q, 0, 12) = q
  BY Zenon, <1>1, TwelveBits
<1>4. b # PC
  BY SMT DEF PC
<1>5. arm_put_ldr_reg_reg_imm(a, b, v) = arm_put_ldr_reg_reg_imm_A1(a, b, q, 1, up, 0)
  BY Zenon, <1>1, <1>4 DEF arm_put_ldr_reg_reg_imm
<1>6. /\ \he410 + b + 1 * 256 + up * 128 + 0 * 32 = EncArmTransferHigh(1, b, up, 1, 0)
      /\ a * 4096 + Sub(q, 0, 12) = EncLow(a, q)
  BY SMT, <1>3 DEF EncArmTransferHigh, EncLow
<1>7. arm_put_ldr_reg_reg_imm_A1(a, b, q, 1, up, 0)
        = <<<<EncLow(a, q), EncArmTransferHigh(1, b, up, 1, 0)>>>>
  BY SMT, <1>6 DEF arm_put_ldr_reg_reg_imm_A1, arm_put_instruction
<1> QED BY Zenon, <1>1, <1>2, <1>5, <1>7, BackIs, MoveEncoded

LEMMA PutsArmLiteral ==
  ASSUME NEW a \in 0..15, NEW v \in Int, TwelveSigned(v)
  PROVE  PutsMove(arm_put_ldr_reg_reg_imm(a, PC, v), 1, a, 15, v, 1, 0)
<1>1. PICK up \in {0, 1}, q \in Nat :
        up = Bit(v >= 0) /\ q = ABS(v) /\ Twelve(q) /\ Toward(up, q) = v
  BY Zenon, SignedTwelve
<1>2. MoveIs(a, 15, q, 1, 1, up, 0)
  BY SMT, <1>1 DEF MoveIs
<1>3. Sub(q, 0, 12) = q
  BY Zenon, <1>1, TwelveBits
<1>5. arm_put_ldr_reg_reg_imm(a, PC, v) = arm_put_ldr_reg_imm_literal(a, v)
  BY Zenon DEF arm_put_ldr_reg_reg_imm
<1>6. /\ \he51f + up * 128 = EncArmTransferHigh(1, 15, up, 1, 0)
      /\ a * 4096 + Sub(q, 0, 12) = EncLow(a, q)
  BY SMT, <1>3 DEF EncArmTransferHigh, EncLow
<1>7. arm_put_ldr_reg_imm_literal(a, v) = <<<<EncLow(a, q), EncArmTransferHigh(1, 15, up, 1, 0)>>>>
  BY SMT, <1>1, <1>6 DEF arm_put_ldr_reg_imm_literal, arm_put_instruction
<1> QED BY Zenon, <1>1, <1>2, <1>5, <1>7, BackIs, MoveEncoded

LEMMA PutsArmLdrIndex ==
  ASSUME NEW a \in 0..15, NEW b \in 0..14, NEW v \in Int, TwelveSigned(v), NEW index \in {0, 1}
  PROVE  PutsMove(arm_put_ldr_reg_reg_imm_index(a, b, v, index), 1, a, b, v, index, 1)
<1>1. PICK up \in {0, 1}, q \in Nat :
        up = Bit(v >= 0) /\ q = ABS(v) /\ Twelve(q) /\ Toward(up, q) = v
  BY Zenon, SignedTwelve
<1>2. MoveIs(a, b, q, 1, index, up, index)
  BY SMT, <1>1 DEF MoveIs
<1>3. Sub(q, 0, 12) = q
  BY Zenon, <1>1, TwelveBits
<1>4. Back(index, index) = 1
  BY SMT DEF Back
<1>5. arm_put_ldr_reg_reg_imm_index(a, b, v, index)
        = arm_put_ldr_reg_reg_imm_A1(a, b, q, index, up, index)
  BY Zenon, <1>1 DEF arm_put_ldr_reg_reg_imm_index
<1>6. /\ \he410 + b + index * 256 + up * 128 + index * 32
           = EncArmTransferHigh(1, b, up, index, index)
      /\ a * 4096 + Sub(q, 0, 12) = EncLow(a, q)
  BY SMT, <1>3 DEF EncArmTransferHigh, EncLow
<1>7. arm_put_ldr_reg_reg_imm_A1(a, b, q, index, up, index)
        = <<<<EncLow(a, q), EncArmTransferHigh(1, b, up, index, index)>>>>
  BY SMT, <1>6 DEF arm_put_ldr_reg_reg_imm_A1, arm_put_instruction
<1> QED BY Zenon, <1>1, <1>2, <1>4, <1>5, <1>7, MoveEncoded

LEMMA PutsArmStr ==
  ASSUME NEW a \in 0..14, NEW b \in 0..14, NEW v \in Nat, Twelve(v)
  PROVE  PutsMove(arm_put_str_reg_reg_imm(a, b, v), 0, a, b, v, 1, 0)
<1>1. Toward(1, v) = v /\ Bit(v >= 0) = 1
  BY SMT DEF Toward, Bit
<1>2. MoveIs(a, b, v, 0, 1, 1, 0)
  BY SMT DEF MoveIs
<1>3. Sub(v, 0, 12) = v
  BY Zenon, TwelveBits
<1>6. /\ \he400 + b + 256 + Bit(v >= 0) * 128 = EncArmTransferHigh(0, b, 1, 1, 0)
      /\ a * 4096 + Sub(v, 0, 12) = EncLow(a, v)
  BY SMT, <1>1, <1>3 DEF EncArmTransferHigh, EncLow
<1>7. arm_put_str_reg_reg_imm(a, b, v) = <<<<EncLow(a, v), EncArmTransferHigh(0, b, 1, 1, 0)>>>>
  BY SMT, <1>6 DEF arm_put_str_reg_reg_imm, arm_put_instruction
<1> QED BY Zenon, <1>1, <1>2, <1>7, BackIs, MoveEncoded

LEMMA PutsArmPush ==
  ASSUME NEW a \in 0..14
  PROVE  PutsMove(arm_put_push_reg(a), 0, a, 13, -4, 1, 1)
<1>1. PICK v \in Int, q \in Nat, up \in {0, 1} : v = -4 /\ q = 4 /\ up = 0 /\ Toward(up, q) = v
  BY SMT DEF Toward
<1>2. MoveIs(a, 13, q, 0, 1, up, 1)
  BY SMT, <1>1 DEF MoveIs, Twelve
<1>7. arm_put_push_reg(a) = <<<<EncLow(a, q), EncArmTransferHigh(0, 13, up, 1, 1)>>>>
  BY SMT, <1>1 DEF arm_put_push_reg, arm_put_instruction, EncLow, EncArmTransferHigh
<1>8. Toward(up, q) = v
  BY <1>1
<1>9. PutsMove(arm_put_push_reg(a), 0, a, 13, v, 1, 1)
  BY Zenon, <1>2, <1>7, <1>8, BackIs, MoveEncoded
<1> QED BY SMT, <1>1, <1>9

LEMMA PutsArmPop ==
  ASSUME NEW a \in 0..14
  PROVE  PutsMove(arm_put_pop_reg(a), 1, a, 13, 4, 0, 1)
<1>1. PICK v \in Int, q \in Nat, up \in {0, 1} : v = 4 /\ q = 4 /\ up = 1 /\ Toward(up, q) = v
  BY SMT DEF Toward
<1>2. MoveIs(a, 13, q, 1, 0, up, 0)
  BY SMT, <1>1 DEF MoveIs, Twelve
<1>7. arm_put_pop_reg(a) = <<<<EncLow(a, q), EncArmTransferHigh(1, 13, up, 0, 0)>>>>
  BY SMT, <1>1 DEF arm_put_pop_reg, arm_put_instruction, EncLow, EncArmTransferHigh
<1>8. Toward(up, q) = v
  BY <1>1
<1>9. PutsMove(arm_put_pop_reg(a), 1, a, 13, v, 0, 1)
  BY Zenon, <1>2, <1>7, <1>8, BackIs, MoveEncoded
<1> QED BY SMT, <1>1, <1>9

LEMMA AddEncoded ==
  ASSUME NEW d \in 0..15, NEW n \in 0..15, NEW v \in Nat, Eight(v), NEW minus \in {0, 1},
         NEW items, items = <<<<EncLow(d, v), EncArmAddHigh(minus, n)>>>>
  PROVE  PutsAdd(items, minus, d, n, v)
<1> DEFINE h == EncLow(d, v)
           k == EncArmAddHigh(minus, n)
<1>1. h \in Int /\ k \in Int
  BY SMT DEF EncLow, EncArmAddHigh
<1>2. ASSUME NEW mem, NEW a, TwoAt(mem, a, h, k) PROVE ArmAddIn(mem, a, minus, d, n, v)
  BY Zenon, <1>2 DEF ArmAddIn, TwoAt
<1> QED BY Zenon, <1>1, <1>2 DEF PutsAdd

LEMMA PutsArmAdd ==
  ASSUME NEW d \in 0..14, NEW n \in 0..15, NEW v \in Nat, Eight(v)
  PROVE  /\ PutsAdd(arm_put_add_reg_reg_imm(d, n, v), 0, d, n, v)
         /\ PutsAdd(arm_put_sub_reg_reg_imm(d, n, v), 1, d, n, v)
<1>1. Sub(v, 0, 12) = v
  BY SMT DEF Eight, Sub
<1>2. arm_put_add_reg_reg_imm(d, n, v) = <<<<EncLow(d, v), EncArmAddHigh(0, n)>>>>
  BY SMT, <1>1 DEF arm_put_add_reg_reg_imm, arm_put_instruction, EncLow, EncArmAddHigh
<1>3. arm_put_sub_reg_reg_imm(d, n, v) = <<<<EncLow(d, v), EncArmAddHigh(1, n)>>>>
  BY SMT, <1>1 DEF arm_put_sub_reg_reg_imm, arm_put_instruction, EncLow, EncArmAddHigh
<1>4. d \in 0..15 /\ 0 \in {0, 1} /\ 1 \in {0, 1}
  BY SMT
<1> QED BY Zenon, <1>2, <1>3, <1>4, AddEncoded

Branch24(w) == w >= -8388608 /\ w < 8388608

LEMMA PutsArmB ==
  ASSUME NEW w \in Int, Branch24(w), NEW v, v = 4 * w
  PROVE  PutsB(arm_put_b_imm(v), w)
<1> DEFINE h == EncArmBranchLow(w)
           k == EncArmBranchHigh(w, 0)
<1>1. h \in Int /\ k \in Int
  BY SMT DEF EncArmBranchLow, EncArmBranchHigh, Sub
<1>2. arm_put_b_imm(v) = <<<<h, k>>>>
  BY SMT DEF arm_put_b_imm, arm_put_instruction, EncArmBranchLow, EncArmBranchHigh
<1>3. ASSUME NEW mem, NEW a, TwoAt(mem, a, h, k) PROVE ArmBranchIn(mem, a, w, 0)
  BY SMT, <1>3 DEF ArmBranchIn, TwoAt, Branch24
<1> QED BY Zenon, <1>1, <1>2, <1>3 DEF PutsB

LEMMA PutsArmBx ==
  ASSUME NEW i \in 0..14
  PROVE  PutsBx(arm_put_bx_reg(i), i)
<1> DEFINE h == EncArmBx(i)
           k == \he12f
<1>1. h \in Int /\ k \in Int
  BY SMT DEF EncArmBx
<1>2. arm_put_bx_reg(i) = <<<<h, k>>>>
  BY SMT DEF arm_put_bx_reg, arm_put_instruction, EncArmBx
<1>3. ASSUME NEW mem, NEW a, TwoAt(mem, a, h, k) PROVE ArmBxIn(mem, a, i)
  BY SMT, <1>3 DEF ArmBxIn, TwoAt
<1> HIDE DEF h, k
<1> QED BY Zenon, <1>1, <1>2, <1>3 DEF PutsBx

LEMMA PutsNopArm == PutsArmNop(arm_put_nop)
<1> DEFINE h == \hf000
           k == \he320
<1>1. h \in Int /\ k \in Int
  OBVIOUS
<1>2. arm_put_nop = <<<<h, k>>>>
  BY SMT DEF arm_put_nop, arm_put_instruction
<1>3. ASSUME NEW mem, NEW a, TwoAt(mem, a, h, k) PROVE ArmNopIn(mem, a)
  BY SMT, <1>3 DEF ArmNopIn, TwoAt
<1> HIDE DEF h, k
<1> QED BY Zenon, <1>1, <1>2, <1>3 DEF PutsArmNop

(* ------------------------------------------------------------------------ *)
(* The ARM writers, call by call                                              *)

\* Not in the n bytes from at on
Beyond(p, at, n) == p \in Int /\ (p < at \/ p >= at + n)

LEMMA NextIsBeyond ==
  ASSUME NEW at \in Int, NEW n \in Int
  PROVE  Beyond(at + n, at, n)
  BY SMT DEF Beyond

LEMMA BeyondRead ==
  ASSUME NEW x, NEW p, NEW t, NEW r, IsAt(x, p, t, r, << >>), NEW at, NEW n, NEW a,
         Beyond(a, at, n),
         NEW mem, Outside(mem, at, n)
  PROVE  Load(x, mem, a) = Content(a)
<1>1. a \notin DOMAIN mem
  BY Zenon DEF Beyond, Outside
<1> QED BY Zenon, <1>1, LoadContent

LEMMA ArmInMem ==
  ASSUME NEW at \in Int, NEW h \in Int, NEW k \in Int, NEW items, items = <<<<h, k>>>>,
         NEW mem, mem = At(at, items)
  PROVE  SizeOf(items) = 4 /\ TwoAt(mem, at, h, k) /\ Outside(mem, at, 4)
<1>1. Puts(items, <<h, k>>)
  BY Zenon, PutsTwo
<1>2. Sits2(items, mem, at, h, k)
  BY Zenon, <1>1, InTwo
<1> QED BY Zenon, <1>2 DEF TwoAt, Sits2

LEMMA ArmDoes ==
  ASSUME NEW x, NEW at \in Int, NEW r, IsAt(x, at, 0, r, << >>), NEW items, NEW mem,
         mem = At(at, items),
         at \in DOMAIN mem, NEW n, Outside(mem, at, n),
         NEW g, NEW p, NEW u, NEW s, NEW ram, IsAt(Step(x, mem), p, u, s, ram),
         IsAt(g, p, u, s, ram),
         Beyond(p, at, n)
  PROVE  Does(x, at, items, g)
<1>1. x.pc = at
  BY DEF IsAt
<1>2. p \notin DOMAIN mem
  BY Zenon DEF Beyond, Outside
<1> QED BY Zenon, <1>1, <1>2, DoesOne

LEMMA ArmDoesNop ==
  ASSUME NEW x, NEW at \in Int, NEW r, IsAt(x, at, 0, r, << >>), NEW items, PutsArmNop(items)
  PROVE  SizeOf(items) = 4 /\ Does(x, at, items, Skip(x, 4))
<1>1. PICK h \in Int, k \in Int :
        /\ items = <<<<h, k>>>>
        /\ \A mem, c : TwoAt(mem, c, h, k) => ArmNopIn(mem, c)
  BY Zenon DEF PutsArmNop
<1>m. PICK mem : mem = At(at, items)
  OBVIOUS
<1>2. SizeOf(items) = 4 /\ TwoAt(mem, at, h, k) /\ Outside(mem, at, 4)
  BY Zenon, <1>1, <1>m, ArmInMem
<1>3. ArmNopIn(mem, at)
  BY Zenon, <1>1, <1>2
<1> DEFINE p == at + 4
           s == r
           ram == << >>
<1>4. IsAt(Step(x, mem), p, 0, s, ram)
  BY Zenon, <1>3, RunArmNop
<1>5. IsAt(Skip(x, 4), p, 0, s, ram)
  BY Zenon, AtSkip
<1>6. Beyond(p, at, 4)
  BY NextIsBeyond
<1>7. at \in DOMAIN mem
  BY Zenon, <1>2 DEF TwoAt
<1> HIDE DEF p, s, ram
<1> QED BY Zenon, <1>2, <1>4, <1>5, <1>6, <1>7, <1>m, ArmDoes

LEMMA ArmDoesAdd ==
  ASSUME NEW x, NEW at \in Int, NEW r, IsAt(x, at, 0, r, << >>), NEW items, NEW minus,
         NEW d \in 0..14, NEW n, NEW v, PutsAdd(items, minus, d, n, v)
  PROVE  SizeOf(items) = 4 /\ Does(x, at, items, Set(x, d, Moved(minus, Reg(x, n), v), 4))
<1>1. PICK h \in Int, k \in Int :
        /\ items = <<<<h, k>>>>
        /\ \A mem, c : TwoAt(mem, c, h, k) => ArmAddIn(mem, c, minus, d, n, v)
  BY Zenon DEF PutsAdd
<1>m. PICK mem : mem = At(at, items)
  OBVIOUS
<1>2. SizeOf(items) = 4 /\ TwoAt(mem, at, h, k) /\ Outside(mem, at, 4)
  BY Zenon, <1>1, <1>m, ArmInMem
<1>3. ArmAddIn(mem, at, minus, d, n, v)
  BY Zenon, <1>1, <1>2
<1> DEFINE p == at + 4
           s == [r EXCEPT ![d] = Moved(minus, Reg(x, n), v)]
           ram == << >>
<1>4. IsAt(Step(x, mem), p, 0, s, ram)
  BY Zenon, <1>3, RunArmAdd
<1>5. IsAt(Set(x, d, Moved(minus, Reg(x, n), v), 4), p, 0, s, ram)
  BY Zenon, AtSet
<1>6. Beyond(p, at, 4)
  BY NextIsBeyond
<1>7. at \in DOMAIN mem
  BY Zenon, <1>2 DEF TwoAt
<1> HIDE DEF p, s, ram
<1> QED BY Zenon, <1>2, <1>4, <1>5, <1>6, <1>7, <1>m, ArmDoes

LEMMA ArmDoesLdr ==
  ASSUME NEW x, NEW at \in Int, NEW r, IsAt(x, at, 0, r, << >>), NEW items, NEW a \in 0..14,
         NEW b \in 0..14, NEW v \in Int, Beyond(r[b] + v, at, 4),
         PutsMove(items, 1, a, b, v, 1, 0)
  PROVE  SizeOf(items) = 4 /\ Does(x, at, items, Set(x, a, Content(r[b] + v), 4))
<1>1. PICK h \in Int, k \in Int :
        /\ items = <<<<h, k>>>>
        /\ \A mem, c : TwoAt(mem, c, h, k) => ArmMoves(mem, c, 1, a, b, v, 1, 0)
  BY Zenon DEF PutsMove
<1>m. PICK mem : mem = At(at, items)
  OBVIOUS
<1>2. SizeOf(items) = 4 /\ TwoAt(mem, at, h, k) /\ Outside(mem, at, 4)
  BY Zenon, <1>1, <1>m, ArmInMem
<1>3. ArmMoves(mem, at, 1, a, b, v, 1, 0)
  BY Zenon, <1>1, <1>2
<1> DEFINE p == at + 4
           s == [r EXCEPT ![a] = Content(r[b] + v)]
           ram == << >>
<1>4. IsAt(Step(x, mem), p, 0, s, ram)
  <2>2. Load(x, mem, r[b] + v) = Content(r[b] + v)
    BY Zenon, <1>2, BeyondRead
  <2>3. IsAt(Step(x, mem), at + 4, 0, [r EXCEPT ![a] = Load(x, mem, r[b] + v)], << >>)
    BY Zenon, <1>3, RunArmLdr
  <2> QED BY Zenon, <2>2, <2>3
<1>5. IsAt(Set(x, a, Content(r[b] + v), 4), p, 0, s, ram)
  BY Zenon, AtSet
<1>6. Beyond(p, at, 4)
  BY NextIsBeyond
<1>7. at \in DOMAIN mem
  BY Zenon, <1>2 DEF TwoAt
<1> HIDE DEF p, s, ram
<1> QED BY Zenon, <1>2, <1>4, <1>5, <1>6, <1>7, <1>m, ArmDoes

LEMMA ArmDoesLiteral ==
  ASSUME NEW x, NEW at \in Int, NEW r, IsAt(x, at, 0, r, << >>), NEW items, OnWord(at),
         NEW a \in 0..14, NEW v \in Int, Beyond(at + 8 + v, at, 4),
         PutsMove(items, 1, a, 15, v, 1, 0)
  PROVE  SizeOf(items) = 4 /\ Does(x, at, items, Set(x, a, Content(at + 8 + v), 4))
<1>1. PICK h \in Int, k \in Int :
        /\ items = <<<<h, k>>>>
        /\ \A mem, c : TwoAt(mem, c, h, k) => ArmMoves(mem, c, 1, a, 15, v, 1, 0)
  BY Zenon DEF PutsMove
<1>m. PICK mem : mem = At(at, items)
  OBVIOUS
<1>2. SizeOf(items) = 4 /\ TwoAt(mem, at, h, k) /\ Outside(mem, at, 4)
  BY Zenon, <1>1, <1>m, ArmInMem
<1>3. ArmMoves(mem, at, 1, a, 15, v, 1, 0)
  BY Zenon, <1>1, <1>2
<1> DEFINE p == at + 4
           s == [r EXCEPT ![a] = Content(at + 8 + v)]
           ram == << >>
<1>4. IsAt(Step(x, mem), p, 0, s, ram)
  <2>2. Load(x, mem, at + 8 + v) = Content(at + 8 + v)
    BY Zenon, <1>2, BeyondRead
  <2>3. IsAt(Step(x, mem), at + 4, 0, [r EXCEPT ![a] = Load(x, mem, at + 8 + v)], << >>)
    BY Zenon, <1>3, RunArmLiteral
  <2> QED BY Zenon, <2>2, <2>3
<1>5. IsAt(Set(x, a, Content(at + 8 + v), 4), p, 0, s, ram)
  BY Zenon, AtSet
<1>6. Beyond(p, at, 4)
  BY NextIsBeyond
<1>7. at \in DOMAIN mem
  BY Zenon, <1>2 DEF TwoAt
<1> HIDE DEF p, s, ram
<1> QED BY Zenon, <1>2, <1>4, <1>5, <1>6, <1>7, <1>m, ArmDoes

LEMMA ArmDoesStr ==
  ASSUME NEW x, NEW at \in Int, NEW r, IsAt(x, at, 0, r, << >>), NEW items, NEW a \in 0..14,
         NEW b \in 0..14, NEW v \in Int, PutsMove(items, 0, a, b, v, 1, 0)
  PROVE  SizeOf(items) = 4 /\ Does(x, at, items, Store(Skip(x, 4), r[b] + v, r[a]))
<1>1. PICK h \in Int, k \in Int :
        /\ items = <<<<h, k>>>>
        /\ \A mem, c : TwoAt(mem, c, h, k) => ArmMoves(mem, c, 0, a, b, v, 1, 0)
  BY Zenon DEF PutsMove
<1>m. PICK mem : mem = At(at, items)
  OBVIOUS
<1>2. SizeOf(items) = 4 /\ TwoAt(mem, at, h, k) /\ Outside(mem, at, 4)
  BY Zenon, <1>1, <1>m, ArmInMem
<1>3. ArmMoves(mem, at, 0, a, b, v, 1, 0)
  BY Zenon, <1>1, <1>2
<1> DEFINE p == at + 4
           s == r
           ram == Stored(<< >>, r[b] + v, r[a])
<1>4. IsAt(Step(x, mem), p, 0, s, ram)
  BY Zenon, <1>3, RunArmStr
<1>5. IsAt(Store(Skip(x, 4), r[b] + v, r[a]), p, 0, s, ram)
  BY Zenon, AtSkip, AtStore
<1>6. Beyond(p, at, 4)
  BY NextIsBeyond
<1>7. at \in DOMAIN mem
  BY Zenon, <1>2 DEF TwoAt
<1> HIDE DEF p, s, ram
<1> QED BY Zenon, <1>2, <1>4, <1>5, <1>6, <1>7, <1>m, ArmDoes

\* A load that changes the register of its address
ArmIndexed(x, at, r, items, a, b, v, index, access) ==
  /\ at \in Int /\ IsAt(x, at, 0, r, << >>) /\ a \in 0..14 /\ b \in 0..14 /\ a # b /\ v \in Int
  /\ index \in {0, 1} /\ r[b] \in Int /\ access = r[b] + (IF index = 1 THEN v ELSE 0)
  /\ Beyond(access, at, 4) /\ PutsMove(items, 1, a, b, v, index, 1)

LEMMA StepArmIndexed ==
  ASSUME NEW x, NEW at, NEW r, NEW items, NEW a, NEW b, NEW v, NEW index, NEW access,
         ArmIndexed(x, at, r, items, a, b, v, index, access), NEW mem,
         ArmMoves(mem, at, 1, a, b, v, index, 1)
  PROVE  IsAt(Step(x, mem), at + 4, 0,
              [[r EXCEPT ![b] = r[b] + v] EXCEPT ![a] = Load(x, mem, access)], << >>)
<1>1. /\ at \in Int /\ IsAt(x, at, 0, r, << >>) /\ a \in 0..14 /\ b \in 0..14 /\ v \in Int
      /\ index \in {0, 1} /\ r[b] \in Int
  BY Zenon DEF ArmIndexed
<1>2. access = r[b] + (IF index = 1 THEN v ELSE 0)
  BY Zenon DEF ArmIndexed
<1>3. IsAt(Step(x, mem), at + 4, 0,
           [[r EXCEPT ![b] = r[b] + v]
              EXCEPT ![a] = Load(x, mem, r[b] + (IF index = 1 THEN v ELSE 0))], << >>)
  BY ZenonT(30), <1>1, RunArmLdrIndex
<1> QED BY Zenon, <1>2, <1>3

LEMMA ArmDoesLdrIndex ==
  ASSUME NEW x, NEW at, NEW r, NEW items, NEW a, NEW b, NEW v, NEW index, NEW access,
         ArmIndexed(x, at, r, items, a, b, v, index, access)
  PROVE  /\ SizeOf(items) = 4
         /\ Does(x, at, items, [Set(x, a, Content(access), 4) EXCEPT !.r[b] = r[b] + v])
<1>a. /\ at \in Int /\ IsAt(x, at, 0, r, << >>) /\ a \in 0..14 /\ b \in 0..14 /\ a # b /\ v \in Int
      /\ index \in {0, 1} /\ r[b] \in Int /\ access = r[b] + (IF index = 1 THEN v ELSE 0)
      /\ Beyond(access, at, 4) /\ PutsMove(items, 1, a, b, v, index, 1)
  BY Zenon DEF ArmIndexed
<1> USE <1>a
<1>1. PICK h \in Int, k \in Int :
        /\ items = <<<<h, k>>>>
        /\ \A mem, c : TwoAt(mem, c, h, k) => ArmMoves(mem, c, 1, a, b, v, index, 1)
  BY Zenon DEF PutsMove
<1>m. PICK mem : mem = At(at, items)
  OBVIOUS
<1>2. SizeOf(items) = 4 /\ TwoAt(mem, at, h, k) /\ Outside(mem, at, 4)
  BY Zenon, <1>1, <1>m, ArmInMem
<1>3. ArmMoves(mem, at, 1, a, b, v, index, 1)
  BY Zenon, <1>1, <1>2
<1> DEFINE p == at + 4
           s == [[r EXCEPT ![b] = r[b] + v] EXCEPT ![a] = Content(access)]
           ram == << >>
<1>4. IsAt(Step(x, mem), p, 0, s, ram)
  <2>2. Load(x, mem, access) = Content(access)
    BY Zenon, <1>2, BeyondRead
  <2>3. IsAt(Step(x, mem), at + 4, 0,
             [[r EXCEPT ![b] = r[b] + v] EXCEPT ![a] = Load(x, mem, access)], << >>)
    BY Zenon, <1>3, StepArmIndexed
  <2> QED BY Zenon, <2>2, <2>3
<1>5. IsAt([Set(x, a, Content(access), 4) EXCEPT !.r[b] = r[b] + v], p, 0, s, ram)
  <2>1. IsAt(Set(x, a, Content(access), 4), at + 4, 0, [r EXCEPT ![a] = Content(access)], << >>)
    BY Zenon, AtSet
  <2>2. [[r EXCEPT ![a] = Content(access)] EXCEPT ![b] = r[b] + v] = s
    BY Zenon, ExceptSwap
  <2>3. IsAt([Set(x, a, Content(access), 4) EXCEPT !.r[b] = r[b] + v], at + 4, 0,
             [[r EXCEPT ![a] = Content(access)] EXCEPT ![b] = r[b] + v], << >>)
    BY Zenon, <2>1, AtAssign
  <2> QED BY Zenon, <2>2, <2>3
<1>6. Beyond(p, at, 4)
  BY NextIsBeyond
<1>7. at \in DOMAIN mem
  BY Zenon, <1>2 DEF TwoAt
<1> HIDE DEF p, s, ram
<1> QED BY Zenon, <1>2, <1>4, <1>5, <1>6, <1>7, <1>m, ArmDoes

LEMMA ArmDoesStrIndex ==
  ASSUME NEW x, NEW at \in Int, NEW r, IsAt(x, at, 0, r, << >>), NEW items, NEW a \in 0..14,
         NEW b \in 0..14, NEW v \in Int, r[b] \in Int, PutsMove(items, 0, a, b, v, 1, 1)
  PROVE  /\ SizeOf(items) = 4
         /\ Does(x, at, items, Store([Skip(x, 4) EXCEPT !.r[b] = r[b] + v], r[b] + v, r[a]))
<1>1. PICK h \in Int, k \in Int :
        /\ items = <<<<h, k>>>>
        /\ \A mem, c : TwoAt(mem, c, h, k) => ArmMoves(mem, c, 0, a, b, v, 1, 1)
  BY Zenon DEF PutsMove
<1>m. PICK mem : mem = At(at, items)
  OBVIOUS
<1>2. SizeOf(items) = 4 /\ TwoAt(mem, at, h, k) /\ Outside(mem, at, 4)
  BY Zenon, <1>1, <1>m, ArmInMem
<1>3. ArmMoves(mem, at, 0, a, b, v, 1, 1)
  BY Zenon, <1>1, <1>2
<1> DEFINE p == at + 4
           s == [r EXCEPT ![b] = r[b] + v]
           ram == Stored(<< >>, r[b] + v, r[a])
<1>4. IsAt(Step(x, mem), p, 0, s, ram)
  <2>1. PICK index \in {0, 1} : index = 1
    OBVIOUS
  <2>2. ArmMoves(mem, at, 0, a, b, v, index, 1)
    BY Zenon, <1>3, <2>1
  <2>3. IsAt(Step(x, mem), at + 4, 0, [r EXCEPT ![b] = r[b] + v],
             Stored(<< >>, r[b] + (IF index = 1 THEN v ELSE 0), r[a]))
    BY Zenon, <2>2, RunArmStrIndex
  <2>4. (IF index = 1 THEN v ELSE 0) = v
    BY Zenon, <2>1
  <2> QED BY Zenon, <2>3, <2>4
<1>5. IsAt(Store([Skip(x, 4) EXCEPT !.r[b] = r[b] + v], r[b] + v, r[a]), p, 0, s, ram)
  BY Zenon, AtSkip, AtAssign, AtStore
<1>6. Beyond(p, at, 4)
  BY NextIsBeyond
<1>7. at \in DOMAIN mem
  BY Zenon, <1>2 DEF TwoAt
<1> HIDE DEF p, s, ram
<1> QED BY Zenon, <1>2, <1>4, <1>5, <1>6, <1>7, <1>m, ArmDoes

LEMMA ArmDoesBx ==
  ASSUME NEW x, NEW at \in Int, NEW r, IsAt(x, at, 0, r, << >>), NEW items, NEW a \in 0..14,
         r[a] \in Int, Beyond(r[a] - (r[a] % 2), at, 4), PutsBx(items, a)
  PROVE  SizeOf(items) = 4 /\ Does(x, at, items, Interwork(x, r[a]))
<1>1. PICK h \in Int, k \in Int :
        /\ items = <<<<h, k>>>>
        /\ \A mem, c : TwoAt(mem, c, h, k) => ArmBxIn(mem, c, a)
  BY Zenon DEF PutsBx
<1>m. PICK mem : mem = At(at, items)
  OBVIOUS
<1>2. SizeOf(items) = 4 /\ TwoAt(mem, at, h, k) /\ Outside(mem, at, 4)
  BY Zenon, <1>1, <1>m, ArmInMem
<1>3. ArmBxIn(mem, at, a)
  BY Zenon, <1>1, <1>2
<1> DEFINE p == r[a] - (r[a] % 2)
           s == r
           ram == << >>
<1>4. IsAt(Step(x, mem), p, r[a] % 2, s, ram)
  BY Zenon, <1>3, RunArmBx
<1>5. IsAt(Interwork(x, r[a]), p, r[a] % 2, s, ram)
  BY Zenon, AtInterwork
<1>6. Beyond(p, at, 4)
  OBVIOUS
<1>7. at \in DOMAIN mem
  BY Zenon, <1>2 DEF TwoAt
<1> HIDE DEF p, s, ram
<1> QED BY Zenon, <1>2, <1>4, <1>5, <1>6, <1>7, <1>m, ArmDoes

LEMMA ArmDoesB ==
  ASSUME NEW x, NEW at \in Int, NEW r, IsAt(x, at, 0, r, << >>), NEW items, NEW w \in Int, NEW v,
         v = 4 * w, w # -2, PutsB(items, w)
  PROVE  SizeOf(items) = 4 /\ Does(x, at, items, Goto(x, at + 8 + v))
<1>1. PICK h \in Int, k \in Int :
        /\ items = <<<<h, k>>>>
        /\ \A mem, c : TwoAt(mem, c, h, k) => ArmBranchIn(mem, c, w, 0)
  BY Zenon DEF PutsB
<1>m. PICK mem : mem = At(at, items)
  OBVIOUS
<1>2. SizeOf(items) = 4 /\ TwoAt(mem, at, h, k) /\ Outside(mem, at, 4)
  BY Zenon, <1>1, <1>m, ArmInMem
<1>3. ArmBranchIn(mem, at, w, 0)
  BY Zenon, <1>1, <1>2
<1> DEFINE p == at + 8 + v
           s == r
           ram == << >>
<1>4. IsAt(Step(x, mem), p, 0, s, ram)
  BY Zenon, <1>3, RunArmB
<1>5. IsAt(Goto(x, at + 8 + v), p, 0, s, ram)
  BY Zenon, AtGoto
<1>6. Beyond(p, at, 4)
  BY SMT DEF Beyond
<1>7. at \in DOMAIN mem
  BY Zenon, <1>2 DEF TwoAt
<1> HIDE DEF p, s, ram
<1> QED BY Zenon, <1>2, <1>4, <1>5, <1>6, <1>7, <1>m, ArmDoes

LEMMA ArmDoesLdrPC ==
  ASSUME NEW x, NEW at \in Int, OnWord(at), NEW r, IsAt(x, at, 0, r, << >>), NEW v, Wordly(v),
         Beyond(v - (v % 2), at, 8), NEW items, items = arm_put_ldr_reg_address(PC, v)
  PROVE  SizeOf(items) = 8 /\ Does(x, at, items, Interwork(x, v))
<1>0. PICK u \in Int : u = -4 /\ TwelveSigned(u)
  BY SMT DEF TwelveSigned, ABS
<1>a. PC \in 0..15 /\ PC = 15
  BY SMT DEF PC
<1>1. PutsMove(arm_put_ldr_reg_reg_imm(PC, PC, u), 1, PC, 15, u, 1, 0)
  BY Zenon, <1>0, <1>a, PutsArmLiteral
<1>2. PICK h \in Int, k \in Int :
        /\ arm_put_ldr_reg_reg_imm(PC, PC, u) = <<<<h, k>>>>
        /\ \A mem, a : TwoAt(mem, a, h, k) => ArmMoves(mem, a, 1, PC, 15, u, 1, 0)
  BY Zenon, <1>1 DEF PutsMove
<1>3. items = <<<<h, k>>>> \o <<Word(v)>>
  BY Zenon, <1>0, <1>2 DEF arm_put_ldr_reg_address, arm_put_bytes
<1>4. Puts(items, <<h, k, LowHalf(v), HighHalf(v)>>)
  <2>1. Puts(<<Word(v)>>, <<LowHalf(v), HighHalf(v)>>)
    BY Zenon, PutsWord
  <2>2. Puts(<<<<h, k>>>>, <<h, k>>)
    BY Zenon, PutsTwo
  <2> QED BY Zenon, <1>3, <2>1, <2>2, Join2and2
<1>m. PICK mem : mem = At(at, items)
  OBVIOUS
<1>5. /\ SizeOf(items) = 8 /\ Outside(mem, at, 8) /\ at \in DOMAIN mem /\ mem[at] = h
      /\ at + 2 \in DOMAIN mem /\ mem[at + 2] = k
      /\ at + 4 \in DOMAIN mem /\ mem[at + 4] = LowHalf(v)
      /\ at + 6 \in DOMAIN mem /\ mem[at + 6] = HighHalf(v)
  <2>1. Sits4(items, mem, at, h, k, LowHalf(v), HighHalf(v))
    BY Zenon, <1>4, <1>m, In4
  <2> QED BY Zenon, <2>1 DEF Sits4
<1>6. ArmMoves(mem, at, 1, PC, 15, u, 1, 0)
  <2>1. TwoAt(mem, at, h, k)
    BY Zenon, <1>5 DEF TwoAt
  <2> QED BY Zenon, <1>2, <2>1
<1>7. Step(x, mem) = Interwork(x, Load(x, mem, at + 8 + u))
  <2>1. ArmMoves(mem, at, 1, 15, 15, u, 1, 0)
    BY Zenon, <1>6, <1>a
  <2> QED BY ZenonT(30), <2>1, RunArmLiteralPC
<1>8. Load(x, mem, at + 8 + u) = v
  <2>1. at + 8 + u = at + 4
    BY SMT, <1>0
  <2>2. WordAt(mem, at + 4, v)
    <3>1. at + 4 + 2 = at + 6
      BY SMT
    <3> QED BY Zenon, <1>5, <3>1 DEF WordAt
  <2> QED BY Zenon, <2>1, <2>2, LoadWord
<1>f. v \in Int
  BY DEF Wordly
<1>9. IsAt(Interwork(x, v), v - (v % 2), v % 2, r, << >>)
  BY Zenon, <1>f, AtInterwork
<1> QED BY Zenon, <1>5, <1>7, <1>8, <1>9, <1>m, ArmDoes

LEMMA ArmDoesLdrB ==
  ASSUME NEW x, NEW at \in Int, OnWord(at), NEW r, IsAt(x, at, 0, r, << >>), NEW a \in 0..14,
         NEW v, Wordly(v), NEW items, items = arm_put_ldr_b_reg_address(a, v)
  PROVE  SizeOf(items) = 12 /\ Does(x, at, items, Set(x, a, v, 12))
<1>0. PICK u \in Int : u = 0 /\ TwelveSigned(u) /\ Branch24(u) /\ u = 4 * u
  BY SMT DEF TwelveSigned, ABS, Branch24
<1>a. a \in 0..15
  BY SMT
<1>1. PutsMove(arm_put_ldr_reg_reg_imm(a, PC, u), 1, a, 15, u, 1, 0) /\ PutsB(arm_put_b_imm(u), u)
  BY Zenon, <1>0, <1>a, PutsArmLiteral, PutsArmB
<1>2. PICK h \in Int, k \in Int :
        /\ arm_put_ldr_reg_reg_imm(a, PC, u) = <<<<h, k>>>>
        /\ \A mem, c : TwoAt(mem, c, h, k) => ArmMoves(mem, c, 1, a, 15, u, 1, 0)
  BY Zenon, <1>1 DEF PutsMove
<1>b. PICK l \in Int, n \in Int :
        /\ arm_put_b_imm(u) = <<<<l, n>>>>
        /\ \A mem, c : TwoAt(mem, c, l, n) => ArmBranchIn(mem, c, u, 0)
  BY Zenon, <1>1 DEF PutsB
<1>3. items = <<<<h, k>>>> \o <<<<l, n>>>> \o <<Word(v)>>
  BY Zenon, <1>0, <1>2, <1>b DEF arm_put_ldr_b_reg_address, arm_put_bytes
<1>4. Puts(items, <<h, k, l, n, LowHalf(v), HighHalf(v)>>)
  <2>1. Puts(<<Word(v)>>, <<LowHalf(v), HighHalf(v)>>)
    BY Zenon, PutsWord
  <2>2. Puts(<<<<h, k>>>>, <<h, k>>) /\ Puts(<<<<l, n>>>>, <<l, n>>)
    BY Zenon, PutsTwo
  <2>3. Puts(<<<<h, k>>>> \o <<<<l, n>>>>, <<h, k, l, n>>)
    BY Zenon, <2>2, Join2and2
  <2> QED BY Zenon, <1>3, <2>1, <2>3, Join4and2
<1>m. PICK mem : mem = At(at, items)
  OBVIOUS
<1>5. /\ SizeOf(items) = 12 /\ Outside(mem, at, 12) /\ at \in DOMAIN mem /\ mem[at] = h
      /\ at + 2 \in DOMAIN mem /\ mem[at + 2] = k
      /\ at + 4 \in DOMAIN mem /\ mem[at + 4] = l
      /\ at + 6 \in DOMAIN mem /\ mem[at + 6] = n
      /\ at + 8 \in DOMAIN mem /\ mem[at + 8] = LowHalf(v)
      /\ at + 10 \in DOMAIN mem /\ mem[at + 10] = HighHalf(v)
  <2>1. Sits6(items, mem, at, h, k, l, n, LowHalf(v), HighHalf(v))
    BY Zenon, <1>4, <1>m, In6
  <2> QED BY Zenon, <2>1 DEF Sits6
<1>6. ArmMoves(mem, at, 1, a, 15, u, 1, 0)
  <2>1. TwoAt(mem, at, h, k)
    BY Zenon, <1>5 DEF TwoAt
  <2> QED BY Zenon, <1>2, <2>1
<1>7. PICK y : y = Step(x, mem)
  OBVIOUS
<1>8. Load(x, mem, at + 8 + u) = v
  <2>1. at + 8 + u = at + 8
    BY SMT, <1>0
  <2>2. WordAt(mem, at + 8, v)
    <3>1. at + 8 + 2 = at + 10
      BY SMT
    <3> QED BY Zenon, <1>5, <3>1 DEF WordAt
  <2> QED BY Zenon, <2>1, <2>2, LoadWord
<1> DEFINE s == [r EXCEPT ![a] = v]
<1>9. IsAt(y, at + 4, 0, s, << >>)
  <2>1. IsAt(Step(x, mem), at + 4, 0, [r EXCEPT ![a] = Load(x, mem, at + 8 + u)], << >>)
    BY Zenon, <1>6, RunArmLiteral
  <2> QED BY Zenon, <1>7, <1>8, <2>1
<1>10. ArmBranchIn(mem, at + 4, u, 0)
  <2>1. TwoAt(mem, at + 4, l, n)
    <3>1. at + 4 + 2 = at + 6
      BY SMT
    <3> QED BY Zenon, <1>5, <3>1 DEF TwoAt
  <2> QED BY Zenon, <1>b, <2>1
<1> HIDE DEF s
<1>11. IsAt(Step(y, mem), at + 12, 0, s, << >>)
  <2>1. at + 4 \in Int /\ at + 4 + 8 + u = at + 12
    BY SMT, <1>0
  <2>2. IsAt(Step(y, mem), at + 4 + 8 + u, 0, s, << >>)
    BY Zenon, <1>0, <1>9, <1>10, <2>1, RunArmB
  <2> QED BY Zenon, <2>1, <2>2
<1>12. IsAt(Set(x, a, v, 12), at + 12, 0, s, << >>)
  BY Zenon, AtSet DEF s
<1>13. at + 12 \notin DOMAIN mem
  BY SMT, <1>5 DEF Outside
<1>x. x.pc = at
  BY DEF IsAt
<1> QED BY Zenon, <1>5, <1>7, <1>9, <1>11, <1>12, <1>13, <1>x, <1>m, DoesTwo

LEMMA StoredFirst ==
  ASSUME NEW a, NEW v, NEW ram
  PROVE  a \in DOMAIN Stored(ram, a, v) /\ Stored(ram, a, v)[a] = v
  BY SMT DEF Stored

LEMMA StoredBefore ==
  ASSUME NEW a, NEW v, NEW ram, NEW b \in DOMAIN ram, a # b
  PROVE  b \in DOMAIN Stored(ram, a, v) /\ Stored(ram, a, v)[b] = ram[b]
  BY SMT DEF Stored

LEMMA ReachSix ==
  ASSUME NEW mem, NEW g, NEW x, x.pc \in DOMAIN mem,
         NEW y1, y1 = Step(x, mem), y1.pc \in DOMAIN mem, NEW y2, y2 = Step(y1, mem),
         y2.pc \in DOMAIN mem,
         NEW y3, y3 = Step(y2, mem), y3.pc \in DOMAIN mem, NEW y4, y4 = Step(y3, mem),
         y4.pc \in DOMAIN mem,
         NEW y5, y5 = Step(y4, mem), y5.pc \in DOMAIN mem, Reach0(Step(y5, mem), mem, g)
  PROVE  Reach6(x, mem, g)
<1>1. Reach1(y5, mem, g)
  BY Zenon DEF Reach1
<1>2. Reach2(y4, mem, g)
  BY Zenon, <1>1 DEF Reach2
<1>3. Reach3(y3, mem, g)
  BY Zenon, <1>2 DEF Reach3
<1>4. Reach4(y2, mem, g)
  BY Zenon, <1>3 DEF Reach4
<1>5. Reach5(y1, mem, g)
  BY Zenon, <1>4 DEF Reach5
<1> QED BY Zenon, <1>5 DEF Reach6

\* What the six instructions of arm_put_bx_to_thumb are, and where
BxToThumbAt(mem, at) ==
  /\ ArmAddIn(mem, at, 1, 13, 13, 8) /\ ArmMoves(mem, at + 4, 0, 1, 13, 0, 1, 0)
  /\ ArmAddIn(mem, at + 8, 0, 1, 15, 9) /\ ArmMoves(mem, at + 12, 0, 1, 13, 4, 1, 0)
  /\ ArmMoves(mem, at + 16, 1, 1, 13, 4, 0, 1) /\ ArmMoves(mem, at + 20, 1, 15, 13, 4, 0, 1)

LEMMA BxToThumbIs ==
  ASSUME NEW at \in Int, NEW mem, mem = At(at, arm_put_bx_to_thumb)
  PROVE  /\ SizeOf(arm_put_bx_to_thumb) = 24 /\ Outside(mem, at, 24) /\ BxToThumbAt(mem, at)
         /\ at \in DOMAIN mem /\ at + 4 \in DOMAIN mem /\ at + 8 \in DOMAIN mem
         /\ at + 12 \in DOMAIN mem /\ at + 16 \in DOMAIN mem /\ at + 20 \in DOMAIN mem
<1> DEFINE items == arm_put_bx_to_thumb
<1>s. /\ SP = 13 /\ PC = 15 /\ 1 \in 0..14 /\ 13 \in 0..14 /\ 13 \in 0..15 /\ 15 \in 0..15
      /\ 1 \in 0..15
      /\ 0 \in {0, 1}
  BY SMT DEF SP, PC
<1>n. /\ 8 \in Nat /\ 9 \in Nat /\ 0 \in Nat /\ 4 \in Nat /\ 4 \in Int
      /\ Eight(8) /\ Eight(9) /\ Twelve(0) /\ Twelve(4) /\ TwelveSigned(4)
  BY SMT DEF Eight, Twelve, TwelveSigned, ABS
<1>a1. PICK h1 \in Int, k1 \in Int :
         /\ arm_put_sub_reg_reg_imm(SP, SP, 8) = <<<<h1, k1>>>>
         /\ \A c, a : TwoAt(c, a, h1, k1) => ArmAddIn(c, a, 1, 13, 13, 8)
  <2>1. PutsAdd(arm_put_sub_reg_reg_imm(SP, SP, 8), 1, 13, 13, 8)
    BY Zenon, <1>s, <1>n, PutsArmAdd
  <2> QED BY Zenon, <2>1 DEF PutsAdd
<1>a2. PICK h2 \in Int, k2 \in Int :
         /\ arm_put_str_reg_reg_imm(1, SP, 0) = <<<<h2, k2>>>>
         /\ \A c, a : TwoAt(c, a, h2, k2) => ArmMoves(c, a, 0, 1, 13, 0, 1, 0)
  <2>1. PutsMove(arm_put_str_reg_reg_imm(1, SP, 0), 0, 1, 13, 0, 1, 0)
    BY Zenon, <1>s, <1>n, PutsArmStr
  <2> QED BY Zenon, <2>1 DEF PutsMove
<1>a3. PICK h3 \in Int, k3 \in Int :
         /\ arm_put_add_reg_reg_imm(1, PC, 9) = <<<<h3, k3>>>>
         /\ \A c, a : TwoAt(c, a, h3, k3) => ArmAddIn(c, a, 0, 1, 15, 9)
  <2>1. PutsAdd(arm_put_add_reg_reg_imm(1, PC, 9), 0, 1, 15, 9)
    BY Zenon, <1>s, <1>n, PutsArmAdd
  <2> QED BY Zenon, <2>1 DEF PutsAdd
<1>a4. PICK h4 \in Int, k4 \in Int :
         /\ arm_put_str_reg_reg_imm(1, SP, 4) = <<<<h4, k4>>>>
         /\ \A c, a : TwoAt(c, a, h4, k4) => ArmMoves(c, a, 0, 1, 13, 4, 1, 0)
  <2>1. PutsMove(arm_put_str_reg_reg_imm(1, SP, 4), 0, 1, 13, 4, 1, 0)
    BY Zenon, <1>s, <1>n, PutsArmStr
  <2> QED BY Zenon, <2>1 DEF PutsMove
<1>a5. PICK h5 \in Int, k5 \in Int :
         /\ arm_put_ldr_reg_reg_imm_index(1, SP, 4, 0) = <<<<h5, k5>>>>
         /\ \A c, a : TwoAt(c, a, h5, k5) => ArmMoves(c, a, 1, 1, 13, 4, 0, 1)
  <2>1. PutsMove(arm_put_ldr_reg_reg_imm_index(1, SP, 4, 0), 1, 1, 13, 4, 0, 1)
    BY Zenon, <1>s, <1>n, PutsArmLdrIndex
  <2> QED BY Zenon, <2>1 DEF PutsMove
<1>a6. PICK h6 \in Int, k6 \in Int :
         /\ arm_put_ldr_reg_reg_imm_index(PC, SP, 4, 0) = <<<<h6, k6>>>>
         /\ \A c, a : TwoAt(c, a, h6, k6) => ArmMoves(c, a, 1, 15, 13, 4, 0, 1)
  <2>1. PutsMove(arm_put_ldr_reg_reg_imm_index(PC, SP, 4, 0), 1, 15, 13, 4, 0, 1)
    BY Zenon, <1>s, <1>n, PutsArmLdrIndex
  <2> QED BY Zenon, <2>1 DEF PutsMove
<1>1. items = <<<<h1, k1>>>> \o <<<<h2, k2>>>> \o <<<<h3, k3>>>>
                  \o <<<<h4, k4>>>> \o <<<<h5, k5>>>> \o <<<<h6, k6>>>>
  BY Zenon, <1>a1, <1>a2, <1>a3, <1>a4, <1>a5, <1>a6 DEF arm_put_bx_to_thumb
<1> HIDE DEF items
<1>2. Puts(items, <<h1, k1, h2, k2, h3, k3, h4, k4, h5, k5, h6, k6>>)
  <2>1. /\ Puts(<<<<h1, k1>>>>, <<h1, k1>>)
        /\ Puts(<<<<h2, k2>>>>, <<h2, k2>>)
        /\ Puts(<<<<h3, k3>>>>, <<h3, k3>>)
        /\ Puts(<<<<h4, k4>>>>, <<h4, k4>>)
        /\ Puts(<<<<h5, k5>>>>, <<h5, k5>>)
        /\ Puts(<<<<h6, k6>>>>, <<h6, k6>>)
    BY Zenon, PutsTwo
  <2>2. Puts(<<<<h1, k1>>>> \o <<<<h2, k2>>>>,
            <<h1, k1, h2, k2>>)
    BY Zenon, <2>1, Join2and2
  <2>3. Puts(<<<<h1, k1>>>> \o <<<<h2, k2>>>> \o <<<<h3, k3>>>>,
            <<h1, k1, h2, k2, h3, k3>>)
    BY Zenon, <2>1, <2>2, Join4and2
  <2>4. Puts(<<<<h1, k1>>>> \o <<<<h2, k2>>>> \o <<<<h3, k3>>>> \o <<<<h4, k4>>>>,
            <<h1, k1, h2, k2, h3, k3, h4, k4>>)
    BY Zenon, <2>1, <2>3, Join6and2
  <2>5. Puts(<<<<h1, k1>>>> \o <<<<h2, k2>>>> \o <<<<h3, k3>>>> \o <<<<h4, k4>>>> \o <<<<h5, k5>>>>,
            <<h1, k1, h2, k2, h3, k3, h4, k4, h5, k5>>)
    BY Zenon, <2>1, <2>4, Join8and2
  <2> QED BY Zenon, <1>1, <2>1, <2>5, Join10and2
<1>m. mem = At(at, items)
  BY DEF items
<1>3. /\ SizeOf(items) = 24 /\ Outside(mem, at, 24)
      /\ at \in DOMAIN mem /\ mem[at] = h1
      /\ at + 2 \in DOMAIN mem /\ mem[at + 2] = k1
      /\ at + 4 \in DOMAIN mem /\ mem[at + 4] = h2
      /\ at + 6 \in DOMAIN mem /\ mem[at + 6] = k2
      /\ at + 8 \in DOMAIN mem /\ mem[at + 8] = h3
      /\ at + 10 \in DOMAIN mem /\ mem[at + 10] = k3
      /\ at + 12 \in DOMAIN mem /\ mem[at + 12] = h4
      /\ at + 14 \in DOMAIN mem /\ mem[at + 14] = k4
      /\ at + 16 \in DOMAIN mem /\ mem[at + 16] = h5
      /\ at + 18 \in DOMAIN mem /\ mem[at + 18] = k5
      /\ at + 20 \in DOMAIN mem /\ mem[at + 20] = h6
      /\ at + 22 \in DOMAIN mem /\ mem[at + 22] = k6
  <2>1. Sits12(items, mem, at, h1, k1, h2, k2, h3, k3, h4, k4, h5, k5, h6, k6)
    BY Zenon, <1>2, <1>m, In12
  <2> QED BY Zenon, <2>1 DEF Sits12
<1>b1. TwoAt(mem, at, h1, k1)
  BY Zenon, <1>3 DEF TwoAt
<1>b2. TwoAt(mem, at + 4, h2, k2)
  <2>1. at + 4 + 2 = at + 6
    BY SMT
  <2> QED BY Zenon, <1>3, <2>1 DEF TwoAt
<1>b3. TwoAt(mem, at + 8, h3, k3)
  <2>1. at + 8 + 2 = at + 10
    BY SMT
  <2> QED BY Zenon, <1>3, <2>1 DEF TwoAt
<1>b4. TwoAt(mem, at + 12, h4, k4)
  <2>1. at + 12 + 2 = at + 14
    BY SMT
  <2> QED BY Zenon, <1>3, <2>1 DEF TwoAt
<1>b5. TwoAt(mem, at + 16, h5, k5)
  <2>1. at + 16 + 2 = at + 18
    BY SMT
  <2> QED BY Zenon, <1>3, <2>1 DEF TwoAt
<1>b6. TwoAt(mem, at + 20, h6, k6)
  <2>1. at + 20 + 2 = at + 22
    BY SMT
  <2> QED BY Zenon, <1>3, <2>1 DEF TwoAt
<1>c1. ArmAddIn(mem, at, 1, 13, 13, 8)
  BY Zenon, <1>a1, <1>b1
<1>c2. ArmMoves(mem, at + 4, 0, 1, 13, 0, 1, 0)
  BY Zenon, <1>a2, <1>b2
<1>c3. ArmAddIn(mem, at + 8, 0, 1, 15, 9)
  BY Zenon, <1>a3, <1>b3
<1>c4. ArmMoves(mem, at + 12, 0, 1, 13, 4, 1, 0)
  BY Zenon, <1>a4, <1>b4
<1>c5. ArmMoves(mem, at + 16, 1, 1, 13, 4, 0, 1)
  BY Zenon, <1>a5, <1>b5
<1>c6. ArmMoves(mem, at + 20, 1, 15, 13, 4, 0, 1)
  BY Zenon, <1>a6, <1>b6
<1> QED BY Zenon, <1>3, <1>c1, <1>c2, <1>c3, <1>c4, <1>c5, <1>c6 DEF BxToThumbAt, items

IsFile(r) == r \in [0..14 -> Int]

LEMMA FileInt ==
  ASSUME NEW r, IsFile(r), NEW i \in 0..14
  PROVE  r[i] \in Int
  BY DEF IsFile

LEMMA ExceptIs ==
  ASSUME NEW D, NEW f, f = [i \in D |-> f[i]], NEW s \in D, NEW a, NEW g, g = [f EXCEPT ![s] = a]
  PROVE  g = [i \in D |-> g[i]] /\ g[s] = a /\ \A i \in D : i # s => g[i] = f[i]
  BY SMT

LEMMA TwoRestored ==
  ASSUME NEW D, NEW r, r = [i \in D |-> r[i]], NEW s \in D, NEW o \in D, s # o, NEW a, NEW b, NEW c
  PROVE  /\ [r EXCEPT ![s] = a][s] = a /\ [r EXCEPT ![s] = a][o] = r[o]
         /\ [[r EXCEPT ![s] = a] EXCEPT ![o] = b][s] = a
         /\ [[r EXCEPT ![s] = a] EXCEPT ![o] = b][o] = b
         /\ [[[[r EXCEPT ![s] = a] EXCEPT ![o] = b] EXCEPT ![s] = c] EXCEPT ![o] = r[o]][s] = c
         /\ [[[[[r EXCEPT ![s] = a] EXCEPT ![o] = b] EXCEPT ![s] = c] EXCEPT ![o] = r[o]]
               EXCEPT ![s] = r[s]] = r
<1>a. PICK r1 : r1 = [r EXCEPT ![s] = a]
  OBVIOUS
<1>b. PICK r2 : r2 = [r1 EXCEPT ![o] = b]
  OBVIOUS
<1>c. PICK r3 : r3 = [r2 EXCEPT ![s] = c]
  OBVIOUS
<1>d. PICK r4 : r4 = [r3 EXCEPT ![o] = r[o]]
  OBVIOUS
<1>e. PICK r5 : r5 = [r4 EXCEPT ![s] = r[s]]
  OBVIOUS
<1>1. r1 = [i \in D |-> r1[i]] /\ r1[s] = a /\ \A i \in D : i # s => r1[i] = r[i]
  BY SMT, <1>a, ExceptIs
<1>2. r2 = [i \in D |-> r2[i]] /\ r2[o] = b /\ \A i \in D : i # o => r2[i] = r1[i]
  BY SMT, <1>1, <1>b, ExceptIs
<1>3. r3 = [i \in D |-> r3[i]] /\ r3[s] = c /\ \A i \in D : i # s => r3[i] = r2[i]
  BY SMT, <1>2, <1>c, ExceptIs
<1>4. r4 = [i \in D |-> r4[i]] /\ r4[o] = r[o] /\ \A i \in D : i # o => r4[i] = r3[i]
  BY SMT, <1>3, <1>d, ExceptIs
<1>5. r5 = [i \in D |-> r5[i]] /\ r5[s] = r[s] /\ \A i \in D : i # s => r5[i] = r4[i]
  BY SMT, <1>4, <1>e, ExceptIs
<1>7. \A i \in D : r5[i] = r[i]
  BY Zenon, <1>1, <1>2, <1>3, <1>4, <1>5
<1>8. r5 = r
  BY SMT, <1>5, <1>7
<1>9. r1[s] = a /\ r1[o] = r[o] /\ r2[s] = a /\ r2[o] = b /\ r4[s] = c
  BY Zenon, <1>1, <1>2, <1>3, <1>4
<1>10. /\ r2 = [[r EXCEPT ![s] = a] EXCEPT ![o] = b]
       /\ r4 = [[[[r EXCEPT ![s] = a] EXCEPT ![o] = b] EXCEPT ![s] = c] EXCEPT ![o] = r[o]]
       /\ r5 = [[[[[r EXCEPT ![s] = a] EXCEPT ![o] = b] EXCEPT ![s] = c] EXCEPT ![o] = r[o]]
                  EXCEPT ![s] = r[s]]
  BY Zenon, <1>a, <1>b, <1>c, <1>d, <1>e
<1> QED BY Zenon, <1>a, <1>8, <1>9, <1>10

FileBack(r, a, b, c) ==
  /\ [r EXCEPT ![13] = a][13] = a /\ [r EXCEPT ![13] = a][1] = r[1]
  /\ [[r EXCEPT ![13] = a] EXCEPT ![1] = b][13] = a /\ [[r EXCEPT ![13] = a] EXCEPT ![1] = b][1] = b
  /\ [[[[r EXCEPT ![13] = a] EXCEPT ![1] = b] EXCEPT ![13] = c] EXCEPT ![1] = r[1]][13] = c
  /\ [[[[[r EXCEPT ![13] = a] EXCEPT ![1] = b] EXCEPT ![13] = c] EXCEPT ![1] = r[1]]
        EXCEPT ![13] = r[13]] = r

LEMMA RestoresFile ==
  ASSUME NEW r, IsFile(r), NEW a, NEW b, NEW c
  PROVE  FileBack(r, a, b, c)
<1>1. PICK s, o : s = 13 /\ o = 1
  OBVIOUS
<1>2. s \in 0..14 /\ o \in 0..14 /\ s # o /\ r = [i \in 0..14 |-> r[i]]
  BY <1>1 DEF IsFile
<1>3. /\ [r EXCEPT ![s] = a][s] = a /\ [r EXCEPT ![s] = a][o] = r[o]
      /\ [[r EXCEPT ![s] = a] EXCEPT ![o] = b][s] = a
      /\ [[r EXCEPT ![s] = a] EXCEPT ![o] = b][o] = b
      /\ [[[[r EXCEPT ![s] = a] EXCEPT ![o] = b] EXCEPT ![s] = c] EXCEPT ![o] = r[o]][s] = c
      /\ [[[[[r EXCEPT ![s] = a] EXCEPT ![o] = b] EXCEPT ![s] = c] EXCEPT ![o] = r[o]]
            EXCEPT ![s] = r[s]] = r
  BY Zenon, <1>2, TwoRestored
<1> QED BY Zenon, <1>1, <1>3 DEF FileBack

Pops(y, here, r, ram, mem, t, n, o, i, base, access) ==
  /\ here \in Int /\ t \in 0..14 /\ n \in 0..14 /\ o \in Int /\ i \in {0, 1}
  /\ IsAt(y, here, 0, r, ram) /\ ArmMoves(mem, here, 1, t, n, o, i, 1) /\ r[n] \in Int
  /\ base = r[n] + o /\ access = r[n] + (IF i = 1 THEN o ELSE 0)

LEMMA RunArmPop ==
  ASSUME NEW y, NEW here, NEW r, NEW ram, NEW mem, NEW t, NEW n, NEW o, NEW i, NEW base, NEW access,
         Pops(y, here, r, ram, mem, t, n, o, i, base, access)
  PROVE  IsAt(Step(y, mem), here + 4, 0,
              [[r EXCEPT ![n] = base] EXCEPT ![t] = Load(y, mem, access)], ram)
<1>1. IsAt(Step(y, mem), here + 4, 0,
           [[r EXCEPT ![n] = r[n] + o]
              EXCEPT ![t] = Load(y, mem, r[n] + (IF i = 1 THEN o ELSE 0))], ram)
  <2> USE DEF Pops
  <2>1. here \in Int /\ t \in 0..14 /\ n \in 0..14 /\ o \in Int /\ i \in {0, 1}
    BY Zenon
  <2>2. IsAt(y, here, 0, r, ram) /\ ArmMoves(mem, here, 1, t, n, o, i, 1) /\ r[n] \in Int
    BY Zenon
  <2> HIDE DEF Pops
  <2> QED BY ZenonT(30), <2>1, <2>2, RunArmLdrIndex
<1> QED BY Zenon, <1>1 DEF Pops

LEMMA ArmDoesBxToThumb ==
  ASSUME NEW x, NEW at \in Int, OnWord(at), NEW r, IsFile(r), IsAt(x, at, 0, r, << >>),
         Beyond(r[13] - 8, at, 24), Beyond(r[13] - 4, at, 24), NEW g, IsAt(g, at + 24, 1, r, << >>)
  PROVE  SizeOf(arm_put_bx_to_thumb) = 24 /\ Does(x, at, arm_put_bx_to_thumb, g)
<1>m. PICK mem : mem = At(at, arm_put_bx_to_thumb)
  OBVIOUS
<1>1. /\ SizeOf(arm_put_bx_to_thumb) = 24 /\ Outside(mem, at, 24) /\ BxToThumbAt(mem, at)
      /\ at \in DOMAIN mem /\ at + 4 \in DOMAIN mem /\ at + 8 \in DOMAIN mem
      /\ at + 12 \in DOMAIN mem /\ at + 16 \in DOMAIN mem /\ at + 20 \in DOMAIN mem
  BY Zenon, <1>m, BxToThumbIs
<1>r. 1 \in 0..14 /\ 13 \in 0..14 /\ 0 \in Int /\ 4 \in Int /\ r[13] \in Int /\ r[1] \in Int
  <2>1. 1 \in 0..14 /\ 13 \in 0..14 /\ 0 \in Int /\ 4 \in Int
    BY SMT
  <2> QED BY Zenon, <2>1, FileInt
<1>n. PICK s8 \in Int, s4 \in Int, there \in Int :
        s8 = r[13] - 8 /\ s4 = r[13] - 4 /\ there = at + 25
  BY SMT, <1>r
<1>a. /\ at + 4 \in Int /\ at + 8 \in Int /\ at + 12 \in Int /\ at + 16 \in Int /\ at + 20 \in Int
      /\ at + 4 + 4 = at + 8 /\ at + 8 + 4 = at + 12 /\ at + 12 + 4 = at + 16
      /\ at + 16 + 4 = at + 20
  BY SMT
<1> DEFINE r1 == [r EXCEPT ![13] = s8]
           ram2 == Stored(<< >>, s8, r[1])
           r3 == [r1 EXCEPT ![1] = there]
           ram4 == Stored(ram2, s4, there)
           r5 == [[r3 EXCEPT ![13] = s4] EXCEPT ![1] = r[1]]
<1>v. /\ r1[13] = s8 /\ r1[1] = r[1] /\ r3[13] = s8 /\ r3[1] = there /\ r5[13] = s4
      /\ [r5 EXCEPT ![13] = r[13]] = r
  <2>1. FileBack(r, s8, there, s4)
    BY Zenon, RestoresFile
  <2> QED BY Zenon, <2>1 DEF FileBack, r1, r3, r5
<1>y1. PICK y1 : y1 = Step(x, mem)
  OBVIOUS
<1>y2. PICK y2 : y2 = Step(y1, mem)
  OBVIOUS
<1>y3. PICK y3 : y3 = Step(y2, mem)
  OBVIOUS
<1>y4. PICK y4 : y4 = Step(y3, mem)
  OBVIOUS
<1>y5. PICK y5 : y5 = Step(y4, mem)
  OBVIOUS
<1>2. IsAt(y1, at + 4, 0, r1, << >>)
  <2>1. Reg(x, 13) = r[13]
    BY SMT, <1>r, AtReg
  <2>2. Moved(1, Reg(x, 13), 8) = s8
    BY SMT, <1>r, <1>n, <2>1 DEF Moved
  <2>3. ArmAddIn(mem, at, 1, 13, 13, 8)
    BY Zenon, <1>1 DEF BxToThumbAt
  <2>4. IsAt(Step(x, mem), at + 4, 0, [r EXCEPT ![13] = Moved(1, Reg(x, 13), 8)], << >>)
    BY Zenon, <1>r, <2>3, RunArmAdd
  <2> QED BY Zenon, <1>y1, <2>2, <2>4
<1> HIDE DEF r1
<1>3. IsAt(y2, at + 8, 0, r1, ram2)
  <2>1. ArmMoves(mem, at + 4, 0, 1, 13, 0, 1, 0)
    BY Zenon, <1>1 DEF BxToThumbAt
  <2>2. IsAt(Step(y1, mem), at + 4 + 4, 0, r1, Stored(<< >>, r1[13] + 0, r1[1]))
    BY Zenon, <1>a, <1>r, <1>2, <2>1, RunArmStr
  <2>3. r1[13] + 0 = s8
    BY SMT, <1>v
  <2> QED BY Zenon, <1>a, <1>v, <1>y2, <2>2, <2>3
<1> HIDE DEF ram2
<1>4. IsAt(y3, at + 12, 0, r3, ram2)
  <2>1. Reg(y2, 15) = at + 16
    BY SMT, <1>3 DEF Reg, Here, IsAt
  <2>2. Moved(0, Reg(y2, 15), 9) = there
    BY SMT, <1>n, <2>1 DEF Moved
  <2>3. ArmAddIn(mem, at + 8, 0, 1, 15, 9)
    BY Zenon, <1>1 DEF BxToThumbAt
  <2>4. IsAt(Step(y2, mem), at + 8 + 4, 0, [r1 EXCEPT ![1] = Moved(0, Reg(y2, 15), 9)], ram2)
    BY Zenon, <1>a, <1>r, <1>3, <2>3, RunArmAdd
  <2> QED BY Zenon, <1>a, <1>y3, <2>2, <2>4
<1> HIDE DEF r3
<1>5. IsAt(y4, at + 16, 0, r3, ram4)
  <2>1. ArmMoves(mem, at + 12, 0, 1, 13, 4, 1, 0)
    BY Zenon, <1>1 DEF BxToThumbAt
  <2>2. IsAt(Step(y3, mem), at + 12 + 4, 0, r3, Stored(ram2, r3[13] + 4, r3[1]))
    BY Zenon, <1>a, <1>r, <1>4, <2>1, RunArmStr
  <2>3. r3[13] + 4 = s4
    BY SMTT(30), <1>v, <1>n, <1>r
  <2> QED BY Zenon, <1>a, <1>v, <1>y4, <2>2, <2>3
<1>b. s8 \notin DOMAIN mem /\ s4 \notin DOMAIN mem
  BY Zenon, <1>1, <1>n DEF Beyond, Outside
<1>c. s8 \in DOMAIN ram2 /\ ram2[s8] = r[1]
  BY Zenon, StoredFirst DEF ram2
<1>d. s4 \in DOMAIN ram4 /\ ram4[s4] = there
  BY Zenon, StoredFirst
<1>e. s8 \in DOMAIN ram4 /\ ram4[s8] = r[1]
  <2>1. s4 # s8
    BY SMT, <1>n, <1>r
  <2> QED BY SMT, <1>c, <2>1, StoredBefore
<1> HIDE DEF ram4
<1>6. IsAt(y5, at + 20, 0, r5, ram4)
  <2>1. ArmMoves(mem, at + 16, 1, 1, 13, 4, 0, 1)
    BY Zenon, <1>1 DEF BxToThumbAt
  <2>2. PICK o \in Int, i \in {0, 1} : PopBy(o, i)
    BY SMT DEF PopBy
  <2>3. ArmMoves(mem, at + 16, 1, 1, 13, o, i, 1) /\ r3[13] \in Int
    BY SMT, <1>v, <2>1, <2>2 DEF PopBy
  <2>4. PICK t \in 0..14, n \in 0..14 : t = 1 /\ n = 13
    BY SMT
  <2>5. PICK here \in Int : here = at + 16
    BY SMT
  <2>6. IsAt(y4, here, 0, r3, ram4) /\ ArmMoves(mem, here, 1, t, n, o, i, 1) /\ r3[n] \in Int
    BY Zenon, <1>5, <2>3, <2>4, <2>5
  <2>7. s4 = r3[n] + o /\ s8 = r3[n] + (IF i = 1 THEN o ELSE 0)
    BY SMTT(30), <1>v, <1>n, <1>r, <2>2, <2>4 DEF PopBy
  <2>8. IsAt(Step(y4, mem), here + 4, 0, [[r3 EXCEPT ![n] = s4] EXCEPT ![t] = Load(y4, mem, s8)],
             ram4)
    <3>1. Pops(y4, here, r3, ram4, mem, t, n, o, i, s4, s8)
      BY Zenon, <2>6, <2>7 DEF Pops
    <3> QED BY Zenon, <3>1, RunArmPop
  <2>9. Load(y4, mem, s8) = r[1]
    BY SMT, <1>5, <1>b, <1>e, LoadStored
  <2> QED BY Zenon, <1>a, <1>y5, <2>4, <2>5, <2>8, <2>9 DEF r5
<1> HIDE DEF r5
<1>7. IsAt(Step(y5, mem), at + 24, 1, r, ram4)
  <2>1. ArmMoves(mem, at + 20, 1, 15, 13, 4, 0, 1)
    BY Zenon, <1>1 DEF BxToThumbAt
  <2>2. Load(y5, mem, r5[13]) = there /\ r5[13] \in Int
    <3>1. Load(y5, mem, s4) = there
      BY SMT, <1>6, <1>b, <1>d, LoadStored
    <3> QED BY Zenon, <1>v, <3>1
  <2>3. IsAt(Step(y5, mem), there - (there % 2), there % 2, [r5 EXCEPT ![13] = r5[13] + 4], ram4)
    BY Zenon, <1>a, <1>r, <1>6, <2>1, <2>2, RunArmLdrPC
  <2>4. there - (there % 2) = at + 24 /\ there % 2 = 1
    BY SMT, <1>n DEF OnWord
  <2>5. r5[13] + 4 = r[13]
    BY SMT, <1>v, <1>n, <1>r
  <2> QED BY Zenon, <1>v, <2>3, <2>4, <2>5
<1>8. Reach0(Step(y5, mem), mem, g)
  <2>1. at + 24 \notin DOMAIN mem
    BY SMT, <1>1 DEF Outside
  <2>2. /\ Step(y5, mem).pc = at + 24 /\ Step(y5, mem).r = r /\ Step(y5, mem).thumb
        /\ g.pc = at + 24 /\ g.r = r /\ g.thumb /\ g.ram = << >>
    BY SMT, <1>7 DEF IsAt
  <2>3. Step(y5, mem).thumb = g.thumb
    BY SMT, <1>7 DEF IsAt
  <2>4. \A a \in DOMAIN g.ram : FALSE
    BY SMT, <2>2
  <2> QED BY Zenon, <2>1, <2>2, <2>3, <2>4 DEF Reach0
<1>9. /\ x.pc = at /\ y1.pc = at + 4 /\ y2.pc = at + 8 /\ y3.pc = at + 12 /\ y4.pc = at + 16
      /\ y5.pc = at + 20
  BY Zenon, <1>2, <1>3, <1>4, <1>5, <1>6 DEF IsAt
<1>10. Reach6(x, mem, g)
  BY Zenon, <1>1, <1>y1, <1>y2, <1>y3, <1>y4, <1>y5, <1>8, <1>9, ReachSix
<1> QED BY Zenon, <1>1, <1>m, <1>10 DEF Does

(* ------------------------------------------------------------------------ *)
(* The machine at the call of the code that was put                           *)

Spread(a) == a >= 65536 /\ a <= 33488896
Clear(r, at) == \A i \in 0..14, v \in Int : TwelveSigned(v) => Far(r[i] + v, at)
Setting(x, at, t, r) ==
  /\ at \in Int /\ IsAt(x, at, t, r, << >>) /\ IsFile(r) /\ Clear(r, at) /\ r[13] = Stack
\* What is put at at for c does what c asks for
Meets(x, at, c) == Does(x, at, Put(c, at), Asked(x, c, SizeOf(Put(c, at))))

LEMMA RegistersAre ==
  ASSUME NEW zero \in BOOLEAN, NEW i \in 0..14
  PROVE  \/ Registers(zero)[i] = 134217728
         \/ Registers(zero)[i] = 30001
         \/ Registers(zero)[i] = 0
         \/ /\ Registers(zero)[i] \in Int
            /\ Registers(zero)[i] >= 33554432 /\ Registers(zero)[i] <= 33611776
<1>1. Stack = 134217728 /\ Caller = 30001 /\ 2 ^ 25 = 33554432
  BY SMT DEF Stack, Caller
<1>2. Registers(zero)[i] = CASE i = SP -> Stack [] i = LR -> Caller
                             [] i = 0 /\ zero -> 0 [] OTHER -> 2 ^ 25 + 4096 * i
  BY Zenon DEF Registers
<1>3. CASE i = SP
  BY SMT, <1>1, <1>2, <1>3 DEF SP, LR
<1>4. CASE i # SP /\ i = LR
  BY SMT, <1>1, <1>2, <1>4 DEF SP, LR
<1>5. CASE i # SP /\ i # LR /\ i = 0 /\ zero
  BY SMT, <1>1, <1>2, <1>5 DEF SP, LR
<1>6. CASE i # SP /\ i # LR /\ ~(i = 0 /\ zero)
  BY SMT, <1>1, <1>2, <1>6 DEF SP, LR
<1> QED BY SMT, <1>3, <1>4, <1>5, <1>6

LEMMA RegistersFile ==
  ASSUME NEW zero \in BOOLEAN
  PROVE  IsFile(Registers(zero)) /\ Registers(zero)[13] = Stack
<1>1. Registers(zero)[13] = Stack
  BY SMT DEF Registers, SP, LR
<1>2. \A i \in 0..14 : Registers(zero)[i] \in Int
  BY SMT, RegistersAre
<1>3. Registers(zero) = [i \in 0..14 |-> Registers(zero)[i]]
  BY SMT DEF Registers
<1> QED BY SMT, <1>1, <1>2, <1>3 DEF IsFile

LEMMA RegistersClear ==
  ASSUME NEW zero \in BOOLEAN, NEW at \in Int, Spread(at)
  PROVE  Clear(Registers(zero), at)
<1> SUFFICES ASSUME NEW i \in 0..14, NEW v \in Int, TwelveSigned(v)
             PROVE  Far(Registers(zero)[i] + v, at)
  BY DEF Clear
<1>1. v >= -4095 /\ v <= 4095
  BY SMT DEF TwelveSigned, ABS
<1> QED BY SMT, <1>1, RegistersAre DEF Far, Spread

LEMMA FarBeyond ==
  ASSUME NEW p, NEW at \in Int, Far(p, at), NEW n \in {4, 8, 24}
  PROVE  Beyond(p, at, n)
  BY SMT DEF Far, Beyond

LEMMA ClearBit ==
  ASSUME NEW r, IsFile(r), NEW at, Clear(r, at), NEW i \in 0..14
  PROVE  Far(r[i] - (r[i] % 2), at)
<1>1. r[i] \in Int
  BY Zenon, FileInt
<1>2. PICK v \in Int : v = -(r[i] % 2) /\ TwelveSigned(v)
  BY SMT, <1>1 DEF TwelveSigned, ABS
<1>3. TwelveSigned(v)
  BY Zenon, <1>2
<1>4. Far(r[i] + v, at)
  BY Zenon, <1>3 DEF Clear
<1> QED BY SMT, <1>1, <1>2, <1>4

LEMMA TheSetting ==
  ASSUME NEW at, at = target_addr, job.zero \in BOOLEAN, job.target \in Int, Spread(at)
  PROVE  Setting(CallMachine, at, Bit(Thumb), Registers(job.zero))
<1>1. at \in Int
  BY SMT DEF target_addr
<1>2. IsAt(CallMachine, at, Bit(Thumb), Registers(job.zero), << >>)
  <2>1. PICK x : x = CallMachine
    OBVIOUS
  <2>2. /\ x.pc = at /\ x.thumb = Thumb /\ x.r = Registers(job.zero) /\ x.ram = << >>
        /\ x = [pc |-> x.pc, thumb |-> x.thumb, r |-> x.r, z |-> x.z, ram |-> x.ram]
    BY Zenon, <2>1 DEF CallMachine
  <2>3. Thumb \in BOOLEAN /\ (Thumb <=> Bit(Thumb) = 1)
    BY SMT DEF Thumb, Bit
  <2> QED BY Zenon, <2>1, <2>2, <2>3 DEF IsAt
<1> QED BY Zenon, <1>1, <1>2, RegistersFile, RegistersClear DEF Setting

(* ------------------------------------------------------------------------ *)
(* The calls of the writer for Thumb                                          *)

LEMMA MeansThumbNop ==
  ASSUME Thumb, NEW c, c.put = "nop", NEW x, NEW at, NEW r, Setting(x, at, 1, r)
  PROVE  Meets(x, at, c)
<1> DEFINE items == thumb_put_nop
<1>1. Put(c, at) = items
  BY SMT DEF Put
<1>2. SizeOf(items) = 2 /\ Does(x, at, items, Skip(x, 2))
  BY Zenon, ThumbNop DEF Setting
<1>3. Asked(x, c, 2) = Skip(x, 2)
  BY SMT DEF Asked
<1> QED BY Zenon, <1>1, <1>2, <1>3 DEF Meets

LEMMA MeansThumbLdrB ==
  ASSUME Thumb, NEW c, c.put = "ldr_b_reg_address", c.a \in 0..14, Wordly(c.v),
         NEW x, NEW at, NEW r, Setting(x, at, 1, r), at % 2 = 0
  PROVE  Meets(x, at, c)
<1>i. PICK items : items = thumb_put_ldr_b_reg_address(at + 4, c.a, c.v)
  OBVIOUS
<1>1. Put(c, at) = items
  BY SMT, <1>i DEF Put
<1>2. PICK n : SizeOf(items) = n /\ Does(x, at, items, Set(x, c.a, c.v, n))
  <2>1. at \in Int /\ IsAt(x, at, 1, r, << >>)
    BY Zenon DEF Setting
  <2>2. (at + 4) % 4 = 0 \/ (at + 4) % 4 = 2
    BY SMT, <2>1
  <2>3. c.a \in 0..7 \/ c.a \in 8..14
    BY SMT
  <2>4. CASE (at + 4) % 4 = 0 /\ c.a \in 0..7
    BY Zenon, <1>i, <2>1, <2>4, ThumbLdrBLowAligned
  <2>5. CASE (at + 4) % 4 = 0 /\ c.a \in 8..14
    BY Zenon, <1>i, <2>1, <2>5, ThumbLdrBHighAligned
  <2>6. CASE (at + 4) % 4 = 2 /\ c.a \in 0..7
    BY Zenon, <1>i, <2>1, <2>6, ThumbLdrBLowUnaligned
  <2>7. CASE (at + 4) % 4 = 2 /\ c.a \in 8..14
    BY Zenon, <1>i, <2>1, <2>7, ThumbLdrBHighUnaligned
  <2> QED BY Zenon, <2>2, <2>3, <2>4, <2>5, <2>6, <2>7
<1>3. Asked(x, c, n) = Set(x, c.a, c.v, n)
  BY SMT DEF Asked
<1> QED BY Zenon, <1>1, <1>2, <1>3 DEF Meets

\* The offsets a transfer has
Offset(a, b, v) == v >= -255 /\ v <= 4095 /\ (InT1(a, b, v) \/ InT2(a, b, v) => v % 4 = 0)

LEMMA ThumbLdrDoes ==
  ASSUME NEW x, NEW at, NEW r, Setting(x, at, 1, r), NEW a \in 0..14, NEW b \in 0..14,
         NEW v \in Int, Offset(a, b, v), NEW items, items = thumb_put_ldr_reg_reg_offset(a, b, v)
  PROVE  \E n : SizeOf(items) = n /\ Does(x, at, items, Set(x, a, Content(r[b] + v), n))
<1>1. at \in Int /\ IsAt(x, at, 1, r, << >>) /\ IsFile(r) /\ Clear(r, at)
  BY Zenon DEF Setting
<1>2. TwelveSigned(v)
  BY SMT DEF Offset, TwelveSigned, ABS
<1>3. PICK access : access = r[b] + v
  OBVIOUS
<1>4. Far(access, at)
  BY Zenon, <1>1, <1>2, <1>3 DEF Clear
<1>5. items = thumb_put_transfer(1, a, b, v)
  BY Zenon DEF thumb_put_ldr_reg_reg_offset
<1>6. CASE InT1(a, b, v)
  <2>1. PICK q \in Nat : v = q * 4 /\ q < 32
    <3>1. v % 4 = 0 /\ v >= 0 /\ v <= 127
      BY SMT, <1>6 DEF Offset, InT1
    <3> QED BY SMT, <3>1
  <2>2. a \in 0..7 /\ b \in 0..7
    BY SMT, <1>6 DEF InT1
  <2>3. items = thumb_put_transfer_T1(1, a, b, q * 4) /\ access = r[b] + q * 4
    BY Zenon, <1>3, <1>5, <1>6, <2>1 DEF thumb_put_transfer
  <2>4. SizeOf(items) = 2 /\ Does(x, at, items, Set(x, a, Content(access), 2))
    BY ZenonT(30), <1>1, <1>4, <2>1, <2>2, <2>3, ThumbLdrT1
  <2> QED BY Zenon, <1>3, <2>4
<1>7. CASE ~InT1(a, b, v) /\ InT2(a, b, v)
  <2>1. PICK q \in Nat : v = q * 4 /\ Eight(q)
    <3>1. v % 4 = 0 /\ v >= 0 /\ v <= 1023
      BY SMT, <1>7 DEF Offset, InT2
    <3> QED BY SMT, <3>1 DEF Eight
  <2>2. a \in 0..7 /\ b = 13
    BY SMT, <1>7 DEF InT2, SP
  <2>3. items = thumb_put_transfer_T2(1, a, 13, q * 4) /\ access = r[13] + q * 4
    BY Zenon, <1>3, <1>5, <1>7, <2>1, <2>2 DEF thumb_put_transfer
  <2>4. SizeOf(items) = 2 /\ Does(x, at, items, Set(x, a, Content(access), 2))
    BY Zenon, <1>1, <1>4, <2>1, <2>2, <2>3, ThumbLdrT2
  <2> QED BY Zenon, <1>3, <2>4
<1>8. CASE ~InT1(a, b, v) /\ ~InT2(a, b, v) /\ InT3(a, b, v)
  <2>1. v \in Nat /\ Twelve(v)
    BY SMT, <1>8 DEF InT3, Twelve
  <2>2. items = thumb_put_transfer_T3(1, a, b, v)
    BY Zenon, <1>5, <1>8 DEF thumb_put_transfer
  <2>3. SizeOf(items) = 4 /\ Does(x, at, items, Set(x, a, Content(access), 4))
    BY ZenonT(30), <1>1, <1>3, <1>4, <2>1, <2>2, ThumbLdrT3
  <2> QED BY Zenon, <1>3, <2>3
<1>9. CASE ~InT1(a, b, v) /\ ~InT2(a, b, v) /\ ~InT3(a, b, v)
  <2>1. ABS(v) < 256
    BY SMT, <1>9 DEF Offset, InT3, ABS
  <2>2. items = thumb_put_transfer_T4(1, a, b, v, 1, 0)
    BY Zenon, <1>5, <1>9 DEF thumb_put_transfer
  <2>3. SizeOf(items) = 4 /\ Does(x, at, items, Set(x, a, Content(access), 4))
    BY ZenonT(30), <1>1, <1>3, <1>4, <2>1, <2>2, ThumbLdrT4
  <2> QED BY Zenon, <1>3, <2>3
<1> QED BY Zenon, <1>6, <1>7, <1>8, <1>9

LEMMA MeansThumbLdr ==
  ASSUME Thumb, NEW c, c.put = "ldr", c.a \in 0..14, c.b \in 0..14, c.v \in Int,
         Offset(c.a, c.b, c.v), NEW x, NEW at, NEW r, Setting(x, at, 1, r)
  PROVE  Meets(x, at, c)
<1>i. PICK items : items = thumb_put_ldr_reg_reg_offset(c.a, c.b, c.v)
  OBVIOUS
<1>1. Put(c, at) = items
  BY SMT, <1>i DEF Put
<1>2. PICK n : SizeOf(items) = n /\ Does(x, at, items, Set(x, c.a, Content(r[c.b] + c.v), n))
  BY Zenon, <1>i, ThumbLdrDoes
<1>3. x.r = r /\ c.b # PC
  BY SMTT(30) DEF Setting, IsAt, PC
<1>4. Asked(x, c, n) = Set(x, c.a, Content(r[c.b] + c.v), n)
  BY SMT, <1>3 DEF Asked
<1> QED BY Zenon, <1>1, <1>2, <1>4 DEF Meets

LEMMA ThumbStrDoes ==
  ASSUME NEW x, NEW at, NEW r, Setting(x, at, 1, r), NEW a \in 0..14, NEW b \in 0..14,
         NEW v \in Int, Offset(a, b, v), NEW items, items = thumb_put_str_reg_reg_offset(a, b, v)
  PROVE  \E n : SizeOf(items) = n /\ Does(x, at, items, Store(Skip(x, n), r[b] + v, r[a]))
<1>1. at \in Int /\ IsAt(x, at, 1, r, << >>) /\ IsFile(r) /\ Clear(r, at)
  BY Zenon DEF Setting
<1>2. TwelveSigned(v)
  BY SMT DEF Offset, TwelveSigned, ABS
<1>3. PICK access : access = r[b] + v
  OBVIOUS
<1>4. Far(access, at)
  BY Zenon, <1>1, <1>2, <1>3 DEF Clear
<1>5. items = thumb_put_transfer(0, a, b, v)
  BY Zenon DEF thumb_put_str_reg_reg_offset
<1>6. CASE InT1(a, b, v)
  <2>1. PICK q \in Nat : v = q * 4 /\ q < 32
    <3>1. v % 4 = 0 /\ v >= 0 /\ v <= 127
      BY SMT, <1>6 DEF Offset, InT1
    <3> QED BY SMT, <3>1
  <2>2. a \in 0..7 /\ b \in 0..7
    BY SMT, <1>6 DEF InT1
  <2>3. items = thumb_put_transfer_T1(0, a, b, q * 4) /\ access = r[b] + q * 4
    BY Zenon, <1>3, <1>5, <1>6, <2>1 DEF thumb_put_transfer
  <2>4. SizeOf(items) = 2 /\ Does(x, at, items, Store(Skip(x, 2), access, r[a]))
    BY ZenonT(30), <1>1, <1>4, <2>1, <2>2, <2>3, ThumbStrT1
  <2> QED BY Zenon, <1>3, <2>4
<1>7. CASE ~InT1(a, b, v) /\ InT2(a, b, v)
  <2>1. PICK q \in Nat : v = q * 4 /\ Eight(q)
    <3>1. v % 4 = 0 /\ v >= 0 /\ v <= 1023
      BY SMT, <1>7 DEF Offset, InT2
    <3> QED BY SMT, <3>1 DEF Eight
  <2>2. a \in 0..7 /\ b = 13
    BY SMT, <1>7 DEF InT2, SP
  <2>3. items = thumb_put_transfer_T2(0, a, 13, q * 4) /\ access = r[13] + q * 4
    BY Zenon, <1>3, <1>5, <1>7, <2>1, <2>2 DEF thumb_put_transfer
  <2>4. SizeOf(items) = 2 /\ Does(x, at, items, Store(Skip(x, 2), access, r[a]))
    BY Zenon, <1>1, <1>4, <2>1, <2>2, <2>3, ThumbStrT2
  <2> QED BY Zenon, <1>3, <2>4
<1>8. CASE ~InT1(a, b, v) /\ ~InT2(a, b, v) /\ InT3(a, b, v)
  <2>1. v \in Nat /\ Twelve(v)
    BY SMT, <1>8 DEF InT3, Twelve
  <2>2. items = thumb_put_transfer_T3(0, a, b, v)
    BY Zenon, <1>5, <1>8 DEF thumb_put_transfer
  <2>3. SizeOf(items) = 4 /\ Does(x, at, items, Store(Skip(x, 4), access, r[a]))
    BY ZenonT(30), <1>1, <1>3, <1>4, <2>1, <2>2, ThumbStrT3
  <2> QED BY Zenon, <1>3, <2>3
<1>9. CASE ~InT1(a, b, v) /\ ~InT2(a, b, v) /\ ~InT3(a, b, v)
  <2>1. ABS(v) < 256
    BY SMT, <1>9 DEF Offset, InT3, ABS
  <2>2. items = thumb_put_transfer_T4(0, a, b, v, 1, 0)
    BY Zenon, <1>5, <1>9 DEF thumb_put_transfer
  <2>3. SizeOf(items) = 4 /\ Does(x, at, items, Store(Skip(x, 4), access, r[a]))
    BY ZenonT(30), <1>1, <1>3, <1>4, <2>1, <2>2, ThumbStrT4
  <2> QED BY Zenon, <1>3, <2>3
<1> QED BY Zenon, <1>6, <1>7, <1>8, <1>9

LEMMA MeansThumbStr ==
  ASSUME Thumb, NEW c, c.put = "str", c.a \in 0..14, c.b \in 0..14, c.v \in Int,
         Offset(c.a, c.b, c.v), NEW x, NEW at, NEW r, Setting(x, at, 1, r)
  PROVE  Meets(x, at, c)
<1>i. PICK items : items = thumb_put_str_reg_reg_offset(c.a, c.b, c.v)
  OBVIOUS
<1>1. Put(c, at) = items
  BY SMT, <1>i DEF Put
<1>2. PICK n : SizeOf(items) = n /\ Does(x, at, items, Store(Skip(x, n), r[c.b] + c.v, r[c.a]))
  BY Zenon, <1>i, ThumbStrDoes
<1>3. x.r = r /\ c.b # PC
  BY SMTT(30) DEF Setting, IsAt, PC
<1>4. Asked(x, c, n) = Store(Skip(x, n), r[c.b] + c.v, r[c.a])
  BY SMT, <1>3 DEF Asked
<1> QED BY Zenon, <1>1, <1>2, <1>4 DEF Meets

LEMMA MeansThumbLdrIndex ==
  ASSUME Thumb, NEW c, c.put = "ldr_index", c.a \in 0..14, c.b \in 0..14, c.a # c.b, c.v \in Int,
         ABS(c.v) < 256, c.index \in {0, 1}, NEW x, NEW at, NEW r, Setting(x, at, 1, r)
  PROVE  Meets(x, at, c)
<1>i. PICK items : items = thumb_put_transfer_T4(1, c.a, c.b, c.v, c.index, 1)
  OBVIOUS
<1>1. Put(c, at) = items
  BY SMT, <1>i DEF Put, thumb_put_ldr_index_reg_reg_offset
<1>a. PICK access : access = r[c.b] + (IF c.index = 1 THEN c.v ELSE 0)
  OBVIOUS
<1>r. r[c.b] \in Int /\ Far(access, at)
  <2>1. r[c.b] \in Int
    BY Zenon, FileInt DEF Setting
  <2>2. PICK v \in Int : v = (IF c.index = 1 THEN c.v ELSE 0) /\ TwelveSigned(v)
    BY SMT DEF TwelveSigned, ABS
  <2>3. Clear(r, at)
    BY Zenon DEF Setting
  <2>4. Far(r[c.b] + v, at)
    BY Zenon, <2>2, <2>3 DEF Clear
  <2> QED BY Zenon, <1>a, <2>1, <2>2, <2>4
<1>2. /\ SizeOf(items) = 4
      /\ Does(x, at, items, [Set(x, c.a, Content(access), 4) EXCEPT !.r[c.b] = r[c.b] + c.v])
  <2>1. at \in Int /\ IsAt(x, at, 1, r, << >>)
    BY Zenon DEF Setting
  <2>2. PICK a \in 0..14, b \in 0..14, v \in Int, index \in {0, 1} :
          a = c.a /\ b = c.b /\ v = c.v /\ index = c.index
    BY Zenon
  <2>3. /\ SizeOf(items) = 4
        /\ Does(x, at, items, [Set(x, a, Content(access), 4) EXCEPT !.r[b] = r[b] + v])
    <3>1. a # b /\ ABS(v) < 256 /\ r[b] \in Int /\ access = r[b] + (IF index = 1 THEN v ELSE 0)
      BY SMT, <1>a, <1>r, <2>2
    <3>2. items = thumb_put_transfer_T4(1, a, b, v, index, 1)
      BY Zenon, <1>i, <2>2
    <3>3. Far(access, at)
      BY Zenon, <1>r
    <3>4. Indexed(x, at, r, a, b, v, index, access)
      BY Zenon, <2>1, <3>1, <3>3 DEF Indexed
    <3> QED BY Zenon, <3>2, <3>4, ThumbLdrIndex
  <2> QED BY Zenon, <2>2, <2>3
<1>3. access = IF c.index = 0 THEN r[c.b] ELSE r[c.b] + c.v
  BY SMT, <1>a, <1>r
<1>4. x.r = r /\ c.b # PC
  BY SMTT(30) DEF Setting, IsAt, PC
<1>5. Asked(x, c, 4) = [Set(x, c.a, Content(access), 4) EXCEPT !.r[c.b] = r[c.b] + c.v]
  BY SMT, <1>3, <1>4 DEF Asked
<1> QED BY Zenon, <1>1, <1>2, <1>5 DEF Meets

LEMMA MeansThumbStrIndex ==
  ASSUME Thumb, NEW c, c.put = "str_index", c.a \in 0..14, c.b \in 0..14, c.a # c.b, c.v \in Int,
         ABS(c.v) < 256, c.index \in {0, 1}, NEW x, NEW at, NEW r, Setting(x, at, 1, r)
  PROVE  Meets(x, at, c)
<1>i. PICK items : items = thumb_put_transfer_T4(0, c.a, c.b, c.v, c.index, 1)
  OBVIOUS
<1>1. Put(c, at) = items
  BY SMT, <1>i DEF Put, thumb_put_str_index_reg_reg_offset
<1>a. PICK access : access = r[c.b] + (IF c.index = 1 THEN c.v ELSE 0)
  OBVIOUS
<1>r. r[c.b] \in Int /\ Far(access, at)
  <2>1. r[c.b] \in Int
    BY Zenon, FileInt DEF Setting
  <2>2. PICK v \in Int : v = (IF c.index = 1 THEN c.v ELSE 0) /\ TwelveSigned(v)
    BY SMT DEF TwelveSigned, ABS
  <2>3. Clear(r, at)
    BY Zenon DEF Setting
  <2>4. Far(r[c.b] + v, at)
    BY Zenon, <2>2, <2>3 DEF Clear
  <2> QED BY Zenon, <1>a, <2>1, <2>2, <2>4
<1>2. /\ SizeOf(items) = 4
      /\ Does(x, at, items, Store([Skip(x, 4) EXCEPT !.r[c.b] = r[c.b] + c.v], access, r[c.a]))
  <2>1. at \in Int /\ IsAt(x, at, 1, r, << >>)
    BY Zenon DEF Setting
  <2>2. PICK a \in 0..14, b \in 0..14, v \in Int, index \in {0, 1} :
          a = c.a /\ b = c.b /\ v = c.v /\ index = c.index
    BY Zenon
  <2>3. /\ SizeOf(items) = 4
        /\ Does(x, at, items, Store([Skip(x, 4) EXCEPT !.r[b] = r[b] + v], access, r[a]))
    <3>1. a # b /\ ABS(v) < 256 /\ r[b] \in Int /\ access = r[b] + (IF index = 1 THEN v ELSE 0)
      BY SMT, <1>a, <1>r, <2>2
    <3>2. items = thumb_put_transfer_T4(0, a, b, v, index, 1)
      BY Zenon, <1>i, <2>2
    <3>3. Far(access, at)
      BY Zenon, <1>r
    <3>4. Indexed(x, at, r, a, b, v, index, access)
      BY Zenon, <2>1, <3>1, <3>3 DEF Indexed
    <3> QED BY Zenon, <3>2, <3>4, ThumbStrIndex
  <2> QED BY Zenon, <2>2, <2>3
<1>3. access = IF c.index = 0 THEN r[c.b] ELSE r[c.b] + c.v
  BY SMT, <1>a, <1>r
<1>4. x.r = r /\ c.b # PC
  BY SMT DEF Setting, IsAt, PC
<1>5. Asked(x, c, 4) = Store([Skip(x, 4) EXCEPT !.r[c.b] = r[c.b] + c.v], access, r[c.a])
  BY SMT, <1>3, <1>4 DEF Asked
<1> QED BY Zenon, <1>1, <1>2, <1>5 DEF Meets

\* What is added to a register: where it stays the same one, the encodings are shorter
Summand(a, v) == \/ a = 13 /\ ABS(v) <= 508 /\ v % 4 = 0
                 \/ a <= 7 /\ ABS(v) <= 255

LEMMA ThumbAddSelfDoes ==
  ASSUME NEW x, NEW at, NEW r, Setting(x, at, 1, r), NEW a \in 0..14, NEW v \in Int, Summand(a, v),
         NEW items, items = thumb_put_add_reg_imm(a, v)
  PROVE  SizeOf(items) = 2 /\ Does(x, at, items, Set(x, a, r[a] + v, 2))
<1>1. at \in Int /\ IsAt(x, at, 1, r, << >>)
  BY Zenon DEF Setting
<1>2. r[a] \in Int
  BY Zenon, FileInt DEF Setting
<1>3. CASE a = 13 /\ ABS(v) <= 508 /\ v % 4 = 0
  <2>1. PICK w \in Int : v = 4 * w /\ -127 <= w /\ w <= 127
    BY SMT, <1>3 DEF ABS
  <2>2. a = 13
    BY Zenon, <1>3
  <2>3. items = thumb_put_add_reg_imm(13, v) /\ r[13] \in Int
    BY Zenon, <1>2, <2>2
  <2>4. SizeOf(items) = 2 /\ Does(x, at, items, Set(x, 13, r[13] + v, 2))
    BY Zenon, <1>1, <2>1, <2>3, ThumbAddSP
  <2> QED BY Zenon, <2>2, <2>4
<1>4. CASE a <= 7 /\ ABS(v) <= 255
  <2>1. a \in 0..7 /\ ABS(v) < 256
    BY SMT, <1>4 DEF ABS
  <2> QED BY ZenonT(30), <1>1, <1>2, <2>1, ThumbAddImm8
<1> QED BY Zenon, <1>3, <1>4 DEF Summand

LEMMA ThumbAddDoes ==
  ASSUME NEW x, NEW at, NEW r, Setting(x, at, 1, r), NEW a \in 0..14, NEW b \in 0..15,
         NEW v \in Int,
         TwelveSigned(v), b = a => Summand(a, v), NEW base,
         base = IF b = PC THEN ALIGN_FLOOR(at + 4, 4) ELSE r[b],
         NEW items, items = thumb_put_add_reg_reg_imm(a, b, v)
  PROVE  \E n : SizeOf(items) = n /\ Does(x, at, items, Set(x, a, base + v, n))
<1>1. at \in Int /\ IsAt(x, at, 1, r, << >>) /\ IsFile(r)
  BY Zenon DEF Setting
<1>2. b # PC => b \in 0..14 /\ r[b] \in Int
  <2>1. b # PC => b \in 0..14
    BY SMT DEF PC
  <2> QED BY Zenon, <1>1, <2>1, FileInt
<1>3. PC \notin 0..14 /\ PC = 15 /\ SP = 13
  BY SMT DEF PC, SP
<1>4. base \in Int
  BY SMT, <1>1, <1>2 DEF ALIGN_FLOOR
<1>5. CASE b = a
  <2>1. items = thumb_put_add_reg_imm(a, v) /\ Summand(a, v)
    BY SMT, <1>5 DEF thumb_put_add_reg_reg_imm
  <2>2. SizeOf(items) = 2 /\ Does(x, at, items, Set(x, a, r[a] + v, 2))
    BY Zenon, <2>1, ThumbAddSelfDoes
  <2>3. base = r[a]
    BY Zenon, <1>3, <1>5
  <2> QED BY Zenon, <2>2, <2>3
<1>6. CASE b # a /\ a <= 7 /\ b <= 7 /\ ABS(v) < 8
  <2>1. a \in 0..7 /\ b \in 0..7 /\ b # a /\ ABS(v) < 8 /\ b # PC
    BY SMT, <1>6 DEF PC
  <2>2. r[b] \in Int /\ base = r[b]
    BY Zenon, <1>2, <2>1
  <2>3. SizeOf(items) = 2 /\ Does(x, at, items, Set(x, a, r[b] + v, 2))
    <3>1. at \in Int /\ IsAt(x, at, 1, r, << >>) /\ r[b] \in Int /\ a \in 0..7 /\ b \in 0..7
      BY Zenon, <1>1, <2>1, <2>2
    <3>2. b # a /\ ABS(v) < 8
      BY Zenon, <2>1
    <3> QED BY SMTT(60), <3>1, <3>2, ThumbAddImm3
  <2> QED BY Zenon, <2>2, <2>3
<1>7. CASE b # a /\ ~(a <= 7 /\ b <= 7 /\ ABS(v) < 8) /\ b \in {SP, PC} /\ a <= 7 /\ WordsEight(v)
  <2>1. PICK w \in Nat : v = 4 * w /\ 0 < w /\ Eight(v)
    BY SMT, <1>7 DEF WordsEight, Eight
  <2>2. a \in 0..7
    BY SMT, <1>7
  <2>3. CASE b = SP
    <3>1. items = thumb_put_add_reg_reg_imm(a, 13, v) /\ base = r[13]
      BY SMT, <2>3 DEF SP, PC
    <3>2. SizeOf(items) = 2 /\ Does(x, at, items, Set(x, a, r[13] + v, 2))
      BY Zenon, <1>1, <2>1, <2>2, <3>1, ThumbAdrSP
    <3> QED BY Zenon, <3>1, <3>2
  <2>4. CASE b = PC
    <3>1. items = thumb_put_add_reg_reg_imm(a, 15, v) /\ base = ALIGN_FLOOR(at + 4, 4)
      BY SMT, <2>4 DEF PC
    <3>2. SizeOf(items) = 2 /\ Does(x, at, items, Set(x, a, ALIGN_FLOOR(at + 4, 4) + v, 2))
      BY Zenon, <1>1, <2>1, <2>2, <3>1, ThumbAdrPC
    <3> QED BY Zenon, <3>1, <3>2
  <2> QED BY Zenon, <1>7, <2>3, <2>4
<1>8. CASE /\ b # a /\ ~(a <= 7 /\ b <= 7 /\ ABS(v) < 8)
           /\ ~(b \in {SP, PC} /\ a <= 7 /\ WordsEight(v))
  <2>1. Twelve(ABS(v))
    BY SMT DEF TwelveSigned, Twelve, ABS
  <2>2. SizeOf(items) = 4 /\ Does(x, at, items, Set(x, a, base + v, 4))
    <3>1. WideSum(x, at, r, a, b, v, base)
      BY Zenon, <1>1, <1>4, <1>8, <2>1 DEF WideSum
    <3> QED BY Zenon, <3>1, ThumbAddWide
  <2> QED BY Zenon, <2>2
<1> QED BY Zenon, <1>5, <1>6, <1>7, <1>8

LEMMA MeansThumbAdd ==
  ASSUME Thumb, NEW c, c.put = "add", c.a \in 0..14, c.b \in 0..15, c.v \in Int, TwelveSigned(c.v),
         c.b = c.a => Summand(c.a, c.v), NEW x, NEW at, NEW r, Setting(x, at, 1, r)
  PROVE  Meets(x, at, c)
<1>i. PICK items : items = thumb_put_add_reg_reg_imm(c.a, c.b, c.v)
  OBVIOUS
<1>b. PICK base : base = IF c.b = PC THEN ALIGN_FLOOR(at + 4, 4) ELSE r[c.b]
  OBVIOUS
<1>1. Put(c, at) = items
  BY SMT, <1>i DEF Put
<1>2. PICK n : SizeOf(items) = n /\ Does(x, at, items, Set(x, c.a, base + c.v, n))
  BY Zenon, <1>i, <1>b, ThumbAddDoes
<1>3. x.r = r /\ Here(x) = at + 4
  BY SMT DEF Setting, IsAt, Here
<1>4. Asked(x, c, n) = Set(x, c.a, base + c.v, n)
  BY SMT, <1>b, <1>3 DEF Asked
<1> QED BY Zenon, <1>1, <1>2, <1>4 DEF Meets

LEMMA Negated ==
  ASSUME NEW v \in Int
  PROVE  /\ -v \in Int /\ TwelveSigned(v) => TwelveSigned(-v)
         /\ \A a \in 0..14 : Summand(a, v) => Summand(a, -v)
<1>1. ABS(-v) = ABS(v)
  BY SMT DEF ABS
<1>2. v % 4 = 0 => (-v) % 4 = 0
  BY SMT
<1> QED BY SMT, <1>1, <1>2 DEF TwelveSigned, Summand

LEMMA MeansThumbSub ==
  ASSUME Thumb, NEW c, c.put = "sub", c.a \in 0..14, c.b \in 0..15, c.v \in Int, TwelveSigned(c.v),
         c.b = c.a => Summand(c.a, c.v), NEW x, NEW at, NEW r, Setting(x, at, 1, r)
  PROVE  Meets(x, at, c)
<1>v. PICK v \in Int : v = -c.v /\ TwelveSigned(v) /\ (c.b = c.a => Summand(c.a, v))
  <2>1. PICK w \in Int : w = c.v
    OBVIOUS
  <2>2. TwelveSigned(w) /\ (c.b = c.a => Summand(c.a, w))
    BY Zenon, <2>1
  <2>3. -w \in Int /\ TwelveSigned(-w) /\ (c.b = c.a => Summand(c.a, -w))
    BY SMT, <2>2, Negated
  <2> QED BY Zenon, <2>1, <2>3
<1>i. PICK items : items = thumb_put_add_reg_reg_imm(c.a, c.b, v)
  OBVIOUS
<1>b. PICK base : base = IF c.b = PC THEN ALIGN_FLOOR(at + 4, 4) ELSE r[c.b]
  OBVIOUS
<1>1. Put(c, at) = items
  BY SMT, <1>i, <1>v DEF Put, thumb_put_sub_reg_reg_imm
<1>2. PICK n : SizeOf(items) = n /\ Does(x, at, items, Set(x, c.a, base + v, n))
  <2>1. TwelveSigned(v) /\ (c.b = c.a => Summand(c.a, v))
    BY Zenon, <1>v
  <2> QED BY Zenon, <1>i, <1>b, <2>1, ThumbAddDoes
<1>3. x.r = r /\ Here(x) = at + 4
  BY SMT DEF Setting, IsAt, Here
<1>4. base \in Int
  <2>1. at \in Int
    BY Zenon DEF Setting
  <2>2. c.b # PC => c.b \in 0..14
    BY SMT DEF PC
  <2>3. c.b # PC => r[c.b] \in Int
    BY Zenon, <2>2, FileInt DEF Setting
  <2> QED BY SMT, <1>b, <2>1, <2>3 DEF ALIGN_FLOOR
<1>5. base + v = base - c.v
  BY SMT, <1>v, <1>4
<1>6. Asked(x, c, n) = Set(x, c.a, base + v, n)
  BY SMT, <1>b, <1>3, <1>5 DEF Asked
<1> QED BY Zenon, <1>1, <1>2, <1>6 DEF Meets

LEMMA MeansThumbSubSelf ==
  ASSUME Thumb, NEW c, c.put = "sub_self", c.a \in 0..14, c.v \in Int,
         Summand(c.a, c.v), NEW x, NEW at, NEW r, Setting(x, at, 1, r)
  PROVE  Meets(x, at, c)
<1>v. PICK v \in Int : v = -c.v /\ Summand(c.a, v)
  <2>1. PICK w \in Int : w = c.v
    OBVIOUS
  <2>2. Summand(c.a, w)
    BY Zenon, <2>1
  <2>3. -w \in Int /\ Summand(c.a, -w)
    BY SMT, <2>2, Negated
  <2> QED BY Zenon, <2>1, <2>3
<1>i. PICK items : items = thumb_put_add_reg_imm(c.a, v)
  OBVIOUS
<1>1. Put(c, at) = items
  BY SMT, <1>i, <1>v DEF Put, thumb_put_sub_reg_imm
<1>2. SizeOf(items) = 2 /\ Does(x, at, items, Set(x, c.a, r[c.a] + v, 2))
  <2>1. Summand(c.a, v)
    BY Zenon, <1>v
  <2> QED BY Zenon, <1>i, <2>1, ThumbAddSelfDoes
<1>3. x.r = r
  BY SMT DEF Setting, IsAt
<1>4. r[c.a] \in Int
  BY Zenon, FileInt DEF Setting
<1>5. r[c.a] + v = r[c.a] - c.v
  BY SMT, <1>v, <1>4
<1>6. Asked(x, c, 2) = Set(x, c.a, r[c.a] + v, 2)
  BY SMT, <1>3, <1>5 DEF Asked
<1> QED BY Zenon, <1>1, <1>2, <1>6 DEF Meets

LEMMA MeansThumbAddReg ==
  ASSUME Thumb, NEW c, c.put = "add_reg", c.a \in 0..7, c.b \in 0..7, c.v \in 0..7,
         NEW x, NEW at, NEW r, Setting(x, at, 1, r)
  PROVE  Meets(x, at, c)
<1>i. PICK items : items = thumb_put_add_reg_reg_reg(c.a, c.b, c.v)
  OBVIOUS
<1>1. Put(c, at) = items
  BY SMT, <1>i DEF Put
<1>2. SizeOf(items) = 2 /\ Does(x, at, items, Set(x, c.a, r[c.b] + r[c.v], 2))
  <2>1. at \in Int /\ IsAt(x, at, 1, r, << >>)
    BY Zenon DEF Setting
  <2>2. PICK d \in 0..7, n \in 0..7, i \in 0..7 : d = c.a /\ n = c.b /\ i = c.v
    BY Zenon
  <2>3. items = thumb_put_add_reg_reg_reg(d, n, i)
    BY Zenon, <1>i, <2>2
  <2>4. SizeOf(items) = 2 /\ Does(x, at, items, Set(x, d, r[n] + r[i], 2))
    BY SMTT(60), <2>1, <2>3, ThumbAddReg
  <2> QED BY Zenon, <2>2, <2>4
<1>3. x.r = r
  BY SMT DEF Setting, IsAt
<1>4. Asked(x, c, 2) = Set(x, c.a, r[c.b] + r[c.v], 2)
  BY SMT, <1>3 DEF Asked
<1> QED BY Zenon, <1>1, <1>2, <1>4 DEF Meets

LEMMA MeansThumbPush ==
  ASSUME Thumb, NEW c, c.put = "push", c.a \in 0..7, NEW x, NEW at, NEW r, Setting(x, at, 1, r)
  PROVE  Meets(x, at, c)
<1>i. PICK items : items = thumb_put_push_reg(c.a)
  OBVIOUS
<1>1. Put(c, at) = items
  BY SMT, <1>i DEF Put
<1>2. x.r = r /\ r[13] \in Int /\ r[13] = Stack /\ SP = 13
  BY SMT, FileInt DEF Setting, IsAt, SP
<1>3. PICK o \in Int : o = -4
  BY SMT
<1>4. PICK g : g = Store([Skip(x, 2) EXCEPT !.r[13] = r[13] + o], r[13] + o, r[c.a])
  OBVIOUS
<1>5. SizeOf(items) = 2 /\ Does(x, at, items, g)
  <2>1. at \in Int /\ IsAt(x, at, 1, r, << >>)
    BY Zenon DEF Setting
  <2>2. r[13] \in Int
    BY Zenon, <1>2
  <2> QED BY Zenon, <1>i, <1>3, <1>4, <2>1, <2>2, ThumbPush
<1>6. Asked(x, c, 2) = g
  <2>1. Asked(x, c, 2) = Store([Skip(x, 2) EXCEPT !.r[SP] = @ - 4], Stack - 4, x.r[c.a])
    BY SMT DEF Asked
  <2>2. IsAt(Skip(x, 2), at + 2, 1, r, << >>)
    BY Zenon, AtSkip DEF Setting
  <2>3. Skip(x, 2).r[13] = r[13]
    BY Zenon, <2>2 DEF IsAt
  <2>4. Stack - 4 = r[13] + o /\ Skip(x, 2).r[13] - 4 = r[13] + o
    BY SMT, <1>2, <1>3, <2>3
  <2> QED BY Zenon, <1>2, <1>4, <2>1, <2>4
<1> QED BY Zenon, <1>1, <1>5, <1>6 DEF Meets

LEMMA MeansThumbPop ==
  ASSUME Thumb, NEW c, c.put = "pop", c.a \in 0..7, NEW x, NEW at, NEW r, Setting(x, at, 1, r)
  PROVE  Meets(x, at, c)
<1>i. PICK items : items = thumb_put_pop_reg(c.a)
  OBVIOUS
<1>1. Put(c, at) = items
  BY SMT, <1>i DEF Put
<1>2. x.r = r /\ r[13] \in Int /\ r[13] = Stack /\ SP = 13
  BY SMT, FileInt DEF Setting, IsAt, SP
<1>3. PICK o \in Int, i \in {0, 1} : PopBy(o, i)
  BY SMT DEF PopBy
<1>4. PICK access : access = r[13] + (IF i = 1 THEN o ELSE 0)
  OBVIOUS
<1>5. access = Stack
  BY SMT, <1>2, <1>3, <1>4 DEF PopBy
<1>6. Far(access, at)
  <2>1. PICK j \in 0..14, v \in Int : j = 13 /\ v = 0 /\ TwelveSigned(v)
    BY SMT DEF TwelveSigned, ABS
  <2>2. Clear(r, at) /\ TwelveSigned(v)
    BY Zenon, <2>1 DEF Setting
  <2>3. Far(r[j] + v, at)
    BY Zenon, <2>2 DEF Clear
  <2>4. r[j] + v = access
    BY SMT, <1>2, <1>5, <2>1
  <2> QED BY Zenon, <2>3, <2>4
<1>7. PICK g : g = [Set(x, c.a, Content(access), 2) EXCEPT !.r[13] = r[13] + o]
  OBVIOUS
<1>8. SizeOf(items) = 2 /\ Does(x, at, items, g)
  <2>1. at \in Int /\ IsAt(x, at, 1, r, << >>)
    BY Zenon DEF Setting
  <2>2. r[13] \in Int
    BY Zenon, <1>2
  <2>3. /\ SizeOf(items) = 2
        /\ Does(x, at, items, [Set(x, c.a, Content(access), 2) EXCEPT !.r[13] = r[13] + o])
    <3>1. Popped(x, at, r, c.a, o, i, access)
      BY Zenon, <1>3, <1>4, <1>6, <2>1, <2>2 DEF Popped
    <3> QED BY Zenon, <1>i, <3>1, ThumbPop
  <2> QED BY Zenon, <1>7, <2>3
<1>9. Asked(x, c, 2) = g
  <2>1. Asked(x, c, 2) = [Set(x, c.a, Content(Stack), 2) EXCEPT !.r[SP] = Stack + 4]
    BY SMT DEF Asked
  <2>2. Stack + 4 = r[13] + o
    BY SMT, <1>2, <1>3 DEF PopBy
  <2> QED BY Zenon, <1>2, <1>5, <1>7, <2>1, <2>2
<1> QED BY Zenon, <1>1, <1>8, <1>9 DEF Meets

LEMMA MeansThumbBx ==
  ASSUME Thumb, NEW c, c.put = "bx", c.a \in 0..14, NEW x, NEW at, NEW r, Setting(x, at, 1, r),
         at % 2 = 0
  PROVE  Meets(x, at, c)
<1>i. PICK items : items = thumb_put_bx_reg(at + 4, c.a)
  OBVIOUS
<1>1. Put(c, at) = items
  BY SMT, <1>i DEF Put
<1>2. at \in Int /\ IsAt(x, at, 1, r, << >>) /\ x.r = r
  BY Zenon DEF Setting, IsAt
<1>3. r[c.a] \in Int /\ Far(r[c.a] - (r[c.a] % 2), at)
  BY Zenon, FileInt, ClearBit DEF Setting
<1>4. PICK n : SizeOf(items) = n /\ Does(x, at, items, Interwork(x, r[c.a]))
  <2>1. (at + 4) % 4 = 0 \/ (at + 4) % 4 = 2
    BY SMT, <1>2
  <2>2. CASE (at + 4) % 4 = 0
    BY Zenon, <1>i, <1>2, <1>3, <2>2, ThumbBxAligned
  <2>3. CASE (at + 4) % 4 = 2
    BY Zenon, <1>i, <1>2, <1>3, <2>3, ThumbBxUnaligned
  <2> QED BY Zenon, <2>1, <2>2, <2>3
<1>5. Asked(x, c, n) = Interwork(x, r[c.a])
  BY SMT, <1>2 DEF Asked
<1> QED BY Zenon, <1>1, <1>4, <1>5 DEF Meets

LEMMA MeansThumbBlx ==
  ASSUME Thumb, NEW c, c.put = "blx", c.a \in 0..14, NEW x, NEW at, NEW r, Setting(x, at, 1, r)
  PROVE  Meets(x, at, c)
<1>i. PICK items : items = thumb_put_blx_reg(c.a)
  OBVIOUS
<1>1. Put(c, at) = items
  BY SMT, <1>i DEF Put
<1>2. at \in Int /\ IsAt(x, at, 1, r, << >>) /\ x.r = r
  BY Zenon DEF Setting, IsAt
<1>3. r[c.a] \in Int /\ Far(r[c.a] - (r[c.a] % 2), at)
  <2>1. IsFile(r) /\ Clear(r, at)
    BY Zenon DEF Setting
  <2> QED BY Zenon, <1>2, <2>1, FileInt, ClearBit
<1>4. SizeOf(items) = 2 /\ Does(x, at, items, Interwork(Link(x, 2), r[c.a]))
  BY Zenon, <1>i, <1>2, <1>3, ThumbBlx
<1>5. Asked(x, c, 2) = Interwork(Link(x, 2), r[c.a])
  BY SMT, <1>2 DEF Asked
<1> QED BY Zenon, <1>1, <1>4, <1>5 DEF Meets

LEMMA MeansThumbLdrPC ==
  ASSUME Thumb, NEW c, c.put = "ldr_reg_address", c.a = PC, Wordly(c.v),
         NEW x, NEW at, NEW r, Setting(x, at, 1, r), at % 2 = 0, Far(c.v - (c.v % 2), at)
  PROVE  Meets(x, at, c)
<1>i. PICK items : items = thumb_put_ldr_reg_address(at + 4, PC, c.v)
  OBVIOUS
<1>1. Put(c, at) = items
  BY SMT, <1>i DEF Put
<1>2. at \in Int /\ IsAt(x, at, 1, r, << >>)
  BY Zenon DEF Setting
<1>4. PICK n : SizeOf(items) = n /\ Does(x, at, items, Interwork(x, c.v))
  <2>1. (at + 4) % 4 = 0 \/ (at + 4) % 4 = 2
    BY SMT, <1>2
  <2>2. CASE (at + 4) % 4 = 0
    BY Zenon, <1>i, <1>2, <2>2, ThumbLdrPCAligned
  <2>3. CASE (at + 4) % 4 = 2
    BY Zenon, <1>i, <1>2, <2>3, ThumbLdrPCUnaligned
  <2> QED BY Zenon, <2>1, <2>2, <2>3
<1>5. Asked(x, c, n) = Set(x, c.a, c.v, n)
  BY SMT DEF Asked
<1>6. Set(x, c.a, c.v, n) = Interwork(x, c.v)
  BY SMT DEF Set, PC
<1> QED BY Zenon, <1>1, <1>4, <1>5, <1>6 DEF Meets

LEMMA MeansThumbB ==
  ASSUME Thumb, NEW c, c.put = "b", NEW w \in Int, c.v = 2 * w, Branch(w), w # -2,
         NEW x, NEW at, NEW r, Setting(x, at, 1, r)
  PROVE  Meets(x, at, c)
<1>v. PICK v \in Int : v = 2 * w /\ v = c.v
  BY SMT
<1>i. PICK items : items = thumb_put_b_imm(v)
  OBVIOUS
<1>1. Put(c, at) = items
  BY SMT, <1>i, <1>v DEF Put
<1>2. at \in Int /\ IsAt(x, at, 1, r, << >>)
  BY Zenon DEF Setting
<1>3. Here(x) = at + 4
  BY SMT, <1>2 DEF IsAt, Here
<1>4. SizeOf(items) = 2 /\ Does(x, at, items, Goto(x, at + 4 + v))
  <2>1. v = 2 * w
    BY Zenon, <1>v
  <2> QED BY Zenon, <1>i, <1>2, <2>1, ThumbB
<1>5. Asked(x, c, 2) = Goto(x, at + 4 + v)
  BY SMT, <1>v, <1>3 DEF Asked
<1> QED BY Zenon, <1>1, <1>4, <1>5 DEF Meets

LEMMA MeansThumbBWide ==
  ASSUME Thumb, NEW c, c.put = "b_wide", NEW w \in Int, c.v = 2 * w, Wide(w), w # -2, w # -1,
         NEW x, NEW at, NEW r, Setting(x, at, 1, r)
  PROVE  Meets(x, at, c)
<1>v. PICK v \in Int : v = 2 * w /\ v = c.v
  BY SMT
<1>i. PICK items : items = thumb_put_b_imm32(v)
  OBVIOUS
<1>1. Put(c, at) = items
  BY SMT, <1>i, <1>v DEF Put
<1>2. at \in Int /\ IsAt(x, at, 1, r, << >>)
  BY Zenon DEF Setting
<1>3. Here(x) = at + 4
  BY SMT, <1>2 DEF IsAt, Here
<1>4. SizeOf(items) = 4 /\ Does(x, at, items, Goto(x, at + 4 + v))
  <2>1. v = 2 * w
    BY Zenon, <1>v
  <2> QED BY Zenon, <1>i, <1>2, <2>1, ThumbBWide
<1>5. Asked(x, c, 4) = Goto(x, at + 4 + v)
  BY SMT, <1>v, <1>3 DEF Asked
<1> QED BY Zenon, <1>1, <1>4, <1>5 DEF Meets

LEMMA MeansThumbBl ==
  ASSUME Thumb, NEW c, c.put = "bl", NEW w \in Int, c.v = 2 * w, Wide(w), w # -2, w # -1,
         NEW x, NEW at, NEW r, Setting(x, at, 1, r)
  PROVE  Meets(x, at, c)
<1>v. PICK v \in Int : v = 2 * w /\ v = c.v
  BY SMT
<1>i. PICK items : items = thumb_put_bl_imm(v)
  OBVIOUS
<1>1. Put(c, at) = items
  BY SMT, <1>i, <1>v DEF Put
<1>2. at \in Int /\ IsAt(x, at, 1, r, << >>)
  BY Zenon DEF Setting
<1>3. Here(x) = at + 4
  BY SMT, <1>2 DEF IsAt, Here
<1>4. SizeOf(items) = 4 /\ Does(x, at, items, Goto(Link(x, 4), at + 4 + v))
  <2>1. v = 2 * w
    BY Zenon, <1>v
  <2> QED BY Zenon, <1>i, <1>2, <2>1, ThumbBl
<1>5. Asked(x, c, 4) = Goto(Link(x, 4), at + 4 + v)
  BY SMT, <1>v, <1>3 DEF Asked
<1> QED BY Zenon, <1>1, <1>4, <1>5 DEF Meets

LEMMA MeansThumbBlxImm ==
  ASSUME Thumb, NEW c, c.put = "blx_imm", NEW w \in Int, c.v = 2 * w, Wide(w), w # -2, w # 0,
         w % 2 = 0,
         NEW x, NEW at, NEW r, Setting(x, at, 1, r)
  PROVE  Meets(x, at, c)
<1>v. PICK v \in Int : v = 2 * w /\ v = c.v
  BY SMT
<1>i. PICK items : items = thumb_put_blx_imm(v)
  OBVIOUS
<1>1. Put(c, at) = items
  BY SMT, <1>i, <1>v DEF Put
<1>2. at \in Int /\ IsAt(x, at, 1, r, << >>)
  BY Zenon DEF Setting
<1>3. Here(x) = at + 4
  BY SMT, <1>2 DEF IsAt, Here
<1>4. SizeOf(items) = 4 /\ Does(x, at, items, Interwork(Link(x, 4), ALIGN_FLOOR(at + 4, 4) + v))
  <2>1. v = 2 * w
    BY Zenon, <1>v
  <2> QED BY Zenon, <1>i, <1>2, <2>1, ThumbBlxImm
<1>5. Asked(x, c, 4) = Interwork(Link(x, 4), ALIGN_FLOOR(at + 4, 4) + v)
  BY SMT, <1>v, <1>3 DEF Asked
<1> QED BY Zenon, <1>1, <1>4, <1>5 DEF Meets

(* ------------------------------------------------------------------------ *)
(* The calls of the writer for ARM                                            *)

LEMMA MeansArmNop ==
  ASSUME ~Thumb, NEW c, c.put = "nop", NEW x, NEW at, NEW r, Setting(x, at, 0, r)
  PROVE  Meets(x, at, c)
<1>i. PICK items : items = arm_put_nop
  OBVIOUS
<1>1. Put(c, at) = items
  BY SMT, <1>i DEF Put
<1>2. SizeOf(items) = 4 /\ Does(x, at, items, Skip(x, 4))
  <2>1. at \in Int /\ IsAt(x, at, 0, r, << >>)
    BY Zenon DEF Setting
  <2>2. PutsArmNop(items)
    BY Zenon, <1>i, PutsNopArm
  <2> QED BY Zenon, <2>1, <2>2, ArmDoesNop
<1>3. Asked(x, c, 4) = Skip(x, 4)
  BY SMT DEF Asked
<1> QED BY Zenon, <1>1, <1>2, <1>3 DEF Meets

LEMMA MeansArmLdrB ==
  ASSUME ~Thumb, NEW c, c.put = "ldr_b_reg_address", c.a \in 0..14, Wordly(c.v),
         NEW x, NEW at, NEW r, Setting(x, at, 0, r), OnWord(at)
  PROVE  Meets(x, at, c)
<1>i. PICK items : items = arm_put_ldr_b_reg_address(c.a, c.v)
  OBVIOUS
<1>1. Put(c, at) = items
  BY SMT, <1>i DEF Put
<1>2. SizeOf(items) = 12 /\ Does(x, at, items, Set(x, c.a, c.v, 12))
  <2>1. at \in Int /\ IsAt(x, at, 0, r, << >>)
    BY Zenon DEF Setting
  <2> QED BY Zenon, <1>i, <2>1, ArmDoesLdrB
<1>3. Asked(x, c, 12) = Set(x, c.a, c.v, 12)
  BY SMT DEF Asked
<1> QED BY Zenon, <1>1, <1>2, <1>3 DEF Meets

LEMMA MeansArmLdrPC ==
  ASSUME ~Thumb, NEW c, c.put = "ldr_reg_address", c.a = PC, Wordly(c.v),
         NEW x, NEW at, NEW r, Setting(x, at, 0, r), OnWord(at), Far(c.v - (c.v % 2), at)
  PROVE  Meets(x, at, c)
<1>i. PICK items : items = arm_put_ldr_reg_address(PC, c.v)
  OBVIOUS
<1>1. Put(c, at) = items
  BY SMT, <1>i DEF Put
<1>2. SizeOf(items) = 8 /\ Does(x, at, items, Interwork(x, c.v))
  <2>1. at \in Int /\ IsAt(x, at, 0, r, << >>)
    BY Zenon DEF Setting
  <2>2. PICK n \in {4, 8, 24} : n = 8
    BY SMT
  <2>3. Beyond(c.v - (c.v % 2), at, n)
    BY Zenon, <2>1, FarBeyond
  <2>4. Beyond(c.v - (c.v % 2), at, 8)
    BY Zenon, <2>2, <2>3
  <2> QED BY Zenon, <1>i, <2>1, <2>4, ArmDoesLdrPC
<1>3. Asked(x, c, 8) = Set(x, c.a, c.v, 8)
  BY SMT DEF Asked
<1>4. Set(x, c.a, c.v, 8) = Interwork(x, c.v)
  BY SMT DEF Set, PC
<1> QED BY Zenon, <1>1, <1>2, <1>3, <1>4 DEF Meets

LEMMA ClearBeyond ==
  ASSUME NEW at \in Int, NEW r, Clear(r, at), NEW b \in 0..14, NEW v \in Int, TwelveSigned(v)
  PROVE  Beyond(r[b] + v, at, 4)
<1>1. PICK n \in {4, 8, 24} : n = 4
  BY SMT
<1>2. Far(r[b] + v, at)
  BY Zenon DEF Clear
<1>3. Beyond(r[b] + v, at, n)
  BY Zenon, <1>2, FarBeyond
<1> QED BY Zenon, <1>1, <1>3

LEMMA MeansArmLdr ==
  ASSUME ~Thumb, NEW c, c.put = "ldr", c.a \in 0..14, c.b \in 0..14, c.v \in Int, TwelveSigned(c.v),
         NEW x, NEW at, NEW r, Setting(x, at, 0, r)
  PROVE  Meets(x, at, c)
<1>i. PICK items : items = arm_put_ldr_reg_reg_imm(c.a, c.b, c.v)
  OBVIOUS
<1>1. Put(c, at) = items
  BY SMT, <1>i DEF Put
<1>2. SizeOf(items) = 4 /\ Does(x, at, items, Set(x, c.a, Content(r[c.b] + c.v), 4))
  <2>1. at \in Int /\ IsAt(x, at, 0, r, << >>) /\ Clear(r, at)
    BY Zenon DEF Setting
  <2>2. c.a \in 0..15
    BY SMT
  <2>3. PutsMove(items, 1, c.a, c.b, c.v, 1, 0)
    BY Zenon, <1>i, <2>2, PutsArmLdr
  <2>4. Beyond(r[c.b] + c.v, at, 4)
    BY Zenon, <2>1, ClearBeyond
  <2> QED BY Zenon, <2>1, <2>3, <2>4, ArmDoesLdr
<1>3. x.r = r /\ c.b # PC
  BY SMT DEF Setting, IsAt, PC
<1>4. Asked(x, c, 4) = Set(x, c.a, Content(r[c.b] + c.v), 4)
  BY SMT, <1>3 DEF Asked
<1> QED BY Zenon, <1>1, <1>2, <1>4 DEF Meets

HereIs(x, at, r) ==
  /\ at \in Int /\ IsAt(x, at, 0, r, << >>) /\ x.r = r
  /\ Here(x) = at + 8 /\ ALIGN_FLOOR(Here(x), 4) = at + 8

LEMMA SettingHere ==
  ASSUME NEW x, NEW at, NEW r, Setting(x, at, 0, r), OnWord(at)
  PROVE  HereIs(x, at, r)
<1>1. at \in Int /\ IsAt(x, at, 0, r, << >>) /\ x.r = r
  BY Zenon DEF Setting, IsAt
<1>2. Here(x) = at + 8
  BY SMT, <1>1 DEF IsAt, Here
<1>3. ALIGN_FLOOR(at + 8, 4) = at + 8
  BY SMT, <1>1 DEF ALIGN_FLOOR, OnWord
<1> QED BY Zenon, <1>1, <1>2, <1>3 DEF HereIs

LEMMA MeansArmLiteral ==
  ASSUME ~Thumb, NEW c, c.put = "ldr", c.a \in 0..14, c.b = PC, c.v \in Int, TwelveSigned(c.v),
         NEW x, NEW at, NEW r, Setting(x, at, 0, r), OnWord(at), Beyond(at + 8 + c.v, at, 4)
  PROVE  Meets(x, at, c)
<1>i. PICK items : items = arm_put_ldr_reg_reg_imm(c.a, PC, c.v)
  OBVIOUS
<1>1. Put(c, at) = items
  BY SMT, <1>i DEF Put
<1>3. /\ at \in Int /\ IsAt(x, at, 0, r, << >>) /\ x.r = r
      /\ Here(x) = at + 8 /\ ALIGN_FLOOR(Here(x), 4) = at + 8
  <2>1. HereIs(x, at, r)
    BY Zenon, SettingHere
  <2> QED BY Zenon, <2>1 DEF HereIs
<1>2. SizeOf(items) = 4 /\ Does(x, at, items, Set(x, c.a, Content(at + 8 + c.v), 4))
  <2>2. c.a \in 0..15
    BY SMT
  <2>3. PutsMove(items, 1, c.a, 15, c.v, 1, 0)
    BY Zenon, <1>i, <2>2, PutsArmLiteral
  <2> QED BY Zenon, <1>3, <2>3, ArmDoesLiteral
<1>4. Asked(x, c, 4) = Set(x, c.a, Content(at + 8 + c.v), 4)
  BY SMT, <1>3 DEF Asked
<1> QED BY Zenon, <1>1, <1>2, <1>4 DEF Meets

LEMMA MeansArmStr ==
  ASSUME ~Thumb, NEW c, c.put = "str", c.a \in 0..14, c.b \in 0..14, c.v \in Nat, Twelve(c.v),
         NEW x, NEW at, NEW r, Setting(x, at, 0, r)
  PROVE  Meets(x, at, c)
<1>i. PICK items : items = arm_put_str_reg_reg_imm(c.a, c.b, c.v)
  OBVIOUS
<1>1. Put(c, at) = items
  BY SMT, <1>i DEF Put
<1>2. SizeOf(items) = 4 /\ Does(x, at, items, Store(Skip(x, 4), r[c.b] + c.v, r[c.a]))
  <2>1. at \in Int /\ IsAt(x, at, 0, r, << >>)
    BY Zenon DEF Setting
  <2>2. c.v \in Int
    BY SMT
  <2>3. PutsMove(items, 0, c.a, c.b, c.v, 1, 0)
    BY Zenon, <1>i, PutsArmStr
  <2> QED BY Zenon, <2>1, <2>2, <2>3, ArmDoesStr
<1>3. x.r = r /\ c.b # PC
  BY SMT DEF Setting, IsAt, PC
<1>4. Asked(x, c, 4) = Store(Skip(x, 4), r[c.b] + c.v, r[c.a])
  BY SMT, <1>3 DEF Asked
<1> QED BY Zenon, <1>1, <1>2, <1>4 DEF Meets

LEMMA MeansArmAdd ==
  ASSUME ~Thumb, NEW c, c.put = "add", c.a \in 0..14, c.b \in 0..15, c.v \in Nat, Eight(c.v),
         NEW x, NEW at, NEW r, Setting(x, at, 0, r), OnWord(at)
  PROVE  Meets(x, at, c)
<1>i. PICK items : items = arm_put_add_reg_reg_imm(c.a, c.b, c.v)
  OBVIOUS
<1>1. Put(c, at) = items
  BY SMT, <1>i DEF Put
<1>3. /\ at \in Int /\ IsAt(x, at, 0, r, << >>) /\ x.r = r
      /\ Here(x) = at + 8 /\ ALIGN_FLOOR(Here(x), 4) = at + 8
  <2>1. HereIs(x, at, r)
    BY Zenon, SettingHere
  <2> QED BY Zenon, <2>1 DEF HereIs
<1>2. SizeOf(items) = 4 /\ Does(x, at, items, Set(x, c.a, Moved(0, Reg(x, c.b), c.v), 4))
  <2>3. PutsAdd(items, 0, c.a, c.b, c.v)
    BY Zenon, <1>i, PutsArmAdd
  <2> QED BY Zenon, <1>3, <2>3, ArmDoesAdd
<1>4. Moved(0, Reg(x, c.b), c.v) = Reg(x, c.b) + c.v
  BY SMT DEF Moved
<1>5. Reg(x, c.b) = IF c.b = PC THEN ALIGN_FLOOR(Here(x), 4) ELSE r[c.b]
  BY SMT, <1>3 DEF Reg, PC
<1>6. Asked(x, c, 4) = Set(x, c.a, Moved(0, Reg(x, c.b), c.v), 4)
  BY SMT, <1>3, <1>4, <1>5 DEF Asked
<1> QED BY Zenon, <1>1, <1>2, <1>6 DEF Meets

LEMMA MeansArmSub ==
  ASSUME ~Thumb, NEW c, c.put = "sub", c.a \in 0..14, c.b \in 0..15, c.v \in Nat, Eight(c.v),
         NEW x, NEW at, NEW r, Setting(x, at, 0, r), OnWord(at)
  PROVE  Meets(x, at, c)
<1>i. PICK items : items = arm_put_sub_reg_reg_imm(c.a, c.b, c.v)
  OBVIOUS
<1>1. Put(c, at) = items
  BY SMT, <1>i DEF Put
<1>3. /\ at \in Int /\ IsAt(x, at, 0, r, << >>) /\ x.r = r
      /\ Here(x) = at + 8 /\ ALIGN_FLOOR(Here(x), 4) = at + 8
  <2>1. HereIs(x, at, r)
    BY Zenon, SettingHere
  <2> QED BY Zenon, <2>1 DEF HereIs
<1>2. SizeOf(items) = 4 /\ Does(x, at, items, Set(x, c.a, Moved(1, Reg(x, c.b), c.v), 4))
  <2>3. PutsAdd(items, 1, c.a, c.b, c.v)
    BY Zenon, <1>i, PutsArmAdd
  <2> QED BY Zenon, <1>3, <2>3, ArmDoesAdd
<1>4. Moved(1, Reg(x, c.b), c.v) = Reg(x, c.b) - c.v
  BY SMT DEF Moved
<1>5. Reg(x, c.b) = IF c.b = PC THEN ALIGN_FLOOR(Here(x), 4) ELSE r[c.b]
  BY SMT, <1>3 DEF Reg, PC
<1>6. Asked(x, c, 4) = Set(x, c.a, Moved(1, Reg(x, c.b), c.v), 4)
  BY SMT, <1>3, <1>4, <1>5 DEF Asked
<1> QED BY Zenon, <1>1, <1>2, <1>6 DEF Meets

LEMMA MeansArmPush ==
  ASSUME ~Thumb, NEW c, c.put = "push", c.a \in 0..14, NEW x, NEW at, NEW r, Setting(x, at, 0, r)
  PROVE  Meets(x, at, c)
<1>i. PICK items : items = arm_put_push_reg(c.a)
  OBVIOUS
<1>1. Put(c, at) = items
  BY SMT, <1>i DEF Put
<1>2. x.r = r /\ r[13] \in Int /\ r[13] = Stack /\ SP = 13
  BY SMT, FileInt DEF Setting, IsAt, SP
<1>3. PICK o \in Int, b \in 0..14 : o = -4 /\ b = 13
  BY SMT
<1>4. PICK g : g = Store([Skip(x, 4) EXCEPT !.r[b] = r[b] + o], r[b] + o, r[c.a])
  OBVIOUS
<1>5. SizeOf(items) = 4 /\ Does(x, at, items, g)
  <2>1. at \in Int /\ IsAt(x, at, 0, r, << >>)
    BY Zenon DEF Setting
  <2>2. r[b] \in Int
    BY Zenon, <1>2, <1>3
  <2>3. PutsMove(items, 0, c.a, b, o, 1, 1)
    BY Zenon, <1>i, <1>3, PutsArmPush
  <2> QED BY Zenon, <1>4, <2>1, <2>2, <2>3, ArmDoesStrIndex
<1>6. Asked(x, c, 4) = g
  <2>1. Asked(x, c, 4) = Store([Skip(x, 4) EXCEPT !.r[SP] = @ - 4], Stack - 4, x.r[c.a])
    BY SMT DEF Asked
  <2>2. IsAt(Skip(x, 4), at + 4, 0, r, << >>)
    BY Zenon, AtSkip DEF Setting
  <2>3. Skip(x, 4).r[13] = r[13]
    BY Zenon, <2>2 DEF IsAt
  <2>4. Stack - 4 = r[b] + o /\ Skip(x, 4).r[13] - 4 = r[b] + o
    BY SMT, <1>2, <1>3, <2>3
  <2> QED BY Zenon, <1>2, <1>3, <1>4, <2>1, <2>4
<1> QED BY Zenon, <1>1, <1>5, <1>6 DEF Meets

LEMMA MeansArmBx ==
  ASSUME ~Thumb, NEW c, c.put = "bx", c.a \in 0..14, NEW x, NEW at, NEW r, Setting(x, at, 0, r)
  PROVE  Meets(x, at, c)
<1>i. PICK items : items = arm_put_bx_reg(c.a)
  OBVIOUS
<1>1. Put(c, at) = items
  BY SMT, <1>i DEF Put
<1>2. at \in Int /\ IsAt(x, at, 0, r, << >>) /\ x.r = r
  BY Zenon DEF Setting, IsAt
<1>3. r[c.a] \in Int /\ Beyond(r[c.a] - (r[c.a] % 2), at, 4)
  <2>1. IsFile(r) /\ Clear(r, at)
    BY Zenon DEF Setting
  <2>2. r[c.a] \in Int /\ Far(r[c.a] - (r[c.a] % 2), at)
    BY Zenon, <1>2, <2>1, FileInt, ClearBit
  <2>3. PICK n \in {4, 8, 24} : n = 4
    BY SMT
  <2>4. Beyond(r[c.a] - (r[c.a] % 2), at, n)
    BY Zenon, <1>2, <2>2, FarBeyond
  <2> QED BY Zenon, <2>2, <2>3, <2>4
<1>4. SizeOf(items) = 4 /\ Does(x, at, items, Interwork(x, r[c.a]))
  <2>1. PutsBx(items, c.a)
    BY Zenon, <1>i, PutsArmBx
  <2> QED BY Zenon, <1>2, <1>3, <2>1, ArmDoesBx
<1>5. Asked(x, c, 4) = Interwork(x, r[c.a])
  BY SMT, <1>2 DEF Asked
<1> QED BY Zenon, <1>1, <1>4, <1>5 DEF Meets

LEMMA MeansArmB ==
  ASSUME ~Thumb, NEW c, c.put = "b", NEW w \in Int, c.v = 4 * w, Branch24(w), w # -2,
         NEW x, NEW at, NEW r, Setting(x, at, 0, r)
  PROVE  Meets(x, at, c)
<1>v. PICK v \in Int : v = 4 * w /\ v = c.v
  BY SMT
<1>i. PICK items : items = arm_put_b_imm(v)
  OBVIOUS
<1>1. Put(c, at) = items
  BY SMT, <1>i, <1>v DEF Put
<1>2. at \in Int /\ IsAt(x, at, 0, r, << >>)
  BY Zenon DEF Setting
<1>3. Here(x) = at + 8
  BY SMT, <1>2 DEF IsAt, Here
<1>4. SizeOf(items) = 4 /\ Does(x, at, items, Goto(x, at + 8 + v))
  <2>1. v = 4 * w
    BY Zenon, <1>v
  <2>2. PutsB(items, w)
    BY Zenon, <1>i, <2>1, PutsArmB
  <2> QED BY Zenon, <1>2, <2>1, <2>2, ArmDoesB
<1>5. Asked(x, c, 4) = Goto(x, at + 8 + v)
  BY SMT, <1>v, <1>3 DEF Asked
<1> QED BY Zenon, <1>1, <1>4, <1>5 DEF Meets

LEMMA MeansArmBxToThumb ==
  ASSUME ~Thumb, NEW c, c.put = "bx_to_thumb", NEW x, NEW at, NEW r, Setting(x, at, 0, r),
         OnWord(at)
  PROVE  Meets(x, at, c)
<1>1. Put(c, at) = arm_put_bx_to_thumb
  BY SMT DEF Put
<1>2. at \in Int /\ IsAt(x, at, 0, r, << >>) /\ IsFile(r) /\ Clear(r, at)
  BY Zenon DEF Setting
<1>3. Beyond(r[13] - 8, at, 24) /\ Beyond(r[13] - 4, at, 24)
  <2>1. PICK j \in 0..14, n \in {4, 8, 24} : j = 13 /\ n = 24
    BY SMT
  <2>2. PICK v \in Int, w \in Int : v = -8 /\ w = -4
    BY SMT
  <2>3. TwelveSigned(v) /\ TwelveSigned(w)
    BY SMT, <2>2 DEF TwelveSigned, ABS
  <2>4. Far(r[j] + v, at) /\ Far(r[j] + w, at)
    BY Zenon, <1>2, <2>3 DEF Clear
  <2>5. Beyond(r[j] + v, at, n) /\ Beyond(r[j] + w, at, n)
    BY Zenon, <1>2, <2>4, FarBeyond
  <2>6. r[13] \in Int
    BY SMT, <1>2, FileInt
  <2>7. r[j] + v = r[13] - 8 /\ r[j] + w = r[13] - 4
    BY SMT, <2>1, <2>2, <2>6
  <2> QED BY Zenon, <2>1, <2>5, <2>7
<1>g. PICK g : g = [Skip(x, 24) EXCEPT !.thumb = TRUE]
  OBVIOUS
<1>4. IsAt(g, at + 24, 1, r, << >>)
  <2>1. IsAt(Skip(x, 24), at + 24, 0, r, << >>)
    BY Zenon, <1>2, AtSkip
  <2>2. PICK y : y = Skip(x, 24)
    OBVIOUS
  <2>3. IsAt([y EXCEPT !.thumb = TRUE], at + 24, 1, r, << >>)
    <3>1. PICK b, u : b = TRUE /\ u = 1 /\ b \in BOOLEAN /\ (b <=> u = 1)
      OBVIOUS
    <3>2. IsAt([y EXCEPT !.thumb = b], at + 24, u, r, << >>)
      BY <2>1, <2>2, <3>1, AtMode
    <3> QED BY Zenon, <3>1, <3>2
  <2> QED BY Zenon, <1>g, <2>2, <2>3
<1>5. SizeOf(arm_put_bx_to_thumb) = 24 /\ Does(x, at, arm_put_bx_to_thumb, g)
  BY Zenon, <1>2, <1>3, <1>4, ArmDoesBxToThumb
<1>6. Asked(x, c, 24) = g
  BY SMT, <1>g DEF Asked
<1> QED BY Zenon, <1>1, <1>5, <1>6 DEF Meets

LEMMA MeansArmLdrIndex ==
  ASSUME ~Thumb, NEW c, c.put = "ldr_index", c.a \in 0..14, c.b \in 0..14, c.a # c.b, c.v \in Int,
         TwelveSigned(c.v), c.index \in {0, 1}, NEW x, NEW at, NEW r, Setting(x, at, 0, r)
  PROVE  Meets(x, at, c)
<1>i. PICK items : items = arm_put_ldr_reg_reg_imm_index(c.a, c.b, c.v, c.index)
  OBVIOUS
<1>1. Put(c, at) = items
  BY SMT, <1>i DEF Put
<1>a. PICK access : access = r[c.b] + (IF c.index = 1 THEN c.v ELSE 0)
  OBVIOUS
<1>s. at \in Int /\ IsAt(x, at, 0, r, << >>) /\ IsFile(r) /\ Clear(r, at)
  BY Zenon DEF Setting
<1>r. r[c.b] \in Int /\ Beyond(access, at, 4)
  <2>1. r[c.b] \in Int
    BY Zenon, <1>s, FileInt
  <2>2. PICK v \in Int : v = (IF c.index = 1 THEN c.v ELSE 0) /\ TwelveSigned(v)
    BY SMT DEF TwelveSigned, ABS
  <2>3. TwelveSigned(v)
    BY Zenon, <2>2
  <2>4. Beyond(r[c.b] + v, at, 4)
    BY Zenon, <1>s, <2>3, ClearBeyond
  <2> QED BY Zenon, <1>a, <2>1, <2>2, <2>4
<1>2. /\ SizeOf(items) = 4
      /\ Does(x, at, items, [Set(x, c.a, Content(access), 4) EXCEPT !.r[c.b] = r[c.b] + c.v])
  <2>1. c.a \in 0..15
    BY SMT
  <2>2. PutsMove(items, 1, c.a, c.b, c.v, c.index, 1)
    BY Zenon, <1>i, <2>1, PutsArmLdrIndex
  <2>3. ArmIndexed(x, at, r, items, c.a, c.b, c.v, c.index, access)
    BY Zenon, <1>a, <1>r, <1>s, <2>2 DEF ArmIndexed
  <2> QED BY Zenon, <2>3, ArmDoesLdrIndex
<1>3. access = IF c.index = 0 THEN r[c.b] ELSE r[c.b] + c.v
  BY SMT, <1>a, <1>r
<1>4. x.r = r /\ c.b # PC
  BY SMT DEF Setting, IsAt, PC
<1>5. Asked(x, c, 4) = [Set(x, c.a, Content(access), 4) EXCEPT !.r[c.b] = r[c.b] + c.v]
  BY SMT, <1>3, <1>4 DEF Asked
<1> QED BY Zenon, <1>1, <1>2, <1>5 DEF Meets

LEMMA MeansArmPop ==
  ASSUME ~Thumb, NEW c, c.put = "pop", c.a \in 0..14, c.a # SP, NEW x, NEW at, NEW r,
         Setting(x, at, 0, r)
  PROVE  Meets(x, at, c)
<1>i. PICK items : items = arm_put_pop_reg(c.a)
  OBVIOUS
<1>1. Put(c, at) = items
  BY SMT, <1>i DEF Put
<1>2. x.r = r /\ r[13] \in Int /\ r[13] = Stack /\ SP = 13
  BY SMT, FileInt DEF Setting, IsAt, SP
<1>3. PICK o \in Int, i \in {0, 1}, b \in 0..14 : PopBy(o, i) /\ b = 13
  BY SMT DEF PopBy
<1>4. PICK access : access = r[b] + (IF i = 1 THEN o ELSE 0)
  OBVIOUS
<1>5. access = Stack
  BY SMT, <1>2, <1>3, <1>4 DEF PopBy
<1>s. at \in Int /\ IsAt(x, at, 0, r, << >>) /\ IsFile(r) /\ Clear(r, at)
  BY Zenon DEF Setting
<1>6. Beyond(access, at, 4)
  <2>1. PICK v \in Int : v = 0 /\ TwelveSigned(v)
    BY SMT DEF TwelveSigned, ABS
  <2>2. TwelveSigned(v)
    BY Zenon, <2>1
  <2>3. Beyond(r[b] + v, at, 4)
    BY Zenon, <1>s, <2>2, ClearBeyond
  <2>4. r[b] + v = access
    BY SMT, <1>2, <1>3, <1>5, <2>1
  <2> QED BY Zenon, <2>3, <2>4
<1>7. PICK g : g = [Set(x, c.a, Content(access), 4) EXCEPT !.r[b] = r[b] + o]
  OBVIOUS
<1>8. SizeOf(items) = 4 /\ Does(x, at, items, g)
  <2>1. c.a # b /\ r[b] \in Int
    BY SMT, <1>2, <1>3
  <2>2. PutsMove(items, 1, c.a, b, o, i, 1)
    <3>1. PutsMove(items, 1, c.a, 13, 4, 0, 1)
      BY Zenon, <1>i, PutsArmPop
    <3> QED BY SMT, <1>3, <3>1 DEF PopBy
  <2>3. ArmIndexed(x, at, r, items, c.a, b, o, i, access)
    BY Zenon, <1>4, <1>6, <1>s, <2>1, <2>2 DEF ArmIndexed
  <2>4. /\ SizeOf(items) = 4
        /\ Does(x, at, items, [Set(x, c.a, Content(access), 4) EXCEPT !.r[b] = r[b] + o])
    BY Zenon, <2>3, ArmDoesLdrIndex
  <2> QED BY Zenon, <1>7, <2>4
<1>9. Asked(x, c, 4) = g
  <2>1. Asked(x, c, 4) = [Set(x, c.a, Content(Stack), 4) EXCEPT !.r[SP] = Stack + 4]
    BY SMT DEF Asked
  <2>2. Stack + 4 = r[b] + o
    BY SMT, <1>2, <1>3 DEF PopBy
  <2> QED BY Zenon, <1>2, <1>3, <1>5, <1>7, <2>1, <2>2
<1> QED BY Zenon, <1>1, <1>8, <1>9 DEF Meets

(* ------------------------------------------------------------------------ *)
(* Every call of a writer that CallsAssumption admits                         *)

LEMMA ThumbCallMeets ==
  ASSUME Thumb, NEW c, NEW x, NEW at, NEW r, Setting(x, at, 1, r), at % 2 = 0, ThumbCall(c, at)
  PROVE  Meets(x, at, c)
<1>0. c.put \in {"nop", "ldr_b_reg_address", "ldr", "str", "ldr_index", "str_index", "add", "sub",
                 "sub_self", "add_reg", "push", "pop", "bx", "blx", "ldr_reg_address", "b",
                 "b_wide", "bl", "blx_imm"}
  BY SMT DEF ThumbCall, Within, Address
<1>1. CASE c.put = "nop"
  BY Zenon, <1>1, MeansThumbNop
<1>2. CASE c.put = "ldr_b_reg_address"
  <2>1. c.a \in 0..14 /\ Wordly(c.v)
    BY SMT, <1>2 DEF ThumbCall, Within, Address, Wordly
  <2> QED BY Zenon, <1>2, <2>1, MeansThumbLdrB
<1>3. CASE c.put \in {"ldr", "str"}
  <2>1. c.a \in 0..14 /\ c.b \in 0..14 /\ c.v \in Int
    BY SMT, <1>3 DEF ThumbCall, Within, Address
  <2>2. Offset(c.a, c.b, c.v)
    BY SMT, <1>3 DEF ThumbCall, Within, Address, Offset
  <2> QED BY Zenon, <1>3, <2>1, <2>2, MeansThumbLdr, MeansThumbStr
<1>4. CASE c.put \in {"ldr_index", "str_index"}
  <2>1. c.a \in 0..14 /\ c.b \in 0..14 /\ c.a # c.b /\ c.v \in Int /\ c.index \in {0, 1}
    BY SMT, <1>4 DEF ThumbCall, Within, Address
  <2>2. ABS(c.v) < 256
    BY SMT, <1>4 DEF ThumbCall, Within, Address, ABS
  <2>3. CASE c.put = "ldr_index"
    BY SMT, <2>1, <2>2, <2>3, MeansThumbLdrIndex
  <2>4. CASE c.put = "str_index"
    BY SMT, <2>1, <2>2, <2>4, MeansThumbStrIndex
  <2> QED BY Zenon, <1>4, <2>3, <2>4
<1>5. CASE c.put \in {"add", "sub"}
  <2>1. c.a \in 0..14 /\ c.b \in 0..15 /\ c.v \in Int
    BY SMT, <1>5 DEF ThumbCall, Within, Address
  <2>2. TwelveSigned(c.v)
    BY SMT, <1>5 DEF ThumbCall, Within, Address, TwelveSigned, ABS
  <2>3. c.b = c.a => Summand(c.a, c.v)
    BY SMT, <1>5 DEF ThumbCall, Within, Address, Summand, ABS, SP
  <2> QED BY Zenon, <1>5, <2>1, <2>2, <2>3, MeansThumbAdd, MeansThumbSub
<1>6. CASE c.put = "sub_self"
  <2>1. c.a \in 0..14 /\ c.v \in Int
    BY SMT, <1>6 DEF ThumbCall, Within, Address
  <2>2. Summand(c.a, c.v)
    BY SMT, <1>6 DEF ThumbCall, Within, Address, Summand, ABS, SP
  <2> QED BY Zenon, <1>6, <2>1, <2>2, MeansThumbSubSelf
<1>7. CASE c.put = "add_reg"
  <2>1. c.a \in 0..7 /\ c.b \in 0..7 /\ c.v \in 0..7
    BY SMT, <1>7 DEF ThumbCall, Within, Address
  <2> QED BY Zenon, <1>7, <2>1, MeansThumbAddReg
<1>8. CASE c.put \in {"push", "pop"}
  <2>1. c.a \in 0..7
    BY SMT, <1>8 DEF ThumbCall, Within, Address
  <2> QED BY Zenon, <1>8, <2>1, MeansThumbPush, MeansThumbPop
<1>9. CASE c.put \in {"bx", "blx"}
  <2>1. c.a \in 0..14
    BY SMT, <1>9 DEF ThumbCall, Within, Address
  <2> QED BY Zenon, <1>9, <2>1, MeansThumbBx, MeansThumbBlx
<1>10. CASE c.put = "ldr_reg_address"
  <2>1. c.a = PC /\ c.v \in Int
    BY SMT, <1>10 DEF ThumbCall, Within, Address
  <2>2. Wordly(c.v)
    BY SMT, <1>10 DEF ThumbCall, Within, Address, Wordly
  <2>3. at \in Int
    BY Zenon DEF Setting
  <2>4. Far(c.v - (c.v % 2), at)
    BY SMT, <1>10, <2>1, <2>3 DEF ThumbCall, Within, Address, Far
  <2> QED BY Zenon, <1>10, <2>1, <2>2, <2>4, MeansThumbLdrPC
<1>11. CASE c.put = "b"
  <2>1. c.v \in Int /\ c.v % 2 = 0
    BY SMT, <1>11 DEF ThumbCall, Within, Address
  <2>2. PICK w \in Int : c.v = 2 * w
    BY SMT, <2>1
  <2>3. Branch(w)
    BY SMT, <1>11, <2>2 DEF ThumbCall, Within, Address, Branch
  <2>4. w # -2
    BY SMT, <1>11, <2>2 DEF ThumbCall, Within, Address
  <2> QED BY Zenon, <1>11, <2>2, <2>3, <2>4, MeansThumbB
<1>12. CASE c.put \in {"b_wide", "bl", "blx_imm"}
  <2>1. c.v \in Int /\ c.v % 2 = 0 /\ (c.put = "blx_imm" => c.v % 4 = 0)
    BY SMT, <1>12 DEF ThumbCall, Within, Address
  <2>2. PICK w \in Int : c.v = 2 * w
    BY SMT, <2>1
  <2>3. 2 ^ 24 = 16777216
    BY SMT
  <2>4. Wide(w)
    BY SMT, <1>12, <2>2, <2>3 DEF ThumbCall, Within, Address, Wide
  <2>5. w # -2
    BY SMT, <1>12, <2>2 DEF ThumbCall, Within, Address
  <2>6. CASE c.put = "b_wide"
    <3>1. w # -1
      BY SMT, <2>2, <2>6 DEF ThumbCall, Within, Address
    <3> QED BY Zenon, <2>2, <2>4, <2>5, <2>6, <3>1, MeansThumbBWide
  <2>7. CASE c.put = "bl"
    <3>1. w # -1
      BY SMT, <2>2, <2>7 DEF ThumbCall, Within, Address
    <3> QED BY Zenon, <2>2, <2>4, <2>5, <2>7, <3>1, MeansThumbBl
  <2>8. CASE c.put = "blx_imm"
    <3>1. w # 0
      BY SMT, <2>2, <2>8 DEF ThumbCall, Within, Address
    <3>2. w % 2 = 0
      BY SMT, <2>1, <2>2, <2>8
    <3> QED BY Zenon, <2>2, <2>4, <2>5, <2>8, <3>1, <3>2, MeansThumbBlxImm
  <2> QED BY Zenon, <1>12, <2>6, <2>7, <2>8
<1> QED BY Zenon, <1>0, <1>1, <1>2, <1>3, <1>4, <1>5, <1>6, <1>7, <1>8, <1>9, <1>10, <1>11, <1>12

LEMMA ArmCallMeets ==
  ASSUME ~Thumb, NEW c, NEW x, NEW at, NEW r, Setting(x, at, 0, r), OnWord(at), ArmCall(c, at)
  PROVE  Meets(x, at, c)
<1>0. c.put \in {"nop", "bx_to_thumb", "ldr_b_reg_address", "ldr", "str", "ldr_index", "add", "sub",
                 "push", "bx", "pop", "ldr_reg_address", "b"}
  BY SMT DEF ArmCall, Within, Address
<1>at. at \in Int /\ at % 4 = 0
  BY Zenon DEF Setting, OnWord
<1>1. CASE c.put = "nop"
  BY Zenon, <1>1, MeansArmNop
<1>2. CASE c.put = "bx_to_thumb"
  BY Zenon, <1>2, MeansArmBxToThumb
<1>3. CASE c.put = "ldr_b_reg_address"
  <2>1. c.a \in 0..14 /\ Wordly(c.v)
    BY SMT, <1>3 DEF ArmCall, Within, Address, Wordly
  <2> QED BY Zenon, <1>3, <2>1, MeansArmLdrB
<1>4. CASE c.put = "ldr"
  <2>1. c.a \in 0..14 /\ c.b \in 0..15 /\ c.v \in Int
    BY SMT, <1>4 DEF ArmCall, Within, Address
  <2>2. TwelveSigned(c.v)
    BY SMT, <1>4 DEF ArmCall, Within, Address, TwelveSigned, ABS
  <2>3. CASE c.b = PC
    <3>1. Beyond(at + 8 + c.v, at, 4)
      BY SMT, <1>4, <1>at, <2>1, <2>3 DEF ArmCall, Within, Address, Beyond
    <3> QED BY Zenon, <1>4, <2>1, <2>2, <2>3, <3>1, MeansArmLiteral
  <2>4. CASE c.b # PC
    <3>1. c.b \in 0..14
      BY SMT, <2>1, <2>4 DEF PC
    <3> QED BY Zenon, <1>4, <2>1, <2>2, <3>1, MeansArmLdr
  <2> QED BY Zenon, <2>3, <2>4
<1>5. CASE c.put = "str"
  <2>1. c.a \in 0..14 /\ c.b \in 0..14 /\ c.v \in Nat
    BY SMT, <1>5 DEF ArmCall, Within, Address
  <2>2. Twelve(c.v)
    BY SMT, <1>5 DEF ArmCall, Within, Address, Twelve
  <2> QED BY Zenon, <1>5, <2>1, <2>2, MeansArmStr
<1>6. CASE c.put = "ldr_index"
  <2>1. c.a \in 0..14 /\ c.b \in 0..14 /\ c.a # c.b /\ c.v \in Int /\ c.index \in {0, 1}
    BY SMT, <1>6 DEF ArmCall, Within, Address
  <2>2. TwelveSigned(c.v)
    BY SMT, <1>6 DEF ArmCall, Within, Address, TwelveSigned, ABS
  <2> QED BY Zenon, <1>6, <2>1, <2>2, MeansArmLdrIndex
<1>7. CASE c.put \in {"add", "sub"}
  <2>1. c.a \in 0..14 /\ c.b \in 0..15 /\ c.v \in Nat
    BY SMT, <1>7 DEF ArmCall, Within, Address
  <2>2. Eight(c.v)
    BY SMT, <1>7 DEF ArmCall, Within, Address, Eight
  <2> QED BY Zenon, <1>7, <2>1, <2>2, MeansArmAdd, MeansArmSub
<1>8. CASE c.put \in {"push", "bx"}
  <2>1. c.a \in 0..14
    BY SMT, <1>8 DEF ArmCall, Within, Address
  <2> QED BY Zenon, <1>8, <2>1, MeansArmPush, MeansArmBx
<1>9. CASE c.put = "pop"
  <2>1. c.a \in 0..14 /\ c.a # SP
    BY SMT, <1>9 DEF ArmCall, Within, Address
  <2> QED BY Zenon, <1>9, <2>1, MeansArmPop
<1>10. CASE c.put = "ldr_reg_address"
  <2>1. c.a = PC /\ c.v \in Int
    BY SMT, <1>10 DEF ArmCall, Within, Address
  <2>2. Wordly(c.v)
    BY SMT, <1>10 DEF ArmCall, Within, Address, Wordly
  <2>4. Far(c.v - (c.v % 2), at)
    BY SMT, <1>10, <2>1, <1>at DEF ArmCall, Within, Address, Far
  <2> QED BY Zenon, <1>10, <2>1, <2>2, <2>4, MeansArmLdrPC
<1>11. CASE c.put = "b"
  <2>1. c.v \in Int /\ c.v % 4 = 0
    BY SMT, <1>11 DEF ArmCall, Within, Address
  <2>2. PICK w \in Int : c.v = 4 * w
    BY SMT, <2>1
  <2>3. 2 ^ 25 = 33554432
    BY SMT
  <2>4. Branch24(w)
    BY SMT, <1>11, <2>2, <2>3 DEF ArmCall, Within, Address, Branch24
  <2>5. w # -2
    BY SMT, <1>11, <2>2 DEF ArmCall, Within, Address
  <2> QED BY Zenon, <1>11, <2>2, <2>4, <2>5, MeansArmB
<1> QED BY Zenon, <1>0, <1>1, <1>2, <1>3, <1>4, <1>5, <1>6, <1>7, <1>8, <1>9, <1>10, <1>11

\* What is asked of a job that is a call, by CallsAssumption
CallJob ==
  /\ job.kind = "call" /\ job.zero \in BOOLEAN /\ job.target \in Int /\ Spread(target_addr)
  /\ IF Thumb THEN ThumbCall(job.call, target_addr) /\ target_addr % 2 = 0
              ELSE ArmCall(job.call, target_addr) /\ OnWord(target_addr)

LEMMA CallJobIs ==
  ASSUME job \in Jobs, job.kind = "call"
  PROVE  CallJob /\ job.type = "PRE_POST"
<1>1. 2 ^ 16 = 65536 /\ 2 ^ 25 = 33554432
  BY SMT
<1>2. /\ job.target \in 2 ^ 16..(2 ^ 25 - 2 ^ 16) /\ job.type = "PRE_POST" /\ job.zero \in BOOLEAN
      /\ IF job.target % 2 = 1 THEN ThumbCall(job.call, job.target - 1)
                               ELSE job.target % 4 = 0 /\ ArmCall(job.call, job.target)
  BY Zenon, CallsAssumption
<1>3. job.target \in Int /\ Spread(target_addr)
  BY SMT, <1>1, <1>2 DEF Spread, target_addr
<1>4. CASE job.target % 2 = 1
  <2>1. target_addr = job.target - 1 /\ target_addr % 2 = 0
    BY SMT, <1>3, <1>4 DEF target_addr
  <2> QED BY Zenon, <1>2, <1>3, <1>4, <2>1 DEF CallJob, Thumb
<1>5. CASE job.target % 2 # 1
  <2>1. job.target % 4 = 0
    BY Zenon, <1>2, <1>5
  <2>2. target_addr = job.target
    BY SMT, <1>3, <2>1 DEF target_addr
  <2> QED BY Zenon, <1>2, <1>3, <1>5, <2>1, <2>2 DEF CallJob, Thumb, OnWord
<1> QED BY Zenon, <1>4, <1>5

LEMMA CallMeets ==
  ASSUME CallJob
  PROVE  Meets(CallMachine, target_addr, job.call)
<1>1. PICK at : at = target_addr
  OBVIOUS
<1>2. Setting(CallMachine, at, Bit(Thumb), Registers(job.zero))
  BY Zenon, <1>1, TheSetting DEF CallJob
<1>3. CASE Thumb
  <2>1. Bit(Thumb) = 1
    BY SMT, <1>3 DEF Bit
  <2>2. Setting(CallMachine, at, 1, Registers(job.zero))
    BY Zenon, <1>2, <2>1
  <2>3. ThumbCall(job.call, at) /\ at % 2 = 0
    BY Zenon, <1>1, <1>3 DEF CallJob
  <2>4. Meets(CallMachine, at, job.call)
    BY Zenon, <1>3, <2>2, <2>3, ThumbCallMeets
  <2> QED BY Zenon, <1>1, <2>4
<1>4. CASE ~Thumb
  <2>1. Bit(Thumb) = 0
    BY SMT, <1>4 DEF Bit
  <2>2. Setting(CallMachine, at, 0, Registers(job.zero))
    BY Zenon, <1>2, <2>1
  <2>3. ArmCall(job.call, at) /\ OnWord(at)
    BY Zenon, <1>1, <1>4 DEF CallJob
  <2>4. Meets(CallMachine, at, job.call)
    BY Zenon, <1>4, <2>2, <2>3, ArmCallMeets
  <2> QED BY Zenon, <1>1, <2>4
<1> QED BY Zenon, <1>3, <1>4

(* ------------------------------------------------------------------------ *)
(* A call stays on its way through what was put                               *)

\* Before the call what is to be put is known and the processor has not moved; behind it the
\* processor gets to where the call of the writer asks it to be
CallInv ==
  job.kind = "call" =>
    /\ job \in Jobs /\ stage = "call" /\ fault = "none" /\ "redirect_code_size" \in DOMAIN entry
    /\ \A i \in DOMAIN infos : infos[i].user_code = "other"
    /\ \/ steps = <<"put">> /\ m = CallMachine
       \/ /\ steps = << >>
          /\ code = At(target_addr, Put(job.call, target_addr))
          /\ entry.redirect_code_size = SizeOf(Put(job.call, target_addr))
          /\ Reach6(m, code, Asked(CallMachine, job.call, entry.redirect_code_size))

LEMMA CallInvInit ==
  ASSUME Init
  PROVE  CallInv
<1> SUFFICES ASSUME job.kind = "call"
             PROVE  CallInv
  BY DEF CallInv
<1>1. job \in Jobs /\ stage = "call" /\ fault = "none" /\ m = CallMachine
  BY DEF Init
<1>2. steps = <<"put">>
  BY SMT DEF Init
<1>3. "redirect_code_size" \in DOMAIN entry
  BY SMT DEF Init
<1>4. infos = [i \in 1..job.used |->
                 [user_code |-> "other", redirect_trampoline |-> PageAt(0) + 16 * (i - 1)]]
  BY DEF Init
<1>5. \A i \in DOMAIN infos : infos[i].user_code = "other"
  BY SMT, <1>4
<1> QED BY Zenon, <1>1, <1>2, <1>3, <1>5 DEF CallInv

LEMMA SameJob ==
  ASSUME job' = job
  PROVE  /\ target_addr' = target_addr
         /\ CallMachine' = CallMachine
         /\ Put(job.call, target_addr)' = Put(job.call, target_addr)
<1>1. target_addr' = target_addr
  BY DEF target_addr
<1>2. CallMachine' = CallMachine
  BY DEF CallMachine, Thumb, target_addr
<1>3. Put(job.call, target_addr)' = Put(job.call, target_addr)
  BY DEF Put, Thumb, target_addr
<1> QED BY <1>1, <1>2, <1>3

LEMMA CallInvPut ==
  ASSUME CallInv, PutOne, job.kind = "call"
  PROVE  CallInv'
<1>1. job' = job /\ m' = m /\ stage' = stage /\ fault' = fault /\ infos' = infos
  BY Zenon DEF PutOne, Do
<1>2. steps = <<"put">> /\ steps' = << >> /\ m = CallMachine
  <2>1. steps # << >> /\ steps' = Tail(steps)
    BY Zenon DEF PutOne, Do
  <2>2. steps = <<"put">> /\ m = CallMachine
    BY Zenon, <2>1 DEF CallInv
  <2>3. Tail(<<"put">>) = << >>
    BY SMT
  <2> QED BY Zenon, <2>1, <2>2, <2>3
<1>3. PICK items : items = Put(job.call, target_addr)
  OBVIOUS
<1>4. /\ code' = At(target_addr, items)
      /\ entry' = [entry EXCEPT !.redirect_code_size = SizeOf(items)]
  BY Zenon, <1>3 DEF PutOne
<1>5. "redirect_code_size" \in DOMAIN entry
  BY Zenon DEF CallInv
<1>6. "redirect_code_size" \in DOMAIN entry' /\ entry'.redirect_code_size = SizeOf(items)
  BY Zenon, <1>4, <1>5
<1>7. /\ target_addr' = target_addr /\ CallMachine' = CallMachine
      /\ items = Put(job.call, target_addr)'
  BY Zenon, <1>1, <1>3, SameJob
<1>8. job \in Jobs
  BY Zenon DEF CallInv
<1>9. Meets(CallMachine, target_addr, job.call)
  BY Zenon, <1>8, CallJobIs, CallMeets
<1>10. Reach6(CallMachine, At(target_addr, items), Asked(CallMachine, job.call, SizeOf(items)))
  BY Zenon, <1>3, <1>9 DEF Meets, Does
<1>11. Reach6(m', code', Asked(CallMachine, job.call, entry'.redirect_code_size))
  BY Zenon, <1>1, <1>2, <1>4, <1>6, <1>10
<1> QED BY Zenon, <1>1, <1>2, <1>4, <1>6, <1>7, <1>11 DEF CallInv

LEMMA CallInvExecute ==
  ASSUME CallInv, Execute, job.kind = "call"
  PROVE  CallInv'
<1>1. /\ job' = job /\ steps' = steps /\ code' = code /\ infos' = infos /\ entry' = entry
      /\ stage' = stage /\ fault' = fault
  BY Zenon DEF Execute
<1>2. steps = << >> /\ m' = Step(m, code) /\ m.pc \in DOMAIN code
  BY Zenon DEF Execute, Running, InHook
<1>3. /\ code = At(target_addr, Put(job.call, target_addr))
      /\ entry.redirect_code_size = SizeOf(Put(job.call, target_addr))
      /\ Reach6(m, code, Asked(CallMachine, job.call, entry.redirect_code_size))
  BY SMT, <1>2 DEF CallInv
<1>4. Reach6(Step(m, code), code, Asked(CallMachine, job.call, entry.redirect_code_size))
  BY Zenon, <1>2, <1>3, ReachStep
<1>5. target_addr' = target_addr /\ CallMachine' = CallMachine
      /\ Put(job.call, target_addr)' = Put(job.call, target_addr)
  BY Zenon, <1>1, SameJob
<1> QED BY Zenon, <1>1, <1>2, <1>3, <1>4, <1>5 DEF CallInv

LEMMA CallInvStutter ==
  ASSUME CallInv, UNCHANGED vars, job.kind = "call"
  PROVE  CallInv'
<1>1. /\ job' = job /\ steps' = steps /\ code' = code /\ infos' = infos /\ entry' = entry
      /\ m' = m /\ stage' = stage /\ fault' = fault
  BY Zenon DEF vars
<1>2. target_addr' = target_addr /\ CallMachine' = CallMachine
      /\ Put(job.call, target_addr)' = Put(job.call, target_addr)
  BY Zenon, <1>1, SameJob
<1> QED BY Zenon, <1>1, <1>2 DEF CallInv

\* Neither a step of build_all or active, nor one in the handler, the replacement or the body
\* of a wrapped function can happen in a call
LEMMA CallInvOthers ==
  ASSUME CallInv, job.kind = "call", Next
  PROVE  PutOne \/ Execute
<1>1. /\ job.type = "PRE_POST" /\ stage = "call"
      /\ \A i \in DOMAIN infos : infos[i].user_code = "other"
      /\ steps \in {<< >>, <<"put">>}
  <2>1. job \in Jobs /\ stage = "call" /\ \A i \in DOMAIN infos : infos[i].user_code = "other"
    BY Zenon DEF CallInv
  <2>2. steps = << >> \/ steps = <<"put">>
    BY SMT DEF CallInv
  <2>3. job.type = "PRE_POST"
    BY Zenon, <2>1, CallJobIs
  <2> QED BY Zenon, <2>1, <2>2, <2>3
<1>2. ASSUME NEW step, Do(step)
      PROVE  step = "put"
  <2>1. steps # << >> /\ Head(steps) = step
    BY Zenon, <1>2 DEF Do
  <2> QED BY SMT, <1>1, <2>1
<1>3. ~InteceptorBackendNew
  BY Zenon, <1>2 DEF InteceptorBackendNew
<1>4. ~trampoline_prepare
  BY Zenon, <1>2 DEF trampoline_prepare
<1>5. ~trampoline_build_for_enter_transfer
  BY Zenon, <1>2 DEF trampoline_build_for_enter_transfer
<1>6. ~trampoline_build_for_enter
  BY Zenon, <1>2 DEF trampoline_build_for_enter, BuildEntered
<1>7. ~trampoline_build_for_dynamic_binary_instrumentation
  BY Zenon, <1>2 DEF trampoline_build_for_dynamic_binary_instrumentation, BuildEntered
<1>8. ~trampoline_build_for_invoke
  BY Zenon, <1>2 DEF trampoline_build_for_invoke
<1>9. ~trampoline_build_for_leave
  BY Zenon, <1>2 DEF trampoline_build_for_leave
<1>10. ~trampoline_active
  BY Zenon, <1>2 DEF trampoline_active
<1>11. ~RelocateOne
  <2>1. ~(steps = <<"relocate">>)
    BY SMT, <1>1
  <2> QED BY Zenon, <2>1 DEF RelocateOne
<1>12. ~context_begin_invocation
  BY Zenon, <1>1 DEF context_begin_invocation, common_bridge_handler
<1>13. ~context_end_invocation
  BY Zenon, <1>1 DEF context_end_invocation, common_bridge_handler
<1>14. ~ReplaceCall
  BY Zenon, <1>1 DEF ReplaceCall, AtReplacement
<1>15. ~Body
  BY Zenon, <1>1 DEF Body, InBody
<1> QED
  BY Zenon, <1>3, <1>4, <1>5, <1>6, <1>7, <1>8, <1>9, <1>10, <1>11, <1>12, <1>13, <1>14, <1>15
     DEF Next, CallerStep

LEMMA CallInvNext ==
  ASSUME CallInv, [Next]_vars
  PROVE  CallInv'
<1>1. job' = job
  BY Zenon DEF Next, CallerStep, vars, Do, InteceptorBackendNew, trampoline_prepare,
     trampoline_build_for_enter_transfer, trampoline_build_for_enter, BuildEntered,
     trampoline_build_for_dynamic_binary_instrumentation, trampoline_build_for_invoke,
     trampoline_build_for_leave, trampoline_active, RelocateOne, PutOne, Execute,
     context_begin_invocation, context_end_invocation, common_bridge_handler, ReplaceCall, Body
<1>2. CASE job.kind = "call"
  BY Zenon, <1>2, CallInvOthers, CallInvPut, CallInvExecute, CallInvStutter
<1>3. CASE job.kind # "call"
  BY Zenon, <1>1, <1>3 DEF CallInv
<1> QED BY Zenon, <1>2, <1>3

LEMMA CallInvMeans ==
  ASSUME CallInv
  PROVE  CallsMean
<1> SUFFICES ASSUME job.kind = "call", Exited
             PROVE  LET asked == Asked(CallMachine, job.call, entry.redirect_code_size)
                    IN  /\ m.pc = asked.pc /\ m.thumb = asked.thumb /\ m.r = asked.r
                        /\ \A a \in DOMAIN asked.ram : m.ram[a] = asked.ram[a]
  BY Zenon DEF CallsMean
<1>1. steps = << >> /\ m.pc \notin DOMAIN code
  <2>1. steps = << >> /\ ~InHook
    BY Zenon DEF Exited, Running
  <2>2. job.kind # "hook"
    BY SMT
  <2> QED BY Zenon, <2>1, <2>2 DEF InHook
<1>2. Reach6(m, code, Asked(CallMachine, job.call, entry.redirect_code_size))
  BY SMT, <1>1 DEF CallInv
<1>3. PICK g : g = Asked(CallMachine, job.call, entry.redirect_code_size)
  OBVIOUS
<1>4. Reach0(m, code, g)
  BY Zenon, <1>1, <1>2, <1>3, ReachEnd
<1>5. /\ m.pc = g.pc /\ m.thumb = g.thumb /\ m.r = g.r
      /\ \A a \in DOMAIN g.ram : m.ram[a] = g.ram[a]
  BY Zenon, <1>4 DEF Reach0
<1> QED BY Zenon, <1>3, <1>5

\* The instructions a writer puts do what the call of the writer says, for every call that
\* CallsAssumption admits: the encodings of writer-thumb.c and writer-arm.c
THEOREM CallsMeanAlways == Spec => []CallsMean
<1>1. Init => CallInv
  BY Zenon, CallInvInit
<1>2. CallInv /\ [Next]_vars => CallInv'
  BY Zenon, CallInvNext
<1>3. CallInv => CallsMean
  BY Zenon, CallInvMeans
<1> QED BY <1>1, <1>2, <1>3, PTL DEF Spec
====

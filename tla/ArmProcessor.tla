---- MODULE ArmProcessor ----
(***************************************************************************)
(* External: the 32-bit ARM processor, as much of it as executes what the  *)
(* writers put, what the closure bridge is made of and the programs the    *)
(* runs hook.  A machine is [pc, thumb, r, z, ram]: registers 0..14, the   *)
(* zero flag, and the words that were stored.  code is a function from     *)
(* addresses to halfwords.  An instruction outside the subset goes to -1.  *)
(***************************************************************************)
EXTENDS Integers

\* The length bits of insn from start on
Field(insn, start, length) == (insn \div 2 ^ start) % 2 ^ length
Aligned(a) == a - (a % 4)
OneIf(condition) == IF condition THEN 1 ELSE 0

\* A word of memory nobody wrote, told by its address
Content(a) == 2 ^ 28 + a
Signed(upper) == IF upper < 32768 THEN upper ELSE upper - 65536
Load(m, code, a) ==
  IF a \in DOMAIN code THEN code[a] + 65536 * Signed(code[a + 2])
  ELSE IF a \in DOMAIN m.ram THEN m.ram[a] ELSE Content(a)
\* The word v put at a
Stored(ram, a, v) == [b \in {a} \cup DOMAIN ram |-> IF b = a THEN v ELSE ram[b]]
Store(m, a, v) == [m EXCEPT !.ram = Stored(@, a, v)]

\* bx, and a load into pc: bit 0 tells the instruction set
Interwork(m, a) == [m EXCEPT !.pc = a - (a % 2), !.thumb = (a % 2 = 1)]
Goto(m, a) == [m EXCEPT !.pc = a]
Skip(m, size) == Goto(m, m.pc + size)
Undefined(m) == Goto(m, -1)

Here(m) == m.pc + IF m.thumb THEN 4 ELSE 8
Reg(m, i) == IF i = 15 THEN Here(m) ELSE m.r[i]
Set(m, i, v, size) ==
  IF i = 15 THEN Interwork(m, v) ELSE Skip([m EXCEPT !.r[i] = v], size)
SetZ(m, i, v, size) == Set([m EXCEPT !.z = (v = 0)], i, v, size)
Link(m, size) == [m EXCEPT !.r[14] = m.pc + size + OneIf(m.thumb)]
Holds(m, cond) == CASE cond = 0 -> m.z [] cond = 1 -> ~m.z [] OTHER -> TRUE

\* A load (load = 1) or store of t at an offset of n, before or behind the update of n
Transfer(m, code, load, t, n, offset, index, wback, size) ==
  LET base == IF n = 15 THEN Aligned(Here(m)) ELSE m.r[n]
      a == base + IF index = 1 THEN offset ELSE 0
      updated == IF wback = 1 THEN [m EXCEPT !.r[n] = base + offset] ELSE m
  IN  IF load = 1 THEN Set(updated, t, Load(m, code, a), size)
                  ELSE Skip(Store(updated, a, Reg(m, t)), size)

(* ------------------------------------------------------------------------ *)
\* The register of a list of one
OneRegister(list) == CHOOSE i \in 0..7 : list = 2 ^ i \/ list = 0

\* What a Thumb instruction of one halfword does
Thumb16(m, code, h) ==
  LET low == Field(h, 0, 3)
      mid == Field(h, 3, 3)
      imm3 == Field(h, 6, 3)
      high == Field(h, 8, 3)
      imm8 == Field(h, 0, 8)
      major == Field(h, 11, 5)
      Rm == Field(h, 3, 4)
      register == OneRegister(imm8)
  IN  CASE h = \h46c0 -> Skip(m, 2)
        [] Field(h, 9, 7) = \h0c -> SetZ(m, low, m.r[mid] + m.r[imm3], 2)
        [] Field(h, 9, 7) = \h0e -> SetZ(m, low, m.r[mid] + imm3, 2)
        [] Field(h, 9, 7) = \h0f -> SetZ(m, low, m.r[mid] - imm3, 2)
        [] major = 5 -> Skip([m EXCEPT !.z = (m.r[high] = imm8)], 2)
        [] major = 6 -> SetZ(m, high, m.r[high] + imm8, 2)
        [] major = 7 -> SetZ(m, high, m.r[high] - imm8, 2)
        [] Field(h, 8, 8) = \h44 ->
             LET d == low + 8 * Field(h, 7, 1) IN Set(m, d, Reg(m, d) + Reg(m, Rm), 2)
        [] Field(h, 7, 9) = \h8e -> Interwork(m, Reg(m, Rm))
        [] Field(h, 7, 9) = \h8f -> Interwork(Link(m, 2), Reg(m, Rm))
        [] major = 9 -> Transfer(m, code, 1, high, 15, imm8 * 4, 1, 0, 2)
        [] major \in {12, 13} -> Transfer(m, code, major - 12, low, mid, Field(h, 6, 5) * 4, 1, 0, 2)
        [] major \in {18, 19} -> Transfer(m, code, major - 18, high, 13, imm8 * 4, 1, 0, 2)
        [] major = 20 -> Set(m, high, Aligned(Here(m)) + imm8 * 4, 2)
        [] major = 21 -> Set(m, high, m.r[13] + imm8 * 4, 2)
        [] Field(h, 8, 8) = \hb0 ->
             Set(m, 13, m.r[13] + (IF Field(h, 7, 1) = 1 THEN -4 ELSE 4) * Field(h, 0, 7), 2)
        [] Field(h, 12, 4) = 11 /\ Field(h, 10, 1) = 0 /\ Field(h, 8, 1) = 1 ->
             IF (m.r[low] = 0) = (Field(h, 11, 1) = 0)
             THEN Goto(m, Here(m) + Field(h, 9, 1) * 64 + Field(h, 3, 5) * 2) ELSE Skip(m, 2)
        [] Field(h, 9, 7) = \h5a ->
             Transfer(m, code, 0, IF imm8 = 0 THEN 14 ELSE register, 13, -4, 1, 1, 2)
        [] Field(h, 9, 7) = \h5e ->
             Transfer(m, code, 1, IF imm8 = 0 THEN 15 ELSE register, 13, 4, 0, 1, 2)
        [] Field(h, 12, 4) = 13 ->
             IF Holds(m, Field(h, 8, 4))
             THEN Goto(m, Here(m) + 2 * (imm8 - 256 * Field(h, 7, 1))) ELSE Skip(m, 2)
        [] major = 28 -> Goto(m, Here(m) + 2 * (Field(h, 0, 11) - 2048 * Field(h, 10, 1)))
        [] OTHER -> Undefined(m)

\* A branch of two halfwords: conditional, b, bl, blx
WideBranch(m, h, k) ==
  LET S == Field(h, 10, 1)
      J1 == Field(k, 13, 1)
      J2 == Field(k, 11, 1)
      near == Field(k, 0, 11) * 2 + Field(h, 0, 6) * 2 ^ 12 + J1 * 2 ^ 18 + J2 * 2 ^ 19 - S * 2 ^ 20
      far == Field(k, 0, 11) * 2 + Field(h, 0, 10) * 2 ^ 12
               + OneIf(J2 = S) * 2 ^ 22 + OneIf(J1 = S) * 2 ^ 23 - S * 2 ^ 24
  IN  CASE Field(k, 14, 1) = 0 /\ Field(k, 12, 1) = 0 ->
             IF Holds(m, Field(h, 6, 4)) THEN Goto(m, Here(m) + near) ELSE Skip(m, 4)
        [] Field(k, 14, 1) = 0 /\ Field(k, 12, 1) = 1 -> Goto(m, Here(m) + far)
        [] Field(k, 14, 1) = 1 /\ Field(k, 12, 1) = 1 -> Goto(Link(m, 4), Here(m) + far)
        [] OTHER -> Interwork(Link(m, 4), Aligned(Here(m)) + far)

Thumb32(m, code, h, k) ==
  LET t == Field(k, 12, 4)
      n == Field(h, 0, 4)
      imm12 == Field(k, 0, 12)
      sign == IF Field(h, 7, 1) = 1 THEN 1 ELSE -1
      plain == Field(k, 0, 8) + Field(k, 12, 3) * 256 + Field(h, 10, 1) * 2048
      base == IF n = 15 THEN Aligned(Here(m)) ELSE m.r[n]
  IN  CASE Field(h, 8, 8) = \hf8 /\ Field(h, 0, 7) = \h5f ->
             Transfer(m, code, 1, t, 15, sign * imm12, 1, 0, 4)
        [] n # 15 /\ Field(h, 4, 12) \in {\hf8c, \hf8d} ->
             Transfer(m, code, Field(h, 4, 1), t, n, imm12, 1, 0, 4)
        [] n # 15 /\ Field(h, 4, 12) \in {\hf84, \hf85} /\ Field(k, 11, 1) = 1 ->
             Transfer(m, code, Field(h, 4, 1), t, n,
                      (IF Field(k, 9, 1) = 1 THEN 1 ELSE -1) * Field(k, 0, 8),
                      Field(k, 10, 1), Field(k, 8, 1), 4)
        [] Field(h, 11, 5) = 30 /\ Field(k, 15, 1) = 1 -> WideBranch(m, h, k)
        [] Field(h, 11, 5) = 30 /\ Field(k, 15, 1) = 0 /\ Field(h, 4, 6) = \h20 ->
             Set(m, Field(k, 8, 4), base + plain, 4)
        [] Field(h, 11, 5) = 30 /\ Field(k, 15, 1) = 0 /\ Field(h, 4, 6) = \h2a ->
             Set(m, Field(k, 8, 4), base - plain, 4)
        [] OTHER -> Undefined(m)

\* The distance of an ARM branch
Distance(lower, upper) == 4 * (lower + 65536 * (Field(upper, 0, 8) - 256 * Field(upper, 7, 1)))

\* An ARM instruction, its lower and its upper halfword
ARM32(m, code, lower, upper) ==
  LET cond == Field(upper, 12, 4)
      n == Field(upper, 0, 4)
      t == Field(lower, 12, 4)
      far == Distance(lower, upper)
      imm12 == Field(lower, 0, 12) * (IF Field(upper, 7, 1) = 1 THEN 1 ELSE -1)
      index == Field(upper, 8, 1)
  IN  CASE cond = 15 /\ Field(upper, 9, 3) = 5 ->
             Interwork(Link(m, 4), Here(m) + far + 2 * index + 1)
        [] cond # 15 /\ ~Holds(m, cond) -> Skip(m, 4)
        [] cond # 15 /\ Field(upper, 9, 3) = 5 ->
             Goto(IF index = 1 THEN Link(m, 4) ELSE m, Here(m) + far)
        [] Field(upper, 0, 12) = \h12f /\ Field(lower, 4, 12) = \hff1 ->
             Interwork(m, Reg(m, Field(lower, 0, 4)))
        [] Field(upper, 0, 12) = \h320 -> Skip(m, 4)
        [] Field(upper, 4, 8) = \h1a -> Set(m, t, Reg(m, Field(lower, 0, 4)), 4)
        [] Field(upper, 4, 8) = \h08 -> Set(m, t, Reg(m, n) + Reg(m, Field(lower, 0, 4)), 4)
        [] Field(upper, 4, 8) = \h28 /\ Field(lower, 8, 4) = 0 ->
             Set(m, t, Reg(m, n) + Field(lower, 0, 8), 4)
        [] Field(upper, 4, 8) = \h24 /\ Field(lower, 8, 4) = 0 ->
             Set(m, t, Reg(m, n) - Field(lower, 0, 8), 4)
        [] Field(upper, 9, 3) = 2 ->
             Transfer(m, code, Field(upper, 4, 1), t, n, imm12, index,
                      IF index = 0 THEN 1 ELSE Field(upper, 5, 1), 4)
        [] OTHER -> Undefined(m)

\* One instruction
Step(m, code) ==
  LET h == code[m.pc]
      k == IF m.pc + 2 \in DOMAIN code THEN code[m.pc + 2] ELSE 0
  IN  IF ~m.thumb THEN ARM32(m, code, h, k)
      ELSE IF Field(h, 11, 5) \in {29, 30, 31} THEN Thumb32(m, code, h, k)
      ELSE Thumb16(m, code, h)
====

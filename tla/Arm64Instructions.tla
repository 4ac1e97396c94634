---- MODULE Arm64Instructions ----
(***************************************************************************)
(* arch-arm64/: instruction.c, register-arm64.c, ARM64AssemblyCore.c and   *)
(* the words that writer-arm64.c puts.                                     *)
(*                                                                         *)
(* A word is its two halfwords, bits 0-15 first, because TLC's integers    *)
(* have 32 bits.                                                           *)
(***************************************************************************)
EXTENDS Integers, Sequences, FiniteSetsExt

Halfword == 0..2 ^ 16 - 1
InstructionWord == Halfword \X Halfword

\* v << n, and the union of words that have no bit in common
Shift(v, n) ==
  IF n < 16 THEN <<(v * 2 ^ n) % 65536, v \div 2 ^ (16 - n)>> ELSE <<0, v * 2 ^ (n - 16)>>
u | v == <<u[1] + v[1], u[2] + v[2]>>

get_insn_sub(insn, start, length) ==
  IF start >= 16 THEN (insn[2] \div 2 ^ (start - 16)) % 2 ^ length
  ELSE LET low == (insn[1] \div 2 ^ start) % 2 ^ length
           above == start + length - 16
       IN  IF above > 0 THEN low + (insn[2] % 2 ^ above) * 2 ^ (16 - start) ELSE low

BIT32SET(inst32, start, len, v) ==
  Shift(get_insn_sub(inst32, 0, start), 0) | Shift(v, start)
    | Shift(get_insn_sub(inst32, start + len, 32 - start - len), start + len)

\* Register i of ARM64Reg; FP, LR and SP are other names of 29, 30 and 31
ARM64Reg == 0..31
ARM64_REG_X17 == 17
arm64_register_describe(reg) == [index |-> reg, meta |-> reg, width |-> 64, is_integer |-> TRUE]
arm64_register_disdescribe(index, width) == index

(* ------------------------------------------------------------------------ *)
(* The decoder                                                                 *)

\* getInstType looks for a match in this order
ARM64InstId ==
  << "BaseLoadStorePostIdx", "LoadPostIdx", "LDRWpost", "LDRXpost", "LoadPreIdx", "LDRWpre",
     "LDRXpre", "LoadLiteral", "LDRWl", "LDRXl", "BaseCmpBranch", "CmpBranch_W", "CBZ_W", "CBNZ_W",
     "CmpBranch_X", "CBZ_X", "CBNZ_X", "BranchCond", "Bcc", "BaseTestBranch", "TestBranch_W", "TBZ_W",
     "TBNZ_W", "TestBranch_X", "TBZ_X", "TBNZ_X", "BImm", "BranchImm", "B", "CallImm", "BL" >>

\* The bits that the mask of a class selects, as start, length and value; the other
\* classes are left at 0, which is passed over
ARM64InstArrary ==
  [ LoadLiteral   |-> {<<27, 3, 3>>, <<24, 2, 0>>},
    BaseCmpBranch |-> {<<25, 6, 26>>},
    BranchCond    |-> {<<24, 8, 84>>, <<4, 1, 0>>},
    B             |-> {<<31, 1, 0>>, <<26, 5, 5>>},
    BL            |-> {<<31, 1, 1>>, <<26, 5, 5>>} ]

getInstType(inst32) ==
  LET matches(i) ==
        /\ ARM64InstId[i] \in DOMAIN ARM64InstArrary
        /\ \A f \in ARM64InstArrary[ARM64InstId[i]] : get_insn_sub(inst32, f[1], f[2]) = f[3]
      matching == {i \in DOMAIN ARM64InstId : matches(i)}
  IN  IF matching = {} THEN "ARM64_INST_END" ELSE ARM64InstId[Min(matching)]

(* ------------------------------------------------------------------------ *)
(* The encoder.  Offsets are in bytes.                                         *)

put_ldr_reg_imm(reg, offset) ==
  <<0, \h5800>> | Shift(offset \div 4, 5) | Shift(arm64_register_describe(reg).index, 0)

put_ldr_reg_reg_offset(dest_reg, src_reg, offset) ==
  LET rs == arm64_register_describe(src_reg)
      rd == arm64_register_describe(dest_reg)
      size == IF rs.width = 64 THEN 3 ELSE 2
  IN  <<0, \h3900>> | Shift(size, 30) | Shift(1, 22) | Shift(offset \div 2 ^ size, 10)
        | Shift(rs.index, 5) | Shift(rd.index, 0)

put_br_reg(reg) == <<0, \hd61f>> | Shift(arm64_register_describe(reg).index, 5)
put_blr_reg(reg) == <<0, \hd63f>> | Shift(arm64_register_describe(reg).index, 5)

\* \div and % of a negative offset are the shift and the mask of its 64 bits
put_b_imm(offset) == <<0, \h1400>> | Shift((offset \div 4) % 2 ^ 26, 0)

\* put_bytes of an address, which is taken to fit its low word
put_address(a) == <<<<a % 65536, a \div 65536>>, <<0, 0>>>>
====

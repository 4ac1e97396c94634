---- MODULE ArmInstructions ----
(***************************************************************************)
(* arch-arm/instructions.c, reader-arm.c and reader-thumb.c: the 32-bit    *)
(* instruction sets as far as the relocators tell them apart.              *)
(*                                                                         *)
(* An instruction is as in struct _ARMInstruction: insn1 and insn2 are its *)
(* two halfwords in the order of their addresses, for ARM as for Thumb;    *)
(* insn2 is 0 for a Thumb instruction of one halfword.  Words are kept as  *)
(* two halfwords because TLC's integers have 32 bits.                      *)
(***************************************************************************)
EXTENDS Integers, Sequences, SequencesExt

ARMReg == 0..15
SP == 13
LR == 14
PC == 15

\* get_insn_sub; \div rounds down, so that a negative number has its two's complement bits
Sub(insn, start, length) == (insn \div 2 ^ start) % 2 ^ length

ALIGN_FLOOR(a, n) == a - (a % n)
ALIGN_CEIL(a, n) == ALIGN_FLOOR(a + n - 1, n)
Bit(condition) == IF condition THEN 1 ELSE 0
ABS(v) == IF v < 0 THEN -v ELSE v

Word(v) == <<v % 65536, (v \div 65536) % 65536>>
WordValue(w) == w[1] + 65536 * (IF w[2] < 32768 THEN w[2] ELSE w[2] - 65536)

ARMInstruction == [address : Int, pc : Int, size : {0, 2, 4}, insn1 : 0..65535, insn2 : 0..65535]
THUMBInsnType ==
  {"CBNZ_CBZ", "ADD_register_T2", "LDR_literal_T1", "LDR_literal_T2", "ADR_T1", "ADR_T2", "ADR_T3",
   "B_T1", "B_T2", "B_T3", "B_T4", "BL_T1", "BLX_T2", "UNDEF"}
ARMInsnType ==
  {"ADD_register_A1", "LDR_literal_A1", "ADR_A1", "ADR_A2", "B_A1", "BL_A1", "BLX_A2", "UNDEF"}

(* ------------------------------------------------------------------------ *)
insn_is_thumb2(insn1) == Sub(insn1, 11, 5) \in {29, 30, 31}

GetTHUMBInsnType(insn1, insn2) ==
  IF ~insn_is_thumb2(insn1)
  THEN CASE Sub(insn1, 12, 4) = 11 /\ Sub(insn1, 10, 1) = 0 /\ Sub(insn1, 8, 1) = 1 -> "CBNZ_CBZ"
         [] Sub(insn1, 8, 8) = 68 -> "ADD_register_T2"
         [] Sub(insn1, 11, 5) = 9 -> "LDR_literal_T1"
         [] Sub(insn1, 11, 5) = 20 -> "ADR_T1"
         [] Sub(insn1, 12, 4) = 13 /\ Sub(insn1, 8, 4) \notin {14, 15} -> "B_T1"
         [] Sub(insn1, 11, 5) = 28 -> "B_T2"
         [] OTHER -> "UNDEF"
  ELSE CASE Sub(insn1, 8, 8) = 248 /\ Sub(insn1, 0, 7) = 95 -> "LDR_literal_T2"
         [] Sub(insn1, 11, 5) = 30 /\ Sub(insn1, 0, 10) = 687 /\ Sub(insn2, 15, 1) = 0 -> "ADR_T2"
         [] Sub(insn1, 11, 5) = 30 /\ Sub(insn1, 0, 10) = 527 /\ Sub(insn2, 15, 1) = 0 -> "ADR_T3"
         [] Sub(insn1, 11, 5) = 30 /\ Sub(insn2, 14, 2) = 2 ->
              IF Sub(insn2, 12, 1) = 0 THEN "B_T3" ELSE "B_T4"
         [] Sub(insn1, 11, 5) = 30 /\ Sub(insn2, 14, 2) = 3 ->
              IF Sub(insn2, 12, 1) = 1 THEN "BL_T1" ELSE "BLX_T2"
         [] OTHER -> "UNDEF"

GetARMInsnType(insn1, insn2) ==
  IF Sub(insn2, 12, 4) # 15
  THEN CASE Sub(insn2, 5, 7) = 4 /\ Sub(insn1, 4, 1) = 0 -> "ADD_register_A1"
         [] Sub(insn2, 8, 4) = 5 /\ Sub(insn2, 0, 7) = 31 -> "LDR_literal_A1"
         [] Sub(insn2, 0, 12) = \h28f -> "ADR_A1"
         [] Sub(insn2, 0, 12) = \h24f -> "ADR_A2"
         [] Sub(insn2, 8, 4) = 10 -> "B_A1"
         [] Sub(insn2, 8, 4) = 11 -> "BL_A1"
         [] OTHER -> "UNDEF"
  ELSE IF Sub(insn2, 9, 3) = 5 THEN "BLX_A2" ELSE "UNDEF"

\* The bytes of items, each a sequence of halfwords
SizeOf(items) == 2 * Len(FlattenSeq(items))

(* ------------------------------------------------------------------------ *)
Halfword(code, a) == IF a \in DOMAIN code THEN code[a] ELSE 0

\* Where it reads, the pc there, and how far it has got
ARMReader == [insns_buffer : Int, start_pc : Int, insns_size : Nat]
thumb_reader_reset(insn_address) ==
  [insns_buffer |-> insn_address, start_pc |-> insn_address + 4, insns_size |-> 0]
arm_reader_reset(insn_address) ==
  [insns_buffer |-> insn_address, start_pc |-> insn_address + 8, insns_size |-> 0]

thumb_reader_read_one_instruction(code, reader) ==
  LET a == reader.insns_buffer + reader.insns_size
      insn1 == Halfword(code, a)
      size == IF insn_is_thumb2(insn1) THEN 4 ELSE 2
  IN  [address |-> a, pc |-> reader.start_pc + reader.insns_size, size |-> size, insn1 |-> insn1,
       insn2 |-> IF size = 4 THEN Halfword(code, a + 2) ELSE 0]

\* The size is not set and stays as malloc0 left it
arm_reader_read_one_instruction(code, reader) ==
  LET a == reader.insns_buffer + reader.insns_size
  IN  [address |-> a, pc |-> reader.start_pc + reader.insns_size, size |-> 0,
       insn1 |-> Halfword(code, a), insn2 |-> Halfword(code, a + 2)]
====

---- MODULE ThumbRelocator ----
(***************************************************************************)
(* arch-arm/relocator-thumb.c, as ArmRelocator has relocator-arm.c.  pc is *)
(* start_pc + insns_size of the output.                                    *)
(***************************************************************************)
EXTENDS ThumbWriter, ArmRelocator

LastIsLiteral(items) == Rewritten(items, {Len(items)})

\* Nothing to rewrite: put_bytes(insn, size)
Copied(insn) ==
  Rewritten(<<IF insn.size = 4 THEN <<insn.insn1, insn.insn2>> ELSE <<insn.insn1>>>>, {})

\* The jump that a conditional branch now branches to; its literal has to be aligned
JumpOver(pc, test, target_address) ==
  LET skip == test \o thumb_put_b_imm(6)
  IN  skip \o thumb_put_ldr_reg_address(pc + SizeOf(skip), PC, target_address + 1)

Nop(needed) == IF needed THEN thumb_put_nop ELSE << >>

rewrite_CBNZ_CBZ(pc, insn) ==
  LET imm5 == Sub(insn.insn1, 3, 5)
      i == Sub(insn.insn1, 9, 1)
      test == thumb_put_instruction(insn.insn1 - imm5 * 8 - i * 512)
  IN  LastIsLiteral(JumpOver(pc, Nop(pc % 4 # 0) \o test, insn.pc + imm5 * 2 + i * 64))

rewrite_ADD_register_T2(pc, insn) ==
  LET Rm == Sub(insn.insn1, 3, 4)
      push == thumb_put_push_reg(7)
  IN  IF Rm # PC THEN Copied(insn)
      ELSE Rewritten(push \o thumb_put_ldr_b_reg_address(pc + SizeOf(push), 7, insn.pc)
                       \o thumb_put_instruction(insn.insn1 - Rm * 8 + 7 * 8)
                       \o thumb_put_pop_reg(7), {})

\* Rt := target_address, Rt := the word there
LoadThrough(pc, Rt, target_address) ==
  LET load == thumb_put_ldr_b_reg_address(pc, Rt, target_address)
  IN  Rewritten(load \o thumb_put_ldr_reg_reg_offset(Rt, Rt, 0), {Len(load)})

rewrite_LDR_literal_T1(pc, insn) ==
  LoadThrough(pc, Sub(insn.insn1, 8, 3), ALIGN_FLOOR(insn.pc, 4) + Sub(insn.insn1, 0, 8) * 4)

rewrite_LDR_literal_T2(pc, insn) ==
  LET imm32 == Sub(insn.insn2, 0, 12)
      add == Sub(insn.insn1, 7, 1) = 1
  IN  LoadThrough(pc, Sub(insn.insn2, 12, 4),
                  ALIGN_FLOOR(insn.pc, 4) + (IF add THEN imm32 ELSE -imm32))

\* From pc as it is, not aligned
rewrite_ADR_T1(pc, insn) ==
  Rewritten(thumb_put_ldr_b_reg_address(pc, Sub(insn.insn1, 8, 3),
                                        insn.pc + Sub(insn.insn1, 0, 8) * 4), {})

AdrImm(insn) ==
  Sub(insn.insn2, 0, 8) + Sub(insn.insn2, 12, 3) * 2 ^ 8 + Sub(insn.insn1, 10, 1) * 2 ^ 11

rewrite_ADR_T2(pc, insn) ==
  Rewritten(thumb_put_ldr_b_reg_address(pc, Sub(insn.insn2, 8, 4), insn.pc - AdrImm(insn)), {})

rewrite_ADR_T3(pc, insn) ==
  Rewritten(thumb_put_ldr_b_reg_address(pc, Sub(insn.insn2, 8, 4), insn.pc + AdrImm(insn)), {})

\* Mutant: aligned the other way round
rewrite_B_T1_Misaligned(pc, insn) ==
  LET imm8 == Sub(insn.insn1, 0, 8)
  IN  LastIsLiteral(JumpOver(pc, Nop(pc % 4 = 0) \o thumb_put_instruction(insn.insn1 - imm8),
                             insn.pc + imm8 * 2))

rewrite_B_T1(pc, insn) ==
  LET imm8 == Sub(insn.insn1, 0, 8)
  IN  LastIsLiteral(JumpOver(pc, Nop(pc % 4 # 0) \o thumb_put_instruction(insn.insn1 - imm8),
                             insn.pc + imm8 * 2))

rewrite_B_T2(pc, insn) ==
  LastIsLiteral(thumb_put_ldr_reg_address(pc, PC, insn.pc + Sub(insn.insn1, 0, 11) * 2 + 1))

\* The wide branch puts the jump at the other half of a word; no literal is registered
rewrite_B_T3(pc, insn) ==
  LET S == Sub(insn.insn1, 10, 1)
      J1 == Sub(insn.insn2, 13, 1)
      J2 == Sub(insn.insn2, 11, 1)
      imm6 == Sub(insn.insn1, 0, 6)
      imm11 == Sub(insn.insn2, 0, 11)
      imm32 == imm11 * 2 + imm6 * 2 ^ 12 + J1 * 2 ^ 18 + J2 * 2 ^ 19 + S * 2 ^ 20
      test == thumb_put_instruction(insn.insn1 - S * 2 ^ 10 - imm6)
                \o thumb_put_instruction(insn.insn2 - J1 * 2 ^ 13 - J2 * 2 ^ 11 - imm11 + 1)
  IN  Rewritten(JumpOver(pc, Nop(pc % 4 = 0) \o test, insn.pc + imm32), {})

\* v | (bit << i)
Or(v, i, bit) == IF Sub(v, i, 1) = 1 THEN v ELSE v + bit * 2 ^ i

\* The distance of B_T4 and BL_T1; I1, I2 and S are shifted onto the bits of imm10
BranchImm(insn, S) ==
  LET I1 == Bit(Sub(insn.insn2, 13, 1) = S)
      I2 == Bit(Sub(insn.insn2, 11, 1) = S)
      imm21 == Sub(insn.insn2, 0, 11) * 2 + Sub(insn.insn1, 0, 10) * 2 ^ 12
  IN  Or(Or(Or(imm21, 18, I1), 19, I2), 20, S)

\* S is looked for in bit 26 of a halfword
rewrite_B_T4(pc, insn) ==
  LastIsLiteral(thumb_put_ldr_reg_address(pc, PC, insn.pc + BranchImm(insn, 0) + 1))

\* The literal of lr is registered twice, that of the target not at all
rewrite_BL_T1(pc, insn) ==
  LET lr == thumb_put_ldr_b_reg_address(pc, LR, insn.pc + 1)
      target_address == insn.pc + BranchImm(insn, Sub(insn.insn1, 10, 1))
  IN  Rewritten(lr \o thumb_put_ldr_reg_address(pc + SizeOf(lr), PC, target_address + 1), {Len(lr)})

\* To ARM code.  I1 and I2 are shifted to each other's places
rewrite_BLX_T2(pc, insn) ==
  LET S == Sub(insn.insn1, 10, 1)
      I1 == Bit(Sub(insn.insn2, 13, 1) = S)
      I2 == Bit(Sub(insn.insn2, 11, 1) = S)
      imm32 == Sub(insn.insn2, 1, 10) * 4 + Sub(insn.insn1, 0, 10) * 2 ^ 12
                 + I1 * 2 ^ 22 + I2 * 2 ^ 23 - S * 2 ^ 24
      lr == thumb_put_ldr_b_reg_address(pc, LR, insn.pc + 1)
      jump == thumb_put_ldr_reg_address(pc + SizeOf(lr), PC, ALIGN_FLOOR(insn.pc, 4) + imm32)
  IN  Rewritten(lr \o jump, {Len(lr), Len(lr \o jump)})

\* thumb_relocator_write_one
ThumbRewrite(pc, insn) ==
  LET type == GetTHUMBInsnType(insn.insn1, insn.insn2)
  IN  CASE type = "CBNZ_CBZ" -> rewrite_CBNZ_CBZ(pc, insn)
        [] type = "ADD_register_T2" -> rewrite_ADD_register_T2(pc, insn)
        [] type = "LDR_literal_T1" -> rewrite_LDR_literal_T1(pc, insn)
        [] type = "LDR_literal_T2" -> rewrite_LDR_literal_T2(pc, insn)
        [] type = "ADR_T1" -> rewrite_ADR_T1(pc, insn)
        [] type = "ADR_T2" -> rewrite_ADR_T2(pc, insn)
        [] type = "ADR_T3" -> rewrite_ADR_T3(pc, insn)
        [] type = "B_T1" -> rewrite_B_T1(pc, insn)
        [] type = "B_T2" -> rewrite_B_T2(pc, insn)
        [] type = "B_T3" -> rewrite_B_T3(pc, insn)
        [] type = "B_T4" -> rewrite_B_T4(pc, insn)
        [] type = "BL_T1" -> rewrite_BL_T1(pc, insn)
        [] type = "BLX_T2" -> rewrite_BLX_T2(pc, insn)
        [] type = "UNDEF" -> Copied(insn)

(* ------------------------------------------------------------------------ *)
thumb_relocator_reset == arm_relocator_reset

thumb_relocator_register_literal_insn(out, rewritten) ==
  arm_relocator_register_literal_insn(out, rewritten)

\* Put where the writer was reset to address 0
thumb_relocator_write_all(insns) ==
  LET pc(out) == thumb_writer_reset(0) + SizeOf(out.items)
  IN  FoldLeft(LAMBDA out, insn :
                 thumb_relocator_register_literal_insn(out, ThumbRewrite(pc(out), insn)),
               thumb_relocator_reset, insns)

thumb_relocator_get_relocator_insn_with_address(insns, address) ==
  {j \in DOMAIN insns : insns[j].pc - 4 = address}

thumb_relocator_relocate_writer(insns, out, slice) ==
  LET inside == Inside(insns[1].pc - 4, insns, out)
      found(i) == thumb_relocator_get_relocator_insn_with_address(insns, WordValue(out.items[i]))
  IN  IF \E i \in inside : found(i) = {} THEN << >>
      ELSE [i \in DOMAIN out.items |->
              IF i \in inside THEN Word(slice + out.starts[CHOOSE j \in found(i) : TRUE])
              ELSE out.items[i]]
====

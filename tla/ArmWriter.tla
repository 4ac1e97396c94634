---- MODULE ArmWriter ----
(***************************************************************************)
(* arch-arm/writer-arm.c.  What an arm_writer_put_ function adds to the    *)
(* writer, as in ThumbWriter; an instruction is given by its upper and its *)
(* lower halfword.                                                         *)
(***************************************************************************)
EXTENDS ArmInstructions

\* start_pc
arm_writer_reset(targetPC) == targetPC + 8

arm_put_bytes(v) == <<Word(v)>>
arm_put_instruction(upper, lower) == <<<<lower, upper>>>>

\* Mutant: the distance is taken to count from the branch itself
arm_put_b_imm_Here(imm) == arm_put_instruction(\hea00 + Sub(imm - 8, 18, 8), Sub(imm - 8, 2, 16))

arm_put_b_imm(imm) == arm_put_instruction(\hea00 + Sub(imm, 18, 8), Sub(imm, 2, 16))

arm_put_ldr_reg_reg_imm_A1(dst, src, imm, p, u, w) ==
  arm_put_instruction(\he410 + src + p * 256 + u * 128 + w * 32, dst * 4096 + Sub(imm, 0, 12))
arm_put_ldr_reg_imm_literal(dst, imm) ==
  arm_put_instruction(\he51f + Bit(imm >= 0) * 128, dst * 4096 + Sub(ABS(imm), 0, 12))

arm_put_ldr_reg_reg_imm(dst, src, imm) ==
  IF src = PC THEN arm_put_ldr_reg_imm_literal(dst, imm)
  ELSE arm_put_ldr_reg_reg_imm_A1(dst, src, ABS(imm), 1, Bit(imm >= 0), 0)

\* index = 0: the register is changed behind the access
arm_put_ldr_reg_reg_imm_index(dst, src, imm, index) ==
  arm_put_ldr_reg_reg_imm_A1(dst, src, ABS(imm), index, Bit(imm >= 0), index)

\* The distance is not made positive before it is masked
arm_put_str_reg_reg_imm(src, dst, imm) ==
  arm_put_instruction(\he400 + dst + 256 + Bit(imm >= 0) * 128, src * 4096 + Sub(imm, 0, 12))

arm_put_add_reg_reg_imm(dst, src, imm) ==
  arm_put_instruction(\he280 + src, dst * 4096 + Sub(imm, 0, 12))
arm_put_sub_reg_reg_imm(dst, src, imm) ==
  arm_put_instruction(\he240 + src, dst * 4096 + Sub(imm, 0, 12))
arm_put_bx_reg(reg) == arm_put_instruction(\he12f, \hff10 + reg)
arm_put_nop == arm_put_instruction(\he320, \hf000)
arm_put_push_reg(reg) == arm_put_instruction(\he52d, 4 + reg * 4096)
arm_put_pop_reg(reg) == arm_put_instruction(\he49d, 4 + reg * 4096)

arm_put_ldr_reg_address(reg, address) ==
  arm_put_ldr_reg_reg_imm(reg, PC, -4) \o arm_put_bytes(address)
arm_put_ldr_b_reg_address(reg, address) ==
  arm_put_ldr_reg_reg_imm(reg, PC, 0) \o arm_put_b_imm(0) \o arm_put_bytes(address)

\* Goes on in Thumb behind it; r1 and sp as they were
arm_put_bx_to_thumb ==
  arm_put_sub_reg_reg_imm(SP, SP, 8) \o arm_put_str_reg_reg_imm(1, SP, 0)
    \o arm_put_add_reg_reg_imm(1, PC, 9) \o arm_put_str_reg_reg_imm(1, SP, 4)
    \o arm_put_ldr_reg_reg_imm_index(1, SP, 4, 0) \o arm_put_ldr_reg_reg_imm_index(PC, SP, 4, 0)
====

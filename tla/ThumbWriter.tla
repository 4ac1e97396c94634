---- MODULE ThumbWriter ----
(***************************************************************************)
(* arch-arm/writer-thumb.c.  What a thumb_writer_put_ function adds to the *)
(* writer: a sequence of its insnCTXs, one for each call of put_bytes or   *)
(* put_instruction, each a sequence of halfwords.  pc is start_pc +        *)
(* insns_size of the writer, for the functions that look at it.  The       *)
(* fields that are or-ed together do not overlap for the registers each    *)
(* encoding is made for; they are added here.                              *)
(***************************************************************************)
EXTENDS ArmInstructions

\* start_pc
thumb_writer_reset(targetPC) == targetPC + 4

thumb_put_bytes(v) == <<Word(v)>>
thumb_put_instruction(insn) == <<<<insn>>>>
thumb_put_nop == thumb_put_instruction(\h46c0)
thumb_put_b_imm(imm) == thumb_put_instruction(\he000 + Sub(imm, 1, 11))

thumb_put_bx_reg(pc, reg) ==
  (IF pc % 4 # 0 THEN thumb_put_nop ELSE << >>)
    \o thumb_put_instruction(\h4700 + reg * 8) \o thumb_put_nop
thumb_put_blx_reg(reg) == thumb_put_instruction(\h4780 + reg * 8)

\* Mutant: the bits that extend the distance are not inverted
thumb_put_branch_imm_J(imm, link, thumb) ==
  LET distance == imm \div 2
      s == Bit(imm < 0)
      J(i) == Bit(Sub(distance, i, 1) # s)
  IN  thumb_put_instruction(\hf000 + s * 2 ^ 10 + Sub(distance, 11, 10))
        \o thumb_put_instruction(\h8000 + link * 2 ^ 14 + J(22) * 2 ^ 13 + thumb * 2 ^ 12
                                  + J(21) * 2 ^ 11 + Sub(distance, 0, 11))

thumb_put_branch_imm(imm, link, thumb) ==
  LET distance == imm \div 2
      s == Bit(imm < 0)
      J(i) == Bit(Sub(distance, i, 1) = s)    \* ~(bit ^ s) & 1
  IN  thumb_put_instruction(\hf000 + s * 2 ^ 10 + Sub(distance, 11, 10))
        \o thumb_put_instruction(\h8000 + link * 2 ^ 14 + J(22) * 2 ^ 13 + thumb * 2 ^ 12
                                  + J(21) * 2 ^ 11 + Sub(distance, 0, 11))

thumb_put_b_imm32(imm) == thumb_put_branch_imm(imm, 0, 1)
thumb_put_bl_imm(imm) == thumb_put_branch_imm(imm, 1, 1)
thumb_put_blx_imm(imm) == thumb_put_branch_imm(imm, 1, 0)

thumb_put_ldr_reg_imm(reg, imm) ==
  IF reg <= 7 /\ imm \in 0..1023
  THEN thumb_put_instruction(\h4800 + reg * 256 + Sub(imm, 2, 8))
  ELSE IF imm < 4096
  THEN thumb_put_instruction(\hf85f + Bit(imm >= 0) * 128)
         \o thumb_put_instruction(reg * 4096 + ABS(imm))
  ELSE << >>

\* reg := address, the literal behind a branch over it
thumb_put_ldr_b_reg_address(pc, reg, address) ==
  (IF pc % 4 # 0
   THEN thumb_put_ldr_reg_imm(reg, 4) \o (IF reg <= 7 THEN thumb_put_nop ELSE << >>)
   ELSE IF reg <= 7 THEN thumb_put_ldr_reg_imm(reg, 0)
                    ELSE thumb_put_ldr_reg_imm(reg, 4) \o thumb_put_nop)
    \o thumb_put_b_imm(2) \o thumb_put_bytes(address)

\* The literal follows at once: for reg = PC, which does not come back
thumb_put_ldr_reg_address(pc, reg, address) ==
  (IF pc % 4 # 0
   THEN IF reg <= 7 THEN thumb_put_ldr_reg_imm(reg, 0)
                    ELSE thumb_put_ldr_reg_imm(reg, 4) \o thumb_put_nop
   ELSE thumb_put_ldr_reg_imm(reg, 0) \o (IF reg <= 7 THEN thumb_put_nop ELSE << >>))
    \o thumb_put_bytes(address)

(* ------------------------------------------------------------------------ *)
(* ldr (load = 1) and str (load = 0) with a base register and an offset      *)

InT1(left, right, offset) == left <= 7 /\ right <= 7 /\ offset \in 0..127
thumb_put_transfer_T1(load, left, right, offset) ==
  thumb_put_instruction(\h6000 + load * \h0800 + (offset \div 4) * 64 + right * 8 + left)

InT2(left, right, offset) == left <= 7 /\ right = SP /\ offset \in 0..1023
thumb_put_transfer_T2(load, left, right, offset) ==
  thumb_put_instruction(\h9000 + load * \h0800 + left * 256 + offset \div 4)

InT3(left, right, offset) == offset \in 0..4095
thumb_put_transfer_T3(load, left, right, offset) ==
  (IF right = PC THEN thumb_put_ldr_reg_imm(left, offset) ELSE << >>)
    \o thumb_put_instruction(\hf8c0 + load * 16 + right)
    \o thumb_put_instruction(left * 4096 + offset)

thumb_put_transfer_T4(load, left, right, offset, index, wback) ==
  IF ABS(offset) >= 256 THEN << >>
  ELSE IF right = PC THEN thumb_put_ldr_reg_imm(left, offset)
  ELSE thumb_put_instruction(\hf840 + load * 16 + right)
         \o thumb_put_instruction(\h0800 + left * 4096 + index * 1024 + Bit(offset > 0) * 512
                                   + wback * 256 + ABS(offset))

thumb_put_transfer(load, left, right, offset) ==
  IF InT1(left, right, offset) THEN thumb_put_transfer_T1(load, left, right, offset)
  ELSE IF InT2(left, right, offset) THEN thumb_put_transfer_T2(load, left, right, offset)
  ELSE IF InT3(left, right, offset) THEN thumb_put_transfer_T3(load, left, right, offset)
  ELSE thumb_put_transfer_T4(load, left, right, offset, 1, 0)

thumb_put_ldr_reg_reg_offset(dst, src, offset) == thumb_put_transfer(1, dst, src, offset)
thumb_put_str_reg_reg_offset(src, dst, offset) == thumb_put_transfer(0, src, dst, offset)
thumb_put_ldr_index_reg_reg_offset(dst, src, offset, index) ==
  thumb_put_transfer_T4(1, dst, src, offset, index, 1)
thumb_put_str_index_reg_reg_offset(src, dst, offset, index) ==
  thumb_put_transfer_T4(0, src, dst, offset, index, 1)

(* ------------------------------------------------------------------------ *)
thumb_put_add_reg_imm(dst, imm) ==
  thumb_put_instruction(
    IF dst = SP THEN \hb000 + Bit(imm < 0) * \h0080 + ABS(imm) \div 4
                ELSE \h3000 + Bit(imm < 0) * \h0800 + dst * 256 + ABS(imm))

thumb_put_add_reg_reg_imm(dst, left, value) ==
  IF left = dst THEN thumb_put_add_reg_imm(dst, value)
  ELSE IF dst <= 7 /\ left <= 7 /\ ABS(value) < 8
  THEN thumb_put_instruction(\h1c00 + Bit(value < 0) * 512 + ABS(value) * 64 + left * 8 + dst)
  ELSE IF left \in {SP, PC} /\ dst <= 7 /\ value \in 1..255 /\ value % 4 = 0
  THEN thumb_put_instruction(\ha000 + Bit(left = SP) * \h0800 + dst * 256 + value \div 4)
  ELSE thumb_put_instruction((IF value < 0 THEN \hf2a0 ELSE \hf200)
                               + Sub(ABS(value), 11, 1) * 1024 + left)
         \o thumb_put_instruction(Sub(ABS(value), 8, 3) * 4096 + dst * 256 + Sub(ABS(value), 0, 8))

thumb_put_sub_reg_imm(dst, imm) == thumb_put_add_reg_imm(dst, -imm)
thumb_put_sub_reg_reg_imm(dst, left, value) == thumb_put_add_reg_reg_imm(dst, left, -value)
thumb_put_add_reg_reg_reg(dst, left, right) ==
  thumb_put_instruction(\h1800 + right * 64 + left * 8 + dst)
thumb_put_push_reg(reg) == thumb_put_instruction(\hb400 + 2 ^ reg)
thumb_put_pop_reg(reg) == thumb_put_instruction(\hbc00 + 2 ^ reg)
====

---- MODULE ArmRelocator ----
(***************************************************************************)
(* arch-arm/relocator-arm.c: what each arm_relocator_rewrite_ function     *)
(* puts for an instruction insn (an ARMInstruction), and which of that it     *)
(* registers as literals.  Distances are unsigned, as in the source.       *)
(***************************************************************************)
EXTENDS ArmWriter

\* What is put, and the places in it of the literals to be repaired at the end
Rewritten(items, literals) == [items |-> items, literals |-> literals]

\* put_bytes(insn, insn->size), and the reader leaves size 0
ArmCopied(insn) ==
  Rewritten(<<IF insn.size = 4 THEN <<insn.insn1, insn.insn2>> ELSE << >>>>, {})

Rd(insn) == Sub(insn.insn1, 12, 4)
Imm12(insn) == Sub(insn.insn1, 0, 12)
Imm24(insn) == Sub(insn.insn2, 0, 8) * 65536 + insn.insn1

rewrite_ADD_register_A1(insn) ==
  LET Rn == Sub(insn.insn2, 0, 4)
  IN  IF Rn # PC THEN ArmCopied(insn)
      ELSE Rewritten(arm_put_push_reg(7) \o arm_put_ldr_b_reg_address(7, insn.pc)
                          \o arm_put_instruction(insn.insn2 - Rn + 7, insn.insn1)
                          \o arm_put_pop_reg(7), {})

\* The condition of this and the next two is dropped
rewrite_LDR_literal_A1(insn) ==
  LET add == Sub(insn.insn2, 7, 1) = 1
      load == arm_put_ldr_b_reg_address(Rd(insn),
                insn.pc + (IF add THEN Imm12(insn) ELSE -Imm12(insn)))
  IN  Rewritten(load \o arm_put_ldr_reg_reg_imm(Rd(insn), Rd(insn), 0), {Len(load)})

rewrite_ADR_A1(insn) ==
  Rewritten(arm_put_ldr_b_reg_address(Rd(insn), insn.pc + Imm12(insn)), {})
rewrite_ADR_A2(insn) ==
  Rewritten(arm_put_ldr_b_reg_address(Rd(insn), insn.pc - Imm12(insn)), {})

rewrite_B_A1(insn) ==
  LET items == arm_put_instruction(Sub(insn.insn2, 8, 8) * 256, 0) \o arm_put_b_imm(4)
                 \o arm_put_ldr_reg_address(PC, insn.pc + Imm24(insn) * 4)
  IN  Rewritten(items, {Len(items)})

\* lr := the address behind the call, jump
Call(lr, target_address) ==
  arm_put_ldr_b_reg_address(LR, lr) \o arm_put_ldr_reg_address(PC, target_address)

\* The branch over the call, b #0, leads into it
rewrite_BL_A1(insn) ==
  LET test == arm_put_instruction(Sub(insn.insn2, 12, 4) * 4096 + \h0a00, 0) \o arm_put_b_imm(0)
      items == test \o Call(insn.pc - 4, insn.pc + Imm24(insn) * 4)
  IN  Rewritten(items, {Len(items) - 2, Len(items)})

\* To Thumb code, but the target is without the Thumb bit
rewrite_BLX_A2(insn) ==
  LET H == Sub(insn.insn2, 8, 1)
      items == Call(insn.pc - 4, insn.pc + Imm24(insn) * 4 + H * 2)
  IN  Rewritten(items, {Len(items) - 2, Len(items)})

\* arm_relocator_write_one
ArmRewrite(insn) ==
  LET type == GetARMInsnType(insn.insn1, insn.insn2)
  IN  CASE type = "ADD_register_A1" -> rewrite_ADD_register_A1(insn)
        [] type = "LDR_literal_A1" -> rewrite_LDR_literal_A1(insn)
        [] type = "ADR_A1" -> rewrite_ADR_A1(insn)
        [] type = "ADR_A2" -> rewrite_ADR_A2(insn)
        [] type = "B_A1" -> rewrite_B_A1(insn)
        [] type = "BL_A1" -> rewrite_BL_A1(insn)
        [] type = "BLX_A2" -> rewrite_BLX_A2(insn)
        [] type = "UNDEF" -> ArmCopied(insn)

(* ------------------------------------------------------------------------ *)
(* A relocator's output: what was put, which items of it are literals, and    *)
(* where the instructions of the input begin in it                            *)

ARMRelocator == [items : Seq(Seq(0..65535)), literals : SUBSET Nat, starts : Seq(Nat)]

arm_relocator_reset == [items |-> << >>, literals |-> {}, starts |-> << >>]

\* The output with one more instruction rewritten, and its literals registered
arm_relocator_register_literal_insn(out, rewritten) ==
  [items |-> out.items \o rewritten.items,
   literals |-> out.literals \cup {Len(out.items) + i : i \in rewritten.literals},
   starts |-> Append(out.starts, SizeOf(out.items))]

arm_relocator_write_all(insns) ==
  FoldLeft(LAMBDA out, insn : arm_relocator_register_literal_insn(out, ArmRewrite(insn)),
           arm_relocator_reset, insns)

InsnsSize(insns) == FoldLeft(LAMBDA size, insn : size + insn.size, 0, insns)

\* The literals that hold an address behind the first instruction and within the others
Inside(start, insns, out) ==
  {i \in out.literals : WordValue(out.items[i]) - start \in 1..(InsnsSize(insns) - 1)}

arm_relocator_get_relocator_insn_with_address(insns, address) ==
  {j \in DOMAIN insns : insns[j].pc - 8 = address}

\* Those literals now point into the slice.  Nothing unless each has its instruction,
\* which the source asserts
arm_relocator_relocate_writer(insns, out, slice) ==
  LET inside == Inside(insns[1].pc - 8, insns, out)
      found(i) == arm_relocator_get_relocator_insn_with_address(insns, WordValue(out.items[i]))
  IN  IF \E i \in inside : found(i) = {} THEN << >>
      ELSE [i \in DOMAIN out.items |->
              IF i \in inside THEN Word(slice + out.starts[CHOOSE j \in found(i) : TRUE])
              ELSE out.items[i]]
====

---- MODULE InterceptorArm32 ----
(***************************************************************************)
(* platforms/backend-arm: a hook is built for a target in Thumb or ARM     *)
(* code, down to the instructions, and the hooked function is then called  *)
(* on ArmProcessor: through the patch, the transfer trampoline, the        *)
(* closure and its bridge, the handler and the relocated prologue.         *)
(*                                                                         *)
(* The same machine runs two smaller jobs: one ARM instruction sent        *)
(* through the ARM relocator, which build_for_invoke does not get to       *)
(* (Overrun below), and one call of a writer.                              *)
(***************************************************************************)
EXTENDS ThumbRelocator, ArmProcessor

CONSTANTS
  Jobs,         \* what is run, one job of these
  NDEBUG        \* whether assert is compiled away
ASSUME NDEBUGAssumption == NDEBUG \in BOOLEAN

\* The calls of the writers the encodings are made for, those that leave what they put; the
\* registers are those of Registers, and what is put is not where they point
Within(v, low, high) == v \in Int /\ low <= v /\ v <= high
Address(v) == Within(v, -2147483647, 2147483647)

ThumbCall(c, at) ==
  \/ c.put = "nop"
  \/ /\ c.a \in 0..14
     /\ \/ c.put = "ldr_b_reg_address" /\ Address(c.v)
        \/ /\ c.put \in {"ldr", "str"} /\ c.b \in 0..14 /\ Within(c.v, -255, 4095)
           /\ InT1(c.a, c.b, c.v) \/ InT2(c.a, c.b, c.v) => c.v % 4 = 0
        \/ /\ c.put \in {"ldr_index", "str_index"} /\ c.b \in (0..14) \ {c.a}
           /\ Within(c.v, -255, 255) /\ c.index \in {0, 1}
        \/ /\ c.put \in {"add", "sub", "sub_self"} /\ Within(c.v, -4095, 4095)
           /\ c.put = "sub_self" \/ c.b \in 0..15
           /\ c.put = "sub_self" \/ c.b = c.a
                => \/ c.a = SP /\ Within(c.v, -508, 508) /\ c.v % 4 = 0
                   \/ c.a <= 7 /\ Within(c.v, -255, 255)
        \/ c.put = "add_reg" /\ {c.a, c.b, c.v} \subseteq 0..7
        \/ c.put \in {"push", "pop"} /\ c.a <= 7
        \/ c.put \in {"bx", "blx"}
  \/ c.put = "ldr_reg_address" /\ c.a = PC /\ Address(c.v) /\ c.v \notin (at - 1)..(at + 24)
  \/ c.put = "b" /\ Within(c.v, -2048, 2046) /\ c.v % 2 = 0 /\ c.v # -4
  \/ /\ c.put \in {"b_wide", "bl"}
     /\ Within(c.v, -(2 ^ 24), 2 ^ 24 - 2) /\ c.v % 2 = 0 /\ c.v \notin {-4, -2}
  \/ /\ c.put = "blx_imm"
     /\ Within(c.v, -(2 ^ 24), 2 ^ 24 - 4) /\ c.v % 4 = 0 /\ c.v \notin {-4, 0}

ArmCall(c, at) ==
  \/ c.put \in {"nop", "bx_to_thumb"}
  \/ /\ c.a \in 0..14
     /\ \/ c.put = "ldr_b_reg_address" /\ Address(c.v)
        \/ /\ c.put = "ldr" /\ c.b \in 0..15 /\ Within(c.v, -4095, 4095)
           /\ c.b = PC => ~Within(c.v, -8, -5)
        \/ c.put = "str" /\ c.b \in 0..14 /\ Within(c.v, 0, 4095)
        \/ /\ c.put = "ldr_index" /\ c.b \in (0..14) \ {c.a}
           /\ Within(c.v, -4095, 4095) /\ c.index \in {0, 1}
        \/ c.put \in {"add", "sub"} /\ c.b \in 0..15 /\ Within(c.v, 0, 255)
        \/ c.put \in {"push", "bx"}
        \/ c.put = "pop" /\ c.a # SP
  \/ c.put = "ldr_reg_address" /\ c.a = PC /\ Address(c.v) /\ c.v \notin (at - 1)..(at + 24)
  \/ c.put = "b" /\ Within(c.v, -(2 ^ 25), 2 ^ 25 - 4) /\ c.v % 4 = 0 /\ c.v # -8

ASSUME CallsAssumption ==
  \A j \in Jobs : j.kind = "call" =>
    /\ j.target \in 2 ^ 16..(2 ^ 25 - 2 ^ 16) /\ j.type = "PRE_POST" /\ j.zero \in BOOLEAN
    /\ IF j.target % 2 = 1 THEN ThumbCall(j.call, j.target - 1)
                           ELSE j.target % 4 = 0 /\ ArmCall(j.call, j.target)

VARIABLES
  job,          \* what is hooked, in which state of the closure pages and of memory
  steps,        \* what of build_all and active is still to be done
  code,         \* all code there is, a function from addresses to halfwords
  slices,       \* how many slices were handed out
  table,        \* gClosureBridageTrampolineTable
  infos,        \* the ClosureBridgeInfos, in the order of their allocation
  entry,        \* hook_entry_t and its ARMHookEntryBackend
  m,            \* the processor, on its way through the hooked function
  calls,        \* the return addresses of the thread stack
  stage,        \* "call", "origin" from the handler on, "leave" behind the function
  before,       \* the registers at the call, or at the return
  fault         \* "none", or what ended it: "null", "assert", "overrun"
vars == <<job, steps, code, slices, table, infos, entry, m, calls, stage, before, fault>>

(* ------------------------------------------------------------------------ *)
(* Where things are.  Slices and near slices are what the memory manager     *)
(* hands out; a page of closures holds PageSlots of them, 256 in a real one. *)

PageSlots == 2
SliceAt(n) == 8192 + 256 * n
PageAt(n) == 16384 + 4096 * n
InfoAt(i) == 12288 + 16 * i              \* &ClosureBridgeInfo
InfoIndex(a) == (a - 12288) \div 16
Template == 28672                        \* closure_bridge_template
Handler == 29000                         \* common_bridge_handler
Caller == 30001
Stack == 2 ^ 27
Junk == 2 ^ 26                           \* what C code leaves in a register it may change
Result == 2 ^ 26 + 4                     \* what the hooked function returns

\* The halfwords of items, in code at address a
At(a, items) ==
  LET halfwords == FlattenSeq(items)
  IN  [b \in {a + 2 * (i - 1) : i \in DOMAIN halfwords} |-> halfwords[(b - a) \div 2 + 1]]
\* The code old with new written over it
Over(new, old) == [a \in DOMAIN new \cup DOMAIN old |-> IF a \in DOMAIN new THEN new[a] ELSE old[a]]

Origin == At(job.target - (job.target % 2), <<job.program>>)     \* the program as it was
Thumb == job.target % 2 = 1              \* INSTRUCTION_IS_THUMB
target_addr == job.target - (job.target % 2)
NoSlice == [data |-> 0, code |-> << >>]
Redirect(size) == entry.redirect_code_size = size

(* ------------------------------------------------------------------------ *)
(* closure-bridge-arm.c and closure-bridge-template-arm.S                     *)

closure_bridge_trampoline_template ==
  arm_put_ldr_reg_reg_imm(12, PC, 0) \o arm_put_ldr_reg_reg_imm(PC, PC, 0)
    \o arm_put_bytes(0) \o arm_put_bytes(0)

\* RegState: two words, r0 to r12, lr
Saved(rs, i) == rs + 8 + 4 * (IF i = LR THEN 13 ELSE i)

\* Mutant: without the two words below the registers
closure_bridge_template_NoAlign ==
  LET save(i) == arm_put_str_reg_reg_imm(i, SP, Saved(-8, i))
      restore(i) == arm_put_ldr_reg_reg_imm_index(i, SP, 4, 0)
      prologue == arm_put_sub_reg_reg_imm(SP, SP, 56)
                    \o FlattenSeq([i \in 1..14 |-> save(IF i = 1 THEN LR ELSE 14 - i)])
                    \o arm_put_instruction(\he1a0, 13)         \* mov r0, sp
                    \o arm_put_instruction(\he1a0, \h100c)     \* mov r1, r12
      bl == Sub(Handler - (Template + SizeOf(prologue) + 8), 2, 24)
  IN  prologue \o arm_put_instruction(\heb00 + bl \div 65536, bl % 65536)
        \o FlattenSeq([i \in 1..14 |-> restore(IF i = 14 THEN LR ELSE i - 1)])
        \o arm_put_instruction(\he50d, \hc004)                 \* str r12, [sp, #-4]
        \o arm_put_ldr_reg_reg_imm(PC, SP, -4)

closure_bridge_template ==
  LET save(i) == arm_put_str_reg_reg_imm(i, SP, Saved(-8, i))
      restore(i) == arm_put_ldr_reg_reg_imm_index(i, SP, 4, 0)
      prologue == arm_put_sub_reg_reg_imm(SP, SP, 56)
                    \o FlattenSeq([i \in 1..14 |-> save(IF i = 1 THEN LR ELSE 14 - i)])
                    \o arm_put_sub_reg_reg_imm(SP, SP, 8)
                    \o arm_put_instruction(\he1a0, 13)         \* mov r0, sp
                    \o arm_put_instruction(\he1a0, \h100c)     \* mov r1, r12
      bl == Sub(Handler - (Template + SizeOf(prologue) + 8), 2, 24)
  IN  prologue \o arm_put_instruction(\heb00 + bl \div 65536, bl % 65536)
        \o arm_put_add_reg_reg_imm(SP, SP, 8)
        \o FlattenSeq([i \in 1..14 |-> restore(IF i = 14 THEN LR ELSE i - 1)])
        \o arm_put_instruction(\he50d, \hc004)                 \* str r12, [sp, #-4]
        \o arm_put_ldr_reg_reg_imm(PC, SP, -4)

ClosureBridgeTrampolineTable ==
  [page : Nat, used_count : 0..PageSlots, free_count : 0..PageSlots]

\* A page of copies of the template
ClosureBridgeTrampolineTableAllocate(page) ==
  At(page, FlattenSeq([i \in 1..PageSlots |-> closure_bridge_trampoline_template]))

\* Mutant: a page is taken to be full one closure too late
ClosureBridgeAllocate_Late(user_code, into) ==
  LET fresh == table.page = 0 \/ table.used_count > PageSlots
      t == IF fresh THEN [page |-> IF table.page = 0 THEN PageAt(0) ELSE table.page + 4096,
                          used_count |-> 0, free_count |-> PageSlots]
                    ELSE table
      redirect == t.page + 16 * (t.used_count % PageSlots)
      data == At(redirect + 8, arm_put_bytes(InfoAt(Len(infos) + 1)) \o arm_put_bytes(Template))
  IN  [redirect_trampoline |-> redirect,
       table |-> [t EXCEPT !.used_count = @ + 1, !.free_count = @ - 1],
       infos |-> Append(infos, [user_code |-> user_code, redirect_trampoline |-> redirect]),
       code |-> Over(data, Over(IF fresh THEN ClosureBridgeTrampolineTableAllocate(t.page) ELSE << >>, into))]

\* The next closure of the head table, or the first of a new one
ClosureBridgeAllocate(user_code, into) ==
  LET fresh == table.page = 0 \/ table.free_count = 0
      t == IF fresh THEN [page |-> IF table.page = 0 THEN PageAt(0) ELSE table.page + 4096,
                          used_count |-> 0, free_count |-> PageSlots]
                    ELSE table
      redirect == t.page + 16 * t.used_count
      data == At(redirect + 8, arm_put_bytes(InfoAt(Len(infos) + 1)) \o arm_put_bytes(Template))
  IN  [redirect_trampoline |-> redirect,
       table |-> [t EXCEPT !.used_count = @ + 1, !.free_count = @ - 1],
       infos |-> Append(infos, [user_code |-> user_code, redirect_trampoline |-> redirect]),
       code |-> Over(data, Over(IF fresh THEN ClosureBridgeTrampolineTableAllocate(t.page) ELSE << >>, into))]

(* ------------------------------------------------------------------------ *)
(* Reading and relocating a prologue: relocator-thumb.c, relocator-arm.c      *)

MAX_INSN_SIZE == 256                     \* of insnCTXs

read_one(reader) ==
  IF Thumb THEN thumb_reader_read_one_instruction(code, reader)
           ELSE arm_reader_read_one_instruction(code, reader)

\* What is read until it has size bytes, or has filled insnCTXs
Read(size) ==
  LET reset == IF Thumb THEN thumb_reader_reset(target_addr) ELSE arm_reader_reset(target_addr)
      insns[n \in 0..MAX_INSN_SIZE, insns_size \in Nat] ==
        IF n = MAX_INSN_SIZE \/ (n > 0 /\ insns_size >= size) THEN << >>
        ELSE LET insn == read_one([reset EXCEPT !.insns_size = insns_size])
             IN  IF insn.size = 0 THEN [i \in 1..(MAX_INSN_SIZE - n) |-> insn]    \* again and again
                 ELSE <<insn>> \o insns[n + 1, insns_size + insn.size]
  IN  insns[0, 0]
\* insnCTXs is full, and there are not size bytes
Overrun(size) == Len(Read(size)) = MAX_INSN_SIZE

\* max_bytes, which stays 0 if no branch ends the function in them
thumb_relocator_try_relocate(min_bytes) ==
  LET insns == Read(min_bytes)
      ends(insn) == GetTHUMBInsnType(insn.insn1, insn.insn2) \in {"B_T2", "B_T4"}
  IN  IF \E i \in DOMAIN insns : ends(insns[i]) THEN InsnsSize(insns) ELSE 0

arm_relocator_try_relocate(min_bytes) ==
  LET insns == Read(min_bytes)
      ends(insn) ==
        GetARMInsnType(insn.insn1, insn.insn2) = "B_A1" /\ Sub(insn.insn2, 12, 4) = 14
  IN  IF \E i \in DOMAIN insns : ends(insns[i]) THEN InsnsSize(insns) ELSE 0

Written(insns) == IF Thumb THEN thumb_relocator_write_all(insns) ELSE arm_relocator_write_all(insns)

(* ------------------------------------------------------------------------ *)
(* interceptor-arm.c: the handlers of interceptor_routing_trampoline.c        *)

BuildAll ==
  <<"backend", "prepare">>
    \o (CASE job.type = "PRE_POST" -> <<"enter", "invoke", "leave">>
          [] job.type = "REPLACE" -> <<"transfer", "invoke">>
          [] job.type = "DBI" -> <<"dbi", "invoke">>)
    \o <<"active">>

Do(step) ==
  /\ fault = "none" /\ steps # << >> /\ Head(steps) = step
  /\ steps' = Tail(steps)
  /\ UNCHANGED <<job, m, calls, stage, before>>

\* InteceptorBackendNew: status is read, and was never written
InteceptorBackendNew ==
  /\ Do("backend")
  /\ fault' \in {"none", "null"}
  /\ UNCHANGED <<code, slices, table, infos, entry>>

\* trampoline_prepare
trampoline_prepare ==
  LET limit == IF Thumb THEN thumb_relocator_try_relocate(8) ELSE arm_relocator_try_relocate(8)
  IN  /\ Do("prepare")
      /\ IF job.near
         THEN entry' = [entry EXCEPT !.redirect_code_size = 4] /\ UNCHANGED fault
         ELSE IF Overrun(8)
         THEN fault' = "overrun" /\ UNCHANGED entry
         ELSE /\ UNCHANGED fault
              /\ entry' = IF limit \in 5..7
                          THEN [entry EXCEPT !.redirect_code_size = 4, !.try_near_jump = TRUE]
                          ELSE IF limit \in 1..3 THEN entry
                          ELSE [entry EXCEPT !.redirect_code_size = 8 + (IF Thumb THEN target_addr % 4 ELSE 0)]
      /\ UNCHANGED <<code, slices, table, infos>>

\* The two ends of what the manager may take for a near slice
NearSlice(size) ==
  LET range == 2 ^ 24 - 16
  IN  IF job.place = "below" THEN ALIGN_CEIL(target_addr - range, 4)
                             ELSE ALIGN_FLOOR(target_addr + range - size, 4)

\* Items in a slice, which is at "data"
thumb_code_patch(items, near, into) ==
  LET data == IF near THEN NearSlice(SizeOf(items) + 4) ELSE SliceAt(slices)
  IN  [data |-> data, code |-> Over(At(data, items), into), slices |-> slices + Bit(~near)]

arm_code_patch(items, near, into) == thumb_code_patch(items, near, into)

\* trampoline_build_for_enter_transfer: the jump to what the hook begins with
WithTransfer(e, into) ==
  LET to == CASE job.type = "REPLACE" -> e.replace_call
              [] job.type = "DBI" -> e.on_dynamic_binary_instrumentation_trampoline
              [] OTHER -> e.on_enter_trampoline
      jump == IF Thumb THEN thumb_put_ldr_reg_address(thumb_writer_reset(0), PC, to)
                       ELSE arm_put_ldr_reg_address(PC, to)
      near == e.redirect_code_size = 4
      codeslice == IF Thumb THEN thumb_code_patch(jump, near, into) ELSE arm_code_patch(jump, near, into)
  IN  IF "transfer" \in job.missing THEN [entry |-> e, code |-> into, slices |-> slices]
      ELSE [entry |-> [e EXCEPT !.on_enter_transfer_trampoline = codeslice.data + Bit(Thumb)],
            code |-> codeslice.code, slices |-> codeslice.slices]

trampoline_build_for_enter_transfer ==
  LET built == WithTransfer(entry, code)
  IN  /\ Do("transfer")
      /\ entry' = built.entry /\ code' = built.code /\ slices' = built.slices
      /\ UNCHANGED <<table, infos, fault>>

\* ClosureBridgeAllocate returns NULL where mmap or mprotect fails; that is logged,
\* and the closure read nevertheless
NoClosure(step) ==
  /\ step \in job.missing
  /\ fault' = "null"
  /\ UNCHANGED <<code, slices, table, infos, entry>>

\* A closure of begin_invocation, and the transfer to it if the patch is short
BuildEntered(step, field) ==
  LET bridgeData == ClosureBridgeAllocate("begin", code)
      e == [entry EXCEPT ![field] = bridgeData.redirect_trampoline]
      built == IF Redirect(4) THEN WithTransfer(e, bridgeData.code)
               ELSE [entry |-> e, code |-> bridgeData.code, slices |-> slices]
  IN  /\ Do(step)
      /\ \/ NoClosure(step)
         \/ /\ step \notin job.missing
            /\ entry' = built.entry /\ code' = built.code /\ slices' = built.slices
            /\ table' = bridgeData.table /\ infos' = bridgeData.infos
            /\ UNCHANGED fault

trampoline_build_for_enter == BuildEntered("enter", "on_enter_trampoline")
\* The handler is that of a call; dynamic_binary_instrumentation_invocation is never used
trampoline_build_for_dynamic_binary_instrumentation ==
  BuildEntered("dbi", "on_dynamic_binary_instrumentation_trampoline")

\* Of what was put for insns and of what follows it; the slice is allocated first
thumb_relocate_code_patch(insns, out) ==
  LET repaired == thumb_relocator_relocate_writer(insns, out, SliceAt(slices))
  IN  IF repaired = << >> THEN NoSlice
      ELSE [data |-> SliceAt(slices), code |-> Over(At(SliceAt(slices), repaired), code)]

arm_relocate_code_patch(insns, out) ==
  LET repaired == arm_relocator_relocate_writer(insns, out, SliceAt(slices))
  IN  IF repaired = << >> THEN NoSlice
      ELSE [data |-> SliceAt(slices), code |-> Over(At(SliceAt(slices), repaired), code)]

trampoline_build_for_invoke ==
  LET insns == Read(entry.redirect_code_size)
      out == Written(insns)
      rest == target_addr + InsnsSize(insns)
      jump == IF Thumb
              THEN thumb_put_ldr_reg_address(thumb_writer_reset(0) + SizeOf(out.items), PC, rest + 1)
              ELSE arm_put_ldr_reg_address(PC, rest)
      whole == [out EXCEPT !.items = @ \o jump]
      codeslice == IF Thumb THEN thumb_relocate_code_patch(insns, whole)
                            ELSE arm_relocate_code_patch(insns, whole)
      found == "invoke" \notin job.missing
  IN  /\ Do("invoke")
      /\ fault' = IF Overrun(entry.redirect_code_size) THEN "overrun"
                  ELSE IF found /\ codeslice = NoSlice
                  THEN IF NDEBUG THEN "null" ELSE "assert" ELSE fault
      /\ IF found /\ fault' = "none"
         THEN /\ code' = codeslice.code /\ slices' = slices + 1
              /\ entry' = [entry EXCEPT !.on_invoke_trampoline = codeslice.data + Bit(Thumb),
                                        !.next_insn_addr = rest]
         ELSE UNCHANGED <<code, slices, entry>>
      /\ UNCHANGED <<table, infos>>

trampoline_build_for_leave ==
  LET bridgeData == ClosureBridgeAllocate("end", code)
  IN  /\ Do("leave")
      /\ \/ NoClosure("leave")
         \/ /\ "leave" \notin job.missing
            /\ entry' = [entry EXCEPT !.on_leave_trampoline = bridgeData.redirect_trampoline]
            /\ code' = bridgeData.code /\ table' = bridgeData.table /\ infos' = bridgeData.infos
            /\ UNCHANGED <<slices, fault>>

\* What trampoline_active writes over the target
Patch ==
  LET near == ALIGN_FLOOR(entry.on_enter_transfer_trampoline, IF Thumb THEN 2 ELSE 1)
      to == IF job.type = "REPLACE" THEN entry.on_enter_transfer_trampoline ELSE entry.on_enter_trampoline
      nop == Nop(target_addr % 4 # 0 /\ Redirect(10))
      start_pc == IF Thumb THEN thumb_writer_reset(target_addr) ELSE arm_writer_reset(target_addr)
  IN  IF ~Thumb THEN IF Redirect(4) THEN arm_put_b_imm(near - start_pc)
                                    ELSE arm_put_ldr_reg_address(PC, to)
      ELSE IF Redirect(4) THEN thumb_put_b_imm32(near - start_pc)
      ELSE nop \o thumb_put_ldr_reg_address(start_pc + SizeOf(nop), PC, to)

\* trampoline_active; its writer_reset asserts that the target is aligned
trampoline_active ==
  /\ Do("active")
  /\ fault' = IF target_addr % 4 # 0 /\ ~NDEBUG THEN "assert" ELSE fault
  /\ code' = IF fault' = "none" THEN Over(At(target_addr, Patch), code) ELSE code
  /\ UNCHANGED <<slices, table, infos, entry>>

(* ------------------------------------------------------------------------ *)
(* The other two jobs                                                         *)

\* One ARM instruction by arm_relocator_read_one, write_all and relocate_writer
RelocateOne ==
  LET insns == <<arm_reader_read_one_instruction(code, arm_reader_reset(target_addr))>>
      out == arm_relocator_write_all(insns)
      codeslice == arm_relocate_code_patch(insns, out)
  IN  /\ steps = <<"relocate">> /\ steps' = << >>
      /\ m' = Goto(m, codeslice.data)
      /\ code' = codeslice.code
      /\ slices' = slices + 1
      /\ entry' = [entry EXCEPT !.on_invoke_trampoline = codeslice.data,
                                !.redirect_code_size = SizeOf(out.items),
                                !.next_insn_addr = target_addr + 4]
      /\ UNCHANGED <<job, table, infos, calls, stage, before, fault>>

\* What a call of a writer puts at address at
Put(c, at) ==
  CASE c.put = "nop" -> IF Thumb THEN thumb_put_nop ELSE arm_put_nop
    [] c.put = "ldr_b_reg_address" ->
         IF Thumb THEN thumb_put_ldr_b_reg_address(at + 4, c.a, c.v) ELSE arm_put_ldr_b_reg_address(c.a, c.v)
    [] c.put = "ldr_reg_address" ->
         IF Thumb THEN thumb_put_ldr_reg_address(at + 4, c.a, c.v) ELSE arm_put_ldr_reg_address(c.a, c.v)
    [] c.put = "ldr" -> IF Thumb THEN thumb_put_ldr_reg_reg_offset(c.a, c.b, c.v)
                                 ELSE arm_put_ldr_reg_reg_imm(c.a, c.b, c.v)
    [] c.put = "str" -> IF Thumb THEN thumb_put_str_reg_reg_offset(c.a, c.b, c.v)
                                 ELSE arm_put_str_reg_reg_imm(c.a, c.b, c.v)
    [] c.put = "ldr_index" -> IF Thumb THEN thumb_put_ldr_index_reg_reg_offset(c.a, c.b, c.v, c.index)
                                       ELSE arm_put_ldr_reg_reg_imm_index(c.a, c.b, c.v, c.index)
    [] c.put = "str_index" -> thumb_put_str_index_reg_reg_offset(c.a, c.b, c.v, c.index)
    [] c.put = "add" -> IF Thumb THEN thumb_put_add_reg_reg_imm(c.a, c.b, c.v)
                                 ELSE arm_put_add_reg_reg_imm(c.a, c.b, c.v)
    [] c.put = "sub" -> IF Thumb THEN thumb_put_sub_reg_reg_imm(c.a, c.b, c.v)
                                 ELSE arm_put_sub_reg_reg_imm(c.a, c.b, c.v)
    [] c.put = "sub_self" -> thumb_put_sub_reg_imm(c.a, c.v)
    [] c.put = "add_reg" -> thumb_put_add_reg_reg_reg(c.a, c.b, c.v)
    [] c.put = "push" -> IF Thumb THEN thumb_put_push_reg(c.a) ELSE arm_put_push_reg(c.a)
    [] c.put = "pop" -> IF Thumb THEN thumb_put_pop_reg(c.a) ELSE arm_put_pop_reg(c.a)
    [] c.put = "bx" -> IF Thumb THEN thumb_put_bx_reg(at + 4, c.a) ELSE arm_put_bx_reg(c.a)
    [] c.put = "blx" -> thumb_put_blx_reg(c.a)
    [] c.put = "b" -> IF Thumb THEN thumb_put_b_imm(c.v) ELSE arm_put_b_imm(c.v)
    [] c.put = "b_wide" -> thumb_put_b_imm32(c.v)
    [] c.put = "bl" -> thumb_put_bl_imm(c.v)
    [] c.put = "blx_imm" -> thumb_put_blx_imm(c.v)
    [] c.put = "bx_to_thumb" -> arm_put_bx_to_thumb

PutOne ==
  LET items == Put(job.call, target_addr)
  IN  /\ Do("put")
      /\ code' = At(target_addr, items)
      /\ entry' = [entry EXCEPT !.redirect_code_size = SizeOf(items)]
      /\ UNCHANGED <<slices, table, infos, fault>>

(* ------------------------------------------------------------------------ *)
(* The hooked function is called                                              *)

Running == steps = << >> /\ fault = "none"

\* In the code of the hook: not in the rest of the function, nor in what others wrote
InHook ==
  /\ m.pc \in DOMAIN code
  /\ job.kind = "hook" /\ stage # "call" /\ entry.on_invoke_trampoline # 0
       => m.pc \notin entry.next_insn_addr..(target_addr + 2 * Len(job.program))
Exited == Running /\ ~InHook /\ m.pc # Handler

Execute ==
  /\ Running /\ InHook
  /\ m' = Step(m, code)
  /\ UNCHANGED <<job, steps, code, slices, table, infos, entry, calls, stage, before, fault>>

\* C code returns to a; it keeps r4 to r11 and sp
ReturnTo(machine, a, z) ==
  Interwork([machine EXCEPT !.z = z,
                            !.r = [i \in 0..14 |-> IF i \in {0, 1, 2, 3, 12, 14} THEN Junk ELSE @[i]]], a)

\* common_bridge_handler with context_begin_invocation or context_end_invocation
common_bridge_handler(user_code) ==
  /\ Running /\ m.pc = Handler
  /\ InfoIndex(m.r[1]) \in DOMAIN infos /\ infos[InfoIndex(m.r[1])].user_code = user_code
  /\ UNCHANGED <<job, steps, code, slices, table, infos, entry, before, fault>>

\* context_begin_invocation
context_begin_invocation ==
  LET rs == m.r[0]
      wraps == job.type = "PRE_POST"
      hop == IF entry.replace_call # 0 THEN entry.replace_call ELSE entry.on_invoke_trampoline
      hopped == Store(m, Saved(rs, 12), hop)
      diverted == IF wraps THEN Store(hopped, Saved(rs, LR), entry.on_leave_trampoline) ELSE hopped
  IN  /\ common_bridge_handler("begin")
      /\ calls' = Append(calls, IF wraps THEN m.ram[Saved(rs, LR)] ELSE 0)
      /\ stage' = "origin"
      /\ \E z \in BOOLEAN : m' = ReturnTo(diverted, m.r[LR], z)

\* Mutant: the frame is not popped, the return address is left in the bridge's r12
context_end_invocation_NoHop ==
  /\ common_bridge_handler("end")
  /\ calls' = SubSeq(calls, 1, Len(calls) - 1)
  /\ \E z \in BOOLEAN : m' = ReturnTo(m, m.r[LR], z)
  /\ UNCHANGED stage

\* context_end_invocation: r12, to which the bridge goes, becomes the return address
context_end_invocation ==
  /\ common_bridge_handler("end")
  /\ calls' = SubSeq(calls, 1, Len(calls) - 1)
  /\ \E z \in BOOLEAN :
       m' = ReturnTo(Store(m, Saved(m.r[0], 12), calls[Len(calls)]), m.r[LR], z)
  /\ UNCHANGED stage

\* The replacement calls the original function with its own arguments
AtReplacement ==
  Exited /\ job.type = "REPLACE" /\ stage = "call" /\ m.pc = ALIGN_FLOOR(entry.replace_call, 2)
ReplaceCall ==
  /\ AtReplacement
  /\ m' = Interwork(m, entry.on_invoke_trampoline)
  /\ stage' = "origin"
  /\ UNCHANGED <<job, steps, code, slices, table, infos, entry, calls, before, fault>>

\* The rest of a wrapped function, which returns where it was told to
InBody == Exited /\ job.type = "PRE_POST" /\ stage = "origin" /\ m.pc # 0
Body ==
  /\ InBody
  /\ \E z \in BOOLEAN :
       LET kept == [m EXCEPT !.r = [i \in 0..14 |-> IF i \in 4..11 \cup {SP} THEN before[i] ELSE @[i]]]
           returned == ReturnTo(kept, entry.on_leave_trampoline, z)
       IN  /\ m' = [returned EXCEPT !.r[0] = Result]
           /\ before' = m'.r
  /\ stage' = "leave"
  /\ UNCHANGED <<job, steps, code, slices, table, infos, entry, calls, fault>>

(* ------------------------------------------------------------------------ *)
Registers(zero) ==
  [i \in 0..14 |-> CASE i = SP -> Stack [] i = LR -> Caller
                     [] i = 0 /\ zero -> 0 [] OTHER -> 2 ^ 25 + 4096 * i]

\* The processor as the caller leaves it
CallMachine ==
  [pc |-> target_addr, thumb |-> Thumb, r |-> Registers(job.zero), z |-> job.zero, ram |-> << >>]

Init ==
  /\ job \in Jobs
  /\ steps = CASE job.kind = "hook" -> BuildAll
               [] job.kind = "relocate" -> <<"relocate">>
               [] job.kind = "call" -> <<"put">>
  /\ infos = [i \in 1..job.used |-> [user_code |-> "other", redirect_trampoline |-> PageAt(0) + 16 * (i - 1)]]
  /\ table = IF job.used = 0 THEN [page |-> 0, used_count |-> 0, free_count |-> 0]
             ELSE [page |-> PageAt(0), used_count |-> job.used, free_count |-> PageSlots - job.used]
  /\ code = Over(Origin,
                 Over(IF job.kind = "hook" THEN At(Template, closure_bridge_template) ELSE << >>,
                      IF job.used > 0 THEN ClosureBridgeTrampolineTableAllocate(PageAt(0)) ELSE << >>))
  /\ slices = 0
  /\ entry = [redirect_code_size |-> 0, try_near_jump |-> job.near,
              replace_call |-> IF job.type = "REPLACE" THEN job.replacement ELSE 0,
              on_enter_transfer_trampoline |-> 0, on_enter_trampoline |-> 0,
              on_dynamic_binary_instrumentation_trampoline |-> 0,
              on_invoke_trampoline |-> 0, on_leave_trampoline |-> 0, next_insn_addr |-> 0]
  /\ before = Registers(job.zero)
  /\ m = CallMachine
  /\ calls = << >> /\ stage = "call" /\ fault = "none"

\* The thread that calls the hooked function
CallerStep ==
  \/ Execute
  \/ context_begin_invocation
  \/ context_end_invocation
  \/ ReplaceCall
  \/ Body

Next ==
  \/ InteceptorBackendNew
  \/ trampoline_prepare
  \/ trampoline_build_for_enter_transfer
  \/ trampoline_build_for_enter
  \/ trampoline_build_for_dynamic_binary_instrumentation
  \/ trampoline_build_for_invoke
  \/ trampoline_build_for_leave
  \/ trampoline_active
  \/ RelocateOne
  \/ PutOne
  \/ CallerStep

\* The thread goes on with what it runs
Spec == Init /\ [][Next]_vars /\ WF_vars(CallerStep)

(* ------------------------------------------------------------------------ *)
(* The code that was there, and what a writer is asked for                    *)

\* The processor in the unpatched program, until it leaves the addresses from a to end - 1;
\* it does not go round in them, and every step takes it a halfword on
RunOrigin(machine, origin, a, end) ==
  LET after[n \in 0..(end - a)] ==
        IF n = 0 THEN machine
        ELSE LET before_n == after[n - 1]
             IN  IF before_n.pc \in a..(end - 1) THEN Step(before_n, origin) ELSE before_n
  IN  after[end - a]

OriginExit ==
  RunOrigin(CallMachine, Origin, target_addr, entry.next_insn_addr)

\* What c asks for, as the effect on machine
Asked(machine, c, size) ==
  LET next == Skip(machine, size)
      r == machine.r
      base(i) == IF i = PC THEN ALIGN_FLOOR(Here(machine), 4) ELSE r[i]
      Assign(i, v) == Set(machine, i, v, size)
      access == IF c.put \in {"ldr_index", "str_index"} /\ c.index = 0 THEN r[c.b] ELSE base(c.b) + c.v
  IN  CASE c.put = "nop" -> next
        [] c.put \in {"ldr_b_reg_address", "ldr_reg_address"} -> Assign(c.a, c.v)
        [] c.put = "ldr" -> Assign(c.a, Content(access))
        [] c.put = "str" -> Store(next, access, r[c.a])
        [] c.put = "ldr_index" -> [Assign(c.a, Content(access)) EXCEPT !.r[c.b] = r[c.b] + c.v]
        [] c.put = "str_index" -> Store([next EXCEPT !.r[c.b] = r[c.b] + c.v], access, r[c.a])
        [] c.put = "add" -> Assign(c.a, base(c.b) + c.v)
        [] c.put = "sub" -> Assign(c.a, base(c.b) - c.v)
        [] c.put = "sub_self" -> Assign(c.a, r[c.a] - c.v)
        [] c.put = "add_reg" -> Assign(c.a, r[c.b] + r[c.v])
        [] c.put = "push" -> Store([next EXCEPT !.r[SP] = @ - 4], Stack - 4, r[c.a])
        [] c.put = "pop" -> [Assign(c.a, Content(Stack)) EXCEPT !.r[SP] = Stack + 4]
        [] c.put = "bx" -> Interwork(machine, r[c.a])
        [] c.put = "blx" -> Interwork(Link(machine, 2), r[c.a])
        [] c.put \in {"b", "b_wide"} -> Goto(machine, Here(machine) + c.v)
        [] c.put = "bl" -> Goto(Link(machine, 4), Here(machine) + c.v)
        [] c.put = "blx_imm" -> Interwork(Link(machine, 4), ALIGN_FLOOR(Here(machine), 4) + c.v)
        [] c.put = "bx_to_thumb" -> [next EXCEPT !.thumb = TRUE]

(* ------------------------------------------------------------------------ *)
Finished == fault # "none" \/ (Exited /\ ~AtReplacement /\ ~InBody)
Bridged == job.kind = "hook" /\ job.type # "REPLACE"
Agree(left, right, registers) == \A i \in registers : left[i] = right[i]

\* The parts of the state are of their kinds
TypeOK ==
  /\ job \in Jobs
  /\ stage \in {"call", "origin", "leave"} /\ fault \in {"none", "null", "assert", "overrun"}
  /\ DOMAIN code \subseteq Int /\ \A a \in DOMAIN code : code[a] \in 0..65535
  /\ m.pc \in Int /\ m.thumb \in BOOLEAN /\ m.r \in [ARMReg \ {PC} -> Int] /\ m.z \in BOOLEAN
  /\ table \in ClosureBridgeTrampolineTable
  /\ slices \in Nat /\ calls \in Seq(Int)
  /\ entry.redirect_code_size \in {0, 4, 8, 10} \/ job.kind # "hook"
  /\ job.kind = "relocate" /\ steps # << >> =>
       LET reader == arm_reader_reset(target_addr)
           insn == arm_reader_read_one_instruction(code, reader)
       IN  /\ reader \in ARMReader /\ insn \in ARMInstruction
           /\ GetARMInsnType(insn.insn1, insn.insn2) \in ARMInsnType
           /\ arm_relocator_write_all(<<insn>>) \in ARMRelocator
  /\ job.kind = "hook" /\ steps = BuildAll /\ Thumb =>
       \A insn \in ToSet(Read(8)) :
         insn \in ARMInstruction /\ GetTHUMBInsnType(insn.insn1, insn.insn2) \in THUMBInsnType

\* The original function, called through a hook, leaves the relocated prologue where the
\* prologue itself would have been left, in the same instruction set and with the same
\* registers and stores; only lr holds the leave trampoline where it held the return
\* address, and the bridge does not keep r12.  The same for one ARM instruction
\* (relocator-thumb.c, relocator-arm.c, interceptor-arm.c)
SameEffect ==
  LET expected == OriginExit
      Diverted(v) == IF v = Caller /\ Bridged /\ job.type = "PRE_POST" THEN entry.on_leave_trampoline ELSE v
      slice_end == SliceAt(0) + entry.redirect_code_size
  IN  Exited /\ entry.on_invoke_trampoline # 0
        /\ (job.kind = "relocate" \/ (job.kind = "hook" /\ stage = "origin"))
      => /\ m.pc = IF job.kind = "relocate" /\ expected.pc = entry.next_insn_addr
                   THEN slice_end ELSE expected.pc
         /\ m.thumb = expected.thumb
         /\ Agree(m.r, expected.r, 0..11 \cup {SP} \cup IF Bridged THEN {} ELSE {12})
         /\ m.r[LR] = Diverted(expected.r[LR])
         /\ \A a \in DOMAIN expected.ram : m.ram[a] = Diverted(expected.ram[a])

\* Whoever the hook calls gets the registers of the call: the handler, which also gets its
\* own closure and not that of another hook, and the replacement.  At the return the
\* handler gets those of the function (closure-bridge-arm.c, closure-bridge-template-arm.S)
HandlersSeeRegisters ==
  /\ Running /\ m.pc = Handler =>
       LET rs == m.r[0]
       IN  /\ InfoIndex(m.r[1]) \in DOMAIN infos
           /\ infos[InfoIndex(m.r[1])].user_code = IF stage = "call" THEN "begin" ELSE "end"
           /\ \A i \in 0..11 \cup {LR} : m.ram[Saved(rs, i)] = before[i]
  /\ AtReplacement => m.thumb = (entry.replace_call % 2 = 1) /\ Agree(m.r, before, 0..14)

\* A wrapped function returns to its caller, in the caller's instruction set, with its
\* result, the registers and the stack as the function left them, and no frame stays behind
\* (custom-bridge-handler.c)
ReturnsToCaller ==
  stage = "leave" /\ Exited =>
    /\ m.pc = Caller - 1 /\ m.thumb
    /\ Agree(m.r, before, 0..11 \cup {SP}) /\ m.r[0] = Result /\ m.r[SP] = Stack
    /\ calls = << >>

\* The instructions a writer puts do what the call of the writer says, whatever encoding it
\* takes for the registers, the distance and the place (writer-thumb.c, writer-arm.c)
CallsMean ==
  job.kind = "call" /\ Exited =>
    LET asked == Asked(CallMachine, job.call, entry.redirect_code_size)
    IN  /\ m.pc = asked.pc /\ m.thumb = asked.thumb /\ m.r = asked.r
        /\ \A a \in DOMAIN asked.ram : m.ram[a] = asked.ram[a]

\* A thread that calls a hooked function gets through: it does not go round in the patch
\* and the trampolines (trampoline_active, the bridge, the relocated prologue)
Finishes == Running ~> Finished

\* No assertion of the backend fails: writer-thumb.c:21 assert(targetPC % 4 == 0),
\* relocator-thumb.c:117 assert(relocated_insn)
AssertionsHold == fault # "assert"
====

---- MODULE RelocatorArm64 ----
(***************************************************************************)
(* One hooked instruction or prologue, word by word: what                  *)
(* arch-arm64/relocator-arm64.c makes of the instructions that the patch   *)
(* will overwrite, with the jump behind the patch that build_for_invoke    *)
(* adds, and the patch and the transfer trampoline that lead there.  Then  *)
(* a processor calls the target, and what it does is compared with what    *)
(* the instructions did where they were.                                   *)
(*                                                                         *)
(* Addresses are in bytes.  The handler between the patch and the          *)
(* relocated instructions is left out: control that comes to Enter goes on *)
(* at Base, where on_invoke_trampoline is.                                 *)
(***************************************************************************)
EXTENDS Arm64Instructions, SequencesExt

CONSTANTS
  Programs,   \* set of sequences of words: one (near jump) or four
  Caves,      \* where an on_enter_transfer_trampoline may be
  Start,      \* the target
  Base,       \* on_invoke_trampoline
  Enter,      \* on_enter_trampoline
  Caller,     \* where the function at the target returns to
  NULL

ASSUME RelocatorAssumption ==
  /\ Programs \subseteq Seq(InstructionWord) \ {<< >>}
  /\ \A p \in Programs : Len(p) \in {1, 4}
  /\ \A a \in Caves \cup {Start, Base, Enter, Caller} : a \in Nat /\ a % 4 = 0

VARIABLES
  program,    \* the instructions at Start
  taken,      \* for each of them, whether a condition it tests holds
  cave,       \* the transfer trampoline of a near jump
  phase,      \* "prepare", "relocate", "finish", "double_write", "call", "run" or "left"
  limit,      \* limit_relocate_inst_size
  input,      \* the number of instructions the reader has read
  io_indexs,  \* where the output of each instruction begins
  output,     \* the words written
  pc, regs,   \* the processor
  events,     \* what it did
  exit,       \* where it went
  begins      \* auxiliary: io_indexs before double_write reset it

inputVars == <<program, taken, cave>>
relocatorVars == <<limit, input, io_indexs, output, begins>>
cpuVars == <<pc, regs, events, exit>>
vars == <<inputVars, phase, relocatorVars, cpuVars>>

(* ------------------------------------------------------------------------ *)
(* The relocator                                                               *)

ARM64_TINY_REDIRECT_SIZE == 4
ARM64_FULL_REDIRECT_SIZE == 16

\* bytes_max: set if one of the instructions is of the class BImm
try_relocate(bytes_min) ==
  IF \E k \in 1..bytes_min \div 4 : getInstType(program[k]) = "BImm" THEN bytes_min ELSE 0

Limit ==
  IF Len(program) = 1 THEN ARM64_TINY_REDIRECT_SIZE
  ELSE LET max == try_relocate(ARM64_FULL_REDIRECT_SIZE)
       IN  IF max > ARM64_TINY_REDIRECT_SIZE /\ max < ARM64_FULL_REDIRECT_SIZE
           THEN ARM64_TINY_REDIRECT_SIZE
           ELSE IF max # 0 /\ max < ARM64_TINY_REDIRECT_SIZE THEN 0 ELSE ARM64_FULL_REDIRECT_SIZE

NewRelocator == input = 0 /\ io_indexs = << >> /\ output = << >>
ResetRelocator == input' = 0 /\ io_indexs' = << >>

Prepare ==
  /\ phase = "prepare"
  /\ limit' = Limit
  /\ phase' = "relocate"
  /\ UNCHANGED <<inputVars, input, io_indexs, output, begins, cpuVars>>

\* An instruction as read_inst makes it
ReadInst(k) == [pc |-> Start + 4 * (k - 1), bytes |-> program[k], size |-> 4]

\* get_insn_sub yields an unsigned field, which is shifted and added to the pc
TargetAddress(instCTX, start, length) ==
  get_insn_sub(instCTX.bytes, start, length) * 4 + instCTX.pc

JumpTo(a) == <<put_ldr_reg_imm(ARM64_REG_X17, 8), put_br_reg(ARM64_REG_X17)>> \o put_address(a)

rewrite_LoadLiteral(instCTX) ==
  LET regRt == arm64_register_disdescribe(get_insn_sub(instCTX.bytes, 0, 5), 0)
  IN  <<put_ldr_reg_imm(regRt, 8), put_b_imm(12)>>
        \o put_address(TargetAddress(instCTX, 5, 19))
        \o <<put_ldr_reg_reg_offset(regRt, regRt, 0)>>

\* Mutant: the branch over the jump is one word short
rewrite_Test_ShortBranch(instCTX) ==
  <<BIT32SET(instCTX.bytes, 5, 19, 2), put_b_imm(16)>> \o JumpTo(TargetAddress(instCTX, 5, 19))

\* rewrite_BaseCmpBranch and rewrite_BranchCond
rewrite_Test(instCTX) ==
  <<BIT32SET(instCTX.bytes, 5, 19, 2), put_b_imm(20)>> \o JumpTo(TargetAddress(instCTX, 5, 19))

rewrite_B(instCTX) == JumpTo(TargetAddress(instCTX, 0, 26))

\* Mutant: the branch over the literal is one word long
rewrite_BL_LongBranch(instCTX) ==
  <<put_ldr_reg_imm(ARM64_REG_X17, 12), put_blr_reg(ARM64_REG_X17), put_b_imm(16)>>
    \o put_address(TargetAddress(instCTX, 0, 26))

rewrite_BL(instCTX) ==
  <<put_ldr_reg_imm(ARM64_REG_X17, 12), put_blr_reg(ARM64_REG_X17), put_b_imm(12)>>
    \o put_address(TargetAddress(instCTX, 0, 26))

relocate_write(instCTX) ==
  LET type == getInstType(instCTX.bytes)
  IN  CASE type = "LoadLiteral" -> rewrite_LoadLiteral(instCTX)
        [] type \in {"BaseCmpBranch", "BranchCond"} -> rewrite_Test(instCTX)
        [] type = "B" -> rewrite_B(instCTX)
        [] type = "BL" -> rewrite_BL(instCTX)
        [] OTHER -> <<instCTX.bytes>>

\* Mutant: the index of the output taken when it has been written
ReadAndRelocate_LateIndex ==
  /\ phase = "relocate"
  /\ input' = input + 1
  /\ output' = output \o relocate_write(ReadInst(input'))
  /\ io_indexs' = Append(io_indexs, Len(output') + 1)
  /\ begins' = io_indexs'
  /\ phase' = IF 4 * input' < limit THEN "relocate" ELSE "finish"
  /\ UNCHANGED <<inputVars, limit, cpuVars>>

\* One turn of build_for_invoke's loop: read_inst, relocate_write
ReadAndRelocate ==
  /\ phase = "relocate"
  /\ input' = input + 1
  /\ io_indexs' = Append(io_indexs, Len(output) + 1)
  /\ output' = output \o relocate_write(ReadInst(input'))
  /\ begins' = io_indexs'
  /\ phase' = IF 4 * input' < limit THEN "relocate" ELSE "finish"
  /\ UNCHANGED <<inputVars, limit, cpuVars>>

\* Mutant: back to the target, onto the patch
PutJumpBack_ToTarget ==
  /\ phase = "finish"
  /\ output' = output \o JumpTo(Start)
  /\ phase' = "double_write"
  /\ UNCHANGED <<inputVars, limit, input, io_indexs, begins, cpuVars>>

PutJumpBack ==
  /\ phase = "finish"
  /\ output' = output \o JumpTo(Start + 4 * input)
  /\ phase' = "double_write"
  /\ UNCHANGED <<inputVars, limit, input, io_indexs, begins, cpuVars>>

\* The words are saved, reader and writer reset, all that was read relocated again
\* (nothing: it was reset), and the saved words put back behind that.  Then the target
\* is patched, and called.
DoubleWrite ==
  /\ phase = "double_write"
  /\ ResetRelocator
  /\ LET again == << >>
     IN  output' = again \o SubSeq(output, Len(again) + 1, Len(output))
  /\ phase' = "call"
  /\ pc' = Start
  /\ UNCHANGED <<inputVars, limit, begins, regs, events, exit>>

\* active and build_for_enter_transfer
Patch ==
  IF limit = ARM64_TINY_REDIRECT_SIZE THEN <<put_b_imm(cave - Start)>> ELSE JumpTo(Enter)
EnterTransfer == JumpTo(Enter)

(* ------------------------------------------------------------------------ *)
(* The processor                                                               *)

SignedSub(insn, start, length) ==
  LET field == get_insn_sub(insn, start, length)
  IN  IF field < 2 ^ (length - 1) THEN field ELSE field - 2 ^ length

Op(op, rt, rn, offset) == [op |-> op, rt |-> rt, rn |-> rn, offset |-> offset]

\* What ARMv8.0 takes a word for.  Its instructions that refer to the pc each have an
\* operation here; a literal load's has its V and opc, and the offset of adrp counts
\* pages.  Of those that go where a register says, "ret" is the return by x30.
Decode(w) ==
  LET F(start, length) == get_insn_sub(w, start, length)
      S(start, length) == 4 * SignedSub(w, start, length)
  IN  CASE F(27, 3) = 3 /\ F(24, 2) = 0 ->
               Op(<<"ldr_literal", F(26, 1), F(30, 2)>>, F(0, 5), 0, S(5, 19))
        [] F(25, 6) = 26 -> Op(<<"cbz">>, F(0, 5), 0, S(5, 19))
        [] F(25, 6) = 27 -> Op(<<"tbz">>, F(0, 5), 0, S(5, 14))
        [] F(24, 8) = 84 /\ F(4, 1) = 0 -> Op(<<"b.cond">>, 0, 0, S(5, 19))
        [] F(26, 6) = 5 -> Op(<<"b">>, 0, 0, S(0, 26))
        [] F(26, 6) = 37 -> Op(<<"bl">>, 0, 0, S(0, 26))
        [] F(24, 5) = 16 ->
               Op(<<IF F(31, 1) = 1 THEN "adrp" ELSE "adr">>, F(0, 5), 0, S(5, 19) + F(29, 2))
        [] F(25, 7) = 107 ->
               Op(<<IF w = <<\h03c0, \hd65f>> THEN "ret" ELSE IF F(21, 3) = 1 THEN "blr" ELSE "br">>,
                  0, F(5, 5), 0)
        [] F(22, 10) = \h3e5 -> Op(<<"ldr">>, F(0, 5), F(5, 5), 8 * F(10, 12))
        [] w[2] = 0 -> Op(<<"udf">>, 0, 0, 0)
        [] OTHER -> Op(<<"plain">>, 0, 0, 0)

\* What can be executed: on the way to the handler, and behind it
Code ==
  IF phase = "call"
  THEN {[at |-> Start, words |-> Patch], [at |-> cave, words |-> EnterTransfer]}
  ELSE {[at |-> Base, words |-> output]}

Holds(code, a) == a % 4 = 0 /\ a >= code.at /\ a < code.at + 4 * Len(code.words)
InCode(a) == a # NULL /\ \E code \in Code : Holds(code, a)
Fetch(a) ==
  LET code == CHOOSE c \in Code : Holds(c, a)
  IN  code.words[(a - code.at) \div 4 + 1]

\* A doubleword of the code, as an address
Doubleword(a) ==
  IF InCode(a + 4) /\ Fetch(a + 4) = <<0, 0>> /\ Fetch(a)[2] < 32768
  THEN Fetch(a)[1] + 65536 * Fetch(a)[2] ELSE NULL

\* The program's instruction that a word at a was made from
InstructionAt(a) ==
  Max({1} \cup {k \in DOMAIN begins : Base + 4 * (begins[k] - 1) <= a})

Go(a, es) ==
  /\ events' = events \o es
  /\ IF phase = "call" /\ a = Enter
     THEN phase' = "run" /\ pc' = Base /\ UNCHANGED exit
     ELSE IF InCode(a)
     THEN pc' = a /\ UNCHANGED <<phase, exit>>
     ELSE phase' = "left" /\ exit' = a /\ UNCHANGED pc

Load(i, a) ==
  IF InCode(a)
  THEN regs' = [regs EXCEPT ![i.rt] = Doubleword(a)] /\ Go(pc + 4, << >>)
  ELSE regs' = [regs EXCEPT ![i.rt] = NULL] /\ Go(pc + 4, <<<<"load", i.op, i.rt, a>>>>)

\* The register form of the 64-bit load is the same to the program as its literal form
LoadX == <<"ldr_literal", 0, 1>>

PageOf(a) == a \div 4096

\* NULL in a register is the program's own value, which is the same wherever the program's
\* words are: an instruction that uses one does what its word says.
Execute(w) ==
  \E i \in {Decode(w)} :
     CASE i.op[1] = "ldr_literal" -> Load(i, pc + i.offset)
        [] i.op[1] = "ldr" ->
             IF regs[i.rn] = NULL
             THEN regs' = [regs EXCEPT ![i.rt] = NULL] /\ Go(pc + 4, <<<<"plain", w>>>>)
             ELSE Load([i EXCEPT !.op = LoadX], regs[i.rn] + i.offset)
        [] i.op[1] \in {"cbz", "tbz", "b.cond"} ->
             /\ Go(pc + (IF taken[InstructionAt(pc)] THEN i.offset ELSE 4), << >>)
             /\ UNCHANGED regs
        [] i.op[1] = "b" -> Go(pc + i.offset, << >>) /\ UNCHANGED regs
        [] i.op[1] = "adr" ->
             /\ regs' = [regs EXCEPT ![i.rt] = NULL]
             /\ Go(pc + 4, <<<<"adr", i.rt, pc + i.offset>>>>)
        [] i.op[1] = "adrp" ->
             /\ regs' = [regs EXCEPT ![i.rt] = NULL]
             /\ Go(pc + 4, <<<<"adrp", i.rt, PageOf(pc) + i.offset>>>>)
        [] i.op[1] = "br" ->
             /\ Go(regs[i.rn], IF regs[i.rn] = NULL THEN <<<<"plain", w>>>> ELSE << >>)
             /\ UNCHANGED regs
        [] i.op[1] = "blr" ->
             /\ Go(pc + 4, IF regs[i.rn] = NULL THEN <<<<"plain", w>>>>
                           ELSE <<<<"call", regs[i.rn]>>>>)
             /\ UNCHANGED regs
        [] i.op[1] = "ret" -> Go(Caller, << >>) /\ UNCHANGED regs
        [] i.op[1] = "plain" -> Go(pc + 4, <<<<"plain", w>>>>) /\ UNCHANGED regs

Executable == phase \in {"call", "run"} /\ Decode(Fetch(pc)).op[1] # "udf"

Run ==
  /\ Executable
  /\ \E w \in {Fetch(pc)} : Execute(w)
  /\ UNCHANGED <<inputVars, relocatorVars>>

(* ------------------------------------------------------------------------ *)
Tests(w) == Decode(w).op[1] \in {"cbz", "b.cond", "tbz"}

Init ==
  /\ program \in Programs
  /\ taken \in [1..Len(program) -> BOOLEAN]
  /\ \A k \in 1..Len(program) : taken[k] => Tests(program[k])
  /\ cave \in Caves
  /\ Len(program) = 4 => cave = Max(Caves)
  /\ phase = "prepare"
  /\ limit = 0 /\ begins = << >>
  /\ NewRelocator
  /\ pc = Start /\ regs = [r \in ARM64Reg |-> NULL]
  /\ events = << >>
  /\ exit = NULL

\* It has left, or cannot go on where it is
Done ==
  /\ phase \in {"call", "run", "left"}
  /\ ~Executable
  /\ UNCHANGED vars

Next == Prepare \/ ReadAndRelocate \/ PutJumpBack \/ DoubleWrite \/ Run \/ Done

Spec == Init /\ [][Next]_vars /\ WF_vars(Next)

(* ------------------------------------------------------------------------ *)
(* What the instructions do where they are                                     *)

AddressOf(k) == Start + 4 * (k - 1)
RealTarget(k) == AddressOf(k) + Decode(program[k]).offset
OpOf(k) == Decode(program[k]).op[1]

Leaves(k) == OpOf(k) \in {"b", "br", "ret"} \/ taken[k]

\* NULL: where a register of the program says
ExitOf(k) ==
  CASE OpOf(k) = "ret" -> Caller
    [] OpOf(k) = "br" -> NULL
    [] OTHER -> RealTarget(k)

\* The instruction that leaves the prologue, or the one behind it
LeavesAt ==
  CHOOSE k \in 1..Len(program) + 1 :
    /\ k <= Len(program) => Leaves(k)
    /\ \A j \in 1..k - 1 : ~Leaves(j)

EventsOf(k) ==
  CASE OpOf(k) \in {"plain", "ldr", "br", "blr"} -> <<<<"plain", program[k]>>>>
    [] OpOf(k) = "ldr_literal" ->
         <<<<"load", Decode(program[k]).op, Decode(program[k]).rt, RealTarget(k)>>>>
    [] OpOf(k) = "bl" -> <<<<"call", RealTarget(k)>>>>
    [] OpOf(k) = "adr" -> <<<<"adr", Decode(program[k]).rt, RealTarget(k)>>>>
    [] OpOf(k) = "adrp" ->
         <<<<"adrp", Decode(program[k]).rt, PageOf(AddressOf(k)) + Decode(program[k]).offset>>>>
    [] OTHER -> << >>

\* The events of the first n instructions
EventsUpTo(n) == FlattenSeq([k \in 1..n |-> EventsOf(k)])

OriginalEvents ==
  EventsUpTo(IF LeavesAt <= Len(program) THEN LeavesAt ELSE Len(program))

OriginalExit ==
  IF LeavesAt <= Len(program) THEN ExitOf(LeavesAt) ELSE Start + 4 * Len(program)

(* ------------------------------------------------------------------------ *)
(* What can be moved                                                           *)

\* Four instructions of at most six words each, and the jump back
OutputMax == 28
Clear(a) == a < Base \/ a >= Base + 4 * OutputMax

\* Does not refer to the pc, nor to a value in x17, which the library's words lose
Anywhere(i) ==
  \/ i.op[1] \in {"plain", "ret"}
  \/ i.op[1] \in {"ldr", "br", "blr"} /\ i.rn \in ARM64Reg \ {ARM64_REG_X17}

\* Refers to the pc, and is rewritten for what it is.  The relocator takes every distance
\* for a forward one, every literal load for one of 64 bits, and register 31, zero as a
\* load's destination, for the base of the load that it adds.
Rewritten(i) ==
  /\ i.offset >= 0
  /\ \/ i.op[1] \in {"cbz", "b.cond", "b", "bl"}
     \/ i.op = LoadX /\ i.rt # 31

\* adr, adrp, tbz and tbnz refer to the pc and are copied as they are: they do not move
Moves(w) == Anywhere(Decode(w)) \/ Rewritten(Decode(w))

\* What the words of p refer to by the pc is not under the patch, and none of it where the
\* words are moved to
Movable(p) ==
  /\ \A k \in DOMAIN p :
       LET i == Decode(p[k])
           a == AddressOf(k) + i.offset
       IN  Anywhere(i) \/ (Rewritten(i) /\ Clear(a) /\ a >= Start + 4 * Len(p))
  /\ Clear(Start + 4 * Len(p))

\* Addresses fit the low word of put_address, a branch reaches the caves, and the caves
\* are not in the patch.
Layout ==
  /\ NULL \notin Int
  /\ Start <= 2^30 /\ Enter <= 2^30
  /\ Clear(Caller)
  /\ \A c \in Caves : /\ c - Start >= -(2^27) /\ c - Start < 2^27
                      /\ c >= Start + 16 \/ c + 16 <= Start

Relocatable == Layout /\ \A p \in Programs : Movable(p)

(* ------------------------------------------------------------------------ *)
(* Properties                                                                  *)

TypeOK ==
  /\ program \in Seq(InstructionWord) /\ cave \in Caves
  /\ phase \in {"prepare", "relocate", "finish", "double_write", "call", "run", "left"}
  /\ limit \in {0, ARM64_TINY_REDIRECT_SIZE, ARM64_FULL_REDIRECT_SIZE}
  /\ input \in 0..Len(program)
  /\ io_indexs \in Seq(1..Len(output)) /\ Len(io_indexs) = input
  /\ \A i \in DOMAIN output : output[i] \in InstructionWord
  /\ pc \in Nat /\ DOMAIN regs = ARM64Reg

(***************************************************************************)
(* A call of the hooked target goes through the patch to the handler and   *)
(* then does what the instructions under the patch did: the same loads,    *)
(* calls and addresses of data and pages, the other instructions as their  *)
(* words say, and control goes to the same place.                          *)
(* docs/HookFrameworkDesign.md:78: in repairing instructions, addresses    *)
(* relative to the pc have to become absolute.  About the rewrite_         *)
(* functions, the words the writer encodes and the jump back.              *)
(***************************************************************************)
SameEffect ==
  phase = "left" => events = OriginalEvents /\ exit = OriginalExit

(***************************************************************************)
(* Whenever control is where the output of instruction k begins, exactly   *)
(* the instructions before k have been carried out, and none of them       *)
(* leaves.  About the distances inside each rewritten group and io_indexs. *)
(***************************************************************************)
GroupsSimulate ==
  phase = "run" =>
    \A k \in DOMAIN begins :
      pc = Base + 4 * (begins[k] - 1) => k <= LeavesAt /\ events = EventsUpTo(k - 1)

(***************************************************************************)
(* The call ends by leaving the library's code, never by executing an      *)
(* address that is stored among the instructions.                          *)
(***************************************************************************)
RelocatedLeaves == <>(phase = "left")
====

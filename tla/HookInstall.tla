---- MODULE HookInstall ----
(***************************************************************************)
(* Installing hooks into a running program: ZzWrap, ZzReplace and          *)
(* ZzDynamicBinaryInstrumentation (src/hookzz.c) with the trampolines they *)
(* build (src/interceptor_routing_trampoline.c, arch-arm64), while the     *)
(* program's threads keep calling the functions being hooked.              *)
(*                                                                         *)
(* A hook is built piece by piece in memory no thread reaches, and only    *)
(* then are the first instructions of its target overwritten: one word     *)
(*      b on_enter_transfer_trampoline                                     *)
(* with near jump enabled, and otherwise the four words                    *)
(*      ldr x17, #8;  br x17;  .long trampoline (low, high)                *)
(* which other threads can meet half-written.  The instructions that were  *)
(* overwritten run relocated, in on_invoke_trampoline, which ends with     *)
(*      ldr x17, #8;  br x17;  .long target + size                         *)
(* One API call runs at a time: the library has no lock, and its users     *)
(* hook from one thread.                                                   *)
(***************************************************************************)
EXTENDS Naturals, FiniteSets, SequencesExt

CONSTANTS
  Targets,     \* the functions (or instructions) that get hooked
  Hooks,       \* the calls of the API, one hook_entry_t each
  Target,      \* [Hooks -> Targets]
  Type,        \* [Hooks -> HookType]
  CaveAbove,   \* the hooks whose code cave, if any, is above their target
  Threads,     \* the threads of the program
  NULL

\* HOOK_TYPE_FUNCTION_via_GOT has no function that makes it
HookType == {"PRE_POST", "REPLACE", "DBI"}

ASSUME HooksAssumption ==
  /\ Target \in [Hooks -> Targets]
  /\ Type \in [Hooks -> HookType]
  /\ CaveAbove \subseteq Hooks
  /\ NULL \notin Hooks \cup Targets

\* A program makes finitely many calls of the API
ASSUME FiniteAssumption == IsFiniteSet(Hooks)

VARIABLES
  g_near_jump_flag,   \* BOOLEAN
  installer,          \* the API call in progress: its hook, what it still has to do,
                      \* the words of the patch it still has to write
  hook_entries,       \* Seq(Hooks): interceptor_t's list
  entry,              \* [Hooks -> Entry]: the hook_entry_t's
  code,               \* [Targets -> 4 words]: the first instructions of each target
  slots,              \* the closure trampolines handed out, with what is bound to them
  table_prot,         \* the permission of the page that holds them
  transfer,           \* [Hooks -> Addr]: the literal in on_enter_transfer_trampoline
  invoke,             \* [Hooks -> Seq(Word)]: on_invoke_trampoline, without its last jump
  origin_call,        \* [Hooks -> Addr]: the user's variable that ZzReplace fills in
  active,             \* auxiliary: the hooks whose target is completely patched
  thread              \* [Threads -> Thread]: what each thread of the program executes

installVars == <<g_near_jump_flag, installer, hook_entries, entry, code, slots,
                 table_prot, transfer, invoke, origin_call, active>>
vars == <<installVars, thread>>

(* ------------------------------------------------------------------------ *)
(* Addresses, instructions, threads                                           *)

Slot(n) == <<"slot", n>>
Code(kind, h) == <<kind, h>>
Addr == {Slot(n) : n \in 1..2 * Cardinality(Hooks)}
          \cup {Code(kind, h) : kind \in {"transfer", "invoke", "replace"}, h \in Hooks}
AddrOrNull == Addr \cup {NULL}

\* NULL is no address
Kind == {"slot", "transfer", "invoke", "replace", "stray"}
ASSUME NullAssumption == NULL \notin Kind \X (Nat \cup Hooks \cup {NULL})

\* The instructions: the i-th original one; b a; ldr x17, #8; br x17; the two halves
\* of an address.  Relocated ones: a jump to an absolute address, and a load of x17
\* from the literal of the patch on f.
Inst(op, arg) == [op |-> op, arg |-> arg]
Orig(i) == Inst("orig", i)
LdrX17 == Inst("ldr_x17", NULL)
BrX17 == Inst("br_x17", NULL)
Lo(a) == Inst("lo", a)
Hi(a) == Inst("hi", a)

\* A thread: what it runs (pc, and at, fn, i say where), x17 when HookZz loaded it,
\* the on_leave_trampolines it has still to go through.  Auxiliary: the hooks that
\* were in place when its call began, those it went through, the original
\* instructions it ran, whether it met a patch half-way.
Stray == <<"stray", NULL>>
Idle == [pc |-> "idle", at |-> NULL, fn |-> NULL, i |-> 0, x17 |-> NULL,
         due |-> << >>, sees |-> {}, through |-> << >>, ran |-> << >>,
         overlapped |-> FALSE]
Lost == {"torn", "fault", "null", "no_origin", "stray"}

hook_entry_t == [near : BOOLEAN, enter : AddrOrNull, leave : AddrOrNull, dbi : AddrOrNull,
                 invoke : AddrOrNull, transfer : AddrOrNull]
NoEntry == [near |-> FALSE, enter |-> NULL, leave |-> NULL, dbi |-> NULL,
            invoke |-> NULL, transfer |-> NULL]

Idling == [hook |-> NULL, todo |-> << >>, rw |-> FALSE, words |-> {}]
InstallerAt(step) == installer.todo # << >> /\ Head(installer.todo) = step
H == installer.hook
Advanced == [installer EXCEPT !.todo = Tail(@), !.rw = FALSE]

(* ------------------------------------------------------------------------ *)
(* The installer                                                              *)

zz_enable_near_jump ==
  /\ installer = Idling
  /\ g_near_jump_flag' = TRUE
  /\ UNCHANGED <<installer, hook_entries, entry, code, slots, table_prot,
                 transfer, invoke, origin_call, active, thread>>

zz_disable_near_jump ==
  /\ installer = Idling
  /\ g_near_jump_flag' = FALSE
  /\ UNCHANGED <<installer, hook_entries, entry, code, slots, table_prot,
                 transfer, invoke, origin_call, active, thread>>

\* Mutant: the near jump's transfer is built before what it goes to
BuildSteps_TransferFirst(h, near) ==
  LET transfer_if_near == IF near THEN <<"transfer">> ELSE << >>
  IN CASE Type[h] = "PRE_POST" ->
            transfer_if_near \o <<"enter", "invoke", "leave", "active">>
       [] Type[h] = "REPLACE" -> <<"transfer", "invoke", "active", "origin">>
       [] Type[h] = "DBI" -> transfer_if_near \o <<"dbi", "invoke", "active">>

\* What build_all and active do for each type, and ZzReplace after them
BuildSteps(h, near) ==
  LET transfer_if_near == IF near THEN <<"transfer">> ELSE << >>
  IN CASE Type[h] = "PRE_POST" ->
            <<"enter">> \o transfer_if_near \o <<"invoke", "leave", "active">>
       [] Type[h] = "REPLACE" -> <<"transfer", "invoke", "active", "origin">>
       [] Type[h] = "DBI" -> <<"dbi">> \o transfer_if_near \o <<"invoke", "active">>

\* The API does not look for an earlier hook of the target.  A second one works
\* only when both are near jumps and the branch that is then relocated goes
\* forward (the relocator does not extend its sign): the others are not made here.
Stackable(h) ==
  \A g \in ToSet(hook_entries) :
    Target[g] = Target[h] => /\ g_near_jump_flag
                             /\ entry[g].near
                             /\ g \in CaveAbove

add_hook_entry(h) == hook_entries' = Append(hook_entries, h)

\* ZzWrap, ZzReplace, ZzDynamicBinaryInstrumentation: up to and with prepare
BeginHook(h) ==
  /\ installer = Idling
  /\ h \notin ToSet(hook_entries)
  /\ Stackable(h)
  /\ add_hook_entry(h)
  /\ entry' = [entry EXCEPT ![h].near = g_near_jump_flag]
  /\ installer' = [Idling EXCEPT !.hook = h, !.todo = BuildSteps(h, g_near_jump_flag)]
  /\ UNCHANGED <<g_near_jump_flag, code, slots, table_prot, transfer, invoke,
                 origin_call, active, thread>>

\* AllocateClosureBridge, up to the page being writable and not executable
UnprotectTable ==
  /\ \/ InstallerAt("enter") \/ InstallerAt("leave") \/ InstallerAt("dbi")
  /\ ~installer.rw
  /\ table_prot' = "rw"
  /\ installer' = [installer EXCEPT !.rw = TRUE]
  /\ UNCHANGED <<g_near_jump_flag, hook_entries, entry, code, slots, transfer,
                 invoke, origin_call, active, thread>>

\* Mutant: the address is that of the slot handed out last
BindClosure_LastSlot(field) ==
  /\ InstallerAt(field)
  /\ installer.rw
  /\ slots' = Append(slots, [hook |-> H, handler |-> field])
  /\ entry' = [entry EXCEPT ![H][field] = Slot(Len(slots))]
  /\ table_prot' = "rx"
  /\ installer' = Advanced
  /\ UNCHANGED <<g_near_jump_flag, hook_entries, code, transfer, invoke,
                 origin_call, active, thread>>

\* Mutant: the page is left writable
BindClosure_LeftWritable(field) ==
  /\ InstallerAt(field)
  /\ installer.rw
  /\ slots' = Append(slots, [hook |-> H, handler |-> field])
  /\ entry' = [entry EXCEPT ![H][field] = Slot(Len(slots) + 1)]
  /\ table_prot' = table_prot
  /\ installer' = Advanced
  /\ UNCHANGED <<g_near_jump_flag, hook_entries, code, transfer, invoke,
                 origin_call, active, thread>>

\* The rest of it: the next slot is bound to the entry and the handler
BindClosure(field) ==
  /\ InstallerAt(field)
  /\ installer.rw
  /\ slots' = Append(slots, [hook |-> H, handler |-> field])
  /\ entry' = [entry EXCEPT ![H][field] = Slot(Len(slots) + 1)]
  /\ table_prot' = "rx"
  /\ installer' = Advanced
  /\ UNCHANGED <<g_near_jump_flag, hook_entries, code, transfer, invoke,
                 origin_call, active, thread>>

BuildForEnter == BindClosure("enter")
BuildForLeave == BindClosure("leave")
BuildForDBI == BindClosure("dbi")

\* Where a call of the target has to go
Destination(h) ==
  CASE Type[h] = "REPLACE" -> Code("replace", h)
    [] Type[h] = "DBI" -> entry[h].dbi
    [] OTHER -> entry[h].enter

BuildForEnterTransfer ==
  /\ InstallerAt("transfer")
  /\ transfer' = [transfer EXCEPT ![H] = Destination(H)]
  /\ entry' = [entry EXCEPT ![H].transfer = Code("transfer", H)]
  /\ installer' = Advanced
  /\ UNCHANGED <<g_near_jump_flag, hook_entries, code, slots, table_prot, invoke,
                 origin_call, active, thread>>

Limit(h) == IF entry[h].near THEN 1 ELSE 4

\* relocate_write of word w of f.  imm26 is not sign-extended: only a forward
\* branch keeps its destination.
Relocate(f, w) ==
  CASE w.op = "b" -> Inst("jump", IF w.arg[2] \in CaveAbove THEN w.arg ELSE Stray)
    [] w.op = "ldr_x17" -> Inst("load", f)
    [] OTHER -> w

\* Mutant: the prologue is the one from before any hook
BuildForInvoke_FirstPrologue ==
  /\ InstallerAt("invoke")
  /\ invoke' = [invoke EXCEPT ![H] = [i \in 1..Limit(H) |-> Orig(i)]]
  /\ entry' = [entry EXCEPT ![H].invoke = Code("invoke", H)]
  /\ installer' = Advanced
  /\ UNCHANGED <<g_near_jump_flag, hook_entries, code, slots, table_prot, transfer,
                 origin_call, active, thread>>

BuildForInvoke ==
  /\ InstallerAt("invoke")
  /\ invoke' = [invoke EXCEPT ![H] =
       [i \in 1..Limit(H) |-> Relocate(Target[H], code[Target[H]][i])]]
  /\ entry' = [entry EXCEPT ![H].invoke = Code("invoke", H)]
  /\ installer' = Advanced
  /\ UNCHANGED <<g_near_jump_flag, hook_entries, code, slots, table_prot, transfer,
                 origin_call, active, thread>>

\* Mutant: the long patch, even where room was made for the near jump
Patch_AlwaysLong(h) ==
  LET a == IF Type[h] = "REPLACE" THEN entry[h].transfer ELSE Destination(h)
  IN  <<LdrX17, BrX17, Lo(a), Hi(a)>>

\* The words active() puts over the target
Patch(h) ==
  IF entry[h].near
    THEN <<Inst("b", entry[h].transfer)>>
    ELSE LET a == IF Type[h] = "REPLACE" THEN entry[h].transfer ELSE Destination(h)
         IN  <<LdrX17, BrX17, Lo(a), Hi(a)>>

\* A thread is among the instructions of f that a patch may overwrite
InPrologue(th, f) == th.pc = "word" /\ th.fn = f

\* patch_code begins to copy the patch, which another processor sees word by word
\* and in no particular order; overlapped records who could meet it half-way.
BeginPatch ==
  /\ InstallerAt("active")
  /\ installer.words = {}
  /\ installer' = [installer EXCEPT !.words = DOMAIN Patch(H)]
  /\ thread' = [t \in Threads |->
       [thread[t] EXCEPT !.overlapped =
          @ \/ (InPrologue(thread[t], Target[H]) /\ ~entry[H].near)]]
  /\ UNCHANGED <<g_near_jump_flag, hook_entries, entry, code, slots, table_prot,
                 transfer, invoke, origin_call, active>>

PatchWord ==
  /\ InstallerAt("active")
  /\ \E i \in installer.words :
       LET left == installer.words \ {i}
       IN  /\ code' = [code EXCEPT ![Target[H]][i] = Patch(H)[i]]
           /\ installer' = IF left # {} THEN [installer EXCEPT !.words = left]
                           ELSE IF Len(installer.todo) = 1 THEN Idling
                           ELSE [Advanced EXCEPT !.words = {}]
           /\ active' = IF left = {} THEN active \cup {H} ELSE active
  /\ UNCHANGED <<g_near_jump_flag, hook_entries, entry, slots, table_prot,
                 transfer, invoke, origin_call, thread>>

StoreOriginCall ==
  /\ InstallerAt("origin")
  /\ origin_call' = [origin_call EXCEPT ![H] = entry[H].invoke]
  /\ installer' = Idling
  /\ UNCHANGED <<g_near_jump_flag, hook_entries, entry, code, slots, table_prot,
                 transfer, invoke, active, thread>>

(* ------------------------------------------------------------------------ *)
(* The threads of the program                                                 *)

Goto(th, a) ==
  IF a = NULL THEN [th EXCEPT !.pc = "null"]
  ELSE [th EXCEPT !.pc = a[1], !.at = a[2], !.i = 1]

\* The instruction at word i of f; the rest of the function is its body
AtWord(th, i) ==
  IF i > 4 THEN [th EXCEPT !.pc = "body", !.i = 0] ELSE [th EXCEPT !.pc = "word", !.i = i]

RunOrig(th, w) == [th EXCEPT !.ran = Append(@, w.arg)]

\* The address that ldr x17, #8 at the start of f loads: the two words agree when
\* they belong to one patch.
Literal(f) ==
  IF code[f][3].op = "lo" /\ code[f][4].op = "hi" /\ code[f][3].arg = code[f][4].arg
    THEN code[f][3].arg
    ELSE Stray

\* br x17; to an address that is none, the thread runs wild
JumpX17(th) ==
  IF th.x17 \in {NULL, Stray} THEN [th EXCEPT !.pc = "torn"] ELSE Goto(th, th.x17)

Execute(t, th) == thread' = [thread EXCEPT ![t] = th] /\ UNCHANGED installVars

\* A patch of more than one word is being written over f
HalfPatched(f) ==
  installer.words # {} /\ Target[H] = f /\ Len(Patch(H)) > 1

Call(t, f) ==
  /\ thread[t].pc = "idle"
  /\ Execute(t, [Idle EXCEPT !.pc = "word", !.fn = f, !.i = 1,
                             !.sees = {h \in active : Target[h] = f},
                             !.overlapped = HalfPatched(f)])

\* One of the first four instructions of the function, as it reads now
Fetch(t) ==
  LET th == thread[t]
      w == code[th.fn][th.i]
  IN  /\ th.pc = "word"
      /\ Execute(t, CASE w.op = "orig" -> AtWord(RunOrig(th, w), th.i + 1)
                      [] w.op = "b" -> Goto(th, w.arg)
                      [] w.op = "ldr_x17" ->
                           AtWord([th EXCEPT !.x17 = Literal(th.fn)], th.i + 1)
                      [] w.op = "br_x17" -> JumpX17(th)
                      [] OTHER -> [th EXCEPT !.pc = "torn"])

OnEnterTransfer(t) ==
  /\ thread[t].pc = "transfer"
  /\ Execute(t, Goto([thread[t] EXCEPT !.x17 = transfer[thread[t].at]],
                     transfer[thread[t].at]))

\* A closure trampoline, the bridge and the handler: interceptor_routing_begin or
\* _dynamic_binary_instrumentation go on to on_invoke_trampoline
OnEnterClosure(t) ==
  LET th == thread[t]
      h == slots[th.at].hook
      begun == [th EXCEPT !.through = Append(@, h)]
  IN  /\ th.pc = "slot"
      /\ table_prot = "rx"
      /\ slots[th.at].handler \in {"enter", "dbi"}
      /\ Execute(t, Goto(IF slots[th.at].handler = "enter"
                           THEN [begun EXCEPT !.due = Append(@, entry[h].leave)]
                           ELSE begun,
                         entry[h].invoke))

\* Back to the caller, or to the on_leave_trampoline the link register holds
Leave(th) == IF th.due = << >> THEN Idle ELSE Goto(th, Last(th.due))

\* Mutant: the return address of the hook is not given back
OnLeaveClosure_NoPop(t) ==
  LET th == thread[t]
  IN  /\ th.pc = "slot"
      /\ table_prot = "rx"
      /\ slots[th.at].handler = "leave"
      /\ Execute(t, Leave(th))

OnLeaveClosure(t) ==
  LET th == thread[t]
  IN  /\ th.pc = "slot"
      /\ table_prot = "rx"
      /\ slots[th.at].handler = "leave"
      /\ Execute(t, Leave([th EXCEPT !.due = Front(@)]))

\* The page is not executable while a slot is being bound
ClosureFault(t) ==
  /\ thread[t].pc = "slot"
  /\ table_prot = "rw"
  /\ Execute(t, [thread[t] EXCEPT !.pc = "fault"])

\* Mutant: one instruction too far
JumpBack_TooFar(th) == AtWord([th EXCEPT !.x17 = Stray], th.i + 1)

\* The jump back, behind the patch
JumpBack(th) == AtWord([th EXCEPT !.x17 = Stray], th.i)

\* A relocated instruction, and after the last one the jump back, through x17
OnInvoke(t) ==
  LET th == thread[t]
      ws == invoke[th.at]
  IN  /\ th.pc = "invoke"
      /\ Execute(t,
           IF th.i > Len(ws) THEN JumpBack(th)
           ELSE LET w == ws[th.i]
                    next == [th EXCEPT !.i = @ + 1]
                IN  CASE w.op = "orig" -> RunOrig(next, w)
                      [] w.op = "jump" -> Goto([th EXCEPT !.x17 = w.arg], w.arg)
                      [] w.op = "load" -> [next EXCEPT !.x17 = Literal(w.arg)]
                      [] w.op = "br_x17" -> JumpX17(th)
                      [] OTHER -> [th EXCEPT !.pc = "torn"])

\* The replace_call returns without the original, or calls it
ReplaceReturns(t) ==
  /\ thread[t].pc = "replace"
  /\ Execute(t, Leave(thread[t]))

ReplaceCallsOrigin(t) ==
  LET th == thread[t]
  IN  /\ th.pc = "replace"
      /\ Execute(t, IF origin_call[th.at] = NULL THEN [th EXCEPT !.pc = "no_origin"]
                    ELSE Goto([th EXCEPT !.through = Append(@, th.at)],
                              origin_call[th.at]))

BodyReturns(t) ==
  /\ thread[t].pc = "body"
  /\ Execute(t, Leave(thread[t]))

(* ------------------------------------------------------------------------ *)
Init ==
  /\ g_near_jump_flag = FALSE
  /\ installer = Idling
  /\ hook_entries = << >>
  /\ entry = [h \in Hooks |-> NoEntry]
  /\ code = [f \in Targets |-> [i \in 1..4 |-> Orig(i)]]
  /\ slots = << >>
  /\ table_prot = "rx"
  /\ transfer = [h \in Hooks |-> NULL]
  /\ invoke = [h \in Hooks |-> << >>]
  /\ origin_call = [h \in Hooks |-> NULL]
  /\ active = {}
  /\ thread = [t \in Threads |-> Idle]

Build ==
  \/ UnprotectTable
  \/ BuildForEnter
  \/ BuildForLeave
  \/ BuildForDBI
  \/ BuildForEnterTransfer
  \/ BuildForInvoke
  \/ BeginPatch
  \/ PatchWord
  \/ StoreOriginCall

Run(t) ==
  \/ Fetch(t)
  \/ OnEnterTransfer(t)
  \/ OnEnterClosure(t)
  \/ OnLeaveClosure(t)
  \/ ClosureFault(t)
  \/ OnInvoke(t)
  \/ ReplaceReturns(t)
  \/ ReplaceCallsOrigin(t)
  \/ BodyReturns(t)

Next ==
  \/ zz_enable_near_jump
  \/ zz_disable_near_jump
  \/ \E h \in Hooks : BeginHook(h)
  \/ Build
  \/ \E t \in Threads : Run(t) \/ \E f \in Targets : Call(t, f)

Spec == Init /\ [][Next]_vars

\* The processor runs the threads and the installing thread.  Nothing makes the
\* program call the API or a target.
FairSpec == Spec /\ WF_vars(Build) /\ \A t \in Threads : WF_vars(Run(t))

(* ------------------------------------------------------------------------ *)
(* Properties                                                                 *)

Thread ==
  [pc : {"idle", "word", "body", "transfer", "slot", "invoke", "replace"} \cup Lost,
   at : Hooks \cup 1..2 * Cardinality(Hooks) \cup {NULL},
   fn : Targets \cup {NULL}, i : 0..5, x17 : Addr \cup {NULL, Stray},
   due : Seq(AddrOrNull), sees : SUBSET Hooks, through : Seq(Hooks),
   ran : Seq(1..4), overlapped : BOOLEAN]

TypeOK ==
  /\ g_near_jump_flag \in BOOLEAN
  /\ installer.hook \in Hooks \cup {NULL}
  /\ installer.words \subseteq 1..4
  /\ hook_entries \in Seq(Hooks)
  /\ entry \in [Hooks -> hook_entry_t]
  /\ \A f \in Targets : Len(code[f]) = 4
  /\ slots \in Seq([hook : Hooks, handler : {"enter", "leave", "dbi"}])
  /\ table_prot \in {"rx", "rw"}
  /\ transfer \in [Hooks -> AddrOrNull]
  /\ origin_call \in [Hooks -> AddrOrNull]
  /\ active \subseteq Hooks
  /\ thread \in [Threads -> Thread]

\* h was hooked before g
Earlier(h, g) ==
  \E i, j \in 1..Len(hook_entries) : i < j /\ hook_entries[i] = h /\ hook_entries[j] = g

(***************************************************************************)
(* A call goes through hooks of the function it called, the newest first   *)
(* and none twice, and it reaches the function's own code only after every *)
(* hook that was in place when the call began.  About the order of         *)
(* build_all and active, and the prologue that build_for_invoke reads.     *)
(***************************************************************************)
HooksInOrder ==
  \A t \in Threads :
    LET th == thread[t]
    IN  /\ \A i \in 1..Len(th.through) : Target[th.through[i]] = th.fn
        /\ \A i, j \in 1..Len(th.through) :
             i < j => Earlier(th.through[j], th.through[i])
        /\ th.pc = "body" => th.sees \subseteq ToSet(th.through)

(***************************************************************************)
(* A call that reaches the function's own code has run the instructions    *)
(* before it once each and in order, wherever they are now.  About the     *)
(* prologue moved to on_invoke_trampoline and the jump behind the patch.   *)
(***************************************************************************)
OriginalRunsOnce ==
  \A t \in Threads :
    thread[t].pc = "body" /\ ~thread[t].overlapped => thread[t].ran = <<1, 2, 3, 4>>

(***************************************************************************)
(* No thread branches to a trampoline that has no address yet: whatever    *)
(* the patched target leads to, up to the way back from                    *)
(* on_leave_trampoline, was built before active() made it reachable.       *)
(***************************************************************************)
TrampolinesBuilt == \A t \in Threads : thread[t].pc # "null"

(***************************************************************************)
(* Only a call caught among the four instructions of a target while        *)
(* active() writes the long patch runs a mixture of old and new words.     *)
(* With near jump, and before and after active(), every call runs whole    *)
(* instructions.                                                           *)
(***************************************************************************)
TornOnlyWhenOverlapped ==
  \A t \in Threads : thread[t].pc \in {"torn", "stray"} => thread[t].overlapped

(***************************************************************************)
(* Every call comes back to its caller (or the thread is lost): no chain   *)
(* of trampolines runs in a circle.  About on_invoke_trampoline going back *)
(* to the code behind the patch.                                           *)
(***************************************************************************)
CallsFinish ==
  \A t \in Threads : thread[t].pc # "idle" ~> thread[t].pc \in {"idle"} \cup Lost

(***************************************************************************)
(* A hook that was begun is installed at some point: its target patched,   *)
(* the API call back, and the page of the closures executable again.       *)
(***************************************************************************)
HooksInstalled ==
  \A h \in Hooks :
    h \in ToSet(hook_entries) ~>
      h \in active /\ installer = Idling /\ table_prot = "rx"

(***************************************************************************)
(* A replace_call can call the original: src/README.md:102 has it          *)
(* "return origin_fread(ptr, size, nitems, stream)", with no test of the   *)
(* pointer.  About ZzReplace storing *origin_call after active().          *)
(***************************************************************************)
OriginCallable == \A t \in Threads : thread[t].pc # "no_origin"
====

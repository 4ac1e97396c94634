---- MODULE ClosureBridge ----
(***************************************************************************)
(* closure_bridge.c and its arm64 part: tables of small trampolines, one   *)
(* slot of which is bound to a handler and its data for every closure, and *)
(* closure_bridge_template, which saves the registers, calls the handler   *)
(* and restores them.  One API call binds closures while threads of the    *)
(* program run through those that are bound.                               *)
(*                                                                         *)
(* Stack offsets count words of 8 bytes.  A value of a register names the  *)
(* place it is from.                                                       *)
(***************************************************************************)
EXTENDS Integers, SequencesExt, FiniteSetsExt

CONSTANTS
  Threads,
  Closures,        \* how many closures are asked for
  SlotsPerTable,   \* page_size / closure_bridge_trampoline_template_length
  NULL

ASSUME ClosureAssumption ==
  /\ Closures \in Nat /\ SlotsPerTable \in Nat \ {0}
  /\ NULL # "bridge" /\ NULL \notin [info : Nat, table : Nat, slot : Nat]

X(i) == <<"x", i>>
Q(i) == <<"q", i>>
Flags == <<"nzcv", 0>>
LR == X(30)
Register == {X(i) : i \in 0..30} \cup {Q(i) : i \in 0..31} \cup {Flags}

\* A value: what the program had in a register, or an address or other data
Val(from, i) == <<from, i>>
Program(r) == Val("program", r)
Junk == Val("junk", 0)
BridgeReturn == Val("bridge_return", 0)

VARIABLES
  trampoline_tables,  \* sequence of [slots, used_count, free_count, prot]
  bridge_infos,       \* sequence of [table, slot]; info i is the closure i
  binding,            \* [info, table, slot] of the closure being bound, or NULL
  step,               \* what is next of InitializeClosureBridgeInfo
  pc,                 \* of each thread
  closure,            \* the closure it entered
  regs,               \* its registers
  stack,              \* the RegState of the bridge, by offset
  return_slot,        \* where the handler's frame keeps its return address
  none_symbol,        \* the handler's copy of what was there
  got,                \* auxiliary: the info its handler was given
  wrote               \* auxiliary: what its callback left in RegState

tableVars == <<trampoline_tables, bridge_infos, binding, step>>
threadVars == <<pc, closure, regs, stack, return_slot, none_symbol, got, wrote>>
vars == <<tableVars, threadVars>>

(* ------------------------------------------------------------------------ *)
(* Tables and slots                                                            *)

ClosureBridgeInfo == [table : 1..Closures, slot : 0..SlotsPerTable - 1]

Unbound == [data |-> NULL, code |-> NULL]

\* InitializeTablePage
NewTable ==
  [slots |-> [s \in 0..SlotsPerTable - 1 |-> Unbound],
   used_count |-> 0, free_count |-> SlotsPerTable, prot |-> "rx"]

ClosureBridgeTrampolineTable ==
  [slots : [0..SlotsPerTable - 1 -> [data : 1..Closures \cup {NULL}, code : {"bridge", NULL}]],
   used_count : 0..SlotsPerTable, free_count : 0..SlotsPerTable, prot : {"rx", "rw"}]

\* The loop does not stop at the first table: the last one with a free slot is taken
TableFor(tables) ==
  LET free == {i \in DOMAIN tables : tables[i].free_count > 0}
  IN  IF free = {} THEN 0 ELSE Max(free)

\* Mutant: a full table's count says it is free
TakeSlot_FreeKept(table) == [table EXCEPT !.used_count = @ + 1]

TakeSlot(table) == [table EXCEPT !.used_count = @ + 1, !.free_count = @ - 1]

\* Mutant: the slot after it was counted
SlotOf_Counted(table) == table.used_count + 1

\* Mutant: the slot that was handed out last
SlotOf_Last(table) == IF table.used_count = 0 THEN 0 ELSE table.used_count - 1

SlotOf(table) == table.used_count

AllocateClosureBridge ==
  /\ binding = NULL
  /\ Len(bridge_infos) < Closures
  /\ LET tables == IF TableFor(trampoline_tables) = 0
                   THEN Append(trampoline_tables, NewTable) ELSE trampoline_tables
         t == TableFor(tables)
     IN  /\ binding' = [info |-> Len(bridge_infos) + 1, table |-> t, slot |-> SlotOf(tables[t])]
         /\ trampoline_tables' = [tables EXCEPT ![t] = TakeSlot(tables[t])]
  /\ step' = "unprotect"
  /\ UNCHANGED <<bridge_infos, threadVars>>

Binding(s) == binding # NULL /\ step = s

UnprotectTable ==
  /\ Binding("unprotect")
  /\ trampoline_tables' = [trampoline_tables EXCEPT ![binding.table].prot = "rw"]
  /\ step' = "data"
  /\ UNCHANGED <<bridge_infos, binding, threadVars>>

\* memcpy(&cb_info), then memcpy(&closure_bridge_template)
BindData ==
  /\ Binding("data")
  /\ trampoline_tables' =
       [trampoline_tables EXCEPT ![binding.table].slots[binding.slot].data = binding.info]
  /\ step' = "code"
  /\ UNCHANGED <<bridge_infos, binding, threadVars>>

BindCode ==
  /\ Binding("code")
  /\ trampoline_tables' =
       [trampoline_tables EXCEPT ![binding.table].slots[binding.slot].code = "bridge"]
  /\ step' = "protect"
  /\ UNCHANGED <<bridge_infos, binding, threadVars>>

\* Mutant: returned before the page is executable again
ProtectTable_Not ==
  /\ Binding("protect")
  /\ bridge_infos' = Append(bridge_infos, [table |-> binding.table, slot |-> binding.slot])
  /\ binding' = NULL /\ step' = "done"
  /\ UNCHANGED <<trampoline_tables, threadVars>>

ProtectTable ==
  /\ Binding("protect")
  /\ trampoline_tables' = [trampoline_tables EXCEPT ![binding.table].prot = "rx"]
  /\ bridge_infos' = Append(bridge_infos, [table |-> binding.table, slot |-> binding.slot])
  /\ binding' = NULL /\ step' = "done"
  /\ UNCHANGED threadVars

(* ------------------------------------------------------------------------ *)
(* A thread in a closure                                                       *)

At(t, p) == pc[t] = p
Goto(t, p) == pc' = [pc EXCEPT ![t] = p]

\* The program branches to a closure, from a patch that loads x17
EnterClosure(t, c) ==
  /\ At(t, "program")
  /\ c \in DOMAIN bridge_infos
  /\ closure' = [closure EXCEPT ![t] = c]
  /\ regs' = [regs EXCEPT ![t] = [[r \in Register |-> Program(r)]
                                     EXCEPT ![X(17)] = Val("closure", c)]]
  /\ Goto(t, "closure")
  /\ UNCHANGED <<tableVars, stack, return_slot, none_symbol, got, wrote>>

\* closure_bridge_trampoline_template: ldr x14, ldr x15, br x15
RunClosure(t) ==
  /\ At(t, "closure")
  /\ LET info == bridge_infos[closure[t]]
         table == trampoline_tables[info.table]
         slot == table.slots[info.slot]
     IN  IF table.prot # "rx" \/ slot.code = NULL
         THEN Goto(t, "fault") /\ UNCHANGED regs
         ELSE /\ regs' = [regs EXCEPT ![t][X(14)] = Val("info", slot.data),
                                      ![t][X(15)] = Val(slot.code, 0)]
              /\ Goto(t, "save")
  /\ UNCHANGED <<tableVars, closure, stack, return_slot, none_symbol, got, wrote>>

\* Where closure_bridge_template puts a register, below the sp it was entered with
\* (stp q_i, stp x_i and str x0 to fixed places in blocks of 8 * 2, 30 and 2 words)
SaveOffset(r) ==
  CASE r = X(0) -> 1
    [] r[1] = "x" /\ r[2] > 0 -> 2 + (r[2] - 1)
    [] r[1] = "q" -> 2 + 30 + 2 * r[2]

Saved == {X(i) : i \in 0..30} \cup {Q(i) : i \in 0..7}

\* The fields of RegState: dmmpy_0, x[29], fp, lr, q[8]
FieldOffset(r) ==
  CASE r[1] = "x" -> 1 + r[2]
    [] r[1] = "q" -> 1 + 29 + 2 + 2 * r[2]

SaveRegisters(t) ==
  /\ At(t, "save")
  /\ stack' = [stack EXCEPT ![t] =
       [o \in {SaveOffset(r) : r \in Saved} |->
          regs[t][CHOOSE r \in Saved : SaveOffset(r) = o]]]
  /\ regs' = [regs EXCEPT ![t][X(1)] = regs[t][X(14)], ![t][LR] = BridgeReturn]
  /\ Goto(t, "handler")
  /\ UNCHANGED <<tableVars, closure, return_slot, none_symbol, got, wrote>>

\* interceptor_routing_common_bridge_handler: the caller's lr is put where the frame
\* has its return address, so that the stack shows the caller and not the bridge
HandlerBegin(t) ==
  /\ At(t, "handler")
  /\ got' = [got EXCEPT ![t] = regs[t][X(1)]]
  /\ none_symbol' = [none_symbol EXCEPT ![t] = regs[t][LR]]
  /\ return_slot' = [return_slot EXCEPT ![t] = stack[t][FieldOffset(LR)]]
  /\ Goto(t, "user_code")
  /\ UNCHANGED <<tableVars, closure, regs, stack, wrote>>

\* What a C function leaves of the registers
Clobbered ==
  {X(i) : i \in 0..18} \cup {LR, Flags} \cup {Q(i) : i \in 0..7 \cup 16..31}

\* The routing function behind user_code: its callback may change a field of RegState,
\* then the next hop is stored, by begin also the trampoline that the call returns to.
UserCode(t) ==
  /\ At(t, "user_code")
  /\ \E left \in {stack[t]} \cup {[stack[t] EXCEPT ![FieldOffset(r)] = Val("callback", 0)] : r \in Saved},
        begin \in BOOLEAN :
       LET hop == [left EXCEPT ![FieldOffset(X(15))] = Val("next_hop", closure[t])]
       IN  /\ wrote' = [wrote EXCEPT ![t] = left]
           /\ stack' = [stack EXCEPT ![t] =
                IF begin THEN [hop EXCEPT ![FieldOffset(LR)] = Val("on_leave", closure[t])]
                ELSE hop]
  /\ regs' = [regs EXCEPT ![t] = [r \in Register |-> IF r \in Clobbered THEN Junk ELSE @[r]]]
  /\ Goto(t, "handler_end")
  /\ UNCHANGED <<tableVars, closure, return_slot, none_symbol, got>>

\* Mutant: the return address is not put back
HandlerEnd_NotRestored(t) ==
  /\ At(t, "handler_end")
  /\ Goto(t, IF return_slot[t] = BridgeReturn THEN "restore" ELSE "lost")
  /\ UNCHANGED <<tableVars, closure, regs, stack, return_slot, none_symbol, got, wrote>>

HandlerEnd(t) ==
  /\ At(t, "handler_end")
  /\ return_slot' = [return_slot EXCEPT ![t] = none_symbol[t]]
  /\ Goto(t, IF return_slot'[t] = BridgeReturn THEN "restore" ELSE "lost")
  /\ UNCHANGED <<tableVars, closure, regs, stack, none_symbol, got, wrote>>

\* The words that are behind sp before the i-th ldp of two x registers, and of two q
XPop(i) == 2 + 2 * i
QPop(i) == XPop(15) + 4 * i

\* Mutant: each ldp names its two registers the wrong way round
RestoreOffset_Swapped(r) ==
  CASE r = X(0) -> 1
    [] r[1] = "x" /\ r[2] > 0 -> XPop((r[2] - 1) \div 2) + (r[2] % 2)
    [] r[1] = "q" -> QPop(r[2] \div 2) + 2 * (1 - (r[2] % 2))

\* Where a register is restored from: ldr x0 and sp two words on, then 15 times
\* ldp x_i, x_i+1 and 4 times ldp q_i, q_i+1, each of which leaves sp behind its pair
RestoreOffset(r) ==
  CASE r = X(0) -> 1
    [] r[1] = "x" /\ r[2] > 0 -> XPop((r[2] - 1) \div 2) + ((r[2] - 1) % 2)
    [] r[1] = "q" -> QPop(r[2] \div 2) + 2 * (r[2] % 2)

\* Behind it, br x15
RestoreRegisters(t) ==
  /\ At(t, "restore")
  /\ regs' = [regs EXCEPT ![t] =
       [r \in Register |-> IF r \in Saved THEN stack[t][RestoreOffset(r)] ELSE @[r]]]
  /\ Goto(t, "hop")
  /\ UNCHANGED <<tableVars, closure, stack, return_slot, none_symbol, got, wrote>>

\* The next hop is not of interest here, nor what the program did before it
LeaveClosure(t) ==
  /\ At(t, "hop")
  /\ Goto(t, "program")
  /\ closure' = [closure EXCEPT ![t] = 0]
  /\ regs' = [regs EXCEPT ![t] = [r \in Register |-> Program(r)]]
  /\ stack' = [stack EXCEPT ![t] = << >>]
  /\ return_slot' = [return_slot EXCEPT ![t] = NULL]
  /\ none_symbol' = [none_symbol EXCEPT ![t] = NULL]
  /\ got' = [got EXCEPT ![t] = NULL]
  /\ wrote' = [wrote EXCEPT ![t] = << >>]
  /\ UNCHANGED tableVars

(* ------------------------------------------------------------------------ *)
Init ==
  /\ trampoline_tables = << >> /\ bridge_infos = << >>
  /\ binding = NULL /\ step = "done"
  /\ pc = [t \in Threads |-> "program"]
  /\ closure = [t \in Threads |-> 0]
  /\ regs = [t \in Threads |-> [r \in Register |-> Program(r)]]
  /\ stack = [t \in Threads |-> << >>]
  /\ return_slot = [t \in Threads |-> NULL]
  /\ none_symbol = [t \in Threads |-> NULL]
  /\ got = [t \in Threads |-> NULL]
  /\ wrote = [t \in Threads |-> << >>]

Next ==
  \/ AllocateClosureBridge
  \/ UnprotectTable \/ BindData \/ BindCode \/ ProtectTable
  \/ \E t \in Threads :
       \/ \E c \in 1..Closures : EnterClosure(t, c)
       \/ RunClosure(t)
       \/ SaveRegisters(t)
       \/ HandlerBegin(t) \/ UserCode(t) \/ HandlerEnd(t)
       \/ RestoreRegisters(t)
       \/ LeaveClosure(t)

Spec == Init /\ [][Next]_vars

(* ------------------------------------------------------------------------ *)
(* Properties                                                                  *)

TypeOK ==
  /\ trampoline_tables \in Seq(ClosureBridgeTrampolineTable)
  /\ bridge_infos \in Seq(ClosureBridgeInfo) /\ Len(bridge_infos) <= Closures
  /\ binding # NULL => /\ binding.table \in DOMAIN trampoline_tables
                       /\ binding.slot \in 0..SlotsPerTable - 1
  /\ step \in {"unprotect", "data", "code", "protect", "done"}
  /\ pc \in [Threads -> {"program", "closure", "save", "handler", "user_code", "handler_end",
                          "restore", "hop", "lost", "fault"}]
  /\ closure \in [Threads -> 0..Closures]

Bound == {bridge_infos[i] : i \in DOMAIN bridge_infos}
           \cup IF binding = NULL THEN {} ELSE {[table |-> binding.table, slot |-> binding.slot]}

(***************************************************************************)
(* A closure's handler is given the closure's own data, whatever has been  *)
(* bound since it was handed out: slots are never shared or bound again.   *)
(* About the counts of AllocateClosureBridge and                           *)
(* InitializeClosureBridgeInfo, and the words of the trampoline.           *)
(***************************************************************************)
DispatchesOwnData ==
  \A t \in Threads : got[t] # NULL => got[t] = Val("info", closure[t])

(***************************************************************************)
(* Tables fill up one after the other: a slot that was not handed out is   *)
(* in the last table, and the counts say how many there are.  About        *)
(* used_count and free_count at the end of a table.                        *)
(***************************************************************************)
TablesFillUp ==
  \A i \in DOMAIN trampoline_tables :
    LET table == trampoline_tables[i]
    IN  /\ table.used_count + table.free_count = SlotsPerTable
        /\ table.used_count = Cardinality({b \in Bound : b.table = i})
        /\ i < Len(trampoline_tables) => table.free_count = 0

(***************************************************************************)
(* A closure that has been handed out can be executed, but for the time    *)
(* in which another one is bound in the same table.  About the calls of    *)
(* set_page_permission in InitializeClosureBridgeInfo.                     *)
(***************************************************************************)
FaultsOnlyWhileBinding ==
  [][\A t \in Threads :
       pc[t] # "fault" /\ pc'[t] = "fault" =>
         binding # NULL /\ binding.table = bridge_infos[closure[t]].table]_vars

\* Loaded by the closure before they are saved, or by the patch
Scratch == {X(14), X(15), X(17)}

(***************************************************************************)
(* RegState shows a callback the program's registers at its fields, and    *)
(* what the callback leaves there is in the registers at the next hop: but *)
(* for x14, x15 and x17, and lr where routing_begin diverts it.  v8-v15    *)
(* come through the handler, the flags and v16-v31 do not.  About the      *)
(* offsets of closure_bridge_template and of struct _RegState, and the     *)
(* handler's return through the frame it rewrites.                         *)
(***************************************************************************)
RegistersKept ==
  \A t \in Threads :
    /\ pc[t] # "lost"
    /\ pc[t] = "user_code" =>
         \A r \in Saved \ Scratch : stack[t][FieldOffset(r)] = Program(r)
    /\ pc[t] = "hop" =>
         /\ \A r \in Saved \ {X(15), LR} : regs[t][r] = wrote[t][FieldOffset(r)]
         /\ regs[t][X(15)] = Val("next_hop", closure[t])
         /\ regs[t][LR] \in {wrote[t][FieldOffset(LR)], Val("on_leave", closure[t])}
         /\ \A i \in 8..15 : regs[t][Q(i)] = Program(Q(i))
====

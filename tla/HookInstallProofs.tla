---- MODULE HookInstallProofs ----
(***************************************************************************)
(* Theorems of HookInstall, for every set of targets, hooks and threads:   *)
(* no thread is led to a trampoline that is not there; which way a call    *)
(* takes through the hooks of its function and through the instructions    *)
(* that they replaced; and, which needs that, the types.                   *)
(***************************************************************************)
EXTENDS HookInstall, SequenceTheorems, FiniteSetTheorems, TLAPS

\* What a thread that has met hook h goes through after the first closure is there
Built(h) ==
  /\ entry[h].invoke # NULL
  /\ Type[h] = "PRE_POST" => entry[h].leave # NULL

\* The addresses that a thread may be sent to
Reach(a) ==
  \/ \E n \in 1..Len(slots) : a = Slot(n) /\ Built(slots[n].hook)
  \/ \E h \in Hooks : a = Code("transfer", h) /\ transfer[h] # NULL /\ Built(h)
  \/ \E h \in Hooks : a = Code("invoke", h) \/ a = Code("replace", h)

\* A closure trampoline that was made for hook h
SlotFor(h, a) == \E n \in 1..Len(slots) : a = Slot(n) /\ slots[n].hook = h

\* The addresses that are stored in hook h's entry and trampolines
EntryOK(h) ==
  /\ DOMAIN entry[h] = DOMAIN NoEntry
  /\ entry[h].near \in BOOLEAN
  /\ entry[h].enter = NULL \/ SlotFor(h, entry[h].enter)
  /\ entry[h].leave = NULL \/ SlotFor(h, entry[h].leave)
  /\ entry[h].dbi = NULL \/ SlotFor(h, entry[h].dbi)
  /\ entry[h].invoke \in {NULL, Code("invoke", h)}
  /\ entry[h].transfer \in {NULL, Code("transfer", h)}
  /\ entry[h].transfer # NULL => transfer[h] # NULL
  /\ transfer[h] \in {NULL, Code("replace", h)} \/ SlotFor(h, transfer[h])
  /\ origin_call[h] \in {NULL, Code("invoke", h)}

EntriesOK ==
  /\ g_near_jump_flag \in BOOLEAN
  /\ DOMAIN entry = Hooks /\ DOMAIN transfer = Hooks /\ DOMAIN origin_call = Hooks
  /\ \A h \in Hooks : EntryOK(h)

SlotsOK ==
  /\ slots \in Seq([hook : Hooks, handler : {"enter", "leave", "dbi"}])
  /\ \A n \in 1..Len(slots) : slots[n].handler = "enter" => Type[slots[n].hook] = "PRE_POST"

\* What has been written over a target, or relocated from it, leads somewhere
WordOK(w) ==
  /\ w.op \notin {"jump", "load"}
  /\ w.op \in {"b", "lo", "hi"} => Reach(w.arg)
RelocatedOK(w) ==
  /\ w.op = "jump" => w.arg = Stray \/ Reach(w.arg)
  /\ w.op = "load" => w.arg \in Targets

CodeOK ==
  /\ DOMAIN code = Targets
  /\ \A f \in Targets : DOMAIN code[f] = 1..4 /\ \A i \in 1..4 : WordOK(code[f][i])
  /\ DOMAIN invoke = Hooks
  /\ \A h \in Hooks : /\ Len(invoke[h]) \in Nat
                      /\ \A i \in 1..Len(invoke[h]) : RelocatedOK(invoke[h][i])

\* What a step of the installer leaves behind
Done(h, step) ==
  /\ step = "enter" => entry[h].enter # NULL
  /\ step = "leave" => entry[h].leave # NULL
  /\ step = "dbi" => entry[h].dbi # NULL
  /\ step = "transfer" => entry[h].transfer # NULL
  /\ step = "invoke" => entry[h].invoke # NULL

Steps(h) == BuildSteps(h, entry[h].near)

\* The steps that are not left are done; words are left to write only in active()
InstallerOK ==
  /\ DOMAIN installer = DOMAIN Idling
  /\ installer.todo # << >> =>
       /\ H \in Hooks
       /\ \E k \in 1..Len(Steps(H)) :
            /\ installer.todo = SubSeq(Steps(H), k, Len(Steps(H)))
            /\ \A j \in 1..k - 1 : Done(H, Steps(H)[j])
  /\ installer.words # {} => InstallerAt("active") /\ installer.words \subseteq DOMAIN Patch(H)

\* What a thread has with it wherever it goes
Carries(th) ==
  /\ DOMAIN th = DOMAIN Idle
  /\ th.x17 \in {NULL, Stray} \/ Reach(th.x17)
  /\ Len(th.due) \in Nat /\ th.due = [i \in 1..Len(th.due) |-> th.due[i]]
  /\ \A i \in 1..Len(th.due) : Reach(th.due[i])

\* Where a thread is
At(th) ==
  /\ th.pc # "null"
  /\ th.pc # "idle" => th.fn \in Targets
  /\ th.pc = "word" => th.i \in 1..4
  /\ th.pc = "slot" => th.at \in 1..Len(slots) /\ Built(slots[th.at].hook)
  /\ th.pc = "transfer" => th.at \in Hooks /\ transfer[th.at] # NULL /\ Built(th.at)
  /\ th.pc \in {"invoke", "replace"} => th.at \in Hooks
  /\ th.pc = "invoke" => th.i \in Nat \ {0}

ThreadOK(th) == Carries(th) /\ At(th)

ThreadsOK == DOMAIN thread = Threads /\ \A t \in Threads : ThreadOK(thread[t])

InstallInv == EntriesOK /\ SlotsOK /\ CodeOK /\ InstallerOK /\ ThreadsOK

(* ------------------------------------------------------------------------ *)
(* Addresses                                                                       *)

LEMMA SlotsTyped ==
  ASSUME SlotsOK
  PROVE  /\ Len(slots) \in Nat
         /\ \A n \in 1..Len(slots) : slots[n].hook \in Hooks
<1> DEFINE S == [hook : Hooks, handler : {"enter", "leave", "dbi"}]
<1>1. slots \in Seq(S)
  BY DEF SlotsOK
<1>2. \A x \in S : x.hook \in Hooks
  OBVIOUS
<1> HIDE DEF S
<1>3. Len(slots) \in Nat /\ \A n \in 1..Len(slots) : slots[n] \in S
  BY <1>1
<1>4. QED
  BY <1>2, <1>3

LEMMA NullIsNoAddress ==
  /\ \A n \in Nat : Slot(n) # NULL
  /\ \A kind \in {"transfer", "invoke", "replace"}, h \in Hooks : Code(kind, h) # NULL
  /\ Stray # NULL
<1> DEFINE S == Nat \cup Hooks \cup {NULL}
<1>1. \A kind \in Kind, x \in S : <<kind, x>> # NULL
  <2>1. NULL \notin Kind \X S
    BY NullAssumption
  <2> HIDE DEF S
  <2>2. QED
    BY <2>1
<1>2. \A n \in Nat : n \in S
  OBVIOUS
<1>3. \A h \in Hooks : h \in S
  OBVIOUS
<1>4. NULL \in S
  OBVIOUS
<1> HIDE DEF S
<1>5. {"slot", "transfer", "invoke", "replace", "stray"} \subseteq Kind
  BY DEF Kind
<1>6. QED
  BY <1>1, <1>2, <1>3, <1>4, <1>5 DEF Slot, Code, Stray

LEMMA NoNull ==
  ASSUME SlotsOK, NEW a, Reach(a)
  PROVE  a # NULL
<1>1. \A n \in 1..Len(slots) : Slot(n) # NULL
  BY SlotsTyped, NullIsNoAddress
<1>2. \A h \in Hooks :
        Code("transfer", h) # NULL /\ Code("invoke", h) # NULL /\ Code("replace", h) # NULL
  BY NullIsNoAddress
<1>3. QED
  BY <1>1, <1>2 DEF Reach

LEMMA SlotReach ==
  ASSUME NEW h, NEW a, SlotFor(h, a), Built(h)
  PROVE  Reach(a)
  BY DEF SlotFor, Reach

LEMMA CodeReach ==
  ASSUME NEW h \in Hooks
  PROVE  /\ Reach(Code("invoke", h)) /\ Reach(Code("replace", h))
         /\ transfer[h] # NULL /\ Built(h) => Reach(Code("transfer", h))
  BY DEF Reach

(* ------------------------------------------------------------------------ *)
(* Where a thread goes                                                             *)

LEMMA GotoOK ==
  ASSUME SlotsOK, NEW th, Carries(th), th.fn \in Targets, NEW a, a = Stray \/ Reach(a)
  PROVE  ThreadOK(Goto(th, a))
<1> DEFINE to == [th EXCEPT !.pc = a[1], !.at = a[2], !.i = 1]
<1>1. a # NULL
  BY NoNull, NullIsNoAddress
<1>2. Goto(th, a) = to
  BY <1>1 DEF Goto
<1>3. /\ DOMAIN to = DOMAIN Idle /\ to.pc = a[1] /\ to.at = a[2] /\ to.i = 1
      /\ to.x17 = th.x17 /\ to.due = th.due /\ to.fn = th.fn
  BY DEF Carries, Idle
<1> HIDE DEF to
<1>4. Carries(to)
  BY <1>3 DEF Carries
<1>5. At(to)
  <2>1. CASE a = Stray
    BY <1>3, <2>1 DEF At, Stray
  <2>2. CASE Reach(a)
    BY <1>3, <2>2, SlotsTyped DEF At, Reach, Slot, Code
  <2>3. QED
    BY <2>1, <2>2
<1>6. QED
  BY <1>2, <1>4, <1>5 DEF ThreadOK

LEMMA AtWordOK ==
  ASSUME NEW th, Carries(th), th.fn \in Targets, NEW i \in Nat \ {0}
  PROVE  ThreadOK(AtWord(th, i))
<1> DEFINE to == AtWord(th, i)
<1>1. /\ DOMAIN to = DOMAIN Idle /\ to.fn = th.fn /\ to.x17 = th.x17 /\ to.due = th.due
      /\ to.pc = "body" \/ (to.pc = "word" /\ to.i = i /\ i \in 1..4)
  <2>1. CASE i > 4
    <3>1. to = [th EXCEPT !.pc = "body", !.i = 0]
      BY <2>1 DEF AtWord
    <3> HIDE DEF to
    <3>2. DOMAIN to = DOMAIN Idle
      BY <3>1 DEF Carries
    <3>3. QED
      BY <3>1, <3>2 DEF Carries, Idle
  <2>2. CASE ~(i > 4)
    BY <2>2 DEF AtWord, Carries, Idle
  <2>3. QED
    BY <2>1, <2>2
<1> HIDE DEF to
<1>2. Carries(to) /\ At(to)
  BY <1>1 DEF Carries, At
<1>3. QED
  BY <1>2 DEF ThreadOK, to

LEMMA IdleOK == ThreadOK(Idle)
<1>1. Len(Idle.due) = 0 /\ Idle.due = [i \in 1..Len(Idle.due) |-> Idle.due[i]]
  BY DEF Idle
<1>2. QED
  BY <1>1 DEF ThreadOK, Carries, At, Idle

LEMMA LeaveOK ==
  ASSUME SlotsOK, NEW th, Carries(th), th.fn \in Targets
  PROVE  ThreadOK(Leave(th))
<1>1. CASE th.due = << >>
  BY <1>1, IdleOK DEF Leave
<1>2. CASE th.due # << >>
  <2>1. Reach(th.due[Len(th.due)])
    BY <1>2 DEF Carries
  <2>2. QED
    BY <1>2, <2>1, GotoOK DEF Leave, Last
<1>3. QED
  BY <1>1, <1>2

\* A thread that stops, at whatever it met
LEMMA LostOK ==
  ASSUME NEW th, Carries(th), th.fn \in Targets, NEW pc \in {"torn", "fault", "no_origin"}
  PROVE  ThreadOK([th EXCEPT !.pc = pc])
<1> DEFINE to == [th EXCEPT !.pc = pc]
<1>1. /\ DOMAIN to = DOMAIN Idle /\ to.pc = pc /\ to.fn = th.fn
      /\ to.x17 = th.x17 /\ to.due = th.due
  BY DEF Carries, Idle
<1> HIDE DEF to
<1>2. Carries(to) /\ At(to)
  BY <1>1 DEF Carries, At
<1>3. QED
  BY <1>2 DEF ThreadOK, to

LEMMA JumpX17OK ==
  ASSUME SlotsOK, NEW th, Carries(th), th.fn \in Targets
  PROVE  ThreadOK(JumpX17(th))
<1>1. CASE th.x17 \in {NULL, Stray}
  BY <1>1, LostOK DEF JumpX17
<1>2. CASE th.x17 \notin {NULL, Stray}
  <2>1. Reach(th.x17)
    BY <1>2 DEF Carries
  <2>2. QED
    BY <1>2, <2>1, GotoOK DEF JumpX17
<1>3. QED
  BY <1>1, <1>2

\* x17 is loaded
LEMMA LoadOK ==
  ASSUME NEW th, Carries(th), NEW v, v \in {NULL, Stray} \/ Reach(v)
  PROVE  Carries([th EXCEPT !.x17 = v]) /\ [th EXCEPT !.x17 = v].fn = th.fn
<1> DEFINE to == [th EXCEPT !.x17 = v]
<1>1. DOMAIN to = DOMAIN Idle /\ to.fn = th.fn /\ to.x17 = v /\ to.due = th.due
  BY DEF Carries, Idle
<1> HIDE DEF to
<1>2. Carries(to)
  BY <1>1 DEF Carries
<1>3. QED
  BY <1>1, <1>2 DEF to

LEMMA LiteralOK ==
  ASSUME CodeOK, NEW f \in Targets
  PROVE  Literal(f) = Stray \/ Reach(Literal(f))
  BY DEF CodeOK, WordOK, Literal

(* ------------------------------------------------------------------------ *)
(* The steps of a thread                                                           *)

LEMMA ExecuteOK ==
  ASSUME InstallInv, NEW t \in Threads, NEW th, ThreadOK(th), Execute(t, th)
  PROVE  InstallInv'
<1>1. /\ thread' = [thread EXCEPT ![t] = th]
      /\ UNCHANGED <<g_near_jump_flag, installer, hook_entries, entry, code, slots,
                     transfer, invoke, origin_call>>
  BY DEF Execute, installVars
<1>2. EntriesOK'
  BY <1>1 DEF InstallInv, EntriesOK, EntryOK, SlotFor
<1>3. SlotsOK'
  BY <1>1 DEF InstallInv, SlotsOK
<1>4. \A a : Reach(a) => Reach(a)'
  BY <1>1 DEF Reach, Built
<1>5. CodeOK'
  BY <1>1, <1>4 DEF InstallInv, CodeOK, WordOK, RelocatedOK
<1>6. InstallerOK'
  BY <1>1 DEF InstallInv, InstallerOK, Steps, Done, InstallerAt, H, Patch, Destination
<1>7. ThreadsOK'
  <2>1. DOMAIN thread' = Threads
    BY <1>1 DEF InstallInv, ThreadsOK
  <2>2. ASSUME NEW u \in Threads PROVE ThreadOK(thread[u])'
    <3>1. PICK x : x = thread'[u] /\ ThreadOK(x)
      BY <1>1 DEF InstallInv, ThreadsOK
    <3>2. ThreadOK(x)'
      BY <1>1, <1>4, <3>1 DEF ThreadOK, Carries, At, Built
    <3>3. QED
      BY <3>1, <3>2
  <2>3. QED
    BY <2>1, <2>2 DEF ThreadsOK
<1>8. QED
  BY <1>2, <1>3, <1>5, <1>6, <1>7 DEF InstallInv

LEMMA FetchOK ==
  ASSUME InstallInv, NEW t \in Threads, Fetch(t)
  PROVE  InstallInv'
<1> DEFINE th == thread[t]
           w == code[th.fn][th.i]
<1>1. /\ Carries(th) /\ th.fn \in Targets /\ th.i \in 1..4 /\ SlotsOK /\ CodeOK
  BY DEF Fetch, InstallInv, ThreadsOK, ThreadOK, At
<1>2. WordOK(w)
  BY <1>1 DEF CodeOK
<1> DEFINE ran == RunOrig(th, w)
           loaded == [th EXCEPT !.x17 = Literal(th.fn)]
<1>3. CASE w.op = "orig"
  <2>1. Carries(ran) /\ ran.fn = th.fn
    <3>1. DOMAIN ran = DOMAIN Idle /\ ran.fn = th.fn /\ ran.x17 = th.x17 /\ ran.due = th.due
      BY <1>1 DEF RunOrig, Carries, Idle
    <3> HIDE DEF ran
    <3>2. QED
      BY <1>1, <3>1 DEF Carries
  <2>2. ThreadOK(AtWord(ran, th.i + 1))
    BY <1>1, <2>1, AtWordOK
  <2>3. Execute(t, AtWord(ran, th.i + 1))
    BY <1>3 DEF Fetch
  <2>4. QED
    BY <2>2, <2>3, ExecuteOK
<1>4. CASE w.op = "b"
  <2>1. Reach(w.arg)
    BY <1>2, <1>4 DEF WordOK
  <2>2. ThreadOK(Goto(th, w.arg))
    BY <1>1, <2>1, GotoOK
  <2>3. Execute(t, Goto(th, w.arg))
    BY <1>4 DEF Fetch
  <2>4. QED
    BY <2>2, <2>3, ExecuteOK
<1>5. CASE w.op = "ldr_x17"
  <2>1. Carries(loaded) /\ loaded.fn = th.fn
    BY <1>1, LiteralOK, LoadOK
  <2>2. Execute(t, AtWord(loaded, th.i + 1))
    BY <1>5 DEF Fetch
  <2> HIDE DEF loaded
  <2>3. ThreadOK(AtWord(loaded, th.i + 1))
    BY <1>1, <2>1, AtWordOK
  <2>4. QED
    BY <2>2, <2>3, ExecuteOK
<1>6. CASE w.op = "br_x17"
  <2>1. Execute(t, JumpX17(th))
    BY <1>6 DEF Fetch
  <2>2. QED
    BY <1>1, <2>1, JumpX17OK, ExecuteOK
<1>7. CASE w.op \notin {"orig", "b", "ldr_x17", "br_x17"}
  <2>1. Execute(t, [th EXCEPT !.pc = "torn"])
    BY <1>7 DEF Fetch
  <2>2. QED
    BY <1>1, <2>1, LostOK, ExecuteOK
<1>8. QED
  BY <1>3, <1>4, <1>5, <1>6, <1>7

\* The hooks that a call goes through are recorded; what it carries stays
LEMMA ThroughOK ==
  ASSUME NEW th, Carries(th), NEW q
  PROVE  Carries([th EXCEPT !.through = q]) /\ [th EXCEPT !.through = q].fn = th.fn
<1> DEFINE to == [th EXCEPT !.through = q]
<1>1. DOMAIN to = DOMAIN Idle /\ to.fn = th.fn /\ to.x17 = th.x17 /\ to.due = th.due
  BY DEF Carries, Idle
<1> HIDE DEF to
<1>2. QED
  BY <1>1 DEF Carries, to

LEMMA OnEnterTransferOK ==
  ASSUME InstallInv, NEW t \in Threads, OnEnterTransfer(t)
  PROVE  InstallInv'
<1> DEFINE th == thread[t]
           a == transfer[th.at]
           loaded == [th EXCEPT !.x17 = a]
<1>1. /\ Carries(th) /\ th.fn \in Targets /\ SlotsOK
      /\ th.at \in Hooks /\ a # NULL /\ Built(th.at)
  BY DEF OnEnterTransfer, InstallInv, ThreadsOK, ThreadOK, At
<1>2. Reach(a)
  <2>1. a = Code("replace", th.at) \/ SlotFor(th.at, a)
    BY <1>1 DEF InstallInv, EntriesOK, EntryOK
  <2>2. QED
    BY <1>1, <2>1, SlotReach, CodeReach
<1>3. Carries(loaded) /\ loaded.fn = th.fn
  BY <1>1, <1>2, LoadOK
<1>4. Execute(t, Goto(loaded, a))
  BY DEF OnEnterTransfer
<1> HIDE DEF loaded, a
<1>5. ThreadOK(Goto(loaded, a))
  BY <1>1, <1>2, <1>3, GotoOK
<1>6. QED
  BY <1>4, <1>5, ExecuteOK

LEMMA OnEnterClosureOK ==
  ASSUME InstallInv, NEW t \in Threads, OnEnterClosure(t)
  PROVE  InstallInv'
<1> DEFINE th == thread[t]
           h == slots[th.at].hook
           begun == [th EXCEPT !.through = Append(@, h)]
           due == [begun EXCEPT !.due = Append(@, entry[h].leave)]
<1>1. /\ Carries(th) /\ th.fn \in Targets /\ SlotsOK
      /\ th.at \in 1..Len(slots) /\ Built(h) /\ h \in Hooks
  BY SlotsTyped DEF OnEnterClosure, InstallInv, ThreadsOK, ThreadOK, At
<1>2. Reach(entry[h].invoke)
  BY <1>1, CodeReach DEF Built, InstallInv, EntriesOK, EntryOK
<1>3. Carries(begun) /\ begun.fn = th.fn
  BY <1>1, ThroughOK
<1>4. CASE slots[th.at].handler = "enter"
  <2>1. Type[h] = "PRE_POST"
    BY <1>1, <1>4 DEF SlotsOK
  <2>2. entry[h].leave # NULL /\ SlotFor(h, entry[h].leave)
    BY <1>1, <2>1 DEF Built, InstallInv, EntriesOK, EntryOK
  <2>3. Reach(entry[h].leave)
    BY <1>1, <2>2, SlotReach
  <2> DEFINE n == Len(begun.due)
  <2>4. n \in Nat /\ \A i \in 1..n : Reach(begun.due[i])
    BY <1>3 DEF Carries
  <2>5. begun.due = [i \in 1..n |-> begun.due[i]]
    BY <1>3 DEF Carries
  <2>6. Carries(due) /\ due.fn = th.fn
    <3> DEFINE leave == entry[h].leave
    <3>1. /\ DOMAIN due = DOMAIN Idle /\ due.fn = begun.fn /\ due.x17 = begun.x17
          /\ due.due = Append(begun.due, leave)
      BY <1>3 DEF Carries, Idle
    <3> DEFINE d == begun.due
    <3>2. /\ Len(Append(d, leave)) = n + 1
          /\ Append(d, leave) = [i \in 1..n + 1 |-> IF i = n + 1 THEN leave ELSE d[i]]
      <4> DEFINE S == {d[i] : i \in 1..n} \cup {leave}
      <4>1. d \in Seq(S) /\ leave \in S
        <5> HIDE DEF d, n, leave
        <5>1. [i \in 1..n |-> d[i]] \in [1..n -> S] /\ n \in Nat
          BY <2>4
        <5>2. QED
          BY <2>5, <5>1 DEF d
      <4> HIDE DEF d, leave, S
      <4>2. QED
        BY <2>4, <4>1 DEF d
    <3>3. DOMAIN begun = DOMAIN Idle /\ (begun.x17 \in {NULL, Stray} \/ Reach(begun.x17))
      BY <1>3 DEF Carries
    <3> HIDE DEF due, begun, d, n, leave
    <3>4. \A i \in 1..n + 1 : Reach(IF i = n + 1 THEN leave ELSE d[i])
      BY <2>3, <2>4 DEF d, leave
    <3>5. /\ Len(due.due) = n + 1 /\ n + 1 \in Nat
          /\ due.due = [i \in 1..n + 1 |-> IF i = n + 1 THEN leave ELSE d[i]]
      <4>1. due.due = Append(d, leave)
        BY <3>1 DEF d, leave
      <4>2. n + 1 \in Nat
        BY <2>4
      <4>3. QED
        BY <3>2, <4>1, <4>2, Zenon
    <3>6. Carries(due)
      BY <3>1, <3>3, <3>4, <3>5 DEF Carries
    <3>7. QED
      BY <1>3, <3>1, <3>6
  <2>7. Execute(t, Goto(due, entry[h].invoke))
    BY <1>4 DEF OnEnterClosure
  <2> HIDE DEF due
  <2>8. ThreadOK(Goto(due, entry[h].invoke))
    BY <1>1, <1>2, <2>6, GotoOK
  <2>9. QED
    BY <2>7, <2>8, ExecuteOK
<1>5. CASE slots[th.at].handler # "enter"
  <2>1. Execute(t, Goto(begun, entry[h].invoke))
    BY <1>5 DEF OnEnterClosure
  <2> HIDE DEF begun
  <2>2. ThreadOK(Goto(begun, entry[h].invoke))
    BY <1>1, <1>2, <1>3, GotoOK
  <2>3. QED
    BY <2>1, <2>2, ExecuteOK
<1>6. QED
  BY <1>4, <1>5

LEMMA OnLeaveClosureOK ==
  ASSUME InstallInv, NEW t \in Threads, OnLeaveClosure(t)
  PROVE  InstallInv'
<1> DEFINE th == thread[t]
           left == [th EXCEPT !.due = Front(@)]
           n == Len(th.due)
<1>1. Carries(th) /\ th.fn \in Targets /\ SlotsOK
  BY DEF OnLeaveClosure, InstallInv, ThreadsOK, ThreadOK, At
<1>2. Carries(left) /\ left.fn = th.fn
  <2>1. /\ DOMAIN left = DOMAIN Idle /\ left.fn = th.fn /\ left.x17 = th.x17
        /\ left.due = SubSeq(th.due, 1, n - 1)
    BY <1>1 DEF Carries, Idle, Front
  <2>2. n \in Nat /\ \A i \in 1..n : Reach(th.due[i])
    BY <1>1 DEF Carries
  <2>3. SubSeq(th.due, 1, n - 1) = [i \in 1..n - 1 |-> th.due[i]]
    BY <2>2
  <2>4. /\ Len(left.due) \in Nat /\ left.due = [i \in 1..Len(left.due) |-> left.due[i]]
        /\ \A i \in 1..Len(left.due) : i \in 1..n /\ left.due[i] = th.due[i]
    <3>1. CASE n = 0
      BY <2>1, <2>3, <3>1
    <3>2. CASE n # 0
      <4>1. PICK d : d = [i \in 1..n - 1 |-> th.due[i]] /\ left.due = d
        BY <2>1, <2>3
      <4>2. n - 1 \in Nat /\ 1..n - 1 \subseteq 1..n
        BY <2>2, <3>2
      <4>3. Len(d) = n - 1
        <5> HIDE DEF n
        <5>1. QED
          BY <4>1, <4>2
      <4>4. d = [i \in 1..n - 1 |-> d[i]] /\ \A i \in 1..n - 1 : d[i] = th.due[i]
        <5> HIDE DEF n
        <5>1. QED
          BY <4>1
      <4>5. QED
        BY <4>1, <4>2, <4>3, <4>4
    <3>3. QED
      BY <3>1, <3>2
  <2>5. QED
    BY <1>1, <2>1, <2>2, <2>4 DEF Carries
<1>3. Execute(t, Leave(left))
  BY DEF OnLeaveClosure
<1> HIDE DEF left
<1>4. ThreadOK(Leave(left))
  BY <1>1, <1>2, LeaveOK
<1>5. QED
  BY <1>3, <1>4, ExecuteOK

LEMMA ClosureFaultOK ==
  ASSUME InstallInv, NEW t \in Threads, ClosureFault(t)
  PROVE  InstallInv'
<1>1. Carries(thread[t]) /\ thread[t].fn \in Targets
  BY DEF ClosureFault, InstallInv, ThreadsOK, ThreadOK, At
<1>2. QED
  BY <1>1, LostOK, ExecuteOK DEF ClosureFault

LEMMA JumpBackOK ==
  ASSUME NEW th, Carries(th), th.fn \in Targets, th.i \in Nat \ {0}
  PROVE  ThreadOK(JumpBack(th))
<1> DEFINE loaded == [th EXCEPT !.x17 = Stray]
<1>1. Carries(loaded) /\ loaded.fn = th.fn
  BY LoadOK
<1>2. JumpBack(th) = AtWord(loaded, th.i)
  BY DEF JumpBack
<1> HIDE DEF loaded
<1>3. QED
  BY <1>1, <1>2, AtWordOK

LEMMA OnInvokeOK ==
  ASSUME InstallInv, NEW t \in Threads, OnInvoke(t)
  PROVE  InstallInv'
<1> DEFINE th == thread[t]
           ws == invoke[th.at]
           w == ws[th.i]
           next == [th EXCEPT !.i = @ + 1]
<1>1. /\ Carries(th) /\ th.fn \in Targets /\ SlotsOK /\ CodeOK
      /\ th.pc = "invoke" /\ th.at \in Hooks /\ th.i \in Nat \ {0} /\ ThreadOK(th)
  BY DEF OnInvoke, InstallInv, ThreadsOK, ThreadOK, At
<1>2. CASE th.i > Len(ws)
  <2>1. Execute(t, JumpBack(th))
    BY <1>2 DEF OnInvoke
  <2>2. ThreadOK(JumpBack(th))
    BY <1>1, JumpBackOK
  <2>3. QED
    BY <2>1, <2>2, ExecuteOK
<1>3. CASE ~(th.i > Len(ws))
  <2>1. RelocatedOK(w)
    BY <1>1, <1>3 DEF CodeOK
  <2>2. /\ DOMAIN next = DOMAIN Idle /\ next.pc = "invoke" /\ next.at = th.at
        /\ next.fn = th.fn /\ next.i \in Nat \ {0} /\ next.x17 = th.x17 /\ next.due = th.due
    BY <1>1 DEF Carries, Idle
  <2>3. Execute(t, CASE w.op = "orig" -> RunOrig(next, w)
                     [] w.op = "jump" -> Goto([th EXCEPT !.x17 = w.arg], w.arg)
                     [] w.op = "load" -> [next EXCEPT !.x17 = Literal(w.arg)]
                     [] w.op = "br_x17" -> JumpX17(th)
                     [] OTHER -> [th EXCEPT !.pc = "torn"])
    BY <1>3 DEF OnInvoke
  <2> HIDE DEF next
  <2>4. ASSUME NEW to, DOMAIN to = DOMAIN Idle, to.pc = "invoke", to.at = th.at,
               to.fn = th.fn, to.i \in Nat \ {0}, to.due = th.due,
               to.x17 \in {NULL, Stray} \/ Reach(to.x17)
        PROVE  ThreadOK(to)
    BY <1>1, <2>4 DEF ThreadOK, Carries, At
  <2>5. CASE w.op = "orig"
    <3> DEFINE ran == RunOrig(next, w)
    <3>1. /\ DOMAIN ran = DOMAIN Idle /\ ran.pc = "invoke" /\ ran.at = th.at
          /\ ran.fn = th.fn /\ ran.i \in Nat \ {0} /\ ran.x17 = th.x17 /\ ran.due = th.due
      BY <2>2 DEF RunOrig, Idle
    <3>2. Execute(t, ran)
      BY <2>3, <2>5
    <3> HIDE DEF ran
    <3>3. ThreadOK(ran)
      BY <1>1, <2>4, <3>1 DEF Carries
    <3>4. QED
      BY <3>2, <3>3, ExecuteOK
  <2>6. CASE w.op = "jump"
    <3> DEFINE loaded == [th EXCEPT !.x17 = w.arg]
    <3>1. w.arg = Stray \/ Reach(w.arg)
      BY <2>1, <2>6 DEF RelocatedOK
    <3>2. Carries(loaded) /\ loaded.fn = th.fn
      BY <1>1, <3>1, LoadOK
    <3>3. Execute(t, Goto(loaded, w.arg))
      BY <2>3, <2>6
    <3> HIDE DEF loaded
    <3>4. ThreadOK(Goto(loaded, w.arg))
      BY <1>1, <3>1, <3>2, GotoOK
    <3>5. QED
      BY <3>3, <3>4, ExecuteOK
  <2>7. CASE w.op = "load"
    <3> DEFINE loaded == [next EXCEPT !.x17 = Literal(w.arg)]
    <3>1. Literal(w.arg) = Stray \/ Reach(Literal(w.arg))
      BY <1>1, <2>1, <2>7, LiteralOK DEF RelocatedOK
    <3>2. /\ DOMAIN loaded = DOMAIN Idle /\ loaded.pc = "invoke" /\ loaded.at = th.at
          /\ loaded.fn = th.fn /\ loaded.i \in Nat \ {0} /\ loaded.due = th.due
          /\ loaded.x17 = Literal(w.arg)
      BY <2>2 DEF Idle
    <3>3. Execute(t, loaded)
      BY <2>3, <2>7
    <3> HIDE DEF loaded
    <3>4. ThreadOK(loaded)
      BY <2>4, <3>1, <3>2
    <3>5. QED
      BY <3>3, <3>4, ExecuteOK
  <2>8. CASE w.op = "br_x17"
    <3>1. Execute(t, JumpX17(th))
      BY <2>3, <2>8
    <3>2. QED
      BY <1>1, <3>1, JumpX17OK, ExecuteOK
  <2>9. CASE w.op \notin {"orig", "jump", "load", "br_x17"}
    <3>1. Execute(t, [th EXCEPT !.pc = "torn"])
      BY <2>3, <2>9
    <3>2. QED
      BY <1>1, <3>1, LostOK, ExecuteOK
  <2>10. QED
    BY <2>5, <2>6, <2>7, <2>8, <2>9
<1>4. QED
  BY <1>2, <1>3

LEMMA ReplaceCallsOriginOK ==
  ASSUME InstallInv, NEW t \in Threads, ReplaceCallsOrigin(t)
  PROVE  InstallInv'
<1> DEFINE th == thread[t]
           through == [th EXCEPT !.through = Append(@, th.at)]
<1>1. Carries(th) /\ th.fn \in Targets /\ SlotsOK /\ th.at \in Hooks
  BY DEF ReplaceCallsOrigin, InstallInv, ThreadsOK, ThreadOK, At
<1>2. CASE origin_call[th.at] = NULL
  BY <1>1, <1>2, LostOK, ExecuteOK DEF ReplaceCallsOrigin
<1>3. CASE origin_call[th.at] # NULL
  <2>1. Reach(origin_call[th.at])
    BY <1>1, <1>3, CodeReach DEF InstallInv, EntriesOK, EntryOK
  <2>2. Carries(through) /\ through.fn = th.fn
    BY <1>1, ThroughOK
  <2>3. Execute(t, Goto(through, origin_call[th.at]))
    BY <1>3 DEF ReplaceCallsOrigin
  <2> HIDE DEF through
  <2>4. ThreadOK(Goto(through, origin_call[th.at]))
    BY <1>1, <2>1, <2>2, GotoOK
  <2>5. QED
    BY <2>3, <2>4, ExecuteOK
<1>4. QED
  BY <1>2, <1>3

LEMMA ReturnsOK ==
  ASSUME InstallInv, NEW t \in Threads, ReplaceReturns(t) \/ BodyReturns(t)
  PROVE  InstallInv'
<1>1. Carries(thread[t]) /\ thread[t].fn \in Targets /\ SlotsOK
  BY DEF ReplaceReturns, BodyReturns, InstallInv, ThreadsOK, ThreadOK, At
<1>2. Execute(t, Leave(thread[t]))
  BY DEF ReplaceReturns, BodyReturns
<1>3. QED
  BY <1>1, <1>2, LeaveOK, ExecuteOK

LEMMA CallOK ==
  ASSUME InstallInv, NEW t \in Threads, NEW f \in Targets, Call(t, f)
  PROVE  InstallInv'
<1> DEFINE to == [Idle EXCEPT !.pc = "word", !.fn = f, !.i = 1,
                              !.sees = {h \in active : Target[h] = f},
                              !.overlapped = HalfPatched(f)]
<1>1. /\ DOMAIN to = DOMAIN Idle /\ to.pc = "word" /\ to.fn = f /\ to.i = 1
      /\ to.x17 = NULL /\ to.due = << >>
  BY DEF Idle
<1>2. Execute(t, to)
  BY DEF Call
<1> HIDE DEF to
<1>3. ThreadOK(to)
  <2>1. Len(to.due) = 0 /\ to.due = [i \in 1..Len(to.due) |-> to.due[i]]
    BY <1>1
  <2>2. QED
    BY <1>1, <2>1 DEF ThreadOK, Carries, At
<1>4. QED
  BY <1>2, <1>3, ExecuteOK

LEMMA RunOK ==
  ASSUME InstallInv, NEW t \in Threads, Run(t)
  PROVE  InstallInv'
BY FetchOK, OnEnterTransferOK, OnEnterClosureOK, OnLeaveClosureOK, ClosureFaultOK,
   OnInvokeOK, ReplaceCallsOriginOK, ReturnsOK DEF Run

(* ------------------------------------------------------------------------ *)
(* The order of the steps of the installer                                         *)

Step == {"enter", "transfer", "invoke", "leave", "dbi", "active", "origin"}

LEMMA ConcatIs ==
  ASSUME NEW S, NEW l \in Seq(S), NEW r \in Seq(S), NEW whole \in Seq(S),
         Len(whole) = Len(l) + Len(r),
         \A i \in 1..Len(l) : whole[i] = l[i],
         \A i \in 1..Len(r) : whole[Len(l) + i] = r[i]
  PROVE  l \o r = whole
<1>1. /\ l \o r \in Seq(S) /\ Len(l \o r) = Len(l) + Len(r)
      /\ \A i \in 1..Len(l) + Len(r) : (l \o r)[i] = IF i <= Len(l) THEN l[i] ELSE r[i - Len(l)]
  BY ConcatProperties
<1>2. ASSUME NEW i \in 1..Len(l) + Len(r) PROVE (l \o r)[i] = whole[i]
  <2>1. Len(l) \in Nat /\ Len(r) \in Nat
    OBVIOUS
  <2>2. CASE i <= Len(l)
    BY <1>1, <2>1, <2>2
  <2>3. CASE ~(i <= Len(l))
    <3>1. i - Len(l) \in 1..Len(r) /\ Len(l) + (i - Len(l)) = i
      BY <2>1, <2>3
    <3>2. whole[i] = r[i - Len(l)]
      BY <3>1
    <3>3. QED
      BY <1>1, <2>3, <3>2
  <2>4. QED
    BY <2>2, <2>3
<1>3. QED
  BY <1>1, <1>2, SeqEqual

LEMMA StepsAre ==
  ASSUME NEW h \in Hooks, NEW near \in BOOLEAN
  PROVE  /\ Type[h] = "PRE_POST" /\ near =>
              BuildSteps(h, near) = <<"enter", "transfer", "invoke", "leave", "active">>
         /\ Type[h] = "PRE_POST" /\ ~near =>
              BuildSteps(h, near) = <<"enter", "invoke", "leave", "active">>
         /\ Type[h] = "REPLACE" =>
              BuildSteps(h, near) = <<"transfer", "invoke", "active", "origin">>
         /\ Type[h] = "DBI" /\ near =>
              BuildSteps(h, near) = <<"dbi", "transfer", "invoke", "active">>
         /\ Type[h] = "DBI" /\ ~near => BuildSteps(h, near) = <<"dbi", "invoke", "active">>
<1>1. <<"enter">> \o << >> = <<"enter">> /\ <<"dbi">> \o << >> = <<"dbi">>
  OBVIOUS
<1>2. <<"enter">> \o <<"transfer">> = <<"enter", "transfer">>
  <2> DEFINE l == <<"enter">>
             r == <<"transfer">>
             whole == <<"enter", "transfer">>
  <2>1. l \in Seq(Step) /\ r \in Seq(Step) /\ whole \in Seq(Step)
    BY DEF Step
  <2>2. /\ Len(l) = 1 /\ l[1] = whole[1]
        /\ Len(r) = 1 /\ r[1] = whole[2]
        /\ Len(whole) = 2
    OBVIOUS
  <2> HIDE DEF l, r, whole
  <2>3. /\ \A i \in 1..Len(l) : whole[i] = l[i]
        /\ \A i \in 1..Len(r) : whole[Len(l) + i] = r[i]
        /\ Len(whole) = Len(l) + Len(r)
    BY <2>2
  <2>4. l \o r = whole
    BY <2>1, <2>3, ConcatIs
  <2>5. QED
    BY <2>4 DEF l, r, whole
<1>3. <<"dbi">> \o <<"transfer">> = <<"dbi", "transfer">>
  <2> DEFINE l == <<"dbi">>
             r == <<"transfer">>
             whole == <<"dbi", "transfer">>
  <2>1. l \in Seq(Step) /\ r \in Seq(Step) /\ whole \in Seq(Step)
    BY DEF Step
  <2>2. /\ Len(l) = 1 /\ l[1] = whole[1]
        /\ Len(r) = 1 /\ r[1] = whole[2]
        /\ Len(whole) = 2
    OBVIOUS
  <2> HIDE DEF l, r, whole
  <2>3. /\ \A i \in 1..Len(l) : whole[i] = l[i]
        /\ \A i \in 1..Len(r) : whole[Len(l) + i] = r[i]
        /\ Len(whole) = Len(l) + Len(r)
    BY <2>2
  <2>4. l \o r = whole
    BY <2>1, <2>3, ConcatIs
  <2>5. QED
    BY <2>4 DEF l, r, whole
<1>4. <<"enter">> \o <<"invoke", "leave", "active">> = <<"enter", "invoke", "leave", "active">>
  <2> DEFINE l == <<"enter">>
             r == <<"invoke", "leave", "active">>
             whole == <<"enter", "invoke", "leave", "active">>
  <2>1. l \in Seq(Step) /\ r \in Seq(Step) /\ whole \in Seq(Step)
    BY DEF Step
  <2>2. /\ Len(l) = 1 /\ l[1] = whole[1]
        /\ Len(r) = 3 /\ r[1] = whole[2] /\ r[2] = whole[3] /\ r[3] = whole[4]
        /\ Len(whole) = 4
    OBVIOUS
  <2> HIDE DEF l, r, whole
  <2>3. /\ \A i \in 1..Len(l) : whole[i] = l[i]
        /\ \A i \in 1..Len(r) : whole[Len(l) + i] = r[i]
        /\ Len(whole) = Len(l) + Len(r)
    BY <2>2
  <2>4. l \o r = whole
    BY <2>1, <2>3, ConcatIs
  <2>5. QED
    BY <2>4 DEF l, r, whole
<1>5. <<"enter", "transfer">> \o <<"invoke", "leave", "active">> =
        <<"enter", "transfer", "invoke", "leave", "active">>
  <2> DEFINE l == <<"enter", "transfer">>
             r == <<"invoke", "leave", "active">>
             whole == <<"enter", "transfer", "invoke", "leave", "active">>
  <2>1. l \in Seq(Step) /\ r \in Seq(Step) /\ whole \in Seq(Step)
    BY DEF Step
  <2>2. /\ Len(l) = 2 /\ l[1] = whole[1] /\ l[2] = whole[2]
        /\ Len(r) = 3 /\ r[1] = whole[3] /\ r[2] = whole[4] /\ r[3] = whole[5]
        /\ Len(whole) = 5
    OBVIOUS
  <2> HIDE DEF l, r, whole
  <2>3. /\ \A i \in 1..Len(l) : whole[i] = l[i]
        /\ \A i \in 1..Len(r) : whole[Len(l) + i] = r[i]
        /\ Len(whole) = Len(l) + Len(r)
    BY <2>2
  <2>4. l \o r = whole
    BY <2>1, <2>3, ConcatIs
  <2>5. QED
    BY <2>4 DEF l, r, whole
<1>6. <<"dbi">> \o <<"invoke", "active">> = <<"dbi", "invoke", "active">>
  <2> DEFINE l == <<"dbi">>
             r == <<"invoke", "active">>
             whole == <<"dbi", "invoke", "active">>
  <2>1. l \in Seq(Step) /\ r \in Seq(Step) /\ whole \in Seq(Step)
    BY DEF Step
  <2>2. /\ Len(l) = 1 /\ l[1] = whole[1]
        /\ Len(r) = 2 /\ r[1] = whole[2] /\ r[2] = whole[3]
        /\ Len(whole) = 3
    OBVIOUS
  <2> HIDE DEF l, r, whole
  <2>3. /\ \A i \in 1..Len(l) : whole[i] = l[i]
        /\ \A i \in 1..Len(r) : whole[Len(l) + i] = r[i]
        /\ Len(whole) = Len(l) + Len(r)
    BY <2>2
  <2>4. l \o r = whole
    BY <2>1, <2>3, ConcatIs
  <2>5. QED
    BY <2>4 DEF l, r, whole
<1>7. <<"dbi", "transfer">> \o <<"invoke", "active">> = <<"dbi", "transfer", "invoke", "active">>
  <2> DEFINE l == <<"dbi", "transfer">>
             r == <<"invoke", "active">>
             whole == <<"dbi", "transfer", "invoke", "active">>
  <2>1. l \in Seq(Step) /\ r \in Seq(Step) /\ whole \in Seq(Step)
    BY DEF Step
  <2>2. /\ Len(l) = 2 /\ l[1] = whole[1] /\ l[2] = whole[2]
        /\ Len(r) = 2 /\ r[1] = whole[3] /\ r[2] = whole[4]
        /\ Len(whole) = 4
    OBVIOUS
  <2> HIDE DEF l, r, whole
  <2>3. /\ \A i \in 1..Len(l) : whole[i] = l[i]
        /\ \A i \in 1..Len(r) : whole[Len(l) + i] = r[i]
        /\ Len(whole) = Len(l) + Len(r)
    BY <2>2
  <2>4. l \o r = whole
    BY <2>1, <2>3, ConcatIs
  <2>5. QED
    BY <2>4 DEF l, r, whole
<1>8. QED
  BY <1>1, <1>2, <1>3, <1>4, <1>5, <1>6, <1>7, Zenon DEF BuildSteps

Before(s, k, step) == \E j \in 1..k - 1 : s[j] = step

\* active() comes after all that its patch leads to, a transfer after what it goes to
LEMMA BeforeIs ==
  ASSUME NEW s, NEW k \in Nat
  PROVE  /\ k > 1 => Before(s, k, s[1])
         /\ k > 2 => Before(s, k, s[2])
         /\ k > 3 => Before(s, k, s[3])
         /\ k > 4 => Before(s, k, s[4])
  BY DEF Before

LEMMA StepsInOrder ==
  ASSUME NEW h \in Hooks, NEW near \in BOOLEAN,
         NEW s, s = BuildSteps(h, near), NEW k \in 1..Len(s)
  PROVE  /\ Len(s) \in Nat /\ DOMAIN s = 1..Len(s) /\ s \in Seq(Step)
         /\ s[k] = "active" =>
              /\ Before(s, k, "invoke")
              /\ near \/ Type[h] = "REPLACE" => Before(s, k, "transfer")
              /\ Type[h] = "PRE_POST" => Before(s, k, "enter") /\ Before(s, k, "leave")
              /\ Type[h] = "DBI" => Before(s, k, "dbi")
         /\ s[k] = "transfer" =>
              /\ Type[h] = "PRE_POST" => Before(s, k, "enter")
              /\ Type[h] = "DBI" => Before(s, k, "dbi")
         /\ s[k] = "enter" => Type[h] = "PRE_POST"
<1>1. Type[h] \in {"PRE_POST", "REPLACE", "DBI"}
  BY HooksAssumption DEF HookType
<1>2. CASE Type[h] = "PRE_POST" /\ near
  <2>1. s = <<"enter", "transfer", "invoke", "leave", "active">>
    BY <1>2, StepsAre
  <2>2. Len(s) = 5 /\ DOMAIN s = 1..Len(s) /\ s \in Seq(Step)
    BY <2>1 DEF Step
  <2>3. s[1] = "enter" /\ s[2] = "transfer" /\ s[3] = "invoke" /\ s[4] = "leave" /\ s[5] = "active"
    BY <2>1
  <2>4. k \in Nat /\ (k = 1 \/ k = 2 \/ k = 3 \/ k = 4 \/ k = 5)
    BY <2>2
  <2>5. /\ s[k] = "active" => /\ Before(s, k, "enter") /\ Before(s, k, "transfer")
                              /\ Before(s, k, "invoke") /\ Before(s, k, "leave")
        /\ s[k] = "transfer" => Before(s, k, "enter")
    BY <2>3, <2>4, BeforeIs
  <2>6. Type[h] = "PRE_POST"
    BY <1>2, Zenon
  <2>7. Len(s) \in Nat /\ Type[h] # "DBI"
    BY <2>2, <2>6
  <2>8. QED
    BY <1>2, <2>2, <2>5, <2>7, Zenon
<1>3. CASE Type[h] = "PRE_POST" /\ ~near
  <2>1. s = <<"enter", "invoke", "leave", "active">>
    BY <1>3, StepsAre
  <2>2. Len(s) = 4 /\ DOMAIN s = 1..Len(s) /\ s \in Seq(Step)
    BY <2>1 DEF Step
  <2>3. s[1] = "enter" /\ s[2] = "invoke" /\ s[3] = "leave" /\ s[4] = "active"
    BY <2>1
  <2>4. k \in Nat /\ (k = 1 \/ k = 2 \/ k = 3 \/ k = 4)
    BY <2>2
  <2>5. QED
    BY <1>3, <2>2, <2>3, <2>4, BeforeIs
<1>4. CASE Type[h] = "REPLACE"
  <2>1. s = <<"transfer", "invoke", "active", "origin">>
    BY <1>4, StepsAre
  <2>2. Len(s) = 4 /\ DOMAIN s = 1..Len(s) /\ s \in Seq(Step)
    BY <2>1 DEF Step
  <2>3. s[1] = "transfer" /\ s[2] = "invoke" /\ s[3] = "active" /\ s[4] = "origin"
    BY <2>1
  <2>4. k \in Nat /\ (k = 1 \/ k = 2 \/ k = 3 \/ k = 4)
    BY <2>2
  <2>5. QED
    BY <1>4, <2>2, <2>3, <2>4, BeforeIs
<1>5. CASE Type[h] = "DBI" /\ near
  <2>1. s = <<"dbi", "transfer", "invoke", "active">>
    BY <1>5, StepsAre
  <2>2. Len(s) = 4 /\ DOMAIN s = 1..Len(s) /\ s \in Seq(Step)
    BY <2>1 DEF Step
  <2>3. s[1] = "dbi" /\ s[2] = "transfer" /\ s[3] = "invoke" /\ s[4] = "active"
    BY <2>1
  <2>4. k \in Nat /\ (k = 1 \/ k = 2 \/ k = 3 \/ k = 4)
    BY <2>2
  <2>5. /\ s[k] = "active" => /\ Before(s, k, "dbi") /\ Before(s, k, "transfer")
                              /\ Before(s, k, "invoke")
        /\ s[k] = "transfer" => Before(s, k, "dbi")
    BY <2>3, <2>4, BeforeIs
  <2>6. Type[h] = "DBI"
    BY <1>5, Zenon
  <2>7. Len(s) \in Nat /\ s[k] # "enter" /\ Type[h] # "PRE_POST"
    BY <2>2, <2>3, <2>4, <2>6
  <2>8. QED
    BY <1>5, <2>2, <2>5, <2>7, Zenon
<1>6. CASE Type[h] = "DBI" /\ ~near
  <2>1. s = <<"dbi", "invoke", "active">>
    BY <1>6, StepsAre
  <2>2. Len(s) = 3 /\ DOMAIN s = 1..Len(s) /\ s \in Seq(Step)
    BY <2>1 DEF Step
  <2>3. s[1] = "dbi" /\ s[2] = "invoke" /\ s[3] = "active"
    BY <2>1
  <2>4. k \in Nat /\ (k = 1 \/ k = 2 \/ k = 3)
    BY <2>2
  <2>5. QED
    BY <1>6, <2>2, <2>3, <2>4, BeforeIs
<1>7. QED
  BY <1>1, <1>2, <1>3, <1>4, <1>5, <1>6

\* What is known at a step of the installer
LEMMA AtStep ==
  ASSUME InstallInv, NEW step, InstallerAt(step)
  PROVE  /\ H \in Hooks /\ EntryOK(H)
         /\ \E k \in 1..Len(Steps(H)) :
              /\ installer.todo = SubSeq(Steps(H), k, Len(Steps(H)))
              /\ \A j \in 1..k - 1 : Done(H, Steps(H)[j])
              /\ Steps(H)[k] = step
              /\ Tail(installer.todo) = SubSeq(Steps(H), k + 1, Len(Steps(H)))
         /\ step = "active" =>
              /\ entry[H].invoke # NULL
              /\ entry[H].near \/ Type[H] = "REPLACE" => entry[H].transfer # NULL
              /\ Type[H] = "PRE_POST" => entry[H].enter # NULL /\ entry[H].leave # NULL
              /\ Type[H] = "DBI" => entry[H].dbi # NULL
         /\ step = "transfer" =>
              /\ Type[H] = "PRE_POST" => entry[H].enter # NULL
              /\ Type[H] = "DBI" => entry[H].dbi # NULL
         /\ step = "enter" => Type[H] = "PRE_POST"
<1>1. H \in Hooks /\ EntryOK(H) /\ entry[H].near \in BOOLEAN
  BY DEF InstallerAt, InstallInv, InstallerOK, EntriesOK, EntryOK
<1> DEFINE s == Steps(H)
<1>2. PICK k \in 1..Len(s) : /\ installer.todo = SubSeq(s, k, Len(s))
                             /\ \A j \in 1..k - 1 : Done(H, s[j])
  BY DEF InstallerAt, InstallInv, InstallerOK
<1>3. s = BuildSteps(H, entry[H].near)
  BY DEF Steps
<1>4. Len(s) \in Nat /\ s \in Seq(Step)
  BY <1>1, <1>2, <1>3, StepsInOrder
<1> HIDE DEF s
<1>5. Head(installer.todo) = s[k] /\ Tail(installer.todo) = SubSeq(s, k + 1, Len(s))
  <2>1. SubSeq(s, k, Len(s)) = [i \in 1..Len(s) - k + 1 |-> s[k + i - 1]]
    BY <1>2, <1>4
  <2>2. Tail(SubSeq(s, k, Len(s))) = SubSeq(s, k + 1, Len(s))
    BY <1>2, <1>4
  <2>3. QED
    BY <1>2, <1>4, <2>1, <2>2
<1>6. s[k] = step
  BY <1>5 DEF InstallerAt
<1>7. \A x : Before(s, k, x) => Done(H, x)
  BY <1>2 DEF Before
<1>8. /\ step = "active" =>
            /\ Before(s, k, "invoke")
            /\ entry[H].near \/ Type[H] = "REPLACE" => Before(s, k, "transfer")
            /\ Type[H] = "PRE_POST" => Before(s, k, "enter") /\ Before(s, k, "leave")
            /\ Type[H] = "DBI" => Before(s, k, "dbi")
      /\ step = "transfer" =>
            /\ Type[H] = "PRE_POST" => Before(s, k, "enter")
            /\ Type[H] = "DBI" => Before(s, k, "dbi")
      /\ step = "enter" => Type[H] = "PRE_POST"
  BY <1>1, <1>3, <1>6, StepsInOrder
<1>9. QED
  BY <1>1, <1>2, <1>5, <1>6, <1>7, <1>8 DEF Done, s

(* ------------------------------------------------------------------------ *)
(* The steps of the installer add to what there is                                 *)

Grows ==
  /\ \A h \in Hooks : Built(h) => Built(h)'
  /\ \A h \in Hooks : transfer[h] # NULL => transfer'[h] # NULL
  /\ Len(slots) <= Len(slots') /\ Len(slots') \in Nat
  /\ \A n \in 1..Len(slots) : slots'[n] = slots[n]

LEMMA GrowsReach ==
  ASSUME SlotsOK, Grows
  PROVE  /\ \A n \in 1..Len(slots) : n \in 1..Len(slots') /\ slots'[n] = slots[n]
         /\ \A a : Reach(a) => Reach(a)'
         /\ \A h, a : SlotFor(h, a) => SlotFor(h, a)'
<1>1. \A n \in 1..Len(slots) : n \in 1..Len(slots') /\ slots'[n] = slots[n]
  BY SlotsTyped DEF Grows
<1>2. \A a : Reach(a) => Reach(a)'
  BY <1>1, SlotsTyped DEF Reach, Grows
<1>3. \A h, a : SlotFor(h, a) => SlotFor(h, a)'
  BY <1>1 DEF SlotFor
<1>4. QED
  BY <1>1, <1>2, <1>3

LEMMA GrowsThreads ==
  ASSUME InstallInv, Grows, thread' = thread
  PROVE  ThreadsOK'
<1>1. ASSUME NEW u \in Threads PROVE ThreadOK(thread[u])'
  <2>1. PICK x : x = thread[u] /\ ThreadOK(x)
    BY DEF InstallInv, ThreadsOK
  <2>2. /\ \A a : Reach(a) => Reach(a)'
        /\ \A n \in 1..Len(slots) : n \in 1..Len(slots') /\ slots'[n] = slots[n]
    BY GrowsReach DEF InstallInv
  <2>3. Carries(x)'
    BY <2>1, <2>2 DEF ThreadOK, Carries
  <2>4. At(x)'
    BY <2>1, <2>2, SlotsTyped DEF ThreadOK, At, Grows, InstallInv
  <2>5. QED
    BY <2>1, <2>3, <2>4 DEF ThreadOK
<1>2. QED
  BY <1>1 DEF InstallInv, ThreadsOK

LEMMA GrowsCode ==
  ASSUME InstallInv, Grows, UNCHANGED <<code, invoke>>
  PROVE  CodeOK'
  BY GrowsReach DEF InstallInv, CodeOK, WordOK, RelocatedOK

\* A step is done
LEMMA NextStepOK ==
  ASSUME InstallInv, NEW step, InstallerAt(step),
         DOMAIN installer' = DOMAIN Idling, installer'.hook = installer.hook,
         installer'.todo = Tail(installer.todo), installer'.words = {},
         \A x : Done(H, x) => Done(H, x)', Done(H, step)', entry'[H].near = entry[H].near
  PROVE  InstallerOK'
<1>2. /\ DOMAIN installer' = DOMAIN Idling /\ installer'.hook = installer.hook
      /\ installer'.todo = Tail(installer.todo) /\ installer'.words = {}
  OBVIOUS
<1>3. H' = H /\ Steps(H)' = Steps(H)
  BY <1>2 DEF H, Steps
<1> DEFINE s == Steps(H)
<1>4. PICK k \in 1..Len(s) : /\ \A j \in 1..k - 1 : Done(H, s[j])
                             /\ s[k] = step
                             /\ Tail(installer.todo) = SubSeq(s, k + 1, Len(s))
  BY AtStep
<1>5. Len(s) \in Nat /\ s \in Seq(Step) /\ H \in Hooks
  <2>1. H \in Hooks /\ entry[H].near \in BOOLEAN /\ s = BuildSteps(H, entry[H].near)
    BY AtStep DEF EntryOK, Steps
  <2>2. QED
    BY <1>4, <2>1, StepsInOrder
<1>6. \A j \in 1..k : Done(H, s[j])'
  <2> SUFFICES ASSUME NEW j \in 1..k PROVE Done(H, s[j])'
    OBVIOUS
  <2>1. j = k \/ j \in 1..k - 1
    BY <1>4, <1>5
  <2>2. PICK x : x = s[j]
    OBVIOUS
  <2>3. Done(H, x)'
    BY <1>4, <2>1, <2>2
  <2>4. s'[j] = x
    BY <1>3, <2>2
  <2>5. QED
    BY <2>3, <2>4
<1> HIDE DEF s
<1>7. installer'.todo # << >> => k + 1 \in 1..Len(s)
  <2>1. k = Len(s) => SubSeq(s, k + 1, Len(s)) = << >>
    BY <1>5
  <2>2. QED
    BY <1>2, <1>4, <1>5, <2>1
<1>8. (k + 1) - 1 = k
  BY <1>4, <1>5
<1>9. QED
  BY <1>2, <1>3, <1>4, <1>5, <1>6, <1>7, <1>8 DEF InstallerOK, s

LEMMA AdvanceOK ==
  ASSUME InstallInv, NEW step, step # "active", InstallerAt(step), installer' = Advanced,
         \A x : Done(H, x) => Done(H, x)', Done(H, step)', entry'[H].near = entry[H].near
  PROVE  InstallerOK'
<1>1. installer.words = {} /\ DOMAIN installer = DOMAIN Idling
  BY DEF InstallInv, InstallerOK, InstallerAt
<1>2. /\ DOMAIN installer' = DOMAIN Idling /\ installer'.hook = installer.hook
      /\ installer'.todo = Tail(installer.todo) /\ installer'.words = {}
  BY <1>1 DEF Advanced, Idling
<1>3. QED
  BY <1>2, NextStepOK

SetsField(h, f, v) == entry' = [entry EXCEPT ![h][f] = v]

\* What is so when one field of an entry was set
FieldSet(h, f, v) ==
  /\ DOMAIN entry' = Hooks
  /\ \A g \in Hooks : /\ DOMAIN entry'[g] = DOMAIN NoEntry
                      /\ entry'[g].near = entry[g].near
                      /\ \A x \in DOMAIN NoEntry :
                           entry'[g][x] = IF g = h /\ x = f THEN v ELSE entry[g][x]
  /\ \A g \in Hooks : Built(g) => Built(g)'
  /\ \A x : Done(h, x) => Done(h, x)'
  /\ Done(h, f)'

LEMMA SetField ==
  ASSUME InstallInv, NEW h \in Hooks, NEW v, v # NULL,
         NEW f \in {"enter", "leave", "dbi", "transfer", "invoke"},
         SetsField(h, f, v)
  PROVE  FieldSet(h, f, v)
<1> USE DEF SetsField, FieldSet
<1>1. /\ DOMAIN entry = Hooks
      /\ \A g \in Hooks : DOMAIN entry[g] = DOMAIN NoEntry
  BY DEF InstallInv, EntriesOK, EntryOK
<1>2. DOMAIN NoEntry = {"near", "enter", "leave", "dbi", "invoke", "transfer"}
  BY DEF NoEntry
<1>3. \A g \in Hooks : /\ DOMAIN entry'[g] = DOMAIN NoEntry
                       /\ \A x \in DOMAIN NoEntry :
                            entry'[g][x] = IF g = h /\ x = f THEN v ELSE entry[g][x]
  BY <1>1
<1>4. \A g \in Hooks :
        /\ entry'[g].near = entry[g].near
        /\ entry[g].invoke # NULL => entry'[g].invoke # NULL
        /\ entry[g].leave # NULL => entry'[g].leave # NULL
        /\ entry[g].enter # NULL => entry'[g].enter # NULL
        /\ entry[g].dbi # NULL => entry'[g].dbi # NULL
        /\ entry[g].transfer # NULL => entry'[g].transfer # NULL
  BY <1>2, <1>3
<1>5. Done(h, f)'
  BY <1>2, <1>3 DEF Done
<1>6. QED
  BY <1>1, <1>3, <1>4, <1>5 DEF Built, Done

(* ------------------------------------------------------------------------ *)
(* The steps of the installer                                                      *)

\* What an unchanged entry and trampoline still is when the slots grow
LEMMA EntryKept ==
  ASSUME InstallInv, Grows, NEW g \in Hooks, entry'[g] = entry[g], transfer'[g] = transfer[g],
         origin_call'[g] = origin_call[g]
  PROVE  EntryOK(g)'
<1>1. EntryOK(g)
  BY DEF InstallInv, EntriesOK
<1>2. \A a : SlotFor(g, a) => SlotFor(g, a)'
  BY GrowsReach DEF InstallInv
<1>3. /\ SlotFor(g, entry[g].enter) => SlotFor(g, entry[g].enter)'
      /\ SlotFor(g, entry[g].leave) => SlotFor(g, entry[g].leave)'
      /\ SlotFor(g, entry[g].dbi) => SlotFor(g, entry[g].dbi)'
      /\ SlotFor(g, transfer[g]) => SlotFor(g, transfer[g])'
  BY <1>2
<1>4. QED
  BY <1>1, <1>3 DEF EntryOK

\* A step that sets a field and is done
LEMMA FieldAdvances ==
  ASSUME InstallInv, NEW f, f # "active", InstallerAt(f), installer' = Advanced,
         H \in Hooks, NEW h, NEW v, h = H, FieldSet(h, f, v)
  PROVE  InstallerOK'
<1>1. H' = h /\ DOMAIN installer = DOMAIN Idling
  BY DEF H, Advanced, InstallInv, InstallerOK
<1>2. /\ \A x : Done(h, x) => Done(h, x)'
      /\ Done(h, f)'
      /\ entry'[h].near = entry[h].near
  BY DEF FieldSet
<1>3. \A x : Done(H, x) => Done(H, x)'
  BY <1>1, <1>2
<1>4. Done(H, f)' /\ entry'[H].near = entry[H].near
  BY <1>1, <1>2
<1>5. QED
  BY <1>3, <1>4, AdvanceOK

LEMMA BindClosureOK ==
  ASSUME InstallInv, NEW f \in {"enter", "leave", "dbi"}, BindClosure(f)
  PROVE  InstallInv'
<1> DEFINE n == Len(slots) + 1
           slot == [hook |-> H, handler |-> f]
           S == [hook : Hooks, handler : {"enter", "leave", "dbi"}]
<1>1. /\ InstallerAt(f) /\ installer' = Advanced
      /\ slots' = Append(slots, slot)
      /\ entry' = [entry EXCEPT ![H][f] = Slot(n)]
      /\ UNCHANGED <<g_near_jump_flag, code, transfer, invoke, origin_call, thread>>
  BY DEF BindClosure
<1>2. H \in Hooks /\ (f = "enter" => Type[H] = "PRE_POST")
  BY <1>1, AtStep
<1>3. n \in Nat /\ Slot(n) # NULL
  BY SlotsTyped, NullIsNoAddress DEF InstallInv
<1>4. /\ slots' \in Seq(S) /\ Len(slots') = n
      /\ \A i \in 1..Len(slots) : slots'[i] = slots[i]
      /\ slots'[n] = slot
  <2>1. slots \in Seq(S) /\ slot \in S
    BY <1>2 DEF InstallInv, SlotsOK
  <2> HIDE DEF slot, S
  <2>2. QED
    BY <1>1, <2>1
<1>5. SlotsOK'
  <2>1. ASSUME NEW i \in 1..Len(slots'), slots'[i].handler = "enter"
        PROVE  Type[slots'[i].hook] = "PRE_POST"
    <3>1. CASE i = n
      BY <1>2, <1>4, <2>1, <3>1
    <3>2. CASE i # n
      <4>1. i \in 1..Len(slots)
        BY <1>3, <1>4, <3>2
      <4>2. QED
        BY <1>4, <2>1, <4>1 DEF InstallInv, SlotsOK
    <3>3. QED
      BY <3>1, <3>2
  <2>2. QED
    BY <1>4, <2>1 DEF SlotsOK
<1>6. PICK h, v : h = H /\ v = Slot(n) /\ FieldSet(h, f, v)
  <2>1. PICK h, v : h = H /\ h \in Hooks /\ v = Slot(n)
    BY <1>2
  <2>2. v # NULL /\ SetsField(h, f, v) /\ f \in {"enter", "leave", "dbi", "transfer", "invoke"}
    BY <1>1, <1>3, <2>1 DEF SetsField
  <2>3. FieldSet(h, f, v)
    BY <2>1, <2>2, SetField
  <2>4. QED
    BY <2>1, <2>3
<1>7. Grows
  BY <1>1, <1>3, <1>4, <1>6, SlotsTyped DEF Grows, InstallInv, FieldSet
<1>8. EntriesOK'
  <2>1. ASSUME NEW g \in Hooks PROVE EntryOK(g)'
    <3>1. \A x \in {"enter", "leave", "dbi", "invoke", "transfer"} :
            entry'[g][x] = IF g = H /\ x = f THEN Slot(n) ELSE entry[g][x]
      BY <1>6 DEF NoEntry, FieldSet
    <3>2. PICK m : m = n
      OBVIOUS
    <3>3. g = H => SlotFor(g, Slot(m))'
      BY <1>3, <1>4, <3>2 DEF SlotFor
    <3>4. /\ EntryOK(g) /\ transfer'[g] = transfer[g] /\ origin_call'[g] = origin_call[g]
          /\ DOMAIN entry'[g] = DOMAIN NoEntry /\ entry'[g].near = entry[g].near
      BY <1>1, <1>6 DEF InstallInv, EntriesOK, FieldSet
    <3>5. \A a : SlotFor(g, a) => SlotFor(g, a)'
      BY <1>7, GrowsReach DEF InstallInv
    <3> HIDE DEF n
    <3>6. ASSUME NEW x \in {"enter", "leave", "dbi"}
          PROVE  entry'[g][x] = NULL \/ SlotFor(g, entry[g][x])'
      <4>1. entry[g][x] = NULL \/ SlotFor(g, entry[g][x])
        BY <3>4 DEF EntryOK
      <4>2. CASE g = H /\ x = f
        BY <3>1, <3>2, <3>3, <4>2
      <4>3. CASE ~(g = H /\ x = f)
        BY <3>1, <3>5, <4>1, <4>3
      <4>4. QED
        BY <4>2, <4>3
    <3>7. entry'[g].invoke = entry[g].invoke /\ entry'[g].transfer = entry[g].transfer
      BY <3>1
    <3>8. transfer[g] \in {NULL, Code("replace", g)} \/ SlotFor(g, transfer[g])'
      BY <3>4, <3>5 DEF EntryOK
    <3>9. /\ entry'[g].enter = NULL \/ SlotFor(g, entry[g].enter)'
          /\ entry'[g].leave = NULL \/ SlotFor(g, entry[g].leave)'
          /\ entry'[g].dbi = NULL \/ SlotFor(g, entry[g].dbi)'
      BY <3>6
    <3>10. QED
      BY <3>4, <3>7, <3>8, <3>9 DEF EntryOK
  <2>2. QED
    BY <1>1, <1>6, <2>1 DEF InstallInv, EntriesOK, FieldSet
<1>9. CodeOK' /\ ThreadsOK'
  BY <1>1, <1>7, GrowsCode, GrowsThreads
<1>10. InstallerOK'
  BY <1>1, <1>2, <1>6, FieldAdvances
<1>11. QED
  BY <1>5, <1>8, <1>9, <1>10 DEF InstallInv

LEMMA BuildForEnterTransferOK ==
  ASSUME InstallInv, BuildForEnterTransfer
  PROVE  InstallInv'
<1>1. /\ InstallerAt("transfer") /\ installer' = Advanced
      /\ transfer' = [transfer EXCEPT ![H] = Destination(H)]
      /\ entry' = [entry EXCEPT ![H].transfer = Code("transfer", H)]
      /\ UNCHANGED <<g_near_jump_flag, code, slots, invoke, origin_call, thread>>
  BY DEF BuildForEnterTransfer
<1>2. PICK h \in Hooks : h = H
  BY <1>1, AtStep
<1>3. /\ Type[h] = "PRE_POST" => entry[h].enter # NULL
      /\ Type[h] = "DBI" => entry[h].dbi # NULL
      /\ EntryOK(h)
  BY <1>1, <1>2, AtStep
<1>4. PICK d : d = Destination(h)
  OBVIOUS
<1>5. d # NULL /\ (d = Code("replace", h) \/ SlotFor(h, d))
  <2>1. Type[h] \in {"PRE_POST", "REPLACE", "DBI"}
    BY HooksAssumption DEF HookType
  <2>2. Code("replace", h) # NULL
    BY NullIsNoAddress
  <2>3. QED
    BY <1>3, <1>4, <2>1, <2>2 DEF Destination, EntryOK
<1>6. FieldSet(h, "transfer", Code("transfer", h))
  <2>1. Code("transfer", h) # NULL
    BY NullIsNoAddress
  <2>2. SetsField(h, "transfer", Code("transfer", h))
    BY <1>1, <1>2 DEF SetsField
  <2>3. QED
    BY <2>1, <2>2, SetField
<1>7. /\ DOMAIN transfer' = Hooks /\ transfer'[h] = d
      /\ \A g \in Hooks : g # h => transfer'[g] = transfer[g]
  BY <1>1, <1>2, <1>4 DEF InstallInv, EntriesOK
<1>8. Grows
  BY <1>1, <1>5, <1>6, <1>7, SlotsTyped DEF Grows, InstallInv, FieldSet
<1>9. EntriesOK'
  <2>1. ASSUME NEW g \in Hooks PROVE EntryOK(g)'
    <3>1. EntryOK(g) /\ origin_call'[g] = origin_call[g]
      BY <1>1 DEF InstallInv, EntriesOK
    <3>2. /\ DOMAIN entry'[g] = DOMAIN NoEntry
          /\ \A x \in {"near", "enter", "leave", "dbi", "invoke"} : entry'[g][x] = entry[g][x]
          /\ entry'[g].transfer = IF g = h THEN Code("transfer", h) ELSE entry[g].transfer
      BY <1>6 DEF FieldSet, NoEntry
    <3>3. /\ entry'[g].near = entry[g].near /\ entry'[g].enter = entry[g].enter
          /\ entry'[g].leave = entry[g].leave /\ entry'[g].dbi = entry[g].dbi
          /\ entry'[g].invoke = entry[g].invoke
      BY <3>2
    <3>4. \A a : SlotFor(g, a) => SlotFor(g, a)'
      BY <1>8, GrowsReach DEF InstallInv
    <3>5. /\ entry[g].enter = NULL \/ SlotFor(g, entry[g].enter)'
          /\ entry[g].leave = NULL \/ SlotFor(g, entry[g].leave)'
          /\ entry[g].dbi = NULL \/ SlotFor(g, entry[g].dbi)'
      BY <3>1, <3>3, <3>4 DEF EntryOK
    <3>6. /\ transfer'[g] \in {NULL, Code("replace", g)} \/ SlotFor(g, transfer[g])'
          /\ entry'[g].transfer # NULL => transfer'[g] # NULL
          /\ entry'[g].transfer \in {NULL, Code("transfer", g)}
      <4>1. CASE g = h
        <5>1. SlotFor(h, d) => SlotFor(h, d)'
          BY <3>4, <4>1
        <5>2. QED
          BY <1>5, <1>7, <3>2, <4>1, <5>1
      <4>2. CASE g # h
        <5>1. transfer'[g] = transfer[g] /\ entry'[g].transfer = entry[g].transfer
          BY <1>7, <3>2, <4>2
        <5>2. transfer[g] \in {NULL, Code("replace", g)} \/ SlotFor(g, transfer[g])'
          BY <3>1, <3>4, <5>1 DEF EntryOK
        <5>3. QED
          BY <3>1, <5>1, <5>2 DEF EntryOK
      <4>3. QED
        BY <4>1, <4>2
    <3>7. QED
      BY <3>1, <3>2, <3>3, <3>5, <3>6 DEF EntryOK
  <2>2. QED
    BY <1>1, <1>6, <1>7, <2>1 DEF InstallInv, EntriesOK, FieldSet
<1>10. SlotsOK'
  BY <1>1 DEF InstallInv, SlotsOK
<1>11. CodeOK' /\ ThreadsOK'
  BY <1>1, <1>8, GrowsCode, GrowsThreads
<1>12. InstallerOK'
  BY <1>1, <1>2, <1>6, FieldAdvances
<1>13. QED
  BY <1>9, <1>10, <1>11, <1>12 DEF InstallInv

\* A word that was relocated leads to where it led before, or astray
LEMMA RelocateOK ==
  ASSUME NEW f \in Targets, NEW w, WordOK(w)
  PROVE  RelocatedOK(Relocate(f, w))
<1>1. CASE w.op = "b"
  BY <1>1 DEF Relocate, Inst, WordOK, RelocatedOK
<1>2. CASE w.op = "ldr_x17"
  BY <1>2 DEF Relocate, Inst, RelocatedOK
<1>3. CASE w.op \notin {"b", "ldr_x17"}
  <2>1. Relocate(f, w) = w
    BY <1>3 DEF Relocate
  <2>2. QED
    BY <2>1 DEF WordOK, RelocatedOK
<1>4. QED
  BY <1>1, <1>2, <1>3

LEMMA BuildForInvokeOK ==
  ASSUME InstallInv, BuildForInvoke
  PROVE  InstallInv'
<1>1. /\ InstallerAt("invoke") /\ installer' = Advanced
      /\ invoke' = [invoke EXCEPT ![H] =
           [i \in 1..Limit(H) |-> Relocate(Target[H], code[Target[H]][i])]]
      /\ entry' = [entry EXCEPT ![H].invoke = Code("invoke", H)]
      /\ UNCHANGED <<g_near_jump_flag, code, slots, transfer, origin_call, thread>>
  BY DEF BuildForInvoke
<1>2. PICK h \in Hooks : h = H
  BY <1>1, AtStep
<1>3. FieldSet(h, "invoke", Code("invoke", h))
  <2>1. Code("invoke", h) # NULL
    BY NullIsNoAddress
  <2>2. SetsField(h, "invoke", Code("invoke", h))
    BY <1>1, <1>2 DEF SetsField
  <2>3. QED
    BY <2>1, <2>2, SetField
<1>4. Grows
  BY <1>1, <1>3, SlotsTyped DEF Grows, InstallInv, FieldSet
<1>5. EntriesOK'
  <2>1. ASSUME NEW g \in Hooks PROVE EntryOK(g)'
    <3>1. /\ EntryOK(g) /\ origin_call'[g] = origin_call[g] /\ transfer'[g] = transfer[g]
      BY <1>1 DEF InstallInv, EntriesOK
    <3>2. /\ DOMAIN entry'[g] = DOMAIN NoEntry
          /\ \A x \in {"near", "enter", "leave", "dbi", "transfer"} : entry'[g][x] = entry[g][x]
          /\ entry'[g].invoke = IF g = h THEN Code("invoke", h) ELSE entry[g].invoke
      BY <1>3 DEF FieldSet, NoEntry
    <3>3. /\ entry'[g].near = entry[g].near /\ entry'[g].enter = entry[g].enter
          /\ entry'[g].leave = entry[g].leave /\ entry'[g].dbi = entry[g].dbi
          /\ entry'[g].transfer = entry[g].transfer
      BY <3>2
    <3>4. slots' = slots
      BY <1>1
    <3>5. QED
      BY <3>1, <3>2, <3>3, <3>4 DEF EntryOK, SlotFor
  <2>2. QED
    BY <1>1, <1>3, <2>1 DEF InstallInv, EntriesOK, FieldSet
<1>6. SlotsOK'
  BY <1>1 DEF InstallInv, SlotsOK
<1>7. \A a : Reach(a) => Reach(a)'
  BY <1>4, GrowsReach DEF InstallInv
<1>8. CodeOK'
  <2>1. \A f \in Targets : DOMAIN code'[f] = 1..4 /\ \A i \in 1..4 : WordOK(code[f][i])'
    BY <1>1, <1>7 DEF InstallInv, CodeOK, WordOK
  <2>2. ASSUME NEW g \in Hooks
        PROVE  /\ Len(invoke'[g]) \in Nat
               /\ \A i \in 1..Len(invoke'[g]) : RelocatedOK(invoke[g][i])'
    <3>1. CASE g = h
      <4> DEFINE f == Target[h]
                 n == Limit(h)
                 ws == [i \in 1..n |-> Relocate(f, code[f][i])]
      <4>1. f \in Targets /\ n \in {1, 4} /\ invoke'[g] = ws
        BY <1>1, <1>2, <3>1, HooksAssumption DEF Limit, InstallInv, CodeOK
      <4>2. Len(ws) = n
        <5> HIDE DEF n
        <5>1. QED
          BY <4>1
      <4>3. ASSUME NEW i \in 1..n PROVE RelocatedOK(invoke[g][i])'
        <5>1. PICK x : x = Relocate(f, code[f][i])
          OBVIOUS
        <5>2. WordOK(code[f][i])
          BY <4>1, <4>3 DEF InstallInv, CodeOK
        <5>3. RelocatedOK(x)
          BY <4>1, <5>1, <5>2, RelocateOK
        <5>4. RelocatedOK(x)'
          BY <1>7, <5>3 DEF RelocatedOK
        <5>5. invoke'[g][i] = x
          BY <4>1, <4>3, <5>1
        <5>6. QED
          BY <5>4, <5>5
      <4> HIDE DEF n, ws
      <4>4. QED
        BY <4>1, <4>2, <4>3
    <3>2. CASE g # h
      <4>1. invoke'[g] = invoke[g]
        BY <1>1, <1>2, <3>2 DEF InstallInv, CodeOK
      <4>2. QED
        BY <1>7, <4>1 DEF InstallInv, CodeOK, RelocatedOK
    <3>3. QED
      BY <3>1, <3>2
  <2>3. DOMAIN invoke' = Hooks /\ DOMAIN code' = Targets
    BY <1>1 DEF InstallInv, CodeOK
  <2>4. QED
    BY <2>1, <2>2, <2>3 DEF CodeOK
<1>9. ThreadsOK'
  BY <1>1, <1>4, GrowsThreads
<1>10. InstallerOK'
  BY <1>1, <1>2, <1>3, FieldAdvances
<1>11. QED
  BY <1>5, <1>6, <1>8, <1>9, <1>10 DEF InstallInv

\* The words of the patch that active() is to write are good ones
LEMMA PatchOK ==
  ASSUME InstallInv, InstallerAt("active")
  PROVE  \A i \in DOMAIN Patch(H) : WordOK(Patch(H)[i])
<1>1. PICK h \in Hooks : h = H
  BY AtStep
<1>2. /\ EntryOK(h) /\ entry[h].invoke # NULL
      /\ entry[h].near \/ Type[h] = "REPLACE" => entry[h].transfer # NULL
      /\ Type[h] = "PRE_POST" => entry[h].enter # NULL /\ entry[h].leave # NULL
      /\ Type[h] = "DBI" => entry[h].dbi # NULL
  BY <1>1, AtStep
<1>3. Built(h)
  BY <1>2 DEF Built
<1>4. entry[h].near \/ Type[h] = "REPLACE" => Reach(entry[h].transfer)
  BY <1>2, <1>3, CodeReach DEF EntryOK
<1>5. Type[h] # "REPLACE" => Reach(Destination(h))
  <2>1. Type[h] \in {"PRE_POST", "REPLACE", "DBI"}
    BY HooksAssumption DEF HookType
  <2>2. Type[h] = "PRE_POST" => Reach(entry[h].enter)
    BY <1>2, <1>3, SlotReach DEF EntryOK
  <2>3. Type[h] = "DBI" => Reach(entry[h].dbi)
    BY <1>2, <1>3, SlotReach DEF EntryOK
  <2>4. QED
    BY <2>1, <2>2, <2>3 DEF Destination
<1>6. CASE entry[h].near
  <2>1. Patch(h) = <<Inst("b", entry[h].transfer)>>
    BY <1>6 DEF Patch
  <2>2. WordOK(Inst("b", entry[h].transfer))
    BY <1>4, <1>6 DEF WordOK, Inst
  <2>3. QED
    BY <1>1, <2>1, <2>2
<1>7. CASE ~entry[h].near
  <2> DEFINE a == IF Type[h] = "REPLACE" THEN entry[h].transfer ELSE Destination(h)
  <2>1. Patch(h) = <<LdrX17, BrX17, Lo(a), Hi(a)>>
    BY <1>7 DEF Patch
  <2>2. Reach(a)
    BY <1>4, <1>5
  <2> HIDE DEF a
  <2>3. WordOK(LdrX17) /\ WordOK(BrX17) /\ WordOK(Lo(a)) /\ WordOK(Hi(a))
    BY <2>2 DEF WordOK, LdrX17, BrX17, Lo, Hi, Inst
  <2>4. \A i \in DOMAIN Patch(h) : i \in 1..4
    BY <2>1
  <2>5. QED
    BY <1>1, <2>1, <2>3, <2>4
<1>8. QED
  BY <1>6, <1>7

\* Neither the trampolines nor what leads to them is touched
Kept == UNCHANGED <<entry, slots, transfer>>

LEMMA KeptOK ==
  ASSUME InstallInv, Kept
  PROVE  /\ Grows /\ SlotsOK' /\ \A a : Reach(a) => Reach(a)'
         /\ Patch(H)' = Patch(H) \/ H' # H
         /\ \A h, x : Done(h, x) => Done(h, x)'
<1>1. Grows
  BY SlotsTyped DEF Kept, Grows, Built, InstallInv
<1>2. Patch(H)' = Patch(H) \/ H' # H
  BY DEF Kept, Patch, Destination
<1>3. QED
  BY <1>1, <1>2, GrowsReach DEF InstallInv, Kept, SlotsOK, Done

LEMMA FlagOK ==
  ASSUME InstallInv, zz_enable_near_jump \/ zz_disable_near_jump
  PROVE  InstallInv'
<1>1. /\ g_near_jump_flag' \in BOOLEAN
      /\ UNCHANGED <<installer, entry, code, slots, transfer, invoke, origin_call, thread>>
  BY DEF zz_enable_near_jump, zz_disable_near_jump
<1>2. EntriesOK'
  BY <1>1 DEF InstallInv, EntriesOK, EntryOK, SlotFor
<1>3. SlotsOK' /\ Grows
  BY <1>1, KeptOK DEF Kept
<1>4. InstallerOK'
  BY <1>1 DEF InstallInv, InstallerOK, Steps, Done, InstallerAt, H, Patch, Destination
<1>5. QED
  BY <1>1, <1>2, <1>3, <1>4, GrowsCode, GrowsThreads DEF InstallInv

LEMMA StepsTyped ==
  ASSUME NEW h \in Hooks, NEW near \in BOOLEAN
  PROVE  BuildSteps(h, near) \in Seq(Step)
<1>1. Type[h] = "PRE_POST" \/ Type[h] = "REPLACE" \/ Type[h] = "DBI"
  BY HooksAssumption DEF HookType
<1>2. /\ <<"enter", "transfer", "invoke", "leave", "active">> \in Seq(Step)
      /\ <<"enter", "invoke", "leave", "active">> \in Seq(Step)
      /\ <<"transfer", "invoke", "active", "origin">> \in Seq(Step)
      /\ <<"dbi", "transfer", "invoke", "active">> \in Seq(Step)
      /\ <<"dbi", "invoke", "active">> \in Seq(Step)
  BY DEF Step
<1>3. QED
  BY <1>1, <1>2, StepsAre, Zenon

LEMMA BeginHookOK ==
  ASSUME InstallInv, NEW h \in Hooks, BeginHook(h)
  PROVE  InstallInv'
<1> DEFINE near == g_near_jump_flag
           s == BuildSteps(h, near)
<1>1. /\ entry' = [entry EXCEPT ![h].near = near]
      /\ installer' = [Idling EXCEPT !.hook = h, !.todo = s]
      /\ UNCHANGED <<g_near_jump_flag, code, slots, transfer, invoke, origin_call, thread>>
      /\ near \in BOOLEAN
  BY DEF BeginHook, InstallInv, EntriesOK
<1>2. /\ DOMAIN entry' = Hooks
      /\ \A g \in Hooks :
           /\ DOMAIN entry'[g] = DOMAIN NoEntry
           /\ \A x \in {"enter", "leave", "dbi", "invoke", "transfer"} : entry'[g][x] = entry[g][x]
           /\ entry'[g].near = IF g = h THEN near ELSE entry[g].near
  BY <1>1 DEF InstallInv, EntriesOK, EntryOK, NoEntry
<1>3. \A g \in Hooks :
        /\ entry'[g].enter = entry[g].enter /\ entry'[g].leave = entry[g].leave
        /\ entry'[g].dbi = entry[g].dbi /\ entry'[g].invoke = entry[g].invoke
        /\ entry'[g].transfer = entry[g].transfer /\ entry'[g].near \in BOOLEAN
  <2>1. ASSUME NEW g \in Hooks PROVE entry'[g].near \in BOOLEAN
    <3>1. entry[g].near \in BOOLEAN
      BY DEF InstallInv, EntriesOK, EntryOK
    <3>2. QED
      BY <1>1, <1>2, <3>1
  <2>2. QED
    BY <1>2, <2>1
<1>4. EntriesOK'
  BY <1>1, <1>2, <1>3 DEF InstallInv, EntriesOK, EntryOK, SlotFor
<1>5. Grows /\ SlotsOK'
  BY <1>1, <1>3, SlotsTyped DEF Grows, Built, InstallInv, SlotsOK
<1>6. InstallerOK'
  <2>1. /\ DOMAIN installer' = DOMAIN Idling /\ installer'.hook = h
        /\ installer'.todo = s /\ installer'.words = {}
    BY <1>1 DEF Idling
  <2>2. Steps(H)' = s /\ H' = h
    BY <1>1, <1>2, <2>1 DEF Steps, H
  <2>3. s # << >> => 1 \in 1..Len(s) /\ s = SubSeq(s, 1, Len(s))
    <3>1. s \in Seq(Step)
      BY <1>1, StepsTyped
    <3> HIDE DEF s
    <3>2. QED
      BY <3>1
  <2> HIDE DEF s
  <2>4. QED
    BY <2>1, <2>2, <2>3 DEF InstallerOK
<1>7. QED
  BY <1>1, <1>4, <1>5, <1>6, GrowsCode, GrowsThreads DEF InstallInv

\* The same step goes on, with some words of the patch to write if it is active()
LEMMA SameStepOK ==
  ASSUME InstallInv, Kept, DOMAIN installer' = DOMAIN Idling,
         installer'.hook = installer.hook, installer'.todo = installer.todo,
         installer'.words # {} =>
           InstallerAt("active") /\ installer'.words \subseteq DOMAIN Patch(H)
  PROVE  InstallerOK'
<1>1. H' = H /\ Patch(H)' = Patch(H) /\ Steps(H)' = Steps(H)
  BY DEF H, Kept, Patch, Destination, Steps
<1>2. \A x : Done(H, x) => Done(H, x)'
  BY <1>1 DEF Done, Kept
<1>3. InstallerAt("active")' = InstallerAt("active")
  BY DEF InstallerAt
<1>4. installer'.todo # << >> =>
        /\ H' \in Hooks
        /\ \E k \in 1..Len(Steps(H))' :
             /\ installer'.todo = SubSeq(Steps(H)', k, Len(Steps(H)'))
             /\ \A j \in 1..k - 1 : Done(H, Steps(H)[j])'
  <2>1. HAVE installer'.todo # << >>
  <2>2. PICK k \in 1..Len(Steps(H)) :
          /\ H \in Hooks
          /\ installer.todo = SubSeq(Steps(H), k, Len(Steps(H)))
          /\ \A j \in 1..k - 1 : Done(H, Steps(H)[j])
    BY <2>1 DEF InstallInv, InstallerOK
  <2>3. ASSUME NEW j \in 1..k - 1 PROVE Done(H, Steps(H)[j])'
    <3>1. PICK x : x = Steps(H)[j] /\ Done(H, x)
      BY <2>2
    <3>2. Done(H, x)' /\ Steps(H)'[j] = x
      BY <1>1, <1>2, <3>1
    <3>3. QED
      BY <3>2
  <2>4. QED
    BY <1>1, <2>2, <2>3
<1>5. QED
  BY <1>1, <1>3, <1>4 DEF InstallerOK

LEMMA IdlingOK ==
  ASSUME installer' = Idling
  PROVE  InstallerOK'
  BY DEF InstallerOK, Idling

LEMMA OverlappedOK ==
  ASSUME NEW th, ThreadOK(th), NEW o
  PROVE  ThreadOK([th EXCEPT !.overlapped = o])
<1> DEFINE to == [th EXCEPT !.overlapped = o]
<1>1. /\ DOMAIN to = DOMAIN Idle /\ to.pc = th.pc /\ to.at = th.at /\ to.fn = th.fn
      /\ to.i = th.i /\ to.x17 = th.x17 /\ to.due = th.due
  BY DEF ThreadOK, Carries, Idle
<1> HIDE DEF to
<1>2. Carries(to) /\ At(to)
  BY <1>1 DEF ThreadOK, Carries, At
<1>3. QED
  BY <1>2 DEF ThreadOK, to

LEMMA UnprotectTableOK ==
  ASSUME InstallInv, UnprotectTable
  PROVE  InstallInv'
<1>1. /\ installer' = [installer EXCEPT !.rw = TRUE]
      /\ UNCHANGED <<g_near_jump_flag, entry, code, slots, transfer, invoke, origin_call, thread>>
  BY DEF UnprotectTable
<1>2. /\ DOMAIN installer' = DOMAIN Idling /\ installer'.hook = installer.hook
      /\ installer'.todo = installer.todo /\ installer'.words = installer.words
  BY <1>1 DEF InstallInv, InstallerOK, Idling
<1>3. InstallerOK'
  BY <1>1, <1>2, SameStepOK DEF Kept, InstallInv, InstallerOK
<1>4. EntriesOK'
  BY <1>1 DEF InstallInv, EntriesOK, EntryOK, SlotFor
<1>5. SlotsOK' /\ Grows
  BY <1>1, KeptOK DEF Kept
<1>6. QED
  BY <1>1, <1>3, <1>4, <1>5, GrowsCode, GrowsThreads DEF InstallInv

LEMMA BeginPatchOK ==
  ASSUME InstallInv, BeginPatch
  PROVE  InstallInv'
<1>1. /\ InstallerAt("active")
      /\ installer' = [installer EXCEPT !.words = DOMAIN Patch(H)]
      /\ thread' = [t \in Threads |->
           [thread[t] EXCEPT !.overlapped =
              @ \/ (InPrologue(thread[t], Target[H]) /\ ~entry[H].near)]]
      /\ UNCHANGED <<g_near_jump_flag, entry, code, slots, transfer, invoke, origin_call>>
  BY DEF BeginPatch
<1>2. /\ DOMAIN installer' = DOMAIN Idling /\ installer'.hook = installer.hook
      /\ installer'.todo = installer.todo /\ installer'.words = DOMAIN Patch(H)
  BY <1>1 DEF InstallInv, InstallerOK, Idling
<1>3. InstallerOK'
  BY <1>1, <1>2, SameStepOK DEF Kept
<1>4. EntriesOK'
  BY <1>1 DEF InstallInv, EntriesOK, EntryOK, SlotFor
<1>5. SlotsOK' /\ Grows
  BY <1>1, KeptOK DEF Kept
<1>6. ThreadsOK'
  <2>1. ASSUME NEW t \in Threads PROVE ThreadOK(thread[t])'
    <3>1. PICK x : x = thread[t] /\ ThreadOK(x)
      BY DEF InstallInv, ThreadsOK
    <3>2. PICK o : thread'[t] = [x EXCEPT !.overlapped = o]
      BY <1>1, <3>1
    <3>3. PICK y : y = thread'[t] /\ ThreadOK(y)
      BY <3>1, <3>2, OverlappedOK
    <3>4. ThreadOK(y)'
      <4>1. /\ \A a : Reach(a) => Reach(a)'
            /\ \A n \in 1..Len(slots) : n \in 1..Len(slots') /\ slots'[n] = slots[n]
        BY <1>5, GrowsReach DEF InstallInv
      <4>2. Carries(y)'
        BY <3>3, <4>1 DEF ThreadOK, Carries
      <4>3. At(y)'
        BY <1>5, <3>3, <4>1, SlotsTyped DEF ThreadOK, At, Grows, InstallInv
      <4>4. QED
        BY <4>2, <4>3 DEF ThreadOK
    <3>5. QED
      BY <3>3, <3>4
  <2>2. QED
    BY <1>1, <2>1 DEF ThreadsOK
<1>7. QED
  BY <1>1, <1>3, <1>4, <1>5, <1>6, GrowsCode DEF InstallInv

LEMMA PatchWordOK ==
  ASSUME InstallInv, PatchWord
  PROVE  InstallInv'
<1>1. InstallerAt("active") /\ UNCHANGED <<g_near_jump_flag, entry, slots, transfer, invoke,
                                            origin_call, thread>>
  BY DEF PatchWord
<1>2. PICK i \in installer.words :
        /\ code' = [code EXCEPT ![Target[H]][i] = Patch(H)[i]]
        /\ installer' = IF installer.words \ {i} # {}
                            THEN [installer EXCEPT !.words = installer.words \ {i}]
                          ELSE IF Len(installer.todo) = 1 THEN Idling
                          ELSE [Advanced EXCEPT !.words = {}]
  BY DEF PatchWord
<1>3. H \in Hooks /\ DOMAIN installer = DOMAIN Idling /\ installer.words \subseteq DOMAIN Patch(H)
  BY <1>1, AtStep DEF InstallInv, InstallerOK
<1>4. InstallerOK'
  <2>1. CASE installer.words \ {i} # {}
    <3>1. /\ DOMAIN installer' = DOMAIN Idling /\ installer'.hook = installer.hook
          /\ installer'.todo = installer.todo /\ installer'.words = installer.words \ {i}
      BY <1>2, <1>3, <2>1 DEF Idling
    <3>2. QED
      BY <1>1, <1>3, <3>1, SameStepOK DEF Kept
  <2>2. CASE installer.words \ {i} = {} /\ Len(installer.todo) = 1
    BY <1>2, <2>2, IdlingOK
  <2>3. CASE installer.words \ {i} = {} /\ Len(installer.todo) # 1
    <3>1. /\ DOMAIN installer' = DOMAIN Idling /\ installer'.hook = installer.hook
          /\ installer'.todo = Tail(installer.todo) /\ installer'.words = {}
      BY <1>2, <1>3, <2>3 DEF Advanced, Idling
    <3>2. \A x : Done(H, x) => Done(H, x)'
      <4>1. H' = H /\ entry' = entry
        BY <1>1, <3>1 DEF H
      <4>2. QED
        BY <4>1 DEF Done
    <3>3. Done(H, "active")'
      BY DEF Done
    <3>4. QED
      BY <1>1, <3>1, <3>2, <3>3, NextStepOK
  <2>4. QED
    BY <2>1, <2>2, <2>3
<1>5. EntriesOK'
  BY <1>1 DEF InstallInv, EntriesOK, EntryOK, SlotFor
<1>6. SlotsOK' /\ Grows /\ \A a : Reach(a) => Reach(a)'
  BY <1>1, KeptOK DEF Kept
<1>7. CodeOK'
  <2>1. PICK w : w = Patch(H)[i] /\ WordOK(w)
    BY <1>1, <1>3, PatchOK
  <2>2. ASSUME NEW f \in Targets
        PROVE  DOMAIN code'[f] = 1..4 /\ \A j \in 1..4 : WordOK(code[f][j])'
    <3>1. /\ DOMAIN code = Targets /\ DOMAIN code[f] = 1..4
          /\ \A j \in 1..4 : WordOK(code[f][j])
      BY DEF InstallInv, CodeOK
    <3>2. DOMAIN code'[f] = 1..4
      BY <1>2, <3>1
    <3>3. ASSUME NEW j \in 1..4 PROVE WordOK(code[f][j])'
      <4>1. PICK x : x = code'[f][j]
        OBVIOUS
      <4>2. x = w \/ x = code[f][j]
        BY <1>2, <2>1, <3>1, <4>1
      <4>3. WordOK(x)
        BY <2>1, <3>1, <4>2
      <4>4. WordOK(x)'
        BY <1>6, <4>3 DEF WordOK
      <4>5. QED
        BY <4>1, <4>4
    <3>4. QED
      BY <3>2, <3>3
  <2>3. DOMAIN code' = Targets
    BY <1>2 DEF InstallInv, CodeOK
  <2>4. QED
    BY <1>1, <2>2, <2>3 DEF InstallInv, CodeOK, RelocatedOK, Reach, Built
<1>8. QED
  BY <1>1, <1>4, <1>5, <1>6, <1>7, GrowsThreads DEF InstallInv

LEMMA StoreOriginCallOK ==
  ASSUME InstallInv, StoreOriginCall
  PROVE  InstallInv'
<1>1. /\ origin_call' = [origin_call EXCEPT ![H] = entry[H].invoke]
      /\ installer' = Idling /\ InstallerAt("origin")
      /\ UNCHANGED <<g_near_jump_flag, entry, code, slots, transfer, invoke, thread>>
  BY DEF StoreOriginCall
<1>2. SlotsOK' /\ Grows
  BY <1>1, KeptOK DEF Kept
<1>3. ASSUME NEW g \in Hooks PROVE EntryOK(g)'
  <2>1. EntryOK(g) /\ origin_call'[g] \in {NULL, Code("invoke", g)}
    BY <1>1, AtStep DEF InstallInv, EntriesOK, EntryOK
  <2>2. QED
    BY <1>1, <2>1 DEF EntryOK, SlotFor
<1>4. EntriesOK'
  BY <1>1, <1>3 DEF InstallInv, EntriesOK
<1>5. InstallerOK'
  BY <1>1, IdlingOK
<1>6. QED
  BY <1>1, <1>2, <1>4, <1>5, GrowsCode, GrowsThreads DEF InstallInv

(* ------------------------------------------------------------------------ *)
(* The theorem                                                                     *)

LEMMA InstallInvInit == Init => InstallInv
<1> SUFFICES ASSUME Init PROVE InstallInv
  OBVIOUS
<1>1. EntriesOK
  <2>1. \A h \in Hooks : EntryOK(h)
    BY DEF Init, EntryOK, NoEntry
  <2>2. QED
    BY <2>1 DEF Init, EntriesOK
<1>2. SlotsOK
  BY DEF Init, SlotsOK
<1>3. CodeOK
  <2>1. \A i \in 1..4 : WordOK(Orig(i))
    BY DEF WordOK, Orig, Inst
  <2>2. QED
    BY <2>1 DEF Init, CodeOK
<1>4. InstallerOK
  BY DEF Init, InstallerOK, Idling
<1>5. ThreadsOK
  BY IdleOK DEF Init, ThreadsOK
<1>6. QED
  BY <1>1, <1>2, <1>3, <1>4, <1>5 DEF InstallInv

LEMMA StutterOK ==
  ASSUME InstallInv, UNCHANGED vars
  PROVE  InstallInv'
<1>1. UNCHANGED <<g_near_jump_flag, installer, entry, code, slots, transfer, invoke,
                  origin_call, thread>>
  BY DEF vars, installVars
<1>2. EntriesOK'
  BY <1>1 DEF InstallInv, EntriesOK, EntryOK, SlotFor
<1>3. SlotsOK' /\ Grows
  BY <1>1, KeptOK DEF Kept
<1>4. InstallerOK'
  BY <1>1, SameStepOK DEF Kept, InstallInv, InstallerOK
<1>5. QED
  BY <1>1, <1>2, <1>3, <1>4, GrowsCode, GrowsThreads DEF InstallInv

LEMMA InstallInvStep == InstallInv /\ [Next]_vars => InstallInv'
<1> SUFFICES ASSUME InstallInv, [Next]_vars PROVE InstallInv'
  OBVIOUS
<1>1. CASE zz_enable_near_jump \/ zz_disable_near_jump
  BY <1>1, FlagOK
<1>2. CASE \E h \in Hooks : BeginHook(h)
  BY <1>2, BeginHookOK
<1>3. CASE Build
  <2>1. CASE UnprotectTable
    BY <2>1, UnprotectTableOK
  <2>2. CASE BuildForEnter \/ BuildForLeave \/ BuildForDBI
    BY <2>2, BindClosureOK DEF BuildForEnter, BuildForLeave, BuildForDBI
  <2>3. CASE BuildForEnterTransfer
    BY <2>3, BuildForEnterTransferOK
  <2>4. CASE BuildForInvoke
    BY <2>4, BuildForInvokeOK
  <2>5. CASE BeginPatch
    BY <2>5, BeginPatchOK
  <2>6. CASE PatchWord
    BY <2>6, PatchWordOK
  <2>7. CASE StoreOriginCall
    BY <2>7, StoreOriginCallOK
  <2>8. QED
    BY <1>3, <2>1, <2>2, <2>3, <2>4, <2>5, <2>6, <2>7 DEF Build
<1>4. CASE \E t \in Threads : Run(t) \/ \E f \in Targets : Call(t, f)
  BY <1>4, RunOK, CallOK
<1>5. CASE UNCHANGED vars
  BY <1>5, StutterOK
<1>6. QED
  BY <1>1, <1>2, <1>3, <1>4, <1>5 DEF Next

(***************************************************************************)
(* Whatever functions are hooked, in whatever order, and however many      *)
(* threads call them meanwhile: no thread branches to a trampoline that    *)
(* has no address yet, because build_all writes every piece before the     *)
(* ones that lead to it, and active() comes after all of them.             *)
(***************************************************************************)
THEOREM NoNullTrampoline == Spec => []TrampolinesBuilt
<1>1. InstallInv => TrampolinesBuilt
  BY DEF InstallInv, ThreadsOK, ThreadOK, At, TrampolinesBuilt
<1>2. QED
  BY <1>1, InstallInvInit, InstallInvStep, PTL DEF Spec

(* ------------------------------------------------------------------------ *)
(* The order of the hooks, and what is run of the instructions they replaced     *)

\* A patch of four words is being written over f
Halfway(f) == installer.words # {} /\ Target[H] = f /\ ~entry[H].near

Hooked == ToSet(hook_entries)
On(f) == {h \in active : Target[h] = f}
Live(h) == h \in active \/ (installer.words # {} /\ h = H)

\* Hook h is the last one, or the first one, of its target; g is the one before h
Top(h) == h \in active /\ \A g \in On(Target[h]) : g = h \/ Earlier(g, h)
First(h) == \A g \in Hooked : Target[g] = Target[h] => ~Earlier(g, h)
Below(g, h) ==
  /\ g \in active /\ Target[g] = Target[h] /\ Earlier(g, h)
  /\ \A k \in Hooked : Target[k] = Target[h] /\ Earlier(k, h) => k = g \/ Earlier(k, g)

\* All the trampolines that hook h needs are there
Complete(h) ==
  /\ entry[h].invoke # NULL
  /\ entry[h].near \/ Type[h] = "REPLACE" => entry[h].transfer # NULL
  /\ Type[h] = "PRE_POST" => entry[h].enter # NULL
  /\ Type[h] = "DBI" => entry[h].dbi # NULL

\* Only near jumps whose cave is above are hooked again
StackOK ==
  \A g, h \in Hooked :
    Target[g] = Target[h] /\ Earlier(g, h) => entry[g].near /\ entry[h].near /\ g \in CaveAbove

HooksOK ==
  /\ hook_entries \in Seq(Hooks)
  /\ \A i, j \in 1..Len(hook_entries) : hook_entries[i] = hook_entries[j] => i = j
  /\ active \subseteq Hooked
  /\ \A h \in active : Complete(h)
  /\ StackOK

\* Only the newest hook is being installed, and it becomes active at "active"
CurrentOK ==
  /\ installer.todo = << >> => active = Hooked
  /\ installer.todo # << >> =>
       /\ Len(hook_entries) # 0 /\ H = hook_entries[Len(hook_entries)]
       /\ active = IF InstallerAt("origin") THEN Hooked ELSE Hooked \ {H}

\* Where the transfer trampoline of h leads, and the closures that its entry names
SlotOf(h, handlers, a) ==
  \E n \in 1..Len(slots) : a = Slot(n) /\ slots[n].hook = h /\ slots[n].handler \in handlers
DestOK(h, a) ==
  IF Type[h] = "REPLACE" THEN a = Code("replace", h) ELSE SlotOf(h, {"enter", "dbi"}, a)
DestsOK ==
  \A h \in Hooks :
    /\ entry[h].enter # NULL => SlotOf(h, {"enter"}, entry[h].enter)
    /\ entry[h].leave # NULL => SlotOf(h, {"leave"}, entry[h].leave)
    /\ entry[h].dbi # NULL => SlotOf(h, {"dbi"}, entry[h].dbi)
    /\ transfer[h] # NULL => DestOK(h, transfer[h])
    /\ origin_call[h] # NULL => entry[h].invoke # NULL

\* What on_invoke_trampoline does: the function's own instructions, or the hook before
InvokeOK(h) ==
  \/ /\ First(h)
     /\ Len(invoke[h]) = Limit(h) /\ \A i \in 1..Limit(h) : invoke[h][i] = Orig(i)
  \/ \E g \in Hooks : /\ entry[h].near /\ Below(g, h)
                      /\ Len(invoke[h]) = 1
                      /\ invoke[h][1] = Inst("jump", Code("transfer", g))
InvokesOK == \A h \in Hooks : entry[h].invoke # NULL => h \in Hooked /\ InvokeOK(h)

\* The first words of a target: its own, with a branch to the newest hook over the
\* first one, or a long patch, of which some words may still be missing
Plain(f) == ~Halfway(f) /\ \A h \in On(f) : entry[h].near
PlainOK(f) ==
  /\ \A i \in 2..4 : code[f][i] = Orig(i)
  /\ \/ On(f) = {} /\ code[f][1] = Orig(1)
     \/ \E h \in On(f) : Top(h) /\ code[f][1] = Inst("b", Code("transfer", h))
LongAddr(h) == IF Type[h] = "REPLACE" THEN entry[h].transfer ELSE Destination(h)
LongOK(f, h, left) ==
  /\ code[f][1] = IF 1 \in left THEN Orig(1) ELSE LdrX17
  /\ code[f][2] = IF 2 \in left THEN Orig(2) ELSE BrX17
  /\ code[f][3] = IF 3 \in left THEN Orig(3) ELSE Lo(LongAddr(h))
  /\ code[f][4] = IF 4 \in left THEN Orig(4) ELSE Hi(LongAddr(h))
ShapeOK(f) ==
  \/ Plain(f) /\ PlainOK(f)
  \/ Halfway(f) /\ On(f) = {} /\ LongOK(f, H, installer.words)
  \/ \E h \in active : ~Halfway(f) /\ On(f) = {h} /\ ~entry[h].near /\ LongOK(f, h, {})
ShapesOK == \A f \in Targets : ShapeOK(f)

\* The first n instructions
Upto(n) == [k \in 1..n |-> k]
Ran(th, n) == th.overlapped \/ th.ran = Upto(n)
Seen(th) == th.sees \subseteq ToSet(th.through)

\* The thread comes to hook h next
ToMeet(th, h) ==
  /\ h \in Hooks /\ Live(h) /\ Target[h] = th.fn
  /\ \A i \in 1..Len(th.through) : Earlier(h, th.through[i])
  /\ \A g \in th.sees \ ToSet(th.through) : g = h \/ Earlier(g, h)
  /\ Ran(th, 0)

\* The thread has come through hook h
Passed(th, h) ==
  /\ h \in Hooks /\ Live(h) /\ Target[h] = th.fn /\ entry[h].invoke # NULL
  /\ Len(th.through) # 0 /\ th.through[Len(th.through)] = h
  /\ \A g \in th.sees \ ToSet(th.through) : Earlier(g, h)
  /\ th.i \in 1..Len(invoke[h]) + 1
  /\ Ran(th, th.i - 1)
  /\ ~First(h) => th.i = 1

\* At word i of its function: first of all; among its own instructions; with the
\* address that the long patch of h loads
AtFirst(th) == th.i = 1 /\ th.x17 = NULL /\ th.through = << >> /\ Ran(th, 0)
AtOwn(th) ==
  /\ th.i \in 2..4 /\ th.x17 \in {NULL, Stray} /\ Seen(th)
  /\ Ran(th, th.i - 1) /\ (th.overlapped \/ Plain(th.fn))
AtLong(th, h) ==
  /\ ToMeet(th, h) /\ ~entry[h].near
  /\ th.x17 = LongAddr(h) /\ code[th.fn][3] = Lo(th.x17)
  /\ th.i = 2 \/ (th.i = 3 /\ th.overlapped)

CallOrder(th) ==
  /\ th.through \in Seq(Hooks)
  /\ \A i \in 1..Len(th.through) : th.through[i] \in Hooked /\ Target[th.through[i]] = th.fn
  /\ \A i, j \in 1..Len(th.through) : i < j => Earlier(th.through[j], th.through[i])
  /\ \A g \in th.sees : g \in On(th.fn)
  /\ \A i \in 1..Len(th.due) : \E h \in Hooks : SlotOf(h, {"leave"}, th.due[i])
  /\ th.overlapped \in BOOLEAN

CallAt(th) ==
  /\ th.pc = "word" =>
       /\ AtFirst(th) \/ AtOwn(th) \/ \E h \in Hooks : AtLong(th, h)
       /\ Halfway(th.fn) => th.overlapped
  /\ th.pc = "body" => Seen(th) /\ Ran(th, 4)
  /\ th.pc \in {"transfer", "replace"} => ToMeet(th, th.at)
  /\ th.pc = "slot" /\ slots[th.at].handler # "leave" => ToMeet(th, slots[th.at].hook)
  /\ th.pc = "invoke" => Passed(th, th.at)
  /\ th.pc \in {"torn", "stray"} => th.overlapped

PathOK(th) == CallOrder(th) /\ CallAt(th)
PathsOK == \A t \in Threads : PathOK(thread[t])

OrderInv == HooksOK /\ CurrentOK /\ DestsOK /\ InvokesOK /\ ShapesOK /\ PathsOK

(* ------------------------------------------------------------------------ *)
(* Who was hooked earlier                                                          *)

LEMMA EntriesTyped ==
  ASSUME HooksOK
  PROVE  /\ Len(hook_entries) \in Nat /\ DOMAIN hook_entries = 1..Len(hook_entries)
         /\ \A i \in 1..Len(hook_entries) : hook_entries[i] \in Hooks
         /\ \A h : h \in Hooked <=> \E i \in 1..Len(hook_entries) : hook_entries[i] = h
         /\ Hooked \subseteq Hooks
  BY LenProperties, ElementOfSeq DEF HooksOK, Hooked, ToSet

LEMMA EarlierHooked ==
  ASSUME HooksOK, NEW a, NEW b, Earlier(a, b)
  PROVE  a \in Hooked /\ b \in Hooked /\ a # b /\ ~Earlier(b, a)
<1>1. PICK i, j \in 1..Len(hook_entries) : i < j /\ hook_entries[i] = a /\ hook_entries[j] = b
  BY DEF Earlier
<1>2. Len(hook_entries) \in Nat /\ a \in Hooked /\ b \in Hooked
  BY <1>1, EntriesTyped
<1>3. \A k, l \in 1..Len(hook_entries) : hook_entries[k] = hook_entries[l] => k = l
  BY DEF HooksOK
<1>4. a # b
  BY <1>1, <1>2, <1>3
<1>5. ASSUME Earlier(b, a) PROVE FALSE
  <2>1. PICK k, l \in 1..Len(hook_entries) : k < l /\ hook_entries[k] = b /\ hook_entries[l] = a
    BY <1>5 DEF Earlier
  <2>2. k = j /\ l = i
    BY <1>1, <1>3, <2>1
  <2>3. QED
    BY <1>1, <1>2, <2>1, <2>2
<1>6. QED
  BY <1>2, <1>4, <1>5

LEMMA EarlierTransitive ==
  ASSUME HooksOK, NEW a, NEW b, NEW c, Earlier(a, b), Earlier(b, c)
  PROVE  Earlier(a, c)
<1>1. PICK i, j \in 1..Len(hook_entries) : i < j /\ hook_entries[i] = a /\ hook_entries[j] = b
  BY DEF Earlier
<1>2. PICK k, l \in 1..Len(hook_entries) : k < l /\ hook_entries[k] = b /\ hook_entries[l] = c
  BY DEF Earlier
<1>3. j = k
  BY <1>1, <1>2 DEF HooksOK
<1>4. i < l
  BY <1>1, <1>2, <1>3, EntriesTyped
<1>5. QED
  BY <1>1, <1>2, <1>4 DEF Earlier

LEMMA EarlierTotal ==
  ASSUME HooksOK, NEW a \in Hooked, NEW b \in Hooked, a # b
  PROVE  Earlier(a, b) \/ Earlier(b, a)
<1>1. PICK i, j \in 1..Len(hook_entries) : hook_entries[i] = a /\ hook_entries[j] = b
  BY EntriesTyped
<1>2. i < j \/ j < i
  BY <1>1, EntriesTyped
<1>3. QED
  BY <1>1, <1>2 DEF Earlier

LEMMA NewestLast ==
  ASSUME HooksOK, Len(hook_entries) # 0, NEW h, h = hook_entries[Len(hook_entries)]
  PROVE  /\ h \in Hooked
         /\ \A g \in Hooked : g = h \/ Earlier(g, h)
<1>1. Len(hook_entries) \in 1..Len(hook_entries)
  BY EntriesTyped
<1>2. ASSUME NEW g \in Hooked, g # h PROVE Earlier(g, h)
  <2>1. PICK i \in 1..Len(hook_entries) : hook_entries[i] = g
    BY EntriesTyped
  <2>2. i < Len(hook_entries)
    BY <1>2, <2>1, EntriesTyped
  <2>3. QED
    BY <1>1, <2>1, <2>2 DEF Earlier
<1>3. QED
  BY <1>1, <1>2, EntriesTyped

\* One more is hooked
LEMMA OneMore ==
  ASSUME HooksOK, NEW h \in Hooks, h \notin Hooked, hook_entries' = Append(hook_entries, h)
  PROVE  /\ hook_entries' \in Seq(Hooks)
         /\ \A i, j \in 1..Len(hook_entries') : hook_entries'[i] = hook_entries'[j] => i = j
         /\ Len(hook_entries') # 0 /\ hook_entries'[Len(hook_entries')] = h
         /\ Hooked' = Hooked \cup {h}
         /\ \A a, b : Earlier(a, b)' <=> Earlier(a, b) \/ (a \in Hooked /\ b = h)
<1> DEFINE s == hook_entries
           n == Len(s)
<1>1. /\ s' \in Seq(Hooks) /\ Len(s') = n + 1 /\ n \in Nat
      /\ \A i \in 1..n : s'[i] = s[i]
      /\ s'[n + 1] = h
  BY AppendProperties, EntriesTyped DEF HooksOK
<1>2. \A i \in 1..n + 1 : i = n + 1 \/ i \in 1..n
  BY <1>1
<1>3. \A i \in 1..n : i \in 1..n + 1 /\ s[i] # h
  BY <1>1, EntriesTyped
<1>4. n + 1 \in 1..n + 1 /\ \A i \in 1..n : i < n + 1 /\ ~(n + 1 < i)
  BY <1>1
<1>5. DOMAIN s' = 1..n + 1
  BY <1>1, LenProperties
<1>6. \A i, j \in 1..n : s[i] = s[j] => i = j
  BY DEF HooksOK
<1> HIDE DEF n
<1>7. \A i, j \in 1..n + 1 : s'[i] = s'[j] => i = j
  BY <1>1, <1>2, <1>3, <1>6
<1>8. Hooked' = Hooked \cup {h}
  <2>1. \A x : x \in Hooked' <=> \E i \in 1..n + 1 : s'[i] = x
    BY <1>5 DEF Hooked, ToSet
  <2>2. \A x : x \in Hooked <=> \E i \in 1..n : s[i] = x
    BY EntriesTyped DEF n
  <2>3. \A x : x \in Hooked' <=> x \in Hooked \/ x = h
    BY <1>1, <1>2, <1>3, <1>4, <2>1, <2>2
  <2>4. QED
    BY <2>3
<1>9. ASSUME NEW a, NEW b PROVE Earlier(a, b)' <=> Earlier(a, b) \/ (a \in Hooked /\ b = h)
  <2>1. Earlier(a, b)' <=> \E i, j \in 1..n + 1 : i < j /\ s'[i] = a /\ s'[j] = b
    BY <1>1 DEF Earlier
  <2>2. Earlier(a, b) <=> \E i, j \in 1..n : i < j /\ s[i] = a /\ s[j] = b
    BY DEF Earlier, n
  <2>3. a \in Hooked <=> \E i \in 1..n : s[i] = a
    BY EntriesTyped DEF n
  <2>4. ~(n + 1 < n + 1)
    BY <1>1
  <2>5. ASSUME Earlier(a, b)' PROVE Earlier(a, b) \/ (a \in Hooked /\ b = h)
    <3>1. PICK i, j \in 1..n + 1 : i < j /\ s'[i] = a /\ s'[j] = b
      BY <2>1, <2>5
    <3>2. i \in 1..n
      BY <1>2, <1>4, <2>4, <3>1
    <3>3. QED
      BY <1>1, <1>2, <2>2, <2>3, <3>1, <3>2
  <2>6. Earlier(a, b) => Earlier(a, b)'
    BY <1>1, <1>3, <2>1, <2>2
  <2>7. a \in Hooked /\ b = h => Earlier(a, b)'
    BY <1>1, <1>3, <1>4, <2>1, <2>3
  <2>8. QED
    BY <2>5, <2>6, <2>7
<1>10. QED
  BY <1>1, <1>4, <1>7, <1>8, <1>9 DEF n

(* ------------------------------------------------------------------------ *)
(* What a thread has run                                                           *)

LEMMA RanTo ==
  /\ << >> = Upto(0)
  /\ \A n \in Nat : Append(Upto(n), n + 1) = Upto(n + 1)
  /\ Upto(4) = <<1, 2, 3, 4>>
<1>1. << >> = Upto(0)
  BY DEF Upto
<1>2. ASSUME NEW n \in Nat PROVE Append(Upto(n), n + 1) = Upto(n + 1)
  <2>1. Upto(n) \in Seq(Nat) /\ Len(Upto(n)) = n
    BY DEF Upto
  <2>2. /\ Append(Upto(n), n + 1) \in Seq(Nat)
        /\ Len(Append(Upto(n), n + 1)) = n + 1
        /\ \A i \in 1..n : Append(Upto(n), n + 1)[i] = Upto(n)[i]
        /\ Append(Upto(n), n + 1)[n + 1] = n + 1
    BY <2>1, AppendProperties
  <2>3. Upto(n + 1) \in Seq(Nat) /\ Len(Upto(n + 1)) = n + 1
    BY DEF Upto
  <2>4. ASSUME NEW i \in 1..n + 1 PROVE Append(Upto(n), n + 1)[i] = Upto(n + 1)[i]
    <3>1. Upto(n + 1)[i] = i
      BY DEF Upto
    <3>2. CASE i = n + 1
      BY <2>2, <3>1, <3>2
    <3>3. CASE i # n + 1
      <4>1. i \in 1..n
        BY <3>3
      <4>2. QED
        BY <2>2, <3>1, <4>1 DEF Upto
    <3>4. QED
      BY <3>2, <3>3
  <2>5. QED
    BY <2>2, <2>3, <2>4, SeqEqual
<1>3. Upto(4) = <<1, 2, 3, 4>>
  <2>1. Upto(4) \in Seq(Nat) /\ Len(Upto(4)) = 4 /\ \A i \in 1..4 : Upto(4)[i] = i
    BY DEF Upto
  <2>2. DEFINE s == <<1, 2, 3, 4>>
  <2>3. s \in Seq(Nat) /\ Len(s) = 4 /\ s[1] = 1 /\ s[2] = 2 /\ s[3] = 3 /\ s[4] = 4
    OBVIOUS
  <2> HIDE DEF s
  <2>4. \A i \in 1..4 : i = 1 \/ i = 2 \/ i = 3 \/ i = 4
    OBVIOUS
  <2>5. \A i \in 1..4 : Upto(4)[i] = s[i]
    BY <2>1, <2>3, <2>4
  <2>6. Upto(4) = s
    BY <2>1, <2>3, <2>5, SeqEqual
  <2>7. QED
    BY <2>6 DEF s
<1>4. QED
  BY <1>1, <1>2, <1>3

(* ------------------------------------------------------------------------ *)
(* Where the trampolines of a hook lead                                            *)

\* A hook that a thread can come to is built
LEMMA LiveIs ==
  ASSUME InstallInv, OrderInv, NEW h, Live(h)
  PROVE  h \in Hooks /\ h \in Hooked /\ Complete(h)
<1>1. HooksOK /\ CurrentOK
  BY DEF OrderInv
<1>2. CASE h \in active
  BY <1>1, <1>2, EntriesTyped DEF HooksOK
<1>3. CASE installer.words # {} /\ h = H
  <2>1. InstallerAt("active")
    BY <1>3 DEF InstallInv, InstallerOK
  <2>2. Complete(H)
    BY <2>1, AtStep DEF Complete
  <2>3. H \in Hooked
    <3>1. Len(hook_entries) # 0 /\ H = hook_entries[Len(hook_entries)]
      BY <1>1, <2>1 DEF CurrentOK, InstallerAt
    <3>2. QED
      BY <1>1, <3>1, NewestLast
  <2>4. QED
    BY <1>1, <1>3, <2>2, <2>3, EntriesTyped
<1>4. QED
  BY <1>2, <1>3 DEF Live

\* From there a call of the target comes to hook h
Leads(h, a) ==
  a = Code("transfer", h) \/ a = Code("replace", h) \/ SlotOf(h, {"enter", "dbi"}, a)

LEMMA LongLeads ==
  ASSUME InstallInv, OrderInv, NEW h, Live(h), ~entry[h].near
  PROVE  Leads(h, LongAddr(h))
<1>1. h \in Hooks /\ Complete(h)
  BY LiveIs
<1>2. EntryOK(h)
  BY <1>1 DEF InstallInv, EntriesOK
<1>3. Type[h] = "PRE_POST" \/ Type[h] = "REPLACE" \/ Type[h] = "DBI"
  BY <1>1, HooksAssumption DEF HookType
<1>4. CASE Type[h] = "PRE_POST"
  <2>1. LongAddr(h) = entry[h].enter /\ SlotOf(h, {"enter"}, entry[h].enter)
    BY <1>1, <1>4 DEF LongAddr, Destination, Complete, OrderInv, DestsOK
  <2>2. QED
    BY <2>1 DEF Leads, SlotOf
<1>5. CASE Type[h] = "DBI"
  <2>1. LongAddr(h) = entry[h].dbi /\ SlotOf(h, {"dbi"}, entry[h].dbi)
    BY <1>1, <1>5 DEF LongAddr, Destination, Complete, OrderInv, DestsOK
  <2>2. QED
    BY <2>1 DEF Leads, SlotOf
<1>6. CASE Type[h] = "REPLACE"
  BY <1>1, <1>2, <1>6 DEF LongAddr, Complete, EntryOK, Leads
<1>7. QED
  BY <1>3, <1>4, <1>5, <1>6

LEMMA TransferLeads ==
  ASSUME OrderInv, NEW h \in Hooks, transfer[h] # NULL
  PROVE  Leads(h, transfer[h])
  BY DEF OrderInv, DestsOK, DestOK, Leads

LEMMA LeadsSomewhere ==
  ASSUME SlotsOK, NEW h \in Hooks, NEW a, Leads(h, a)
  PROVE  a # NULL /\ a # Stray
<1>1. CASE a = Code("transfer", h) \/ a = Code("replace", h)
  BY <1>1, NullIsNoAddress DEF Code, Stray
<1>2. CASE SlotOf(h, {"enter", "dbi"}, a)
  BY <1>2, SlotsTyped, NullIsNoAddress DEF SlotOf, Slot, Stray
<1>3. QED
  BY <1>1, <1>2 DEF Leads

(* ------------------------------------------------------------------------ *)
(* Where a thread goes                                                             *)

\* What a jump leaves as it is
SameCall(to, th) ==
  /\ DOMAIN to = DOMAIN Idle
  /\ to.fn = th.fn /\ to.sees = th.sees /\ to.through = th.through
  /\ to.ran = th.ran /\ to.overlapped = th.overlapped /\ to.due = th.due

LEMMA GotoIs ==
  ASSUME NEW th, DOMAIN th = DOMAIN Idle, NEW a, a # NULL
  PROVE  /\ SameCall(Goto(th, a), th)
         /\ Goto(th, a).pc = a[1] /\ Goto(th, a).at = a[2] /\ Goto(th, a).i = 1
         /\ Goto(th, a).x17 = th.x17
<1>1. Goto(th, a) = [th EXCEPT !.pc = a[1], !.at = a[2], !.i = 1]
  BY DEF Goto
<1>2. QED
  BY <1>1 DEF SameCall, Idle

LEMMA AtWordIs ==
  ASSUME NEW th, DOMAIN th = DOMAIN Idle, NEW i \in Nat
  PROVE  /\ SameCall(AtWord(th, i), th)
         /\ i > 4 => AtWord(th, i).pc = "body"
         /\ ~(i > 4) => AtWord(th, i).pc = "word" /\ AtWord(th, i).i = i
         /\ AtWord(th, i).x17 = th.x17
<1>1. CASE i > 4
  <2>1. AtWord(th, i) = [th EXCEPT !.pc = "body", !.i = 0]
    BY <1>1 DEF AtWord
  <2>2. QED
    BY <1>1, <2>1 DEF SameCall, Idle
<1>2. CASE ~(i > 4)
  <2>1. AtWord(th, i) = [th EXCEPT !.pc = "word", !.i = i]
    BY <1>2 DEF AtWord
  <2>2. QED
    BY <1>2, <2>1 DEF SameCall, Idle
<1>3. QED
  BY <1>1, <1>2

LEMMA LoadIs ==
  ASSUME NEW th, DOMAIN th = DOMAIN Idle, NEW v
  PROVE  LET to == [th EXCEPT !.x17 = v]
         IN  SameCall(to, th) /\ to.x17 = v /\ to.i = th.i /\ to.pc = th.pc /\ to.at = th.at
  BY DEF SameCall, Idle

LEMMA StopIs ==
  ASSUME NEW th, DOMAIN th = DOMAIN Idle, NEW pc
  PROVE  LET to == [th EXCEPT !.pc = pc] IN SameCall(to, th) /\ to.pc = pc
  BY DEF SameCall, Idle

\* A thread that came by the same way
LEMMA SameOrder ==
  ASSUME NEW th, NEW to, SameCall(to, th)
  PROVE  /\ CallOrder(th) => CallOrder(to)
         /\ \A h : ToMeet(th, h) => ToMeet(to, h)
         /\ Seen(th) => Seen(to)
         /\ \A n : Ran(th, n) => Ran(to, n)
<1>1. CallOrder(th) => CallOrder(to)
  BY DEF SameCall, CallOrder
<1>2. \A n : Ran(th, n) => Ran(to, n)
  BY DEF SameCall, Ran
<1>3. \A h : ToMeet(th, h) => ToMeet(to, h)
  BY <1>2 DEF SameCall, ToMeet
<1>4. Seen(th) => Seen(to)
  BY DEF SameCall, Seen
<1>5. QED
  BY <1>1, <1>2, <1>3, <1>4

\* A thread that comes to hook h
LEMMA ArriveOK ==
  ASSUME SlotsOK, NEW th, DOMAIN th = DOMAIN Idle, CallOrder(th),
         NEW h \in Hooks, ToMeet(th, h), NEW a, Leads(h, a)
  PROVE  PathOK(Goto(th, a))
<1> DEFINE to == Goto(th, a)
<1>1. a # NULL
  BY LeadsSomewhere
<1>2. SameCall(to, th) /\ to.pc = a[1] /\ to.at = a[2]
  BY <1>1, GotoIs
<1> HIDE DEF to
<1>3. CallOrder(to) /\ ToMeet(to, h)
  BY <1>2, SameOrder
<1>4. CASE a = Code("transfer", h) \/ a = Code("replace", h)
  <2>1. to.pc \in {"transfer", "replace"} /\ to.at = h
    BY <1>2, <1>4 DEF Code
  <2>2. QED
    BY <1>3, <2>1 DEF PathOK, CallAt, to
<1>5. CASE SlotOf(h, {"enter", "dbi"}, a)
  <2>1. to.pc = "slot" /\ slots[to.at].hook = h
    BY <1>2, <1>5 DEF SlotOf, Slot
  <2>2. QED
    BY <1>3, <2>1 DEF PathOK, CallAt, to
<1>6. QED
  BY <1>4, <1>5 DEF Leads

\* A thread that stops
LEMMA StopOK ==
  ASSUME NEW th, DOMAIN th = DOMAIN Idle, CallOrder(th), NEW pc,
         pc \in {"fault", "no_origin"} \/ (pc = "torn" /\ th.overlapped)
  PROVE  PathOK([th EXCEPT !.pc = pc])
<1> DEFINE to == [th EXCEPT !.pc = pc]
<1>1. SameCall(to, th) /\ to.pc = pc
  BY StopIs
<1> HIDE DEF to
<1>2. CallOrder(to) /\ to.overlapped = th.overlapped
  BY <1>1, SameOrder DEF SameCall
<1>3. QED
  BY <1>1, <1>2 DEF PathOK, CallAt, to

LEMMA IdlePath == PathOK(Idle)
<1>1. Idle.through \in Seq(Hooks) /\ Len(Idle.through) = 0 /\ Len(Idle.due) = 0
  BY DEF Idle
<1>2. CallOrder(Idle)
  BY <1>1 DEF CallOrder, Idle
<1>3. CallAt(Idle)
  BY DEF CallAt, Idle
<1>4. QED
  BY <1>2, <1>3 DEF PathOK

\* Back from the function, or to the last on_leave_trampoline
LEMMA LeavePath ==
  ASSUME SlotsOK, NEW th, DOMAIN th = DOMAIN Idle, CallOrder(th),
         Len(th.due) \in Nat, th.due = << >> \/ Len(th.due) # 0
  PROVE  PathOK(Leave(th))
<1>1. CASE th.due = << >>
  BY <1>1, IdlePath DEF Leave
<1>2. CASE th.due # << >>
  <2> DEFINE a == th.due[Len(th.due)]
             to == Goto(th, a)
  <2>1. Leave(th) = to
    BY <1>2 DEF Leave, Last
  <2>2. Len(th.due) \in 1..Len(th.due)
    BY <1>2
  <2>3. PICK h \in Hooks : SlotOf(h, {"leave"}, a)
    BY <2>2 DEF CallOrder
  <2>4. PICK n \in 1..Len(slots) : a = Slot(n) /\ slots[n].handler = "leave"
    BY <2>3 DEF SlotOf
  <2>5. a # NULL
    BY <2>4, SlotsTyped, NullIsNoAddress
  <2> HIDE DEF a
  <2>6. SameCall(to, th) /\ to.pc = a[1] /\ to.at = a[2]
    BY <2>5, GotoIs
  <2> HIDE DEF to
  <2>7. to.pc = "slot" /\ slots[to.at].handler = "leave" /\ CallOrder(to)
    BY <2>4, <2>6, SameOrder DEF Slot
  <2>8. QED
    BY <2>1, <2>7 DEF PathOK, CallAt
<1>3. QED
  BY <1>1, <1>2

(* ------------------------------------------------------------------------ *)
(* The steps of a thread                                                           *)

\* Nothing that a call depends on changes
LEMMA StillOK ==
  ASSUME OrderInv,
         UNCHANGED <<hook_entries, entry, code, slots, transfer, invoke, origin_call, active>>,
         installer'.hook = installer.hook, installer'.todo = installer.todo,
         installer'.words = installer.words
  PROVE  /\ HooksOK' /\ CurrentOK' /\ DestsOK' /\ InvokesOK' /\ ShapesOK'
         /\ \A th : PathOK(th) => PathOK(th)'
<1>1. /\ H' = H /\ Hooked' = Hooked /\ InstallerAt("origin")' = InstallerAt("origin")
      /\ \A f : On(f)' = On(f) /\ (Halfway(f)' <=> Halfway(f))
      /\ \A g, h : Earlier(g, h)' <=> Earlier(g, h)
      /\ \A h : /\ Live(h)' <=> Live(h)
                /\ Complete(h)' <=> Complete(h)
                /\ LongAddr(h)' = LongAddr(h)
      /\ \A h, s, a : SlotOf(h, s, a)' <=> SlotOf(h, s, a)
  BY DEF H, Hooked, InstallerAt, On, Halfway, Earlier, Live, Complete, LongAddr,
         Destination, SlotOf
<1>2. HooksOK'
  BY <1>1 DEF OrderInv, HooksOK, StackOK
<1>3. CurrentOK'
  BY <1>1 DEF OrderInv, CurrentOK
<1>4. DestsOK'
  BY <1>1 DEF OrderInv, DestsOK, DestOK
<1>5. \A h : First(h)' <=> First(h)
  BY <1>1 DEF First
<1>6. InvokesOK'
  <2>1. \A g, h : Below(g, h)' <=> Below(g, h)
    BY <1>1 DEF Below
  <2>2. QED
    BY <1>1, <1>5, <2>1 DEF OrderInv, InvokesOK, InvokeOK, Limit
<1>7. \A f : Plain(f)' <=> Plain(f)
  BY <1>1 DEF Plain
<1>8. ShapesOK'
  <2>1. \A h : Top(h)' <=> Top(h)
    BY <1>1 DEF Top
  <2>2. \A f : PlainOK(f)' <=> PlainOK(f)
    BY <1>1, <2>1 DEF PlainOK
  <2>3. \A f, h, left : LongOK(f, h, left)' <=> LongOK(f, h, left)
    BY <1>1 DEF LongOK
  <2>4. ASSUME NEW f \in Targets PROVE ShapeOK(f)'
    <3>1. ShapeOK(f)
      BY DEF OrderInv, ShapesOK
    <3>2. QED
      BY <1>1, <1>7, <2>2, <2>3, <3>1 DEF ShapeOK
  <2>5. QED
    BY <2>4 DEF ShapesOK
<1>9. ASSUME NEW th, PathOK(th) PROVE PathOK(th)'
  <2>1. CallOrder(th)'
    BY <1>1, <1>9 DEF PathOK, CallOrder
  <2>2. \A h : ToMeet(th, h) => ToMeet(th, h)'
    BY <1>1 DEF ToMeet, Ran
  <2>3. \A h : Passed(th, h) => Passed(th, h)'
    BY <1>1, <1>5 DEF Passed, Ran
  <2>4. AtOwn(th) => AtOwn(th)'
    BY <1>7 DEF AtOwn, Seen, Ran
  <2>5. \A h : AtLong(th, h) => AtLong(th, h)'
    BY <1>1, <2>2 DEF AtLong
  <2>6. CallAt(th)'
    BY <1>1, <1>9, <2>2, <2>3, <2>4, <2>5
       DEF PathOK, CallAt, AtFirst, Seen, Ran
  <2>7. QED
    BY <2>1, <2>6 DEF PathOK
<1>10. QED
  BY <1>2, <1>3, <1>4, <1>6, <1>8, <1>9

LEMMA ExecuteOrder ==
  ASSUME OrderInv, DOMAIN thread = Threads, NEW t \in Threads, NEW to, PathOK(to),
         Execute(t, to)
  PROVE  OrderInv'
<1>1. /\ thread' = [thread EXCEPT ![t] = to]
      /\ UNCHANGED <<installer, hook_entries, entry, code, slots, transfer, invoke,
                     origin_call, active>>
  BY DEF Execute, installVars
<1>2. /\ HooksOK' /\ CurrentOK' /\ DestsOK' /\ InvokesOK' /\ ShapesOK'
      /\ \A th : PathOK(th) => PathOK(th)'
  BY <1>1, StillOK
<1>3. PathsOK'
  <2>1. ASSUME NEW u \in Threads PROVE PathOK(thread[u])'
    <3>1. PICK x : x = thread'[u] /\ PathOK(x)
      BY <1>1 DEF OrderInv, PathsOK
    <3>2. PathOK(x)'
      BY <1>2, <3>1
    <3>3. QED
      BY <3>1, <3>2
  <2>2. QED
    BY <2>1 DEF PathsOK
<1>4. QED
  BY <1>2, <1>3 DEF OrderInv

\* What is known of a thread before its step
LEMMA ThreadIs ==
  ASSUME InstallInv, OrderInv, NEW t \in Threads
  PROVE  /\ DOMAIN thread = Threads /\ SlotsOK /\ HooksOK
         /\ DOMAIN thread[t] = DOMAIN Idle
         /\ At(thread[t])
         /\ Len(thread[t].due) \in Nat
         /\ thread[t].due = [i \in 1..Len(thread[t].due) |-> thread[t].due[i]]
         /\ CallOrder(thread[t]) /\ CallAt(thread[t])
  BY DEF InstallInv, ThreadsOK, ThreadOK, Carries, OrderInv, PathsOK, PathOK

LEMMA CallOrders ==
  ASSUME InstallInv, OrderInv, NEW t \in Threads, NEW f \in Targets, Call(t, f)
  PROVE  OrderInv'
<1> DEFINE to == [Idle EXCEPT !.pc = "word", !.fn = f, !.i = 1,
                              !.sees = {h \in active : Target[h] = f},
                              !.overlapped = HalfPatched(f)]
<1>1. /\ to.pc = "word" /\ to.fn = f /\ to.i = 1 /\ to.x17 = NULL /\ to.due = << >>
      /\ to.through = << >> /\ to.ran = << >> /\ to.sees = On(f)
      /\ to.overlapped = HalfPatched(f)
  BY DEF Idle, On
<1>2. Execute(t, to) /\ DOMAIN thread = Threads
  BY ThreadIs DEF Call
<1> HIDE DEF to
<1>3. HalfPatched(f) <=> Halfway(f)
  <2>1. entry[H].near => ~(Len(Patch(H)) > 1)
    BY DEF Patch
  <2>2. ~entry[H].near => Len(Patch(H)) > 1
    BY DEF Patch
  <2>3. QED
    BY <2>1, <2>2, Zenon DEF HalfPatched, Halfway
<1>4. to.overlapped \in BOOLEAN
  BY <1>1, <1>3 DEF HalfPatched
<1>5. CallOrder(to)
  BY <1>1, <1>4 DEF CallOrder
<1>6. CallAt(to)
  <2>1. AtFirst(to)
    BY <1>1, RanTo DEF AtFirst, Ran
  <2>2. QED
    BY <1>1, <1>3, <2>1 DEF CallAt
<1>7. QED
  BY <1>2, <1>5, <1>6, ExecuteOrder DEF PathOK

LEMMA ReturnsOrder ==
  ASSUME InstallInv, OrderInv, NEW t \in Threads, ReplaceReturns(t) \/ BodyReturns(t)
  PROVE  OrderInv'
<1>1. Execute(t, Leave(thread[t]))
  BY DEF ReplaceReturns, BodyReturns
<1>2. /\ DOMAIN thread[t] = DOMAIN Idle /\ CallOrder(thread[t]) /\ SlotsOK
      /\ Len(thread[t].due) \in Nat /\ DOMAIN thread = Threads
      /\ thread[t].due = [i \in 1..Len(thread[t].due) |-> thread[t].due[i]]
  BY ThreadIs
<1>3. Len(thread[t].due) = 0 => thread[t].due = << >>
  BY <1>2
<1>4. PathOK(Leave(thread[t]))
  BY <1>2, <1>3, LeavePath
<1>5. QED
  BY <1>1, <1>2, <1>4, ExecuteOrder

LEMMA ClosureFaultOrder ==
  ASSUME InstallInv, OrderInv, NEW t \in Threads, ClosureFault(t)
  PROVE  OrderInv'
<1>1. PathOK([thread[t] EXCEPT !.pc = "fault"])
  BY ThreadIs, StopOK
<1>2. QED
  BY <1>1, ThreadIs, ExecuteOrder DEF ClosureFault

LEMMA OnEnterTransferOrder ==
  ASSUME InstallInv, OrderInv, NEW t \in Threads, OnEnterTransfer(t)
  PROVE  OrderInv'
<1> DEFINE th == thread[t]
           h == th.at
           to == [th EXCEPT !.x17 = transfer[h]]
<1>1. Execute(t, Goto(to, transfer[h])) /\ th.pc = "transfer"
  BY DEF OnEnterTransfer
<1>2. /\ DOMAIN th = DOMAIN Idle /\ CallOrder(th) /\ SlotsOK /\ DOMAIN thread = Threads
      /\ h \in Hooks /\ transfer[h] # NULL /\ ToMeet(th, h)
  BY <1>1, ThreadIs DEF At, CallAt
<1>3. Leads(h, transfer[h])
  BY <1>2, TransferLeads
<1>4. SameCall(to, th)
  BY <1>2, LoadIs
<1> HIDE DEF to
<1>5. DOMAIN to = DOMAIN Idle /\ CallOrder(to) /\ ToMeet(to, h)
  BY <1>2, <1>4, SameOrder DEF SameCall
<1>6. PathOK(Goto(to, transfer[h]))
  BY <1>2, <1>3, <1>5, ArriveOK
<1>7. QED
  BY <1>1, <1>2, <1>6, ExecuteOrder

LEMMA OnLeaveClosureOrder ==
  ASSUME InstallInv, OrderInv, NEW t \in Threads, OnLeaveClosure(t)
  PROVE  OrderInv'
<1> DEFINE th == thread[t]
           n == Len(th.due)
           left == [th EXCEPT !.due = Front(@)]
<1>1. Execute(t, Leave(left))
  BY DEF OnLeaveClosure
<1>2. /\ DOMAIN th = DOMAIN Idle /\ CallOrder(th) /\ SlotsOK /\ DOMAIN thread = Threads
      /\ n \in Nat
  BY ThreadIs
<1>3. /\ DOMAIN left = DOMAIN Idle /\ left.due = SubSeq(th.due, 1, n - 1)
      /\ left.fn = th.fn /\ left.sees = th.sees /\ left.through = th.through
      /\ left.overlapped = th.overlapped
  BY <1>2 DEF Front, Idle
<1> HIDE DEF left
<1>4. /\ Len(left.due) \in Nat /\ (left.due = << >> \/ Len(left.due) # 0)
      /\ \A i \in 1..Len(left.due) : i \in 1..n /\ left.due[i] = th.due[i]
  <2>1. PICK d : d = [i \in 1..n - 1 |-> th.due[i]] /\ left.due = d
    BY <1>2, <1>3
  <2> HIDE DEF n
  <2>2. CASE n = 0 \/ n = 1
    <3>1. n - 1 < 1 /\ n - 1 \in Int
      BY <2>2
    <3>2. d = << >>
      BY <2>1, <3>1
    <3>3. Len(d) = 0 /\ 0 \in Nat /\ 1..0 = {}
      BY <3>2
    <3>4. \A i \in 1..Len(d) : FALSE
      BY <3>3
    <3>5. QED
      BY <2>1, <3>2, <3>3, <3>4
  <2>3. CASE n # 0 /\ n # 1
    <3>1. n - 1 \in Nat \ {0} /\ 1..n - 1 \subseteq 1..n
      BY <1>2, <2>3
    <3>2. Len(d) = n - 1 /\ \A i \in 1..n - 1 : d[i] = th.due[i]
      BY <2>1, <3>1
    <3>3. QED
      BY <2>1, <3>1, <3>2
  <2>4. QED
    BY <2>2, <2>3
<1>5. CallOrder(left)
  BY <1>2, <1>3, <1>4 DEF CallOrder
<1>6. PathOK(Leave(left))
  BY <1>2, <1>3, <1>4, <1>5, LeavePath
<1>7. QED
  BY <1>1, <1>2, <1>6, ExecuteOrder

\* A thread that goes through hook h, to its on_invoke_trampoline
LEMMA PassOK ==
  ASSUME InstallInv, OrderInv, NEW th, CallOrder(th), NEW h \in Hooks, ToMeet(th, h),
         entry[h].invoke # NULL,
         NEW on, DOMAIN on = DOMAIN Idle, on.fn = th.fn, on.sees = th.sees,
         on.ran = th.ran, on.overlapped = th.overlapped,
         on.through = Append(th.through, h),
         \A i \in 1..Len(on.due) : \E g \in Hooks : SlotOf(g, {"leave"}, on.due[i])
  PROVE  PathOK(Goto(on, Code("invoke", h)))
<1> DEFINE to == Goto(on, Code("invoke", h))
           n == Len(th.through)
<1>1. SameCall(to, on) /\ to.pc = "invoke" /\ to.at = h /\ to.i = 1
  BY NullIsNoAddress, GotoIs DEF Code
<1> HIDE DEF to
<1>2. th.through \in Seq(Hooks)
  BY DEF CallOrder
<1>3. /\ on.through \in Seq(Hooks) /\ Len(on.through) = n + 1 /\ n \in Nat
      /\ on.through[n + 1] = h /\ \A i \in 1..n : on.through[i] = th.through[i]
  BY <1>2, AppendProperties
<1>4. \A i \in 1..n + 1 : i = n + 1 \/ i \in 1..n
  BY <1>3
<1>5. h \in Hooked /\ Live(h) /\ Target[h] = th.fn
  BY LiveIs DEF ToMeet
<1>6. CallOrder(on)
  <2>1. ASSUME NEW i \in 1..n + 1
        PROVE  on.through[i] \in Hooked /\ Target[on.through[i]] = on.fn
    BY <1>3, <1>4, <1>5 DEF CallOrder
  <2>2. ASSUME NEW i \in 1..n + 1, NEW j \in 1..n + 1, i < j
        PROVE  Earlier(on.through[j], on.through[i])
    <3>1. i \in 1..n
      BY <1>3, <2>2
    <3>2. CASE j = n + 1
      BY <1>3, <3>1, <3>2 DEF ToMeet
    <3>3. CASE j \in 1..n
      BY <1>3, <2>2, <3>1, <3>3 DEF CallOrder
    <3>4. QED
      BY <1>4, <3>2, <3>3
  <2>3. QED
    BY <1>3, <2>1, <2>2 DEF CallOrder
<1>7. ToSet(on.through) = ToSet(th.through) \cup {h}
  <2>1. DOMAIN on.through = 1..n + 1 /\ DOMAIN th.through = 1..n
    BY <1>2, <1>3
  <2>2. n + 1 \in 1..n + 1 /\ \A i \in 1..n : i \in 1..n + 1
    BY <1>3
  <2>3. \A x : (\E i \in 1..n + 1 : on.through[i] = x) <=> x = h \/ \E i \in 1..n : th.through[i] = x
    BY <1>3, <1>4, <2>2
  <2>4. QED
    BY <2>1, <2>3 DEF ToSet
<1>8. Passed(to, h)
  <2>1. to.i \in 1..Len(invoke[h]) + 1 /\ to.i - 1 = 0
    BY <1>1 DEF InstallInv, CodeOK
  <2>2. \A g \in to.sees \ ToSet(to.through) : Earlier(g, h)
    BY <1>1, <1>7 DEF SameCall, ToMeet
  <2>3. Ran(to, 0)
    BY <1>1 DEF SameCall, ToMeet, Ran
  <2>4. Len(to.through) # 0 /\ to.through[Len(to.through)] = h
    BY <1>1, <1>3 DEF SameCall
  <2>5. to.fn = th.fn
    BY <1>1 DEF SameCall
  <2>6. QED
    BY <1>1, <1>5, <2>1, <2>2, <2>3, <2>4, <2>5 DEF Passed
<1>9. CallOrder(to)
  BY <1>1, <1>6, SameOrder
<1>10. QED
  BY <1>1, <1>8, <1>9 DEF PathOK, CallAt, to

LEMMA OnEnterClosureOrder ==
  ASSUME InstallInv, OrderInv, NEW t \in Threads, OnEnterClosure(t)
  PROVE  OrderInv'
<1> DEFINE th == thread[t]
           h == slots[th.at].hook
           begun == [th EXCEPT !.through = Append(@, h)]
           due == [begun EXCEPT !.due = Append(@, entry[h].leave)]
<1>1. /\ DOMAIN th = DOMAIN Idle /\ CallOrder(th) /\ SlotsOK /\ DOMAIN thread = Threads
      /\ th.pc = "slot" /\ At(th) /\ CallAt(th) /\ Len(th.due) \in Nat
      /\ th.due = [i \in 1..Len(th.due) |-> th.due[i]]
  BY ThreadIs DEF OnEnterClosure
<1>2. /\ h \in Hooks /\ Built(h) /\ ToMeet(th, h)
  <2>1. th.at \in 1..Len(slots) /\ Built(h) /\ slots[th.at].handler # "leave"
    BY <1>1 DEF At, OnEnterClosure
  <2>2. QED
    BY <1>1, <2>1, SlotsTyped DEF CallAt
<1>3. entry[h].invoke # NULL /\ entry[h].invoke = Code("invoke", h)
  BY <1>2 DEF Built, InstallInv, EntriesOK, EntryOK
<1>4. /\ DOMAIN begun = DOMAIN Idle /\ begun.fn = th.fn /\ begun.sees = th.sees
      /\ begun.ran = th.ran /\ begun.overlapped = th.overlapped
      /\ begun.through = Append(th.through, h) /\ begun.due = th.due
  BY <1>1 DEF Idle
<1>5. CASE slots[th.at].handler = "enter"
  <2>1. Execute(t, Goto(due, Code("invoke", h)))
    BY <1>3, <1>5 DEF OnEnterClosure
  <2>2. Type[h] = "PRE_POST"
    BY <1>1, <1>5 DEF At, SlotsOK
  <2>3. SlotOf(h, {"leave"}, entry[h].leave)
    BY <1>2, <2>2 DEF Built, OrderInv, DestsOK
  <2> DEFINE leave == entry[h].leave
             d == th.due
             n == Len(th.due)
  <2> HIDE DEF begun
  <2>4. /\ DOMAIN due = DOMAIN Idle /\ due.fn = th.fn /\ due.sees = th.sees
        /\ due.ran = th.ran /\ due.overlapped = th.overlapped
        /\ due.through = Append(th.through, h) /\ due.due = Append(d, leave)
    BY <1>4 DEF Idle
  <2>5. /\ Len(Append(d, leave)) = n + 1
        /\ Append(d, leave)[n + 1] = leave
        /\ \A i \in 1..n : Append(d, leave)[i] = d[i]
    <3> DEFINE S == {d[i] : i \in 1..n} \cup {leave}
    <3>1. d \in Seq(S) /\ leave \in S
      <4>1. d = [i \in 1..n |-> d[i]] /\ n \in Nat
        BY <1>1
      <4> HIDE DEF d, n, leave
      <4>2. [i \in 1..n |-> d[i]] \in [1..n -> S]
        OBVIOUS
      <4>3. QED
        BY <4>1, <4>2
    <3> HIDE DEF d, leave, S
    <3>2. QED
      BY <3>1, AppendProperties DEF d
  <2>6. \A i \in 1..Len(due.due) : \E g \in Hooks : SlotOf(g, {"leave"}, due.due[i])
    <3>1. \A i \in 1..n + 1 : i = n + 1 \/ i \in 1..n
      BY <1>1
    <3> HIDE DEF due, leave, d, n
    <3>2. \A i \in 1..n : \E g \in Hooks : SlotOf(g, {"leave"}, d[i])
      BY <1>1 DEF CallOrder, d, n
    <3>3. \A i \in 1..n + 1 : \E g \in Hooks : SlotOf(g, {"leave"}, Append(d, leave)[i])
      <4>1. SlotOf(h, {"leave"}, leave)
        BY <2>3 DEF leave
      <4>2. QED
        BY <1>2, <2>5, <3>1, <3>2, <4>1
    <3>4. QED
      BY <2>4, <2>5, <3>3
  <2> HIDE DEF due
  <2>7. PathOK(Goto(due, Code("invoke", h)))
    BY <1>1, <1>2, <1>3, <2>4, <2>6, PassOK
  <2>8. QED
    BY <1>1, <2>1, <2>7, ExecuteOrder
<1>6. CASE slots[th.at].handler # "enter"
  <2>1. Execute(t, Goto(begun, Code("invoke", h)))
    BY <1>3, <1>6 DEF OnEnterClosure
  <2> HIDE DEF begun
  <2>2. PathOK(Goto(begun, Code("invoke", h)))
    <3>1. \A i \in 1..Len(begun.due) : \E g \in Hooks : SlotOf(g, {"leave"}, begun.due[i])
      BY <1>1, <1>4 DEF CallOrder
    <3>2. QED
      BY <1>1, <1>2, <1>3, <1>4, <3>1, PassOK
  <2>3. QED
    BY <1>1, <2>1, <2>2, ExecuteOrder
<1>7. QED
  BY <1>5, <1>6

LEMMA ReplaceCallsOriginOrder ==
  ASSUME InstallInv, OrderInv, NEW t \in Threads, ReplaceCallsOrigin(t)
  PROVE  OrderInv'
<1> DEFINE th == thread[t]
           h == th.at
           on == [th EXCEPT !.through = Append(@, h)]
<1>1. /\ DOMAIN th = DOMAIN Idle /\ CallOrder(th) /\ DOMAIN thread = Threads
      /\ h \in Hooks /\ ToMeet(th, h)
  BY ThreadIs DEF ReplaceCallsOrigin, At, CallAt
<1>2. CASE origin_call[h] = NULL
  <2>1. PathOK([th EXCEPT !.pc = "no_origin"])
    BY <1>1, StopOK
  <2>2. QED
    BY <1>1, <1>2, <2>1, ExecuteOrder DEF ReplaceCallsOrigin
<1>3. CASE origin_call[h] # NULL
  <2>1. origin_call[h] = Code("invoke", h) /\ entry[h].invoke # NULL
    BY <1>1, <1>3 DEF InstallInv, EntriesOK, EntryOK, OrderInv, DestsOK
  <2>2. Execute(t, Goto(on, Code("invoke", h)))
    BY <1>3, <2>1 DEF ReplaceCallsOrigin
  <2>3. /\ DOMAIN on = DOMAIN Idle /\ on.fn = th.fn /\ on.sees = th.sees
        /\ on.ran = th.ran /\ on.overlapped = th.overlapped
        /\ on.through = Append(th.through, h) /\ on.due = th.due
    BY <1>1 DEF Idle
  <2> HIDE DEF on
  <2>4. \A i \in 1..Len(on.due) : \E g \in Hooks : SlotOf(g, {"leave"}, on.due[i])
    BY <1>1, <2>3 DEF CallOrder
  <2>5. PathOK(Goto(on, Code("invoke", h)))
    BY <1>1, <2>1, <2>3, <2>4, PassOK
  <2>6. QED
    BY <1>1, <2>2, <2>5, ExecuteOrder
<1>4. QED
  BY <1>2, <1>3

\* Over a hook that is a near jump there are only near jumps
LEMMA NearPlain ==
  ASSUME InstallInv, OrderInv, NEW h, Live(h), entry[h].near
  PROVE  Plain(Target[h])
<1>1. h \in Hooked /\ HooksOK /\ StackOK
  BY LiveIs DEF OrderInv, HooksOK
<1>2. ASSUME NEW g \in Hooked, Target[g] = Target[h] PROVE entry[g].near
  <2>1. g = h \/ Earlier(g, h) \/ Earlier(h, g)
    BY <1>1, EarlierTotal
  <2>2. QED
    BY <1>1, <1>2, <2>1 DEF StackOK
<1>3. \A g \in On(Target[h]) : entry[g].near
  BY <1>1, <1>2 DEF On, HooksOK
<1>4. ~Halfway(Target[h])
  <2>1. SUFFICES ASSUME Halfway(Target[h]) PROVE FALSE
    OBVIOUS
  <2>2. Live(H) /\ Target[H] = Target[h] /\ ~entry[H].near
    BY <2>1 DEF Halfway, Live
  <2>3. H \in Hooked
    BY <2>2, LiveIs
  <2>4. QED
    BY <1>2, <2>2, <2>3
<1>5. QED
  BY <1>3, <1>4 DEF Plain

\* Through the first hook of the function: all that the call saw
LEMMA FirstSeen ==
  ASSUME OrderInv, NEW th, CallOrder(th), NEW h, Passed(th, h), First(h)
  PROVE  Seen(th)
<1>1. \A g \in th.sees : g \in Hooked /\ Target[g] = Target[h]
  BY DEF CallOrder, Passed, On, OrderInv, HooksOK
<1>2. QED
  BY <1>1 DEF Passed, First, Seen

\* Behind the instructions that were relocated
LEMMA JumpBackOrder ==
  ASSUME InstallInv, OrderInv, NEW th, DOMAIN th = DOMAIN Idle, CallOrder(th),
         NEW h, Passed(th, h), First(h), Len(invoke[h]) = Limit(h), th.i > Len(invoke[h])
  PROVE  PathOK(JumpBack(th))
<1> DEFINE loaded == [th EXCEPT !.x17 = Stray]
           to == AtWord(loaded, th.i)
<1>1. JumpBack(th) = to
  BY DEF JumpBack
<1>2. SameCall(loaded, th) /\ loaded.x17 = Stray
  BY LoadIs
<1>3. Limit(h) \in {1, 4} /\ (entry[h].near <=> Limit(h) = 1)
  BY DEF Limit
<1>4. th.i = Limit(h) + 1 /\ th.i \in Nat
  BY <1>3 DEF Passed
<1> HIDE DEF loaded
<1>5. /\ SameCall(to, loaded) /\ to.x17 = Stray
      /\ th.i > 4 => to.pc = "body"
      /\ ~(th.i > 4) => to.pc = "word" /\ to.i = th.i
  <2>1. DOMAIN loaded = DOMAIN Idle
    BY <1>2 DEF SameCall
  <2>2. QED
    BY <1>2, <1>4, <2>1, AtWordIs
<1> HIDE DEF to
<1>6. SameCall(to, th)
  BY <1>2, <1>5 DEF SameCall
<1>7. CallOrder(to) /\ Seen(to) /\ Ran(to, th.i - 1)
  <2>1. Seen(th) /\ Ran(th, th.i - 1)
    BY FirstSeen DEF Passed
  <2>2. QED
    BY <1>6, <2>1, SameOrder
<1>8. CASE entry[h].near
  <2>1. th.i = 2 /\ th.i - 1 = 1
    BY <1>3, <1>4, <1>8
  <2>2. Plain(th.fn)
    <3>1. Live(h) /\ Target[h] = th.fn
      BY DEF Passed
    <3>2. QED
      BY <1>8, <3>1, NearPlain
  <2>3. to.pc = "word" /\ to.i = 2
    BY <1>5, <2>1
  <2>4. AtOwn(to) /\ ~Halfway(to.fn)
    BY <1>5, <1>6, <1>7, <2>1, <2>2, <2>3 DEF AtOwn, SameCall, Plain
  <2>5. QED
    BY <1>1, <1>7, <2>3, <2>4 DEF PathOK, CallAt
<1>9. CASE ~entry[h].near
  <2>1. th.i > 4 /\ th.i - 1 = 4
    BY <1>3, <1>4, <1>9
  <2>2. to.pc = "body" /\ Ran(to, 4)
    BY <1>5, <1>7, <2>1
  <2>3. QED
    BY <1>1, <1>7, <2>2 DEF PathOK, CallAt
<1>10. QED
  BY <1>8, <1>9

LEMMA OnInvokeOrder ==
  ASSUME InstallInv, OrderInv, NEW t \in Threads, OnInvoke(t)
  PROVE  OrderInv'
<1> DEFINE th == thread[t]
           h == th.at
           w == invoke[h][th.i]
           next == [th EXCEPT !.i = @ + 1]
<1>1. /\ DOMAIN th = DOMAIN Idle /\ CallOrder(th) /\ SlotsOK /\ HooksOK
      /\ DOMAIN thread = Threads /\ Passed(th, h) /\ h \in Hooks /\ th.pc = "invoke"
  BY ThreadIs DEF OnInvoke, CallAt, Passed
<1>2. InvokeOK(h)
  BY <1>1 DEF OrderInv, InvokesOK, Passed
<1>3. Len(invoke[h]) \in Nat /\ th.i \in 1..Len(invoke[h]) + 1
  BY <1>1 DEF Passed, InstallInv, CodeOK
<1>4. ~(th.i > Len(invoke[h])) =>
        Execute(t, CASE w.op = "orig" -> RunOrig(next, w)
                     [] w.op = "jump" -> Goto([th EXCEPT !.x17 = w.arg], w.arg)
                     [] w.op = "load" -> [next EXCEPT !.x17 = Literal(w.arg)]
                     [] w.op = "br_x17" -> JumpX17(th)
                     [] OTHER -> [th EXCEPT !.pc = "torn"])
  BY DEF OnInvoke
<1>5. CASE /\ First(h) /\ Len(invoke[h]) = Limit(h)
           /\ \A i \in 1..Limit(h) : invoke[h][i] = Orig(i)
  <2>1. CASE th.i > Len(invoke[h])
    <3>1. Execute(t, JumpBack(th))
      BY <2>1 DEF OnInvoke
    <3>2. PathOK(JumpBack(th))
      BY <1>1, <1>5, <2>1, JumpBackOrder
    <3>3. QED
      BY <1>1, <3>1, <3>2, ExecuteOrder
  <2>2. CASE ~(th.i > Len(invoke[h]))
    <3> DEFINE to == RunOrig(next, w)
    <3>1. th.i \in 1..Len(invoke[h])
      BY <1>3, <2>2
    <3>2. w = Orig(th.i)
      BY <1>5, <3>1
    <3>3. w.op = "orig" /\ w.arg = th.i
      BY <3>2 DEF Orig, Inst
    <3>4. Execute(t, to)
      BY <1>4, <2>2, <3>3
    <3>5. /\ DOMAIN to = DOMAIN Idle /\ to.fn = th.fn /\ to.sees = th.sees
          /\ to.through = th.through /\ to.overlapped = th.overlapped /\ to.due = th.due
          /\ to.pc = "invoke" /\ to.at = h /\ to.i = th.i + 1
          /\ to.ran = Append(th.ran, th.i)
      <4>1. /\ DOMAIN next = DOMAIN Idle /\ next.fn = th.fn /\ next.sees = th.sees
            /\ next.through = th.through /\ next.overlapped = th.overlapped
            /\ next.due = th.due /\ next.pc = "invoke" /\ next.at = h /\ next.i = th.i + 1
            /\ next.ran = th.ran
        BY <1>1 DEF Idle
      <4> HIDE DEF next
      <4>2. QED
        BY <3>3, <4>1 DEF RunOrig, Idle
    <3> HIDE DEF to
    <3>6. CallOrder(to)
      BY <1>1, <3>5 DEF CallOrder
    <3>7. Ran(to, th.i)
      <4>1. CASE th.overlapped
        BY <3>5, <4>1 DEF Ran
      <4>2. CASE ~th.overlapped
        <5>1. th.ran = Upto(th.i - 1) /\ th.i - 1 \in Nat /\ (th.i - 1) + 1 = th.i
          BY <1>1, <1>3, <4>2 DEF Passed, Ran
        <5>2. PICK n \in Nat : n = th.i - 1
          BY <5>1
        <5>3. Append(Upto(n), n + 1) = Upto(n + 1)
          BY RanTo
        <5>4. QED
          BY <3>5, <5>1, <5>2, <5>3 DEF Ran
      <4>3. QED
        BY <4>1, <4>2
    <3>8. Passed(to, h)
      <4>1. to.i \in 1..Len(invoke[h]) + 1 /\ to.i - 1 = th.i
        BY <1>3, <3>1, <3>5
      <4>2. QED
        BY <1>1, <1>5, <3>5, <3>7, <4>1 DEF Passed
    <3>9. PathOK(to)
      BY <3>5, <3>6, <3>8 DEF PathOK, CallAt
    <3>10. QED
      BY <1>1, <3>4, <3>9, ExecuteOrder
  <2>3. QED
    BY <2>1, <2>2
<1>6. CASE \E g \in Hooks : /\ entry[h].near /\ Below(g, h)
                            /\ Len(invoke[h]) = 1
                            /\ invoke[h][1] = Inst("jump", Code("transfer", g))
  <2>1. PICK g \in Hooks : /\ Below(g, h) /\ Len(invoke[h]) = 1
                           /\ invoke[h][1] = Inst("jump", Code("transfer", g))
    BY <1>6
  <2> DEFINE a == Code("transfer", g)
             to == [th EXCEPT !.x17 = a]
  <2>2. ~First(h)
    BY <1>1, <2>1 DEF Below, First, HooksOK
  <2>3. th.i = 1 /\ w.op = "jump" /\ w.arg = a
    BY <1>1, <2>1, <2>2 DEF Passed, Inst
  <2>4. Execute(t, Goto(to, a))
    <3>1. ~(th.i > Len(invoke[h]))
      BY <2>1, <2>3
    <3>2. Execute(t, Goto([th EXCEPT !.x17 = w.arg], w.arg))
      BY <1>4, <2>3, <3>1
    <3>3. QED
      BY <2>3, <3>2
  <2>5. SameCall(to, th)
    BY <1>1, LoadIs
  <2> HIDE DEF to
  <2>6. ToMeet(th, g)
    <3>1. Live(g) /\ Target[g] = th.fn /\ Earlier(g, h)
      BY <1>1, <2>1 DEF Below, Live, Passed
    <3>2. \A i \in 1..Len(th.through) : Earlier(g, th.through[i])
      <4> SUFFICES ASSUME NEW i \in 1..Len(th.through) PROVE Earlier(g, th.through[i])
        OBVIOUS
      <4>1. Len(th.through) \in Nat /\ th.through[Len(th.through)] = h
        BY <1>1 DEF CallOrder, Passed
      <4>2. CASE i = Len(th.through)
        BY <3>1, <4>1, <4>2
      <4>3. CASE i # Len(th.through)
        <5>1. i < Len(th.through) /\ Len(th.through) \in 1..Len(th.through)
          BY <4>1, <4>3
        <5>2. Earlier(h, th.through[i])
          BY <1>1, <4>1, <5>1 DEF CallOrder
        <5>3. QED
          BY <1>1, <3>1, <5>2, EarlierTransitive
      <4>4. QED
        BY <4>2, <4>3
    <3>3. ASSUME NEW k \in th.sees \ ToSet(th.through) PROVE k = g \/ Earlier(k, g)
      <4>1. k \in Hooked /\ Target[k] = Target[h] /\ Earlier(k, h)
        BY <1>1, <3>3 DEF Passed, CallOrder, On, HooksOK
      <4>2. QED
        BY <2>1, <4>1 DEF Below
    <3>4. Ran(th, 0)
      BY <1>1, <2>3 DEF Passed
    <3>5. QED
      BY <3>1, <3>2, <3>3, <3>4 DEF ToMeet
  <2>7. CallOrder(to) /\ ToMeet(to, g) /\ DOMAIN to = DOMAIN Idle
    BY <1>1, <2>5, <2>6, SameOrder DEF SameCall
  <2>8. Leads(g, a)
    BY DEF Leads
  <2>9. PathOK(Goto(to, a))
    BY <1>1, <2>7, <2>8, ArriveOK
  <2>10. QED
    BY <1>1, <2>4, <2>9, ExecuteOrder
<1>7. QED
  BY <1>2, <1>5, <1>6 DEF InvokeOK

\* A word of the function itself, when the call is behind the hooks or met a patch
LEMMA OwnWord ==
  ASSUME InstallInv, OrderInv, NEW th, DOMAIN th = DOMAIN Idle, CallOrder(th), th.pc = "word",
         NEW i \in 1..4, th.i = i, Ran(th, i - 1), Seen(th), th.x17 \in {NULL, Stray},
         th.overlapped \/ Plain(th.fn), NEW w, w = Orig(i)
  PROVE  PathOK(AtWord(RunOrig(th, w), i + 1))
<1> DEFINE ran == RunOrig(th, w)
           to == AtWord(ran, i + 1)
<1> SUFFICES PathOK(to)
  OBVIOUS
<1>1. w.arg = i /\ i \in Nat /\ i + 1 \in Nat /\ i - 1 \in Nat /\ (i - 1) + 1 = i
  BY DEF Orig, Inst
<1>2. /\ DOMAIN ran = DOMAIN Idle /\ ran.fn = th.fn /\ ran.sees = th.sees
      /\ ran.through = th.through /\ ran.overlapped = th.overlapped /\ ran.due = th.due
      /\ ran.ran = Append(th.ran, i) /\ ran.x17 = th.x17
  BY <1>1 DEF RunOrig, Idle
<1> HIDE DEF ran
<1>3. CallOrder(ran) /\ Seen(ran)
  BY <1>2 DEF CallOrder, Seen
<1>4. Ran(ran, i)
  <2>1. CASE th.overlapped
    BY <1>2, <2>1 DEF Ran
  <2>2. CASE ~th.overlapped
    <3>1. PICK n \in Nat : n = i - 1 /\ n + 1 = i
      BY <1>1
    <3>2. th.ran = Upto(n)
      BY <2>2, <3>1 DEF Ran
    <3>3. Append(Upto(n), n + 1) = Upto(n + 1)
      BY <3>1, RanTo
    <3>4. QED
      BY <1>2, <3>1, <3>2, <3>3 DEF Ran
  <2>3. QED
    BY <2>1, <2>2
<1>5. /\ SameCall(to, ran) /\ to.x17 = ran.x17
      /\ i + 1 > 4 => to.pc = "body"
      /\ ~(i + 1 > 4) => to.pc = "word" /\ to.i = i + 1
  BY <1>1, <1>2, AtWordIs
<1> HIDE DEF to
<1>6. CallOrder(to) /\ Seen(to) /\ Ran(to, i) /\ to.fn = th.fn /\ to.overlapped = th.overlapped
  BY <1>2, <1>3, <1>4, <1>5, SameOrder DEF SameCall
<1>7. CASE i + 1 > 4
  <2>1. i = 4
    BY <1>7
  <2>2. QED
    BY <1>5, <1>6, <1>7, <2>1 DEF PathOK, CallAt
<1>8. CASE ~(i + 1 > 4)
  <2>1. to.i \in 2..4 /\ to.i - 1 = i
    BY <1>5, <1>8
  <2>2. AtOwn(to) /\ (Halfway(to.fn) => to.overlapped)
    BY <1>2, <1>5, <1>6, <2>1 DEF AtOwn, Plain
  <2>3. QED
    BY <1>5, <1>6, <1>8, <2>2 DEF PathOK, CallAt
<1>9. QED
  BY <1>7, <1>8

\* x17 loaded by the first word of a long patch that leads to hook h, whole or not
LEMMA LoadWord ==
  ASSUME InstallInv, OrderInv, NEW th, DOMAIN th = DOMAIN Idle, CallOrder(th), th.pc = "word",
         AtFirst(th), Halfway(th.fn) => th.overlapped,
         NEW h \in Hooks, Live(h), Target[h] = th.fn, ~entry[h].near, On(th.fn) \subseteq {h},
         NEW left, LongOK(th.fn, h, left), left # {} => th.overlapped /\ On(th.fn) = {}
  PROVE  PathOK(AtWord([th EXCEPT !.x17 = Literal(th.fn)], 2))
<1> DEFINE f == th.fn
           loaded == [th EXCEPT !.x17 = Literal(f)]
           to == AtWord(loaded, 2)
<1> SUFFICES PathOK(to)
  OBVIOUS
<1>1. SameCall(loaded, th) /\ loaded.x17 = Literal(f)
  BY LoadIs
<1> HIDE DEF loaded
<1>2. SameCall(to, loaded) /\ to.x17 = Literal(f) /\ to.pc = "word" /\ to.i = 2
  BY <1>1, AtWordIs DEF SameCall
<1> HIDE DEF to
<1>3. SameCall(to, th)
  BY <1>1, <1>2 DEF SameCall
<1>4. CallOrder(to) /\ to.fn = f /\ to.overlapped = th.overlapped
  BY <1>3, SameOrder DEF SameCall
<1>5. \A g \in th.sees : g = h
  BY DEF CallOrder
<1>6. CASE 3 \in left \/ 4 \in left
  <2>1. Literal(f) = Stray
    BY <1>6 DEF LongOK, Literal, Orig, Lo, Hi, Inst
  <2>2. th.overlapped /\ th.sees = {}
    BY <1>6 DEF CallOrder
  <2>3. AtOwn(to)
    BY <1>2, <1>3, <1>4, <2>1, <2>2 DEF AtOwn, Seen, Ran, SameCall
  <2>4. QED
    BY <1>2, <1>4, <2>2, <2>3 DEF PathOK, CallAt
<1>7. CASE ~(3 \in left \/ 4 \in left)
  <2>1. code[f][3] = Lo(LongAddr(h)) /\ Literal(f) = LongAddr(h)
    BY <1>7 DEF LongOK, Literal, Lo, Hi, Inst
  <2>2. ToMeet(th, h)
    <3>1. Len(th.through) = 0
      BY DEF AtFirst
    <3>2. QED
      BY <1>5, <3>1 DEF ToMeet, AtFirst
  <2>3. ToMeet(to, h)
    BY <1>3, <2>2, SameOrder
  <2>4. AtLong(to, h)
    BY <1>2, <1>4, <2>1, <2>3 DEF AtLong
  <2>5. QED
    BY <1>2, <1>4, <2>4 DEF PathOK, CallAt
<1>8. QED
  BY <1>6, <1>7

LEMMA FetchFirstOrder ==
  ASSUME InstallInv, OrderInv, NEW t \in Threads, Fetch(t), AtFirst(thread[t])
  PROVE  OrderInv'
<1> DEFINE th == thread[t]
           f == th.fn
           w == code[f][1]
<1>1. /\ DOMAIN th = DOMAIN Idle /\ CallOrder(th) /\ SlotsOK /\ HooksOK
      /\ DOMAIN thread = Threads /\ th.pc = "word" /\ f \in Targets
      /\ th.i = 1 /\ th.x17 = NULL /\ th.through = << >> /\ Ran(th, 0)
      /\ Halfway(f) => th.overlapped
  BY ThreadIs DEF Fetch, At, CallAt, AtFirst
<1>2. Execute(t, CASE w.op = "orig" -> AtWord(RunOrig(th, w), 2)
                   [] w.op = "b" -> Goto(th, w.arg)
                   [] w.op = "ldr_x17" -> AtWord([th EXCEPT !.x17 = Literal(f)], 2)
                   [] w.op = "br_x17" -> JumpX17(th)
                   [] OTHER -> [th EXCEPT !.pc = "torn"])
  <2> DEFINE v == code[f][th.i]
  <2>1. Execute(t, CASE v.op = "orig" -> AtWord(RunOrig(th, v), th.i + 1)
                     [] v.op = "b" -> Goto(th, v.arg)
                     [] v.op = "ldr_x17" -> AtWord([th EXCEPT !.x17 = Literal(f)], th.i + 1)
                     [] v.op = "br_x17" -> JumpX17(th)
                     [] OTHER -> [th EXCEPT !.pc = "torn"])
    BY DEF Fetch
  <2>2. v = w /\ th.i + 1 = 2
    BY <1>1
  <2> HIDE DEF v, w, th, f
  <2>3. QED
    BY <2>1, <2>2
<1>3. On(f) = {} => th.sees = {}
  BY <1>1 DEF CallOrder
<1>4. ASSUME th.overlapped \/ Plain(f), On(f) = {}, w = Orig(1) PROVE OrderInv'
  <2>1. w.op = "orig"
    BY <1>4 DEF Orig, Inst
  <2>2. Execute(t, AtWord(RunOrig(th, w), 2))
    BY <1>2, <2>1
  <2>3. Seen(th)
    BY <1>3, <1>4 DEF Seen
  <2>4. PathOK(AtWord(RunOrig(th, w), 1 + 1))
    BY <1>1, <1>4, <2>3, OwnWord
  <2>5. QED
    BY <1>1, <2>2, <2>4, ExecuteOrder
<1>5. ASSUME NEW h, Live(h), Target[h] = f, ~entry[h].near, On(f) \subseteq {h},
             NEW left, LongOK(f, h, left), left # {} => th.overlapped /\ On(f) = {},
             w = LdrX17
      PROVE  OrderInv'
  <2>1. w.op = "ldr_x17"
    BY <1>5 DEF LdrX17, Inst
  <2>2. Execute(t, AtWord([th EXCEPT !.x17 = Literal(f)], 2))
    BY <1>2, <2>1
  <2>3. h \in Hooks
    BY <1>5, LiveIs
  <2>4. PathOK(AtWord([th EXCEPT !.x17 = Literal(f)], 2))
    BY <1>1, <1>5, <2>3, LoadWord
  <2>5. QED
    BY <1>1, <2>2, <2>4, ExecuteOrder
<1>6. CASE Plain(f) /\ PlainOK(f)
  <2>1. CASE On(f) = {} /\ w = Orig(1)
    BY <1>4, <1>6, <2>1
  <2>2. CASE \E h \in On(f) : Top(h) /\ w = Inst("b", Code("transfer", h))
    <3>1. PICK h \in On(f) : Top(h) /\ w = Inst("b", Code("transfer", h))
      BY <2>2
    <3>2. w.op = "b" /\ w.arg = Code("transfer", h)
      BY <3>1 DEF Inst
    <3>3. Execute(t, Goto(th, w.arg))
      BY <1>2, <3>2
    <3>4. Live(h) /\ h \in Hooks /\ Target[h] = f
      BY LiveIs DEF On, Live
    <3>5. ToMeet(th, h)
      <4>1. Len(th.through) = 0
        BY <1>1
      <4>2. \A g \in th.sees : g = h \/ Earlier(g, h)
        BY <1>1, <3>1, <3>4 DEF CallOrder, Top
      <4>3. QED
        BY <1>1, <3>4, <4>1, <4>2 DEF ToMeet
    <3>6. PathOK(Goto(th, w.arg))
      BY <1>1, <3>2, <3>4, <3>5, ArriveOK DEF Leads
    <3>7. QED
      BY <1>1, <3>3, <3>6, ExecuteOrder
  <2>3. QED
    BY <1>6, <2>1, <2>2 DEF PlainOK
<1>7. CASE Halfway(f) /\ On(f) = {} /\ LongOK(f, H, installer.words)
  <2>1. Live(H) /\ Target[H] = f /\ ~entry[H].near /\ th.overlapped
    BY <1>1, <1>7 DEF Live, Halfway
  <2>2. w = Orig(1) \/ w = LdrX17
    BY <1>7 DEF LongOK
  <2>3. QED
    BY <1>4, <1>5, <1>7, <2>1, <2>2
<1>8. CASE \E h \in active : ~Halfway(f) /\ On(f) = {h} /\ ~entry[h].near /\ LongOK(f, h, {})
  <2>1. PICK h \in active : On(f) = {h} /\ ~entry[h].near /\ LongOK(f, h, {})
    BY <1>8
  <2>2. Live(h) /\ Target[h] = f
    BY <2>1 DEF On, Live
  <2>3. w = LdrX17
    BY <2>1 DEF LongOK
  <2>4. QED
    BY <1>5, <2>1, <2>2, <2>3
<1>9. ShapeOK(f)
  BY <1>1 DEF OrderInv, ShapesOK
<1>10. QED
  BY <1>6, <1>7, <1>8, <1>9 DEF ShapeOK

LEMMA FetchOwnOrder ==
  ASSUME InstallInv, OrderInv, NEW t \in Threads, Fetch(t), AtOwn(thread[t])
  PROVE  OrderInv'
<1> DEFINE th == thread[t]
           f == th.fn
           w == code[f][th.i]
<1>1. /\ DOMAIN th = DOMAIN Idle /\ CallOrder(th) /\ DOMAIN thread = Threads
      /\ th.pc = "word" /\ f \in Targets
      /\ Halfway(f) => th.overlapped
  BY ThreadIs DEF Fetch, At, CallAt
<1>2. /\ th.i \in 1..4 /\ th.i # 1 /\ Ran(th, th.i - 1) /\ Seen(th)
      /\ th.x17 \in {NULL, Stray} /\ (th.overlapped \/ Plain(f))
  BY DEF AtOwn
<1>3. Execute(t, CASE w.op = "orig" -> AtWord(RunOrig(th, w), th.i + 1)
                   [] w.op = "b" -> Goto(th, w.arg)
                   [] w.op = "ldr_x17" -> AtWord([th EXCEPT !.x17 = Literal(f)], th.i + 1)
                   [] w.op = "br_x17" -> JumpX17(th)
                   [] OTHER -> [th EXCEPT !.pc = "torn"])
  BY DEF Fetch
<1>4. \/ w = Orig(th.i)
      \/ th.overlapped /\ w.op \in {"br_x17", "lo", "hi"}
  <2>1. th.i = 2 \/ th.i = 3 \/ th.i = 4
    BY <1>2
  <2>2. \A h, left : LongOK(f, h, left) =>
          w = Orig(th.i) \/ w.op \in {"br_x17", "lo", "hi"}
    BY <2>1 DEF LongOK, BrX17, Lo, Hi, Inst
  <2>3. CASE Plain(f) /\ PlainOK(f)
    BY <2>1, <2>3 DEF PlainOK
  <2>4. CASE Halfway(f) /\ On(f) = {} /\ LongOK(f, H, installer.words)
    BY <1>1, <2>2, <2>4
  <2>5. CASE \E h \in active : ~Halfway(f) /\ On(f) = {h} /\ ~entry[h].near /\ LongOK(f, h, {})
    <3>1. PICK h \in active : On(f) = {h} /\ ~entry[h].near /\ LongOK(f, h, {})
      BY <2>5
    <3>2. th.overlapped
      BY <1>2, <3>1 DEF Plain
    <3>3. QED
      BY <2>2, <3>1, <3>2
  <2>6. QED
    <3>1. ShapeOK(f)
      BY <1>1 DEF OrderInv, ShapesOK
    <3>2. QED
      BY <2>3, <2>4, <2>5, <3>1, Zenon DEF ShapeOK
<1>5. CASE w = Orig(th.i)
  <2>1. Execute(t, AtWord(RunOrig(th, w), th.i + 1))
    BY <1>3, <1>5 DEF Orig, Inst
  <2>2. PathOK(AtWord(RunOrig(th, w), th.i + 1))
    BY <1>1, <1>2, <1>5, OwnWord
  <2>3. QED
    BY <1>1, <2>1, <2>2, ExecuteOrder
<1>6. CASE th.overlapped /\ w.op \in {"br_x17", "lo", "hi"}
  <2>1. JumpX17(th) = [th EXCEPT !.pc = "torn"]
    BY <1>2 DEF JumpX17
  <2>2. Execute(t, [th EXCEPT !.pc = "torn"])
    <3> DEFINE to == [th EXCEPT !.pc = "torn"]
    <3>1. JumpX17(th) = to
      BY <2>1
    <3> HIDE DEF to
    <3>2. CASE w.op = "br_x17"
      BY <1>3, <3>1, <3>2 DEF to
    <3>3. CASE w.op = "lo" \/ w.op = "hi"
      BY <1>3, <3>3 DEF to
    <3>4. QED
      BY <1>6, <3>2, <3>3 DEF to
  <2>3. PathOK([th EXCEPT !.pc = "torn"])
    BY <1>1, <1>6, StopOK
  <2>4. QED
    BY <1>1, <2>2, <2>3, ExecuteOrder
<1>7. QED
  BY <1>4, <1>5, <1>6

\* The words behind the load of a long patch
LEMMA LongWord ==
  ASSUME InstallInv, OrderInv, NEW th, CallAt(th), th.pc = "word", th.fn \in Targets,
         NEW h \in Hooks, AtLong(th, h)
  PROVE  \/ th.i = 2 /\ code[th.fn][2] = BrX17
         \/ th.i = 2 /\ code[th.fn][2] = Orig(2) /\ th.overlapped
         \/ th.i = 3 /\ code[th.fn][3].op = "lo" /\ th.overlapped
<1> DEFINE f == th.fn
<1>1. Live(h) /\ Target[h] = f /\ ~entry[h].near /\ (Halfway(f) => th.overlapped)
  BY DEF AtLong, ToMeet, CallAt
<1>2. CASE th.i = 3
  BY <1>2 DEF AtLong, Lo, Inst
<1>3. CASE th.i = 2
  <2>1. CASE Plain(f)
    BY <1>1, <2>1 DEF Plain, Live, On, Halfway
  <2>2. CASE Halfway(f) /\ LongOK(f, H, installer.words)
    BY <1>1, <1>3, <2>2 DEF LongOK
  <2>3. CASE \E g \in active : LongOK(f, g, {})
    BY <1>3, <2>3 DEF LongOK
  <2>4. QED
    BY <2>1, <2>2, <2>3 DEF OrderInv, ShapesOK, ShapeOK
<1>4. QED
  BY <1>2, <1>3 DEF AtLong

LEMMA FetchLongOrder ==
  ASSUME InstallInv, OrderInv, NEW t \in Threads, Fetch(t),
         NEW h \in Hooks, AtLong(thread[t], h)
  PROVE  OrderInv'
<1> DEFINE th == thread[t]
           f == th.fn
           w == code[f][th.i]
<1>1. /\ DOMAIN th = DOMAIN Idle /\ CallOrder(th) /\ CallAt(th) /\ SlotsOK
      /\ DOMAIN thread = Threads /\ th.pc = "word" /\ f \in Targets
      /\ Halfway(f) => th.overlapped
  BY ThreadIs DEF Fetch, At, CallAt
<1>2. /\ ToMeet(th, h) /\ Live(h) /\ ~entry[h].near
      /\ th.x17 = LongAddr(h) /\ code[f][3] = Lo(th.x17)
  BY DEF AtLong, ToMeet
<1>3. Execute(t, CASE w.op = "orig" -> AtWord(RunOrig(th, w), th.i + 1)
                   [] w.op = "b" -> Goto(th, w.arg)
                   [] w.op = "ldr_x17" -> AtWord([th EXCEPT !.x17 = Literal(f)], th.i + 1)
                   [] w.op = "br_x17" -> JumpX17(th)
                   [] OTHER -> [th EXCEPT !.pc = "torn"])
  BY DEF Fetch
<1>4. CASE th.i = 2 /\ w = BrX17
  <2>1. Leads(h, LongAddr(h))
    BY <1>2, LongLeads
  <2>2. JumpX17(th) = Goto(th, LongAddr(h))
    BY <1>1, <1>2, <2>1, LeadsSomewhere DEF JumpX17
  <2>3. w.op = "br_x17"
    BY <1>4 DEF BrX17, Inst
  <2>4. Execute(t, Goto(th, LongAddr(h)))
    BY <1>3, <2>2, <2>3
  <2>5. PathOK(Goto(th, LongAddr(h)))
    BY <1>1, <1>2, <2>1, ArriveOK
  <2>6. QED
    BY <1>1, <2>4, <2>5, ExecuteOrder
<1>5. CASE th.i = 2 /\ w = Orig(2) /\ th.overlapped
  <2> DEFINE ran == RunOrig(th, w)
             to == AtWord(ran, 3)
  <2>1. w.op = "orig"
    BY <1>5 DEF Orig, Inst
  <2>2. Execute(t, to)
    BY <1>3, <1>5, <2>1
  <2>3. /\ DOMAIN ran = DOMAIN Idle /\ ran.fn = th.fn /\ ran.sees = th.sees
        /\ ran.through = th.through /\ ran.overlapped = th.overlapped /\ ran.due = th.due
        /\ ran.x17 = th.x17
    BY <1>1 DEF RunOrig, Idle
  <2> HIDE DEF ran
  <2>4. CallOrder(ran) /\ ToMeet(ran, h)
    BY <1>1, <1>2, <1>5, <2>3 DEF CallOrder, ToMeet, Ran
  <2>5. SameCall(to, ran) /\ to.pc = "word" /\ to.i = 3 /\ to.x17 = ran.x17
    BY <2>3, AtWordIs
  <2> HIDE DEF to
  <2>6. CallOrder(to) /\ ToMeet(to, h) /\ to.fn = f /\ to.overlapped
    BY <1>5, <2>3, <2>4, <2>5, SameOrder DEF SameCall
  <2>7. AtLong(to, h)
    BY <1>2, <2>3, <2>5, <2>6 DEF AtLong
  <2>8. PathOK(to)
    BY <2>5, <2>6, <2>7 DEF PathOK, CallAt
  <2>9. QED
    BY <1>1, <2>2, <2>8, ExecuteOrder
<1>6. CASE th.i = 3 /\ w.op = "lo" /\ th.overlapped
  <2>1. Execute(t, [th EXCEPT !.pc = "torn"])
    BY <1>3, <1>6
  <2>2. PathOK([th EXCEPT !.pc = "torn"])
    BY <1>1, <1>6, StopOK
  <2>3. QED
    BY <1>1, <2>1, <2>2, ExecuteOrder
<1>7. QED
  BY <1>1, <1>4, <1>5, <1>6, LongWord

LEMMA RunOrder ==
  ASSUME InstallInv, OrderInv, NEW t \in Threads, Run(t)
  PROVE  OrderInv'
<1>1. CASE Fetch(t)
  <2>1. \/ AtFirst(thread[t]) \/ AtOwn(thread[t])
        \/ \E h \in Hooks : AtLong(thread[t], h)
    BY <1>1, ThreadIs DEF Fetch, CallAt
  <2>2. QED
    BY <1>1, <2>1, FetchFirstOrder, FetchOwnOrder, FetchLongOrder
<1>2. QED
  BY <1>1, OnEnterTransferOrder, OnEnterClosureOrder, OnLeaveClosureOrder, ClosureFaultOrder,
     OnInvokeOrder, ReplaceCallsOriginOrder, ReturnsOrder DEF Run

(* ------------------------------------------------------------------------ *)
(* The steps of the installer add to what there is                                 *)

BuildStep == {"enter", "leave", "dbi", "transfer", "invoke"}

\* After active() comes nothing or the store of *origin_call, and that comes only there
LEMMA StepsNext ==
  ASSUME NEW h \in Hooks, NEW near \in BOOLEAN,
         NEW s, s = BuildSteps(h, near), NEW k \in 1..Len(s)
  PROVE  /\ s[1] # "origin"
         /\ s[k] \in BuildStep => k # Len(s) /\ s[k + 1] # "origin"
         /\ s[k] = "active" => k = Len(s) \/ (k + 1 = Len(s) /\ s[k + 1] = "origin")
<1>1. Type[h] \in {"PRE_POST", "REPLACE", "DBI"}
  BY HooksAssumption DEF HookType
<1>2. CASE Type[h] = "PRE_POST" /\ near
  <2>1. s = <<"enter", "transfer", "invoke", "leave", "active">>
    BY <1>2, StepsAre
  <2>2. /\ Len(s) = 5 /\ s[1] = "enter" /\ s[2] = "transfer" /\ s[3] = "invoke"
        /\ s[4] = "leave" /\ s[5] = "active"
    BY <2>1
  <2>3. QED
    BY <2>2 DEF BuildStep
<1>3. CASE Type[h] = "PRE_POST" /\ ~near
  <2>1. s = <<"enter", "invoke", "leave", "active">>
    BY <1>3, StepsAre
  <2>2. Len(s) = 4 /\ s[1] = "enter" /\ s[2] = "invoke" /\ s[3] = "leave" /\ s[4] = "active"
    BY <2>1
  <2>3. QED
    BY <2>2 DEF BuildStep
<1>4. CASE Type[h] = "REPLACE"
  <2>1. s = <<"transfer", "invoke", "active", "origin">>
    BY <1>4, StepsAre
  <2>2. Len(s) = 4 /\ s[1] = "transfer" /\ s[2] = "invoke" /\ s[3] = "active" /\ s[4] = "origin"
    BY <2>1
  <2>3. QED
    BY <2>2 DEF BuildStep
<1>5. CASE Type[h] = "DBI" /\ near
  <2>1. s = <<"dbi", "transfer", "invoke", "active">>
    BY <1>5, StepsAre
  <2>2. Len(s) = 4 /\ s[1] = "dbi" /\ s[2] = "transfer" /\ s[3] = "invoke" /\ s[4] = "active"
    BY <2>1
  <2>3. QED
    BY <2>2 DEF BuildStep
<1>6. CASE Type[h] = "DBI" /\ ~near
  <2>1. s = <<"dbi", "invoke", "active">>
    BY <1>6, StepsAre
  <2>2. Len(s) = 3 /\ s[1] = "dbi" /\ s[2] = "invoke" /\ s[3] = "active"
    BY <2>1
  <2>3. QED
    BY <2>2 DEF BuildStep
<1>7. QED
  BY <1>1, <1>2, <1>3, <1>4, <1>5, <1>6

\* The steps that are left, after one of them
LEMMA TodoNext ==
  ASSUME InstallInv, NEW step, InstallerAt(step)
  PROVE  /\ step \in BuildStep =>
              Tail(installer.todo) # << >> /\ Head(Tail(installer.todo)) # "origin"
         /\ step = "active" =>
              /\ Len(installer.todo) = 1 => Tail(installer.todo) = << >>
              /\ Tail(installer.todo) # << >> => Head(Tail(installer.todo)) = "origin"
<1> DEFINE s == Steps(H)
<1>1. H \in Hooks /\ entry[H].near \in BOOLEAN /\ s = BuildSteps(H, entry[H].near)
  BY AtStep DEF EntryOK, Steps
<1>2. PICK k \in 1..Len(s) : /\ installer.todo = SubSeq(s, k, Len(s))
                             /\ s[k] = step
                             /\ Tail(installer.todo) = SubSeq(s, k + 1, Len(s))
  BY AtStep
<1>3. Len(s) \in Nat
  BY <1>1, <1>2, StepsInOrder
<1>4. /\ step \in BuildStep => k # Len(s) /\ s[k + 1] # "origin"
      /\ step = "active" => k = Len(s) \/ (k + 1 = Len(s) /\ s[k + 1] = "origin")
  BY <1>1, <1>2, StepsNext
<1> HIDE DEF s
<1>5. CASE k = Len(s)
  <2>1. k + 1 > Len(s)
    BY <1>3, <1>5
  <2>2. Tail(installer.todo) = << >>
    BY <1>2, <1>3, <2>1
  <2>3. QED
    BY <1>4, <1>5, <2>2
<1>6. CASE k # Len(s)
  <2>1. k + 1 \in 1..Len(s) /\ k \in Nat \ {0}
    BY <1>2, <1>3, <1>6
  <2> DEFINE r == SubSeq(s, k + 1, Len(s))
             a == SubSeq(s, k, Len(s))
  <2>2. Len(r) = Len(s) - k /\ r[1] = s[k + 1] /\ Len(r) # 0 /\ Len(a) # 1
    <3>1. PICK m \in Nat \ {0} :
            /\ m = Len(s) - k /\ Len(s) - (k + 1) + 1 = m /\ Len(s) - k + 1 = m + 1
      BY <1>3, <2>1
    <3>2. r = [i \in 1..m |-> s[(k + 1) + i - 1]]
      BY <1>3, <2>1, <3>1
    <3>3. a = [i \in 1..m + 1 |-> s[k + i - 1]]
      BY <1>3, <2>1, <3>1
    <3> HIDE DEF r, a
    <3>4. Len(r) = m /\ Len(a) = m + 1
      BY <3>1, <3>2, <3>3
    <3>5. 1 \in 1..m /\ (k + 1) + 1 - 1 = k + 1
      BY <2>1, <3>1
    <3>6. r[1] = s[k + 1]
      BY <3>2, <3>5
    <3>7. m # 0 /\ m + 1 # 1
      BY <3>1
    <3>8. QED
      BY <3>1, <3>4, <3>6, <3>7, Zenon
  <2>3. r # << >> /\ Head(r) = r[1]
    BY <2>2
  <2> HIDE DEF r, a
  <2>4. Tail(installer.todo) = r /\ installer.todo = a
    BY <1>2 DEF r, a
  <2>5. QED
    BY <1>4, <1>6, <2>2, <2>3, <2>4
<1>7. QED
  BY <1>5, <1>6

\* Nothing that a call has gone through, or comes to, is taken away or altered
Onward ==
  /\ \A g, h : Earlier(g, h) => Earlier(g, h)'
  /\ \A h : h \in Hooked => h \in Hooked'
  /\ \A h : h \in active => h \in active'
  /\ \A h : Live(h) =>
       /\ Live(h)'
       /\ entry'[h].near = entry[h].near /\ entry'[h].invoke = entry[h].invoke
       /\ LongAddr(h)' = LongAddr(h)
       /\ invoke'[h] = invoke[h]
       /\ First(h) => First(h)'
  /\ \A n \in 1..Len(slots) : n \in 1..Len(slots') /\ slots'[n] = slots[n]

\* The same thread, which may have met a patch half-way meanwhile
Overtaken(y, x) ==
  /\ y.pc = x.pc /\ y.at = x.at /\ y.i = x.i /\ y.x17 = x.x17
  /\ y.fn = x.fn /\ y.sees = x.sees /\ y.through = x.through /\ y.ran = x.ran /\ y.due = x.due
  /\ y.overlapped \in BOOLEAN
  /\ x.overlapped => y.overlapped

LEMMA OnwardPath ==
  ASSUME Onward, NEW x, PathOK(x), At(x), NEW y, Overtaken(y, x),
         y.pc = "word" /\ Halfway(y.fn)' => y.overlapped,
         y.pc = "word" /\ ~y.overlapped /\ Plain(y.fn) => Plain(y.fn)',
         \A h : AtLong(x, h) => code'[x.fn][3] = code[x.fn][3]
  PROVE  PathOK(y)'
<1>1. \A h, s, a : SlotOf(h, s, a) => SlotOf(h, s, a)'
  BY DEF Onward, SlotOf
<1>2. CallOrder(y)'
  <2>1. CallOrder(x)
    BY DEF PathOK
  <2>2. \A i \in 1..Len(y.through) :
          y.through[i] \in Hooked' /\ Target[y.through[i]] = y.fn
    BY <2>1 DEF CallOrder, Overtaken, Onward
  <2>3. \A i, j \in 1..Len(y.through) : i < j => Earlier(y.through[j], y.through[i])'
    BY <2>1 DEF CallOrder, Overtaken, Onward
  <2>4. \A g \in y.sees : g \in On(y.fn)'
    BY <2>1 DEF CallOrder, Overtaken, Onward, On
  <2>5. \A i \in 1..Len(y.due) : \E h \in Hooks : SlotOf(h, {"leave"}, y.due[i])'
    BY <1>1, <2>1 DEF CallOrder, Overtaken
  <2>6. y.through \in Seq(Hooks) /\ y.overlapped \in BOOLEAN
    BY <2>1 DEF CallOrder, Overtaken
  <2>7. QED
    BY <2>2, <2>3, <2>4, <2>5, <2>6 DEF CallOrder
<1>3. (\A n : Ran(x, n) => Ran(y, n)') /\ (Seen(x) => Seen(y)')
  BY DEF Overtaken, Ran, Seen, Upto
<1>4. ASSUME NEW h, ToMeet(x, h) PROVE ToMeet(y, h)'
  <2>1. Live(h)' /\ h \in Hooks /\ Target[h] = y.fn /\ Ran(y, 0)'
    BY <1>3, <1>4 DEF ToMeet, Onward, Overtaken
  <2>2. \A i \in 1..Len(y.through) : Earlier(h, y.through[i])'
    BY <1>4 DEF ToMeet, Onward, Overtaken
  <2>3. \A g \in y.sees \ ToSet(y.through) : g = h \/ Earlier(g, h)'
    BY <1>4 DEF ToMeet, Onward, Overtaken
  <2>4. QED
    BY <2>1, <2>2, <2>3 DEF ToMeet
<1>5. ASSUME NEW h, Passed(x, h) PROVE Passed(y, h)'
  <2>1. /\ Live(h)' /\ h \in Hooks /\ Target[h] = y.fn /\ entry'[h].invoke # NULL
        /\ invoke'[h] = invoke[h] /\ (First(h) => First(h)')
    BY <1>5 DEF Passed, Onward, Overtaken
  <2>2. \A g \in y.sees \ ToSet(y.through) : Earlier(g, h)'
    BY <1>5 DEF Passed, Onward, Overtaken
  <2>3. /\ Len(y.through) # 0 /\ y.through[Len(y.through)] = h
        /\ y.i \in 1..Len(invoke'[h]) + 1 /\ Ran(y, y.i - 1)' /\ (~First(h)' => y.i = 1)
    BY <1>3, <1>5, <2>1 DEF Passed, Overtaken
  <2>4. QED
    BY <2>1, <2>2, <2>3 DEF Passed
<1>6. x.pc = "word" /\ AtFirst(x) => AtFirst(y)'
  BY <1>3 DEF AtFirst, Overtaken
<1>7. x.pc = "word" /\ AtOwn(x) => AtOwn(y)'
  <2>1. HAVE x.pc = "word" /\ AtOwn(x)
  <2>2. y.pc = "word" /\ (y.overlapped \/ Plain(y.fn)')
    BY <2>1 DEF AtOwn, Overtaken
  <2>3. QED
    BY <1>3, <2>1, <2>2 DEF AtOwn, Overtaken
<1>8. ASSUME NEW h, AtLong(x, h) PROVE AtLong(y, h)'
  <2>1. ToMeet(y, h)' /\ Live(h)
    BY <1>4, <1>8 DEF AtLong, ToMeet
  <2>2. LongAddr(h)' = LongAddr(h) /\ entry'[h].near = entry[h].near
    BY <2>1 DEF Onward
  <2>3. code'[y.fn][3] = Lo(y.x17)
    BY <1>8 DEF AtLong, Overtaken
  <2>4. QED
    BY <1>8, <2>1, <2>2, <2>3 DEF AtLong, Overtaken, Lo, Inst
<1>9. CallAt(y)'
  <2>1. y.pc = x.pc /\ y.at = x.at /\ CallAt(x)
    BY DEF Overtaken, PathOK
  <2>2. CASE x.pc = "word"
    BY <1>6, <1>7, <1>8, <2>1, <2>2 DEF CallAt
  <2>3. CASE x.pc = "body"
    BY <1>3, <2>1, <2>3 DEF CallAt
  <2>4. CASE x.pc \in {"transfer", "replace"}
    BY <1>4, <2>1, <2>4 DEF CallAt
  <2>5. CASE x.pc = "slot"
    <3>1. slots'[y.at] = slots[x.at]
      BY <2>1, <2>5 DEF At, Onward
    <3>2. QED
      BY <1>4, <2>1, <2>5, <3>1 DEF CallAt
  <2>6. CASE x.pc = "invoke"
    BY <1>5, <2>1, <2>6 DEF CallAt
  <2>7. CASE x.pc \in {"torn", "stray"}
    BY <2>1, <2>7 DEF CallAt, Overtaken
  <2>8. CASE x.pc \notin {"word", "body", "transfer", "replace", "slot", "invoke", "torn", "stray"}
    BY <2>1, <2>8 DEF CallAt
  <2>9. QED
    BY <2>2, <2>3, <2>4, <2>5, <2>6, <2>7, <2>8
<1>10. QED
  BY <1>2, <1>9 DEF PathOK

(* ------------------------------------------------------------------------ *)
(* The steps of the installer                                                      *)

LEMMA StillOrder ==
  ASSUME InstallInv, OrderInv, UNCHANGED thread,
         UNCHANGED <<hook_entries, entry, code, slots, transfer, invoke, origin_call, active>>,
         installer'.hook = installer.hook, installer'.todo = installer.todo,
         installer'.words = installer.words
  PROVE  OrderInv'
<1>1. /\ HooksOK' /\ CurrentOK' /\ DestsOK' /\ InvokesOK' /\ ShapesOK'
      /\ \A th : PathOK(th) => PathOK(th)'
  BY StillOK
<1>2. PathsOK'
  <2>1. ASSUME NEW t \in Threads PROVE PathOK(thread[t])'
    <3>1. PICK x : x = thread'[t] /\ PathOK(x)
      BY DEF OrderInv, PathsOK
    <3>2. PathOK(x)'
      BY <1>1, <3>1
    <3>3. QED
      BY <3>1, <3>2
  <2>2. QED
    BY <2>1 DEF PathsOK
<1>3. QED
  BY <1>1, <1>2 DEF OrderInv

LEMMA QuietOrder ==
  ASSUME InstallInv, OrderInv,
         zz_enable_near_jump \/ zz_disable_near_jump \/ UnprotectTable \/ UNCHANGED vars
  PROVE  OrderInv'
<1>1. CASE zz_enable_near_jump \/ zz_disable_near_jump \/ UNCHANGED vars
  BY <1>1, StillOrder DEF zz_enable_near_jump, zz_disable_near_jump, vars, installVars
<1>2. CASE UnprotectTable
  <2>1. /\ installer' = [installer EXCEPT !.rw = TRUE]
        /\ UNCHANGED <<hook_entries, entry, code, slots, transfer, invoke, origin_call,
                       active, thread>>
    BY <1>2 DEF UnprotectTable
  <2>2. /\ installer'.hook = installer.hook /\ installer'.todo = installer.todo
        /\ installer'.words = installer.words
    BY <2>1 DEF InstallInv, InstallerOK, Idling
  <2>3. QED
    BY <2>1, <2>2, StillOrder
<1>3. QED
  BY <1>1, <1>2

\* All threads come by the same way as before
LEMMA OnwardPaths ==
  ASSUME InstallInv, OrderInv, Onward, UNCHANGED thread,
         \A f : Halfway(f)' => Halfway(f),
         \A f : Plain(f) => Plain(f)',
         \A t \in Threads : \A h : AtLong(thread[t], h) =>
           code'[thread[t].fn][3] = code[thread[t].fn][3]
  PROVE  PathsOK'
<1>1. ASSUME NEW t \in Threads PROVE PathOK(thread[t])'
  <2>1. PICK x : x = thread[t] /\ PathOK(x) /\ At(x)
    BY DEF OrderInv, PathsOK, InstallInv, ThreadsOK, ThreadOK
  <2>2. Overtaken(x, x)
    BY <2>1 DEF PathOK, CallOrder, Overtaken
  <2>3. x.pc = "word" /\ Halfway(x.fn)' => x.overlapped
    BY <2>1 DEF PathOK, CallAt
  <2>4. \A h : AtLong(x, h) => code'[x.fn][3] = code[x.fn][3]
    BY <2>1
  <2>5. PathOK(x)'
    BY <2>1, <2>2, <2>3, <2>4, OnwardPath
  <2>6. QED
    BY <2>1, <2>5
<1>2. QED
  BY <1>1 DEF PathsOK

\* While a hook is being built, nothing leads to it
LEMMA BuiltAside ==
  ASSUME InstallInv, OrderInv, NEW step \in BuildStep, InstallerAt(step)
  PROVE  /\ H \in Hooks /\ H \in Hooked /\ H \notin active /\ active = Hooked \ {H}
         /\ installer.words = {} /\ ~Live(H) /\ HooksOK
         /\ \A g : Live(g) <=> g \in active
         /\ \A g \in Hooked : g = H \/ Earlier(g, H)
<1>1. step # "active" /\ step # "origin"
  BY DEF BuildStep
<1>2. installer.words = {}
  BY <1>1 DEF InstallInv, InstallerOK, InstallerAt
<1>3. /\ Len(hook_entries) # 0 /\ H = hook_entries[Len(hook_entries)]
      /\ active = Hooked \ {H}
  BY <1>1 DEF OrderInv, CurrentOK, InstallerAt
<1>4. H \in Hooked /\ \A g \in Hooked : g = H \/ Earlier(g, H)
  BY <1>3, NewestLast DEF OrderInv
<1>5. H \in Hooks
  BY AtStep
<1>6. QED
  BY <1>2, <1>3, <1>4, <1>5 DEF Live, OrderInv

\* What a step of build_all, which works on hook h, leaves as it is
Aside(h) ==
  /\ h = H
  /\ installer' = Advanced
  /\ UNCHANGED <<hook_entries, code, active, thread>>
  /\ \A g \in Hooks : entry'[g].near = entry[g].near
  /\ \A g \in Hooks : g # h => entry'[g] = entry[g] /\ invoke'[g] = invoke[g]
  /\ \A n \in 1..Len(slots) : n \in 1..Len(slots') /\ slots'[n] = slots[n]

LEMMA AsideOrder ==
  ASSUME InstallInv, OrderInv, NEW step \in BuildStep, InstallerAt(step), NEW h, Aside(h)
  PROVE  /\ HooksOK' /\ CurrentOK' /\ ShapesOK' /\ PathsOK'
         /\ Hooked' = Hooked
         /\ \A g, k : Earlier(g, k)' <=> Earlier(g, k)
         /\ \A g : First(g)' <=> First(g)
         /\ \A g, k : Below(g, k)' <=> Below(g, k)
<1>1. /\ h = H /\ h \in Hooks /\ h \in Hooked /\ h \notin active /\ active = Hooked \ {h}
      /\ installer.words = {} /\ HooksOK /\ \A g : Live(g) <=> g \in active
  BY BuiltAside DEF Aside
<1>2. /\ installer'.hook = h /\ installer'.words = {} /\ installer'.todo = Tail(installer.todo)
      /\ H' = h
  BY <1>1 DEF Aside, Advanced, InstallInv, InstallerOK, Idling, H
<1>3. active' = active /\ hook_entries' = hook_entries /\ code' = code /\ thread' = thread
  BY DEF Aside
<1>4. /\ Hooked' = Hooked /\ \A g, k : Earlier(g, k)' <=> Earlier(g, k)
  BY <1>3 DEF Hooked, Earlier
<1>5. /\ \A f : On(f)' = On(f) /\ ~Halfway(f)' /\ ~Halfway(f)
      /\ \A g : Live(g)' <=> Live(g)
  BY <1>1, <1>2, <1>3 DEF On, Halfway, Live
<1>6. \A g \in active : /\ g \in Hooks /\ entry'[g] = entry[g] /\ invoke'[g] = invoke[g]
                        /\ LongAddr(g)' = LongAddr(g) /\ (Complete(g) => Complete(g)')
  <2>1. ASSUME NEW g \in active PROVE g \in Hooks /\ entry'[g] = entry[g] /\ invoke'[g] = invoke[g]
    BY <1>1, <2>1, EntriesTyped DEF Aside
  <2>2. QED
    BY <2>1 DEF LongAddr, Destination, Complete
<1>7. HooksOK'
  <2>1. StackOK'
    <3>1. \A g \in Hooked : entry'[g].near = entry[g].near
      BY <1>1, EntriesTyped DEF Aside
    <3>2. QED
      BY <1>1, <1>4, <3>1 DEF HooksOK, StackOK
  <2>2. QED
    BY <1>1, <1>3, <1>4, <1>6, <2>1 DEF HooksOK
<1>8. CurrentOK'
  <2>1. installer'.todo # << >> /\ Head(installer'.todo) # "origin"
    BY <1>2, TodoNext
  <2>2. Len(hook_entries) # 0 /\ H = hook_entries[Len(hook_entries)]
    BY DEF OrderInv, CurrentOK, InstallerAt
  <2>3. QED
    BY <1>1, <1>2, <1>3, <1>4, <2>1, <2>2 DEF CurrentOK, InstallerAt
<1>9. \A f : Plain(f)' <=> Plain(f)
  BY <1>5, <1>6 DEF Plain, On
<1>10. ShapesOK'
  <2>1. ASSUME NEW f \in Targets PROVE ShapeOK(f)'
    <3>1. ShapeOK(f)
      BY DEF OrderInv, ShapesOK
    <3>2. CASE Plain(f) /\ PlainOK(f)
      <4>1. \A g : Top(g) => Top(g)'
        BY <1>3, <1>4, <1>5 DEF Top
      <4>2. PlainOK(f)'
        BY <1>3, <1>5, <3>2, <4>1 DEF PlainOK
      <4>3. QED
        BY <1>9, <3>2, <4>2 DEF ShapeOK
    <3>3. CASE \E g \in active : On(f) = {g} /\ ~entry[g].near /\ LongOK(f, g, {})
      <4>1. PICK g \in active : On(f) = {g} /\ ~entry[g].near /\ LongOK(f, g, {})
        BY <3>3
      <4>2. LongOK(f, g, {})'
        BY <1>3, <1>6, <4>1 DEF LongOK
      <4>3. QED
        BY <1>3, <1>5, <1>6, <4>1, <4>2 DEF ShapeOK
    <3>4. QED
      BY <1>5, <3>1, <3>2, <3>3 DEF ShapeOK
  <2>2. QED
    BY <2>1 DEF ShapesOK
<1>11. \A g : First(g)' <=> First(g)
  BY <1>4 DEF First
<1>12. \A g, k : Below(g, k)' <=> Below(g, k)
  BY <1>3, <1>4 DEF Below
<1>13. PathsOK'
  <2>1. Onward
    BY <1>1, <1>3, <1>4, <1>5, <1>6, <1>11 DEF Onward, Aside
  <2>2. QED
    BY <1>3, <1>5, <1>9, <2>1, OnwardPaths
<1>14. QED
  BY <1>4, <1>7, <1>8, <1>10, <1>11, <1>12, <1>13

\* What on_invoke_trampoline does, when another hook's is not touched
LEMMA InvokeKept ==
  ASSUME \A g : First(g)' <=> First(g),
         \A g, k : Below(g, k)' <=> Below(g, k),
         NEW g \in Hooks, entry'[g].near = entry[g].near, invoke'[g] = invoke[g], InvokeOK(g)
  PROVE  InvokeOK(g)'
<1>1. Limit(g)' = Limit(g)
  BY DEF Limit
<1>2. QED
  BY <1>1 DEF InvokeOK

LEMMA BindClosureOrder ==
  ASSUME InstallInv, OrderInv, NEW f \in {"enter", "leave", "dbi"}, BindClosure(f)
  PROVE  OrderInv'
<1> DEFINE n == Len(slots) + 1
           slot == [hook |-> H, handler |-> f]
<1>1. /\ InstallerAt(f) /\ installer' = Advanced
      /\ slots' = Append(slots, slot)
      /\ entry' = [entry EXCEPT ![H][f] = Slot(n)]
      /\ UNCHANGED <<hook_entries, code, transfer, invoke, origin_call, active, thread>>
  BY DEF BindClosure
<1>2. PICK h \in Hooks : h = H
  BY <1>1, AtStep
<1>3. f \in BuildStep
  BY DEF BuildStep
<1>4. /\ Len(slots) \in Nat /\ Len(slots') = n /\ slots'[n] = slot
      /\ \A m \in 1..Len(slots) : m \in 1..Len(slots') /\ slots'[m] = slots[m]
  <2> DEFINE S == [hook : Hooks, handler : {"enter", "leave", "dbi"}]
  <2>1. slots \in Seq(S) /\ slot \in S
    BY <1>2 DEF InstallInv, SlotsOK
  <2> HIDE DEF S, slot
  <2>2. /\ Len(slots) \in Nat /\ Len(slots') = n /\ slots'[n] = slot
        /\ \A m \in 1..Len(slots) : slots'[m] = slots[m]
    BY <1>1, <2>1, AppendProperties
  <2>3. QED
    BY <2>2
<1>5. FieldSet(h, f, Slot(n))
  <2>1. Slot(n) # NULL
    BY <1>4, NullIsNoAddress
  <2>2. SetsField(h, f, Slot(n))
    BY <1>1, <1>2 DEF SetsField
  <2>3. QED
    BY <2>1, <2>2, SetField
<1>6. /\ \A g \in Hooks : entry'[g].near = entry[g].near
      /\ \A g \in Hooks : g # h => entry'[g] = entry[g]
      /\ \A g \in Hooks : entry'[g].invoke = entry[g].invoke
      /\ \A g \in Hooks : \A x \in {"enter", "leave", "dbi"} :
           entry'[g][x] = IF g = h /\ x = f THEN Slot(n) ELSE entry[g][x]
  <2>1. DOMAIN NoEntry = {"near", "enter", "leave", "dbi", "invoke", "transfer"}
    BY DEF NoEntry
  <2>2. DOMAIN entry = Hooks
    BY DEF InstallInv, EntriesOK
  <2>3. QED
    BY <1>1, <1>2, <1>5, <2>1, <2>2 DEF FieldSet
<1>7. Aside(h)
  BY <1>1, <1>2, <1>4, <1>6 DEF Aside
<1>8. /\ HooksOK' /\ CurrentOK' /\ ShapesOK' /\ PathsOK' /\ Hooked' = Hooked
      /\ \A g : First(g)' <=> First(g)
      /\ \A g, k : Below(g, k)' <=> Below(g, k)
  BY <1>1, <1>3, <1>7, AsideOrder
<1>9. \A g, s, a : SlotOf(g, s, a) => SlotOf(g, s, a)'
  BY <1>4 DEF SlotOf
<1>10. PICK new : new = Slot(n) /\ SlotOf(h, {f}, new)'
  <2>1. n \in 1..Len(slots') /\ slots'[n].hook = h /\ slots'[n].handler = f
    BY <1>2, <1>4
  <2> HIDE DEF n
  <2>2. \A a : a = Slot(n) => SlotOf(h, {f}, a)'
    BY <2>1 DEF SlotOf
  <2>3. QED
    BY <2>2
<1>11. DestsOK'
  <2>1. ASSUME NEW g \in Hooks
        PROVE  /\ entry'[g].enter # NULL => SlotOf(g, {"enter"}, entry[g].enter)'
               /\ entry'[g].leave # NULL => SlotOf(g, {"leave"}, entry[g].leave)'
               /\ entry'[g].dbi # NULL => SlotOf(g, {"dbi"}, entry[g].dbi)'
    <3>1. ASSUME NEW x \in {"enter", "leave", "dbi"}, entry'[g][x] # NULL,
                 entry[g][x] # NULL => SlotOf(g, {x}, entry[g][x])
          PROVE  SlotOf(g, {x}, entry[g][x])'
      <4>1. CASE g = h /\ x = f
        <5>1. entry'[h][f] = new
          BY <1>6, <1>10
        <5>2. QED
          BY <1>10, <4>1, <5>1
      <4>2. CASE ~(g = h /\ x = f)
        <5>1. PICK a : a = entry[g][x] /\ a = entry'[g][x]
          BY <1>6, <4>2
        <5>2. SlotOf(g, {x}, a)'
          BY <1>9, <3>1, <5>1
        <5>3. QED
          BY <5>1, <5>2
      <4>3. QED
        BY <4>1, <4>2
    <3>2. /\ entry[g].enter # NULL => SlotOf(g, {"enter"}, entry[g].enter)
          /\ entry[g].leave # NULL => SlotOf(g, {"leave"}, entry[g].leave)
          /\ entry[g].dbi # NULL => SlotOf(g, {"dbi"}, entry[g].dbi)
      BY DEF OrderInv, DestsOK
    <3>3. QED
      BY <3>1, <3>2
  <2>2. ASSUME NEW g \in Hooks
        PROVE  /\ transfer'[g] # NULL => DestOK(g, transfer[g])'
               /\ origin_call'[g] # NULL => entry'[g].invoke # NULL
    <3>1. PICK a : a = transfer[g] /\ a = transfer'[g]
      BY <1>1
    <3>2. a # NULL => DestOK(g, a)
      BY <3>1 DEF OrderInv, DestsOK
    <3>3. a # NULL => DestOK(g, a)'
      BY <1>9, <3>2 DEF DestOK
    <3>4. QED
      BY <1>1, <1>6, <3>1, <3>3 DEF OrderInv, DestsOK
  <2>3. QED
    BY <2>1, <2>2 DEF DestsOK
<1>12. InvokesOK'
  <2>1. ASSUME NEW g \in Hooks, entry'[g].invoke # NULL PROVE g \in Hooked' /\ InvokeOK(g)'
    <3>1. g \in Hooked /\ InvokeOK(g)
      BY <1>6, <2>1 DEF OrderInv, InvokesOK
    <3>2. QED
      BY <1>1, <1>6, <1>8, <3>1, InvokeKept
  <2>2. QED
    BY <2>1 DEF InvokesOK
<1>13. QED
  BY <1>8, <1>11, <1>12 DEF OrderInv

LEMMA BuildForEnterTransferOrder ==
  ASSUME InstallInv, OrderInv, BuildForEnterTransfer
  PROVE  OrderInv'
<1>1. /\ InstallerAt("transfer") /\ installer' = Advanced
      /\ transfer' = [transfer EXCEPT ![H] = Destination(H)]
      /\ entry' = [entry EXCEPT ![H].transfer = Code("transfer", H)]
      /\ UNCHANGED <<hook_entries, code, slots, invoke, origin_call, active, thread>>
  BY DEF BuildForEnterTransfer
<1>2. PICK h \in Hooks : h = H
  BY <1>1, AtStep
<1>3. PICK d : d = Destination(h)
  OBVIOUS
<1>4. DestOK(h, d)
  <2>1. Type[h] \in {"PRE_POST", "REPLACE", "DBI"}
    BY HooksAssumption DEF HookType
  <2>2. /\ Type[h] = "PRE_POST" => entry[h].enter # NULL
        /\ Type[h] = "DBI" => entry[h].dbi # NULL
    BY <1>1, <1>2, AtStep
  <2>3. /\ entry[h].enter # NULL => SlotOf(h, {"enter"}, entry[h].enter)
        /\ entry[h].dbi # NULL => SlotOf(h, {"dbi"}, entry[h].dbi)
    BY DEF OrderInv, DestsOK
  <2>4. \A a : SlotOf(h, {"enter"}, a) \/ SlotOf(h, {"dbi"}, a) => SlotOf(h, {"enter", "dbi"}, a)
    BY DEF SlotOf
  <2>5. QED
    BY <1>3, <2>1, <2>2, <2>3, <2>4 DEF Destination, DestOK
<1>5. /\ transfer'[h] = d
      /\ \A g \in Hooks : g # h => transfer'[g] = transfer[g]
  BY <1>1, <1>2, <1>3 DEF InstallInv, EntriesOK
<1>6. /\ \A g \in Hooks : g # h => entry'[g] = entry[g]
      /\ \A g \in Hooks : /\ entry'[g].near = entry[g].near /\ entry'[g].enter = entry[g].enter
                          /\ entry'[g].leave = entry[g].leave /\ entry'[g].dbi = entry[g].dbi
                          /\ entry'[g].invoke = entry[g].invoke
  <2>1. DOMAIN entry = Hooks /\ \A g \in Hooks : DOMAIN entry[g] = DOMAIN NoEntry
    BY DEF InstallInv, EntriesOK, EntryOK
  <2>2. QED
    BY <1>1, <1>2, <2>1 DEF NoEntry
<1>7. Aside(h)
  BY <1>1, <1>2, <1>6 DEF Aside
<1>8. /\ HooksOK' /\ CurrentOK' /\ ShapesOK' /\ PathsOK' /\ Hooked' = Hooked
      /\ \A g : First(g)' <=> First(g)
      /\ \A g, k : Below(g, k)' <=> Below(g, k)
  <2>1. "transfer" \in BuildStep
    BY DEF BuildStep
  <2>2. QED
    BY <1>1, <1>7, <2>1, AsideOrder
<1>9. \A g, s, a : SlotOf(g, s, a)' <=> SlotOf(g, s, a)
  BY <1>1 DEF SlotOf
<1>10. DestsOK'
  <2>1. \A g, a : DestOK(g, a) => DestOK(g, a)'
    BY <1>9 DEF DestOK
  <2>2. ASSUME NEW g \in Hooks, transfer'[g] # NULL PROVE DestOK(g, transfer[g])'
    <3>1. PICK a : a = transfer'[g]
      OBVIOUS
    <3>2. DestOK(g, a)
      BY <1>4, <1>5, <2>2, <3>1 DEF OrderInv, DestsOK
    <3>3. DestOK(g, a)'
      BY <2>1, <3>2
    <3>4. QED
      BY <3>1, <3>3
  <2>3. QED
    BY <1>1, <1>6, <1>9, <2>2 DEF OrderInv, DestsOK
<1>11. InvokesOK'
  <2>1. ASSUME NEW g \in Hooks, entry'[g].invoke # NULL PROVE g \in Hooked' /\ InvokeOK(g)'
    <3>1. g \in Hooked /\ InvokeOK(g)
      BY <1>6, <2>1 DEF OrderInv, InvokesOK
    <3>2. QED
      BY <1>1, <1>6, <1>8, <3>1, InvokeKept
  <2>2. QED
    BY <2>1 DEF InvokesOK
<1>12. QED
  BY <1>8, <1>10, <1>11 DEF OrderInv

\* The instructions that are relocated: the function's own, or the branch to the hook before
LEMMA RelocateIs ==
  ASSUME InstallInv, OrderInv, InstallerAt("invoke"), NEW h, h = H
  PROVE  \/ First(h) /\ \A i \in 1..4 : Relocate(Target[h], code[Target[h]][i]) = Orig(i)
         \/ \E g \in Hooks :
              /\ entry[h].near /\ Below(g, h)
              /\ Relocate(Target[h], code[Target[h]][1]) = Inst("jump", Code("transfer", g))
<1> DEFINE f == Target[h]
<1>1. /\ h \in Hooks /\ h \in Hooked /\ h \notin active /\ active = Hooked \ {h}
      /\ installer.words = {} /\ HooksOK
      /\ \A g \in Hooked : g = h \/ Earlier(g, h)
  BY BuiltAside DEF BuildStep
<1>2. f \in Targets
  BY <1>1, HooksAssumption
<1>3. \A g \in On(f) : g \in Hooks /\ g \in Hooked /\ entry[g].near /\ entry[h].near
                       /\ g \in CaveAbove
  BY <1>1, EntriesTyped DEF On, HooksOK, StackOK
<1>4. Plain(f) /\ PlainOK(f)
  <2>1. ShapeOK(f)
    BY <1>2 DEF OrderInv, ShapesOK
  <2>2. QED
    BY <1>1, <1>3, <2>1 DEF ShapeOK, Halfway
<1>5. CASE On(f) = {} /\ code[f][1] = Orig(1)
  <2>1. First(h)
    <3>1. ASSUME NEW g \in Hooked, Target[g] = f, Earlier(g, h) PROVE FALSE
      <4>1. g # h
        BY <1>1, <3>1, EarlierHooked
      <4>2. QED
        BY <1>1, <1>5, <3>1, <4>1 DEF On
    <3>2. QED
      BY <3>1 DEF First
  <2>2. ASSUME NEW i \in 1..4 PROVE Relocate(f, code[f][i]) = Orig(i)
    <3>1. code[f][i] = Orig(i)
      BY <1>4, <1>5 DEF PlainOK
    <3>2. QED
      BY <3>1 DEF Relocate, Orig, Inst
  <2>3. QED
    BY <2>1, <2>2
<1>6. CASE \E g \in On(f) : Top(g) /\ code[f][1] = Inst("b", Code("transfer", g))
  <2>1. PICK g \in On(f) : Top(g) /\ code[f][1] = Inst("b", Code("transfer", g))
    BY <1>6
  <2>2. Relocate(f, code[f][1]) = Inst("jump", Code("transfer", g))
    BY <1>3, <2>1 DEF Relocate, Inst, Code
  <2>3. g \in active /\ Target[g] = f /\ Earlier(g, h)
    BY <1>1, <1>3, <2>1 DEF On
  <2>4. ASSUME NEW k \in Hooked, Target[k] = f, Earlier(k, h) PROVE k = g \/ Earlier(k, g)
    <3>1. k # h
      BY <1>1, <2>4, EarlierHooked
    <3>2. k \in On(f)
      BY <1>1, <2>4, <3>1 DEF On
    <3>3. QED
      BY <2>1, <2>3, <3>2 DEF Top
  <2>5. Below(g, h)
    BY <2>3, <2>4 DEF Below
  <2>6. QED
    BY <1>3, <2>1, <2>2, <2>5
<1>7. QED
  BY <1>4, <1>5, <1>6 DEF PlainOK

LEMMA BuildForInvokeOrder ==
  ASSUME InstallInv, OrderInv, BuildForInvoke
  PROVE  OrderInv'
<1>1. /\ InstallerAt("invoke") /\ installer' = Advanced
      /\ invoke' = [invoke EXCEPT ![H] =
           [i \in 1..Limit(H) |-> Relocate(Target[H], code[Target[H]][i])]]
      /\ entry' = [entry EXCEPT ![H].invoke = Code("invoke", H)]
      /\ UNCHANGED <<hook_entries, code, slots, transfer, origin_call, active, thread>>
  BY DEF BuildForInvoke
<1>2. PICK h \in Hooks : h = H
  BY <1>1, AtStep
<1>3. /\ \A g \in Hooks : g # h => entry'[g] = entry[g] /\ invoke'[g] = invoke[g]
      /\ \A g \in Hooks : /\ entry'[g].near = entry[g].near /\ entry'[g].enter = entry[g].enter
                          /\ entry'[g].leave = entry[g].leave /\ entry'[g].dbi = entry[g].dbi
      /\ entry'[h].invoke = Code("invoke", h)
  <2>1. DOMAIN entry = Hooks /\ \A g \in Hooks : DOMAIN entry[g] = DOMAIN NoEntry
    BY DEF InstallInv, EntriesOK, EntryOK
  <2>2. DOMAIN invoke = Hooks
    BY DEF InstallInv, CodeOK
  <2>3. QED
    BY <1>1, <1>2, <2>1, <2>2 DEF NoEntry
<1>4. "invoke" \in BuildStep
  BY DEF BuildStep
<1>5. Aside(h)
  BY <1>1, <1>2, <1>3 DEF Aside
<1>6. /\ HooksOK' /\ CurrentOK' /\ ShapesOK' /\ PathsOK' /\ Hooked' = Hooked
      /\ \A g : First(g)' <=> First(g)
      /\ \A g, k : Below(g, k)' <=> Below(g, k)
  BY <1>1, <1>4, <1>5, AsideOrder
<1>7. \A g, s, a : SlotOf(g, s, a)' <=> SlotOf(g, s, a)
  BY <1>1 DEF SlotOf
<1>8. DestsOK'
  <2>1. \A g, a : DestOK(g, a) => DestOK(g, a)'
    BY <1>7 DEF DestOK
  <2>2. ASSUME NEW g \in Hooks, transfer'[g] # NULL PROVE DestOK(g, transfer[g])'
    <3>1. PICK a : a = transfer'[g] /\ DestOK(g, a)
      BY <1>1, <2>2 DEF OrderInv, DestsOK
    <3>2. DestOK(g, a)'
      BY <2>1, <3>1
    <3>3. QED
      BY <3>1, <3>2
  <2>3. \A g \in Hooks : entry[g].invoke # NULL => entry'[g].invoke # NULL
    BY <1>3, NullIsNoAddress
  <2>4. QED
    BY <1>1, <1>3, <1>7, <2>2, <2>3 DEF OrderInv, DestsOK
<1>9. InvokeOK(h)'
  <2> DEFINE f == Target[h]
             n == Limit(h)
             ws == [i \in 1..n |-> Relocate(f, code[f][i])]
  <2>1. invoke'[h] = ws /\ n \in {1, 4} /\ (entry[h].near => n = 1)
    BY <1>1, <1>2 DEF Limit, InstallInv, CodeOK
  <2>2. Limit(h)' = n
    BY <1>3 DEF Limit
  <2>3. Len(ws) = n
    <3> HIDE DEF n
    <3>1. QED
      BY <2>1
  <2>4. \A i \in 1..n : i \in 1..4 /\ ws[i] = Relocate(f, code[f][i])
    <3> HIDE DEF n
    <3>1. QED
      BY <2>1
  <2> HIDE DEF ws, n
  <2>5. CASE First(h) /\ \A i \in 1..4 : Relocate(f, code[f][i]) = Orig(i)
    BY <1>6, <2>1, <2>2, <2>3, <2>4, <2>5 DEF InvokeOK
  <2>6. CASE \E g \in Hooks : /\ entry[h].near /\ Below(g, h)
                              /\ Relocate(f, code[f][1]) = Inst("jump", Code("transfer", g))
    <3>1. PICK g \in Hooks : /\ entry[h].near /\ Below(g, h)
                             /\ Relocate(f, code[f][1]) = Inst("jump", Code("transfer", g))
      BY <2>6
    <3>2. Len(ws) = 1 /\ ws[1] = Inst("jump", Code("transfer", g))
      BY <2>1, <2>3, <2>4, <3>1
    <3>3. entry'[h].near /\ Below(g, h)'
      BY <1>3, <1>6, <3>1
    <3>4. QED
      BY <2>1, <3>2, <3>3 DEF InvokeOK
  <2>7. QED
    BY <1>1, <1>2, <2>5, <2>6, RelocateIs
<1>10. InvokesOK'
  <2>1. ASSUME NEW g \in Hooks, entry'[g].invoke # NULL PROVE g \in Hooked' /\ InvokeOK(g)'
    <3>1. CASE g = h
      <4>1. g \in Hooked
        BY <1>1, <1>2, <1>4, <3>1, BuiltAside
      <4>2. QED
        BY <1>6, <1>9, <3>1, <4>1
    <3>2. CASE g # h
      <4>1. g \in Hooked /\ InvokeOK(g)
        BY <1>3, <2>1, <3>2 DEF OrderInv, InvokesOK
      <4>2. QED
        BY <1>3, <1>6, <3>2, <4>1, InvokeKept
    <3>3. QED
      BY <3>1, <3>2
  <2>2. QED
    BY <2>1 DEF InvokesOK
<1>11. QED
  BY <1>6, <1>8, <1>10 DEF OrderInv

\* Over the hooks of its target that are in place, the new one is the last
LEMMA StacksNew ==
  ASSUME HooksOK, NEW h \in Hooks, h \notin Hooked, Stackable(h),
         entry'[h].near = g_near_jump_flag,
         \A g \in Hooked : entry'[g].near = entry[g].near,
         Hooked' = Hooked \cup {h},
         \A a, b : Earlier(a, b)' <=> Earlier(a, b) \/ (a \in Hooked /\ b = h)
  PROVE  StackOK'
<1>1. SUFFICES ASSUME NEW a \in Hooked', NEW b \in Hooked', Target[a] = Target[b], Earlier(a, b)'
               PROVE  entry'[a].near /\ entry'[b].near /\ a \in CaveAbove
  BY DEF StackOK
<1>2. CASE Earlier(a, b)
  BY <1>1, <1>2, EarlierHooked DEF HooksOK, StackOK
<1>3. CASE a \in Hooked /\ b = h
  BY <1>1, <1>3 DEF Stackable, Hooked
<1>4. QED
  BY <1>1, <1>2, <1>3

LEMMA BeginHookOrder ==
  ASSUME InstallInv, OrderInv, NEW h \in Hooks, BeginHook(h)
  PROVE  OrderInv'
<1> DEFINE s == BuildSteps(h, g_near_jump_flag)
<1>1. /\ installer = Idling /\ h \notin Hooked /\ Stackable(h)
      /\ hook_entries' = Append(hook_entries, h)
      /\ entry' = [entry EXCEPT ![h].near = g_near_jump_flag]
      /\ installer' = [Idling EXCEPT !.hook = h, !.todo = s]
      /\ UNCHANGED <<code, slots, transfer, invoke, origin_call, active, thread>>
  BY DEF BeginHook, add_hook_entry, Hooked
<1>2. /\ installer'.hook = h /\ installer'.todo = s /\ installer'.words = {} /\ H' = h
      /\ installer.words = {} /\ installer.todo = << >>
  BY <1>1 DEF Idling, H
<1>3. HooksOK /\ active = Hooked
  BY <1>2 DEF OrderInv, CurrentOK
<1>4. /\ hook_entries' \in Seq(Hooks)
      /\ \A i, j \in 1..Len(hook_entries') : hook_entries'[i] = hook_entries'[j] => i = j
      /\ Len(hook_entries') # 0 /\ hook_entries'[Len(hook_entries')] = h
      /\ Hooked' = Hooked \cup {h}
      /\ \A a, b : Earlier(a, b)' <=> Earlier(a, b) \/ (a \in Hooked /\ b = h)
  BY <1>1, <1>3, OneMore
<1>5. /\ \A g \in Hooks : g # h => entry'[g] = entry[g]
      /\ \A g \in Hooks : /\ entry'[g].enter = entry[g].enter /\ entry'[g].leave = entry[g].leave
                          /\ entry'[g].dbi = entry[g].dbi /\ entry'[g].invoke = entry[g].invoke
      /\ entry'[h].near = g_near_jump_flag
  <2>1. DOMAIN entry = Hooks /\ \A g \in Hooks : DOMAIN entry[g] = DOMAIN NoEntry
    BY DEF InstallInv, EntriesOK, EntryOK
  <2>2. QED
    BY <1>1, <2>1 DEF NoEntry
<1>6. \A g \in Hooked : /\ g \in Hooks /\ g # h /\ entry'[g] = entry[g]
                        /\ LongAddr(g)' = LongAddr(g) /\ (Complete(g) => Complete(g)')
  <2>1. \A g \in Hooked : g \in Hooks /\ g # h /\ entry'[g] = entry[g]
    BY <1>1, <1>3, <1>5, EntriesTyped
  <2>2. QED
    BY <2>1 DEF LongAddr, Destination, Complete
<1>7. active' = active /\ code' = code /\ invoke' = invoke /\ slots' = slots
  BY <1>1
<1>8. /\ \A f : On(f)' = On(f) /\ ~Halfway(f)' /\ ~Halfway(f)
      /\ \A g : (Live(g)' <=> Live(g)) /\ (Live(g) <=> g \in Hooked)
  BY <1>2, <1>3, <1>7 DEF On, Halfway, Live
<1>9. HooksOK'
  <2>1. StackOK'
    BY <1>1, <1>3, <1>4, <1>5, <1>6, StacksNew
  <2>2. QED
    BY <1>3, <1>4, <1>6, <1>7, <2>1 DEF HooksOK
<1>10. CurrentOK'
  <2>1. PICK near \in BOOLEAN : near = g_near_jump_flag
    BY DEF InstallInv, EntriesOK
  <2>2. PICK r : r = BuildSteps(h, near) /\ r = s
    BY <2>1
  <2>3. r \in Seq(Step)
    BY <2>2, StepsTyped
  <2>4. Len(r) \in Nat /\ (Len(r) # 0 => Head(r) # "origin") /\ (r = << >> => Len(r) = 0)
    <3>1. Len(r) # 0 => r[1] # "origin"
      <4>1. SUFFICES ASSUME Len(r) # 0 PROVE r[1] # "origin"
        OBVIOUS
      <4>2. 1 \in 1..Len(r)
        BY <2>3, <4>1
      <4>3. QED
        BY <2>1, <2>2, <4>2, StepsNext
    <3>2. QED
      BY <2>3, <3>1
  <2>5. r # << >>
    <3>1. Type[h] \in {"PRE_POST", "REPLACE", "DBI"}
      BY HooksAssumption DEF HookType
    <3>2. /\ <<"enter", "transfer", "invoke", "leave", "active">> # << >>
          /\ <<"enter", "invoke", "leave", "active">> # << >>
          /\ <<"transfer", "invoke", "active", "origin">> # << >>
          /\ <<"dbi", "transfer", "invoke", "active">> # << >>
          /\ <<"dbi", "invoke", "active">> # << >>
      OBVIOUS
    <3>3. QED
      BY <2>2, <3>1, <3>2, StepsAre
  <2>6. r # << >> /\ Head(r) # "origin"
    <3>1. Len(r) = 0 => r = << >>
      BY <2>3
    <3>2. QED
      BY <2>4, <2>5, <3>1
  <2>7. installer'.todo = r /\ ~InstallerAt("origin")'
    BY <1>2, <2>2, <2>6 DEF InstallerAt
  <2>8. active' = Hooked' \ {h}
    BY <1>1, <1>3, <1>4, <1>7
  <2>9. QED
    BY <1>2, <1>4, <2>6, <2>7, <2>8 DEF CurrentOK
<1>11. DestsOK'
  BY <1>1, <1>5 DEF OrderInv, DestsOK, DestOK, SlotOf
<1>12. \A g \in Hooked : First(g) => First(g)'
  <2>1. ASSUME NEW g \in Hooked, First(g), NEW k \in Hooked', Target[k] = Target[g], Earlier(k, g)'
        PROVE  FALSE
    <3>1. Earlier(k, g)
      BY <1>4, <1>6, <2>1
    <3>2. k \in Hooked
      BY <1>3, <3>1, EarlierHooked
    <3>3. QED
      BY <2>1, <3>1, <3>2 DEF First
  <2>2. QED
    BY <2>1 DEF First
<1>13. \A g \in Hooked : \A k : Below(k, g) => Below(k, g)'
  <2>1. ASSUME NEW g \in Hooked, NEW k, Below(k, g) PROVE Below(k, g)'
    <3>1. k \in active' /\ Target[k] = Target[g] /\ Earlier(k, g)'
      BY <1>4, <1>7, <2>1 DEF Below
    <3>2. ASSUME NEW m \in Hooked', Target[m] = Target[g], Earlier(m, g)'
          PROVE  m = k \/ Earlier(m, k)'
      <4>1. Earlier(m, g)
        BY <1>4, <1>6, <3>2
      <4>2. m \in Hooked
        BY <1>3, <4>1, EarlierHooked
      <4>3. QED
        BY <1>4, <2>1, <3>2, <4>1, <4>2 DEF Below
    <3>3. QED
      BY <3>1, <3>2 DEF Below
  <2>2. QED
    BY <2>1
<1>14. InvokesOK'
  <2>1. ASSUME NEW g \in Hooks, entry'[g].invoke # NULL PROVE g \in Hooked' /\ InvokeOK(g)'
    <3>1. g \in Hooked /\ InvokeOK(g)
      BY <1>5, <2>1 DEF OrderInv, InvokesOK
    <3>2. Limit(g)' = Limit(g) /\ invoke'[g] = invoke[g] /\ entry'[g].near = entry[g].near
      BY <1>6, <1>7, <3>1 DEF Limit
    <3>3. InvokeOK(g)'
      BY <1>12, <1>13, <3>1, <3>2 DEF InvokeOK
    <3>4. QED
      BY <1>4, <3>1, <3>3
  <2>2. QED
    BY <2>1 DEF InvokesOK
<1>15. \A f : Plain(f)' <=> Plain(f)
  BY <1>3, <1>6, <1>8 DEF Plain, On
<1>16. ShapesOK'
  <2>1. ASSUME NEW f \in Targets PROVE ShapeOK(f)'
    <3>1. ShapeOK(f)
      BY DEF OrderInv, ShapesOK
    <3>2. CASE Plain(f) /\ PlainOK(f)
      <4>1. \A g : Top(g) => Top(g)'
        BY <1>4, <1>7, <1>8 DEF Top
      <4>2. PlainOK(f)'
        BY <1>7, <1>8, <3>2, <4>1 DEF PlainOK
      <4>3. QED
        BY <1>15, <3>2, <4>2 DEF ShapeOK
    <3>3. CASE \E g \in active : On(f) = {g} /\ ~entry[g].near /\ LongOK(f, g, {})
      <4>1. PICK g \in active : On(f) = {g} /\ ~entry[g].near /\ LongOK(f, g, {})
        BY <3>3
      <4>2. LongOK(f, g, {})' /\ ~entry'[g].near
        BY <1>3, <1>6, <1>7, <4>1 DEF LongOK
      <4>3. QED
        BY <1>7, <1>8, <4>1, <4>2 DEF ShapeOK
    <3>4. QED
      BY <1>8, <3>1, <3>2, <3>3 DEF ShapeOK
  <2>2. QED
    BY <2>1 DEF ShapesOK
<1>17. PathsOK'
  <2>1. Onward
    BY <1>4, <1>6, <1>7, <1>8, <1>12 DEF Onward
  <2>2. thread' = thread
    BY <1>1
  <2>3. QED
    BY <1>7, <1>8, <1>15, <2>1, <2>2, OnwardPaths
<1>18. QED
  BY <1>9, <1>10, <1>11, <1>14, <1>16, <1>17 DEF OrderInv

LEMMA StoreOriginCallOrder ==
  ASSUME InstallInv, OrderInv, StoreOriginCall
  PROVE  OrderInv'
<1>1. /\ InstallerAt("origin") /\ installer' = Idling
      /\ origin_call' = [origin_call EXCEPT ![H] = entry[H].invoke]
      /\ UNCHANGED <<hook_entries, entry, code, slots, transfer, invoke, active, thread>>
  BY DEF StoreOriginCall
<1>2. installer.words = {}
  BY <1>1 DEF InstallInv, InstallerOK, InstallerAt
<1>3. active = Hooked
  BY <1>1 DEF OrderInv, CurrentOK, InstallerAt
<1>4. installer'.todo = << >> /\ installer'.words = {}
  BY <1>1 DEF Idling
<1>5. /\ Hooked' = Hooked
      /\ \A f : On(f)' = On(f) /\ ~Halfway(f)' /\ ~Halfway(f)
      /\ \A g, h : Earlier(g, h)' <=> Earlier(g, h)
      /\ \A h : /\ Live(h)' <=> Live(h)
                /\ Complete(h)' <=> Complete(h)
                /\ LongAddr(h)' = LongAddr(h)
      /\ \A h, s, a : SlotOf(h, s, a)' <=> SlotOf(h, s, a)
  BY <1>1, <1>2, <1>4 DEF Hooked, On, Halfway, Earlier, Live, Complete, LongAddr,
     Destination, SlotOf
<1>6. HooksOK'
  BY <1>1, <1>5 DEF OrderInv, HooksOK, StackOK
<1>7. CurrentOK'
  BY <1>1, <1>3, <1>4, <1>5 DEF CurrentOK
<1>8. DestsOK'
  <2>1. \A g \in Hooks : origin_call'[g] # NULL => entry[g].invoke # NULL
    BY <1>1, AtStep DEF InstallInv, EntriesOK, OrderInv, DestsOK
  <2>2. QED
    BY <1>1, <1>5, <2>1 DEF OrderInv, DestsOK, DestOK
<1>9. \A h : First(h)' <=> First(h)
  BY <1>5 DEF First
<1>10. InvokesOK'
  <2>1. \A g, h : Below(g, h)' <=> Below(g, h)
    BY <1>1, <1>5 DEF Below
  <2>2. QED
    BY <1>1, <1>5, <1>9, <2>1 DEF OrderInv, InvokesOK, InvokeOK, Limit
<1>11. \A f : Plain(f)' <=> Plain(f)
  BY <1>1, <1>5 DEF Plain
<1>12. ShapesOK'
  <2>1. \A h : Top(h)' <=> Top(h)
    BY <1>1, <1>5 DEF Top
  <2>2. \A f : PlainOK(f)' <=> PlainOK(f)
    BY <1>1, <1>5, <2>1 DEF PlainOK
  <2>3. \A f, h, left : LongOK(f, h, left)' <=> LongOK(f, h, left)
    BY <1>1, <1>5 DEF LongOK
  <2>4. ASSUME NEW f \in Targets PROVE ShapeOK(f)'
    <3>1. ShapeOK(f)
      BY DEF OrderInv, ShapesOK
    <3>2. QED
      BY <1>1, <1>5, <1>11, <2>2, <2>3, <3>1 DEF ShapeOK
  <2>5. QED
    BY <2>4 DEF ShapesOK
<1>13. PathsOK'
  <2>1. Onward
    BY <1>1, <1>5, <1>9 DEF Onward
  <2>2. QED
    BY <1>1, <1>5, <1>11, <2>1, OnwardPaths
<1>14. QED
  BY <1>6, <1>7, <1>8, <1>10, <1>12, <1>13 DEF OrderInv

\* What active() is about to patch
LEMMA PatchIs ==
  ASSUME InstallInv, OrderInv, InstallerAt("active"), NEW h, h = H
  PROVE  /\ h \in Hooks /\ h \in Hooked /\ Complete(h) /\ HooksOK
         /\ Target[h] \in Targets /\ h \notin active /\ active = Hooked \ {h}
         /\ \A g \in Hooked : g = h \/ Earlier(g, h)
         /\ \A g \in On(Target[h]) : entry[g].near /\ entry[h].near
         /\ On(Target[h]) # {} => entry[h].near
         /\ entry[h].near => /\ Patch(h) = <<Inst("b", Code("transfer", h))>>
                             /\ DOMAIN Patch(h) = {1}
         /\ ~entry[h].near => /\ Patch(h) = <<LdrX17, BrX17, Lo(LongAddr(h)), Hi(LongAddr(h))>>
                              /\ DOMAIN Patch(h) = 1..4
<1>1. h \in Hooks /\ EntryOK(h) /\ Complete(h) /\ HooksOK
  BY AtStep DEF Complete, OrderInv
<1>2. /\ Len(hook_entries) # 0 /\ h = hook_entries[Len(hook_entries)]
      /\ active = Hooked \ {h}
  BY DEF OrderInv, CurrentOK, InstallerAt
<1>3. h \in Hooked /\ \A g \in Hooked : g = h \/ Earlier(g, h)
  BY <1>1, <1>2, NewestLast
<1>4. \A g \in On(Target[h]) : entry[g].near /\ entry[h].near
  BY <1>1, <1>2, <1>3 DEF On, HooksOK, StackOK
<1>5. entry[h].near => /\ Patch(h) = <<Inst("b", Code("transfer", h))>>
                       /\ DOMAIN Patch(h) = {1}
  <2>1. entry[h].near => entry[h].transfer = Code("transfer", h)
    BY <1>1 DEF EntryOK, Complete
  <2>2. entry[h].near => Patch(h) = <<Inst("b", Code("transfer", h))>>
    BY <2>1 DEF Patch
  <2>3. DOMAIN <<Inst("b", Code("transfer", h))>> = {1}
    OBVIOUS
  <2>4. QED
    BY <2>2, <2>3
<1>6. ~entry[h].near => /\ Patch(h) = <<LdrX17, BrX17, Lo(LongAddr(h)), Hi(LongAddr(h))>>
                        /\ DOMAIN Patch(h) = 1..4
  <2>1. ~entry[h].near => Patch(h) = <<LdrX17, BrX17, Lo(LongAddr(h)), Hi(LongAddr(h))>>
    BY DEF Patch, LongAddr
  <2>2. DOMAIN <<LdrX17, BrX17, Lo(LongAddr(h)), Hi(LongAddr(h))>> = 1..4
    OBVIOUS
  <2>3. QED
    BY <2>1, <2>2
<1>7. Target[h] \in Targets
  BY <1>1, HooksAssumption
<1>8. QED
  BY <1>1, <1>2, <1>3, <1>4, <1>5, <1>6, <1>7

LEMMA BeginPatchOrder ==
  ASSUME InstallInv, OrderInv, BeginPatch
  PROVE  OrderInv'
<1>1. /\ InstallerAt("active") /\ installer.words = {}
      /\ installer' = [installer EXCEPT !.words = DOMAIN Patch(H)]
      /\ thread' = [t \in Threads |->
           [thread[t] EXCEPT !.overlapped =
              @ \/ (InPrologue(thread[t], Target[H]) /\ ~entry[H].near)]]
      /\ UNCHANGED <<hook_entries, entry, code, slots, transfer, invoke, origin_call, active>>
  BY DEF BeginPatch
<1>2. PICK h : h = H
  OBVIOUS
<1>3. /\ h \in Hooks /\ h \in Hooked /\ HooksOK /\ Target[h] \in Targets
      /\ On(Target[h]) # {} => entry[h].near
      /\ ~entry[h].near => DOMAIN Patch(h) = 1..4
      /\ \A g \in On(Target[h]) : entry[g].near
  BY <1>1, <1>2, PatchIs
<1>4. /\ installer'.hook = h /\ installer'.todo = installer.todo
      /\ installer'.words = DOMAIN Patch(h) /\ H' = h
      /\ DOMAIN Patch(h) # {}
  <2>1. /\ installer'.hook = h /\ installer'.todo = installer.todo
        /\ installer'.words = DOMAIN Patch(h) /\ H' = h
    BY <1>1, <1>2 DEF InstallInv, InstallerOK, Idling, H
  <2>2. DOMAIN Patch(h) = {1} \/ DOMAIN Patch(h) = 1..4
    BY <1>1, <1>2, PatchIs
  <2>3. QED
    BY <2>1, <2>2
<1>5. /\ Hooked' = Hooked /\ InstallerAt("origin")' = InstallerAt("origin")
      /\ \A f : On(f)' = On(f) /\ ~Halfway(f)
      /\ \A f : Halfway(f)' <=> f = Target[h] /\ ~entry[h].near
      /\ \A g, k : Earlier(g, k)' <=> Earlier(g, k)
      /\ \A k : /\ Live(k) <=> k \in active
                /\ Live(k)' <=> k \in active \/ k = h
                /\ Complete(k)' <=> Complete(k)
                /\ LongAddr(k)' = LongAddr(k)
      /\ \A k, s, a : SlotOf(k, s, a)' <=> SlotOf(k, s, a)
  BY <1>1, <1>4 DEF Hooked, InstallerAt, On, Halfway, Earlier, Live, Complete, LongAddr,
     Destination, SlotOf
<1>6. HooksOK'
  BY <1>1, <1>5 DEF OrderInv, HooksOK, StackOK
<1>7. CurrentOK'
  BY <1>1, <1>2, <1>4, <1>5 DEF OrderInv, CurrentOK, InstallerAt
<1>8. DestsOK'
  BY <1>1, <1>5 DEF OrderInv, DestsOK, DestOK
<1>9. \A k : First(k)' <=> First(k)
  BY <1>5 DEF First
<1>10. InvokesOK'
  <2>1. \A g, k : Below(g, k)' <=> Below(g, k)
    BY <1>1, <1>5 DEF Below
  <2>2. QED
    BY <1>1, <1>5, <1>9, <2>1 DEF OrderInv, InvokesOK, InvokeOK, Limit
<1>11. \A f : Plain(f) /\ ~Halfway(f)' => Plain(f)'
  BY <1>1, <1>5 DEF Plain
<1>12. ShapesOK'
  <2>1. \A g : Top(g)' <=> Top(g)
    BY <1>1, <1>5 DEF Top
  <2>2. \A f : PlainOK(f)' <=> PlainOK(f)
    BY <1>1, <1>5, <2>1 DEF PlainOK
  <2>3. \A f, k, left : LongOK(f, k, left)' <=> LongOK(f, k, left)
    BY <1>1, <1>5 DEF LongOK
  <2>4. ASSUME NEW f \in Targets PROVE ShapeOK(f)'
    <3>1. ShapeOK(f)
      BY DEF OrderInv, ShapesOK
    <3>2. CASE f = Target[h] /\ ~entry[h].near
      <4>1. On(f) = {}
        BY <1>3, <3>2
      <4>2. PlainOK(f) /\ code[f][1] = Orig(1)
        BY <1>5, <3>1, <4>1 DEF ShapeOK, PlainOK
      <4>3. LongOK(f, h, 1..4)
        BY <4>2 DEF LongOK, PlainOK
      <4>4. LongOK(f, H, installer.words)'
        BY <1>3, <1>4, <2>3, <3>2, <4>3
      <4>5. QED
        BY <1>5, <3>2, <4>1, <4>4 DEF ShapeOK
    <3>3. CASE ~(f = Target[h] /\ ~entry[h].near)
      <4>1. ~Halfway(f)'
        BY <1>5, <3>3
      <4>2. QED
        BY <1>1, <1>5, <1>11, <2>2, <2>3, <3>1, <4>1 DEF ShapeOK
    <3>4. QED
      BY <3>2, <3>3
  <2>5. QED
    BY <2>4 DEF ShapesOK
<1>13. PathsOK'
  <2>1. Onward
    BY <1>1, <1>5, <1>9 DEF Onward
  <2>2. ASSUME NEW t \in Threads PROVE PathOK(thread[t])'
    <3>1. PICK x : x = thread[t] /\ PathOK(x) /\ At(x) /\ DOMAIN x = DOMAIN Idle
      BY ThreadIs DEF PathOK
    <3>2. PICK o : o = (x.overlapped \/ (InPrologue(x, Target[h]) /\ ~entry[h].near))
      OBVIOUS
    <3>3. PICK y : y = [x EXCEPT !.overlapped = o] /\ thread'[t] = y
      BY <1>1, <1>2, <3>1, <3>2
    <3>4. /\ y.pc = x.pc /\ y.at = x.at /\ y.i = x.i /\ y.x17 = x.x17 /\ y.fn = x.fn
          /\ y.sees = x.sees /\ y.through = x.through /\ y.ran = x.ran /\ y.due = x.due
          /\ y.overlapped = o
      BY <3>1, <3>3 DEF Idle
    <3>5. o \in BOOLEAN
      BY <3>2, Zenon
    <3>6. /\ x.overlapped => o
          /\ x.pc = "word" /\ x.fn = Target[h] /\ ~entry[h].near => o
      BY <3>2, Zenon DEF InPrologue
    <3>7. Overtaken(y, x)
      BY <3>4, <3>5, <3>6 DEF Overtaken
    <3>8. y.pc = "word" /\ Halfway(y.fn)' => y.overlapped
      BY <1>5, <3>4, <3>6
    <3>9. y.pc = "word" /\ ~y.overlapped /\ Plain(y.fn) => Plain(y.fn)'
      BY <1>11, <3>8
    <3>10. PathOK(y)'
      BY <1>1, <2>1, <3>1, <3>7, <3>8, <3>9, OnwardPath
    <3>11. QED
      BY <3>3, <3>10
  <2>3. QED
    BY <2>2 DEF PathsOK
<1>14. QED
  BY <1>6, <1>7, <1>8, <1>10, <1>12, <1>13 DEF OrderInv

\* One more word of a four-word patch
LEMMA LongGrows ==
  ASSUME NEW f, NEW h, NEW words \in SUBSET (1..4), NEW i \in words,
         LongOK(f, h, words), LongAddr(h)' = LongAddr(h),
         \A j \in 1..4 : j # i => code'[f][j] = code[f][j],
         code'[f][i] = <<LdrX17, BrX17, Lo(LongAddr(h)), Hi(LongAddr(h))>>[i]
  PROVE  LongOK(f, h, words \ {i})'
<1>1. i = 1 \/ i = 2 \/ i = 3 \/ i = 4
  <2>1. i \in 1..4
    OBVIOUS
  <2>2. QED
    BY <2>1
<1>2. /\ code'[f][1] = IF 1 \in words \ {i} THEN Orig(1) ELSE LdrX17
      /\ code'[f][2] = IF 2 \in words \ {i} THEN Orig(2) ELSE BrX17
      /\ code'[f][3] = IF 3 \in words \ {i} THEN Orig(3) ELSE Lo(LongAddr(h))
      /\ code'[f][4] = IF 4 \in words \ {i} THEN Orig(4) ELSE Hi(LongAddr(h))
  <2>1. CASE i = 1
    BY <2>1 DEF LongOK
  <2>2. CASE i = 2
    BY <2>2 DEF LongOK
  <2>3. CASE i = 3
    BY <2>3 DEF LongOK
  <2>4. CASE i = 4
    BY <2>4 DEF LongOK
  <2>5. QED
    BY <1>1, <2>1, <2>2, <2>3, <2>4
<1>3. QED
  BY <1>2 DEF LongOK

LEMMA PatchWordOrder ==
  ASSUME InstallInv, OrderInv, PatchWord
  PROVE  OrderInv'
<1>1. /\ InstallerAt("active")
      /\ UNCHANGED <<hook_entries, entry, slots, transfer, invoke, origin_call, thread>>
  BY DEF PatchWord
<1>2. PICK h : h = H
  OBVIOUS
<1>3. PICK i \in installer.words :
        /\ code' = [code EXCEPT ![Target[h]][i] = Patch(h)[i]]
        /\ installer' = IF installer.words \ {i} # {}
                            THEN [installer EXCEPT !.words = installer.words \ {i}]
                          ELSE IF Len(installer.todo) = 1 THEN Idling
                          ELSE [Advanced EXCEPT !.words = {}]
        /\ active' = IF installer.words \ {i} = {} THEN active \cup {h} ELSE active
  BY <1>2 DEF PatchWord
<1>4. PICK words : words = installer.words /\ words \subseteq DOMAIN Patch(h) /\ i \in words
  BY <1>2, <1>3 DEF InstallInv, InstallerOK
<1>5. PICK left : left = words \ {i}
  OBVIOUS
<1>6. /\ h \in Hooks /\ h \in Hooked /\ Complete(h) /\ HooksOK
      /\ Target[h] \in Targets /\ h \notin active /\ active = Hooked \ {h}
      /\ \A g \in Hooked : g = h \/ Earlier(g, h)
      /\ \A g \in On(Target[h]) : entry[g].near /\ entry[h].near
      /\ On(Target[h]) # {} => entry[h].near
      /\ entry[h].near => /\ Patch(h) = <<Inst("b", Code("transfer", h))>>
                          /\ DOMAIN Patch(h) = {1}
      /\ ~entry[h].near => /\ Patch(h) = <<LdrX17, BrX17, Lo(LongAddr(h)), Hi(LongAddr(h))>>
                           /\ DOMAIN Patch(h) = 1..4
  BY <1>1, <1>2, PatchIs
<1>7. entry[h].near => i = 1 /\ left = {}
  BY <1>4, <1>5, <1>6
<1>8. /\ installer'.words = left
      /\ left # {} => /\ installer'.hook = h /\ installer'.todo = installer.todo
                      /\ active' = active
      /\ left = {} => /\ active' = Hooked
                      /\ installer'.todo # << >> =>
                           Head(installer'.todo) = "origin" /\ installer'.hook = h
  <2>1. DOMAIN installer = DOMAIN Idling
    BY DEF InstallInv, InstallerOK
  <2>2. CASE left # {}
    BY <1>2, <1>3, <1>4, <1>5, <2>1, <2>2 DEF Idling, H
  <2>3. CASE left = {} /\ Len(installer.todo) = 1
    BY <1>3, <1>4, <1>5, <1>6, <2>3 DEF Idling
  <2>4. CASE left = {} /\ Len(installer.todo) # 1
    <3>1. /\ installer'.hook = h /\ installer'.todo = Tail(installer.todo)
          /\ installer'.words = {}
      BY <1>2, <1>3, <1>4, <1>5, <2>1, <2>4 DEF Advanced, Idling, H
    <3>2. Tail(installer.todo) # << >> => Head(Tail(installer.todo)) = "origin"
      BY <1>1, TodoNext
    <3>3. active' = Hooked
      BY <1>3, <1>4, <1>5, <1>6, <2>4
    <3>4. QED
      BY <2>4, <3>1, <3>2, <3>3
  <2>5. QED
    BY <2>2, <2>3, <2>4
<1>9. /\ Hooked' = Hooked
      /\ \A g, k : Earlier(g, k)' <=> Earlier(g, k)
      /\ \A k : /\ Complete(k)' <=> Complete(k)
                /\ LongAddr(k)' = LongAddr(k)
      /\ \A k, s, a : SlotOf(k, s, a)' <=> SlotOf(k, s, a)
      /\ active \subseteq active'
  BY <1>1, <1>6, <1>8 DEF Hooked, Earlier, Complete, LongAddr, Destination, SlotOf
<1>10. /\ \A f : Halfway(f) <=> f = Target[h] /\ ~entry[h].near
       /\ \A f : Halfway(f)' <=> left # {} /\ f = Target[h] /\ ~entry[h].near
       /\ \A f : f # Target[h] => On(f)' = On(f)
       /\ left # {} => \A f : On(f)' = On(f)
       /\ left = {} => On(Target[h])' = On(Target[h]) \cup {h}
       /\ \A k : Live(k)' <=> Live(k)
  <2>1. \A f : Halfway(f) <=> f = Target[h] /\ ~entry[h].near
    BY <1>2, <1>4 DEF Halfway
  <2>2. \A f : Halfway(f)' <=> left # {} /\ f = Target[h] /\ ~entry[h].near
    BY <1>1, <1>8 DEF Halfway, H
  <2>3. active' = IF left = {} THEN active \cup {h} ELSE active
    BY <1>3, <1>4, <1>5
  <2>4. /\ \A f : f # Target[h] => On(f)' = On(f)
        /\ left # {} => \A f : On(f)' = On(f)
        /\ left = {} => On(Target[h])' = On(Target[h]) \cup {h}
    BY <2>3 DEF On
  <2>5. \A k : Live(k)' <=> Live(k)
    BY <1>2, <1>4, <1>8, <2>3 DEF Live, H
  <2>6. QED
    BY <2>1, <2>2, <2>4, <2>5
<1>11. HooksOK'
  <2>1. StackOK'
    BY <1>1, <1>6, <1>9 DEF HooksOK, StackOK
  <2>2. active' \subseteq Hooked /\ \A k \in active' : Complete(k)
    BY <1>6, <1>8 DEF HooksOK
  <2>3. QED
    BY <1>1, <1>6, <1>9, <2>1, <2>2 DEF HooksOK
<1>12. CurrentOK'
  <2>1. Len(hook_entries) # 0 /\ h = hook_entries[Len(hook_entries)]
    BY <1>1, <1>2 DEF OrderInv, CurrentOK, InstallerAt
  <2>2. CASE left # {}
    BY <1>1, <1>6, <1>8, <1>9, <2>1, <2>2 DEF CurrentOK, InstallerAt, H
  <2>3. CASE left = {}
    BY <1>1, <1>8, <1>9, <2>1, <2>3 DEF CurrentOK, InstallerAt, H
  <2>4. QED
    BY <2>2, <2>3
<1>13. DestsOK'
  BY <1>1, <1>9 DEF OrderInv, DestsOK, DestOK
<1>14. \A k : First(k)' <=> First(k)
  BY <1>9 DEF First
<1>15. InvokesOK'
  <2>1. \A g, k : Below(g, k) => Below(g, k)'
    BY <1>1, <1>9 DEF Below
  <2>2. \A k \in Hooks : InvokeOK(k) => InvokeOK(k)'
    BY <1>1, <1>14, <2>1 DEF InvokeOK, Limit
  <2>3. QED
    BY <1>1, <1>9, <2>2 DEF OrderInv, InvokesOK
<1>16. /\ \A f \in Targets : f # Target[h] => code'[f] = code[f]
       /\ i \in 1..4 /\ code'[Target[h]][i] = Patch(h)[i]
       /\ \A j \in 1..4 : j # i => code'[Target[h]][j] = code[Target[h]][j]
  <2>1. DOMAIN code = Targets /\ DOMAIN code[Target[h]] = 1..4 /\ i \in 1..4
    BY <1>4, <1>6 DEF InstallInv, CodeOK
  <2>2. QED
    BY <1>3, <1>6, <2>1
<1>17. \A f : Plain(f) => Plain(f)'
  <2>1. ASSUME NEW f, Plain(f) PROVE Plain(f)'
    <3>1. CASE f # Target[h]
      BY <1>1, <1>10, <2>1, <3>1 DEF Plain
    <3>2. CASE f = Target[h]
      <4>1. entry[h].near
        BY <1>10, <2>1, <3>2 DEF Plain
      <4>2. QED
        BY <1>1, <1>7, <1>10, <2>1, <3>2, <4>1 DEF Plain
    <3>3. QED
      BY <3>1, <3>2
  <2>2. QED
    BY <2>1
<1>18. ASSUME entry[h].near PROVE ShapeOK(Target[h])'
  <2>1. left = {} /\ i = 1
    BY <1>7, <1>18
  <2>2. Plain(Target[h]) /\ PlainOK(Target[h])
    <3>1. ShapeOK(Target[h]) /\ ~Halfway(Target[h])
      BY <1>6, <1>10, <1>18 DEF OrderInv, ShapesOK
    <3>2. QED
      BY <1>6, <3>1 DEF ShapeOK
  <2>3. h \in On(Target[h])' /\ h \in active'
    BY <1>6, <1>8, <1>10, <2>1
  <2>4. \A g \in On(Target[h])' : g = h \/ Earlier(g, h)'
    BY <1>6, <1>9, <1>10, <2>1 DEF On, HooksOK
  <2>5. Top(h)'
    BY <2>3, <2>4 DEF Top
  <2>6. code'[Target[h]][1] = Inst("b", Code("transfer", h))
    BY <1>6, <1>16, <1>18, <2>1
  <2>7. \A j \in 2..4 : code'[Target[h]][j] = Orig(j)
    BY <1>16, <2>1, <2>2 DEF PlainOK
  <2>8. PlainOK(Target[h])'
    BY <2>3, <2>5, <2>6, <2>7 DEF PlainOK
  <2>9. QED
    BY <1>17, <2>2, <2>8 DEF ShapeOK
<1>19. ASSUME ~entry[h].near PROVE LongOK(Target[h], h, words) /\ ShapeOK(Target[h])'
  <2>1. On(Target[h]) = {}
    BY <1>6, <1>19
  <2>2. LongOK(Target[h], h, words)
    <3>1. ShapeOK(Target[h]) /\ Halfway(Target[h])
      BY <1>6, <1>10, <1>19 DEF OrderInv, ShapesOK
    <3>2. QED
      BY <1>2, <1>4, <3>1 DEF ShapeOK, Plain
  <2>3. LongOK(Target[h], h, left)'
    <3>1. words \in SUBSET (1..4)
      BY <1>4, <1>6, <1>19
    <3>2. LongOK(Target[h], h, words \ {i})'
      BY <1>4, <1>6, <1>9, <1>16, <1>19, <2>2, <3>1, LongGrows
    <3>3. code'[Target[h]] = code'[Target[h]] /\ left = words \ {i}
      BY <1>5
    <3>4. QED
      BY <3>2, <3>3 DEF LongOK
  <2>4. CASE left # {}
    <3>1. H' = h /\ installer'.words = left
      BY <1>8, <2>4 DEF H
    <3>2. LongOK(Target[h], H, installer.words)'
      BY <2>3, <3>1 DEF LongOK
    <3>3. QED
      BY <1>10, <1>19, <2>1, <2>2, <2>4, <3>2 DEF ShapeOK
  <2>5. CASE left = {}
    <3>1. On(Target[h])' = {h} /\ h \in active' /\ ~Halfway(Target[h])'
      BY <1>6, <1>8, <1>10, <2>1, <2>5
    <3>2. LongOK(Target[h], h, {})'
      BY <2>3, <2>5
    <3>3. QED
      BY <1>1, <1>19, <2>2, <3>1, <3>2 DEF ShapeOK
  <2>6. QED
    BY <2>2, <2>4, <2>5
<1>20. ShapesOK'
  <2>1. ASSUME NEW f \in Targets PROVE ShapeOK(f)'
    <3>1. CASE f = Target[h]
      BY <1>18, <1>19, <3>1
    <3>2. CASE f # Target[h]
      <4>1. ShapeOK(f) /\ ~Halfway(f) /\ ~Halfway(f)'
        BY <1>10, <3>2 DEF OrderInv, ShapesOK
      <4>2. On(f)' = On(f) /\ code'[f] = code[f]
        BY <1>10, <1>16, <3>2
      <4>3. CASE Plain(f) /\ PlainOK(f)
        <5>1. \A g \in On(f) : Top(g) => Top(g)'
          BY <1>9, <4>2 DEF Top, On
        <5>2. PlainOK(f)'
          BY <4>2, <4>3, <5>1 DEF PlainOK
        <5>3. QED
          BY <1>17, <4>3, <5>2 DEF ShapeOK
      <4>4. CASE \E k \in active : On(f) = {k} /\ ~entry[k].near /\ LongOK(f, k, {})
        <5>1. PICK k \in active : On(f) = {k} /\ ~entry[k].near /\ LongOK(f, k, {})
          BY <4>4
        <5>2. LongOK(f, k, {})'
          BY <1>9, <4>2, <5>1 DEF LongOK
        <5>3. QED
          BY <1>1, <1>9, <4>1, <4>2, <5>1, <5>2 DEF ShapeOK
      <4>5. QED
        BY <4>1, <4>3, <4>4 DEF ShapeOK
    <3>3. QED
      BY <3>1, <3>2
  <2>2. QED
    BY <2>1 DEF ShapesOK
<1>21. PathsOK'
  <2>1. Onward
    BY <1>1, <1>9, <1>10, <1>14 DEF Onward
  <2>2. ASSUME NEW x, NEW k, AtLong(x, k) PROVE code'[x.fn][3] = code[x.fn][3]
    <3>1. x.fn \in Targets /\ code[x.fn][3] = Lo(x.x17)
      BY <2>2, HooksAssumption DEF AtLong, ToMeet
    <3>2. CASE x.fn # Target[h]
      BY <1>16, <3>1, <3>2
    <3>3. CASE x.fn = Target[h] /\ i = 3
      <4>1. code[Target[h]][3] = Orig(3)
        BY <1>4, <1>7, <1>19, <3>3 DEF LongOK
      <4>2. QED
        BY <3>1, <3>3, <4>1 DEF Orig, Lo, Inst
    <3>4. CASE x.fn = Target[h] /\ i # 3
      BY <1>16, <3>4
    <3>5. QED
      BY <3>2, <3>3, <3>4
  <2>3. \A f : Halfway(f)' => Halfway(f)
    BY <1>10
  <2>4. QED
    BY <1>1, <1>17, <2>1, <2>2, <2>3, OnwardPaths
<1>22. QED
  BY <1>11, <1>12, <1>13, <1>15, <1>20, <1>21 DEF OrderInv

(* ------------------------------------------------------------------------ *)
(* The theorems                                                                    *)

LEMMA OrderInvInit == Init => OrderInv
<1> SUFFICES ASSUME Init PROVE OrderInv
  OBVIOUS
<1>1. /\ hook_entries = << >> /\ active = {} /\ slots = << >>
      /\ installer.todo = << >> /\ installer.words = {}
      /\ \A h \in Hooks : entry[h] = NoEntry /\ transfer[h] = NULL /\ origin_call[h] = NULL
      /\ \A f \in Targets, i \in 1..4 : code[f][i] = Orig(i)
      /\ \A t \in Threads : thread[t] = Idle
  BY DEF Init, Idling
<1>2. Len(hook_entries) = 0 /\ Hooked = {}
  BY <1>1 DEF Hooked, ToSet
<1>3. HooksOK
  <2>1. hook_entries \in Seq(Hooks)
    BY <1>1
  <2>2. QED
    BY <1>1, <1>2, <2>1 DEF HooksOK, StackOK
<1>4. CurrentOK
  BY <1>1, <1>2 DEF CurrentOK
<1>5. DestsOK
  BY <1>1 DEF DestsOK, NoEntry
<1>6. InvokesOK
  BY <1>1 DEF InvokesOK, NoEntry
<1>7. ShapesOK
  <2>1. ASSUME NEW f \in Targets PROVE Plain(f) /\ PlainOK(f)
    BY <1>1 DEF Plain, PlainOK, Halfway, On
  <2>2. QED
    BY <2>1 DEF ShapesOK, ShapeOK
<1>8. PathsOK
  BY <1>1, IdlePath DEF PathsOK
<1>9. QED
  BY <1>3, <1>4, <1>5, <1>6, <1>7, <1>8 DEF OrderInv

LEMMA OrderInvStep == InstallInv /\ OrderInv /\ [Next]_vars => OrderInv'
<1> SUFFICES ASSUME InstallInv, OrderInv, [Next]_vars PROVE OrderInv'
  OBVIOUS
<1>1. CASE zz_enable_near_jump \/ zz_disable_near_jump \/ UNCHANGED vars
  BY <1>1, QuietOrder
<1>2. CASE \E h \in Hooks : BeginHook(h)
  BY <1>2, BeginHookOrder
<1>3. CASE Build
  <2>1. CASE UnprotectTable
    BY <2>1, QuietOrder
  <2>2. CASE BuildForEnter \/ BuildForLeave \/ BuildForDBI
    BY <2>2, BindClosureOrder DEF BuildForEnter, BuildForLeave, BuildForDBI
  <2>3. CASE BuildForEnterTransfer
    BY <2>3, BuildForEnterTransferOrder
  <2>4. CASE BuildForInvoke
    BY <2>4, BuildForInvokeOrder
  <2>5. CASE BeginPatch
    BY <2>5, BeginPatchOrder
  <2>6. CASE PatchWord
    BY <2>6, PatchWordOrder
  <2>7. CASE StoreOriginCall
    BY <2>7, StoreOriginCallOrder
  <2>8. QED
    BY <1>3, <2>1, <2>2, <2>3, <2>4, <2>5, <2>6, <2>7 DEF Build
<1>4. CASE \E t \in Threads : Run(t) \/ \E f \in Targets : Call(t, f)
  BY <1>4, RunOrder, CallOrders
<1>5. QED
  BY <1>1, <1>2, <1>3, <1>4 DEF Next

(***************************************************************************)
(* What is in memory and what the threads do fit together all the time:    *)
(* the words of every target, the trampolines of its hooks, and where each *)
(* call is among them.                                                     *)
(***************************************************************************)
THEOREM OrderKept == Spec => [](InstallInv /\ OrderInv)
<1>1. Init => InstallInv /\ OrderInv
  BY InstallInvInit, OrderInvInit
<1>2. InstallInv /\ OrderInv /\ [Next]_vars => (InstallInv /\ OrderInv)'
  BY InstallInvStep, OrderInvStep
<1>3. QED
  BY <1>1, <1>2, PTL DEF Spec

(***************************************************************************)
(* However many hooks a function gets while its callers run, a call goes   *)
(* through them from the newest to the oldest, none twice, and reaches the *)
(* function's own code only through all that were in place when it began:  *)
(* on_invoke_trampoline of a hook leads to the one before it, and the      *)
(* patch leads to the newest.                                              *)
(***************************************************************************)
THEOREM HooksRunInOrder == Spec => []HooksInOrder
<1>1. OrderInv => HooksInOrder
  BY DEF OrderInv, PathsOK, PathOK, CallOrder, CallAt, Seen, HooksInOrder
<1>2. QED
  BY <1>1, OrderKept, PTL

(***************************************************************************)
(* A call that reaches the function's own code without having met a long   *)
(* patch half-way has run the first four instructions once each, in order, *)
(* some of them where build_for_invoke put them and the others in place.   *)
(***************************************************************************)
THEOREM OriginalsRunOnce == Spec => []OriginalRunsOnce
<1>1. OrderInv => OriginalRunsOnce
  <2>1. Upto(4) = <<1, 2, 3, 4>>
    BY DEF Upto
  <2>2. QED
    BY <2>1 DEF OrderInv, PathsOK, PathOK, CallAt, Ran, OriginalRunsOnce
<1>2. QED
  BY <1>1, OrderKept, PTL

(***************************************************************************)
(* Only a call that was among the first instructions of a function while   *)
(* active() wrote four words over them, or was made in that time, can run  *)
(* a mixture of old and new words or branch to half an address.            *)
(***************************************************************************)
THEOREM TornOnlyByLongPatch == Spec => []TornOnlyWhenOverlapped
<1>1. OrderInv => TornOnlyWhenOverlapped
  BY DEF OrderInv, PathsOK, PathOK, CallAt, TornOnlyWhenOverlapped
<1>2. QED
  BY <1>1, OrderKept, PTL

(* ------------------------------------------------------------------------ *)
(* Types                                                                           *)

Handler == {"enter", "leave", "dbi"}
slot_t == [hook : Hooks, handler : Handler]

\* Every slot is the one that its hook's entry names, and of a kind that the hook has
NamedBy(s, e) ==
  \A n \in 1..Len(s) :
    /\ e[s[n].hook][s[n].handler] = Slot(n)
    /\ s[n].handler = "dbi" <=> Type[s[n].hook] = "DBI"

\* What is still to be bound has no slot yet
FieldsFree ==
  /\ \A h \in Hooks \ Hooked, x \in Handler : entry[h][x] = NULL
  /\ \A j \in 1..Len(installer.todo) :
       installer.todo[j] \in Handler => entry[H][installer.todo[j]] = NULL

\* The types that do not follow from the other invariants
Shaped ==
  /\ installer.hook \in Hooks \cup {NULL}
  /\ entry \in [Hooks -> hook_entry_t]
  /\ table_prot \in {"rx", "rw"}
  /\ transfer \in [Hooks -> AddrOrNull]
  /\ origin_call \in [Hooks -> AddrOrNull]
  /\ thread \in [Threads -> Thread]

TypedInv == Shaped /\ NamedBy(slots, entry) /\ FieldsFree

LEMMA CountTo ==
  ASSUME NEW n \in Nat
  PROVE  IsFiniteSet(1..n) /\ Cardinality(1..n) = n
<1>1. IsFiniteSet(1..n) /\ Cardinality(1..n) = IF 1 > n THEN 0 ELSE n - 1 + 1
  BY FS_Interval
<1>2. QED
  BY <1>1

\* A hook has at most two slots, as every slot is in one field of an entry
LEMMA SlotsFew ==
  ASSUME NEW s \in Seq(slot_t), NEW e, NamedBy(s, e)
  PROVE  Len(s) \in Nat /\ Len(s) <= 2 * Cardinality(Hooks)
<1> DEFINE N == Len(s)
           T == Hooks \X (1..2)
           f == [n \in 1..N |-> <<s[n].hook, IF s[n].handler = "leave" THEN 2 ELSE 1>>]
<1>1. N \in Nat /\ \A n \in 1..N : s[n].hook \in Hooks /\ s[n].handler \in Handler
  <2>1. \A x \in slot_t : x.hook \in Hooks /\ x.handler \in Handler
    BY DEF slot_t
  <2>2. QED
    BY <2>1
<1>2. IsFiniteSet(T) /\ Cardinality(T) = Cardinality(Hooks) * 2
  <2>1. IsFiniteSet(1..2) /\ Cardinality(1..2) = 2
    BY CountTo, 2 \in Nat
  <2>2. QED
    BY <2>1, FiniteAssumption, FS_Product
<1>3. IsFiniteSet(1..N) /\ Cardinality(1..N) = N
  BY <1>1, CountTo
<1>4. Cardinality(Hooks) \in Nat
  BY FiniteAssumption, FS_CardinalityType
<1>5. f \in [1..N -> T]
  BY <1>1
<1>6. ASSUME NEW x \in 1..N, NEW y \in 1..N, f[x] = f[y] PROVE x = y
  <2>1. s[x].hook = s[y].hook /\ (s[x].handler = "leave" <=> s[y].handler = "leave")
    BY <1>6
  <2>2. s[x].handler = s[y].handler
    <3>1. s[x].handler \in {"enter", "leave", "dbi"} /\ s[y].handler \in {"enter", "leave", "dbi"}
      BY <1>1 DEF Handler
    <3>2. QED
      BY <2>1, <3>1 DEF NamedBy
  <2>3. Slot(x) = Slot(y)
    BY <2>1, <2>2 DEF NamedBy
  <2>4. QED
    BY <2>3 DEF Slot
<1> HIDE DEF N, T, f
<1>7. ~(Cardinality(T) < Cardinality(1..N))
  <2>1. IsFiniteSet(1..N)
    BY <1>3
  <2> DEFINE D == 1..N
  <2> HIDE DEF D
  <2>2. /\ IsFiniteSet(D) /\ f \in [D -> T]
        /\ \A x, y \in D : f[x] = f[y] => x = y
    BY <1>5, <1>6, <2>1 DEF D
  <2>3. ~(Cardinality(T) < Cardinality(D))
    BY <1>2, <2>2, FS_PigeonHole
  <2>4. QED
    BY <2>3 DEF D
<1>8. QED
  BY <1>1, <1>2, <1>3, <1>4, <1>7 DEF N

\* No step comes twice, and a hook has the closures of its type
LEMMA StepsOnce ==
  ASSUME NEW h \in Hooks, NEW near \in BOOLEAN, NEW s, s = BuildSteps(h, near),
         NEW k \in 1..Len(s)
  PROVE  /\ \A j \in 1..Len(s) : s[j] = s[k] => j = k
         /\ s[k] \in Handler => (s[k] = "dbi" <=> Type[h] = "DBI")
<1>1. Type[h] \in {"PRE_POST", "REPLACE", "DBI"}
  BY HooksAssumption DEF HookType
<1>2. CASE Type[h] = "PRE_POST" /\ near
  <2>1. s = <<"enter", "transfer", "invoke", "leave", "active">>
    BY <1>2, StepsAre
  <2>2. /\ Len(s) = 5 /\ s[1] = "enter" /\ s[2] = "transfer" /\ s[3] = "invoke"
        /\ s[4] = "leave" /\ s[5] = "active"
    BY <2>1
  <2>3. Type[h] = "PRE_POST"
    BY <1>2, Zenon
  <2>4. QED
    BY <2>2, <2>3 DEF Handler
<1>3. CASE Type[h] = "PRE_POST" /\ ~near
  <2>1. s = <<"enter", "invoke", "leave", "active">>
    BY <1>3, StepsAre
  <2>2. Len(s) = 4 /\ s[1] = "enter" /\ s[2] = "invoke" /\ s[3] = "leave" /\ s[4] = "active"
    BY <2>1
  <2>3. Type[h] = "PRE_POST"
    BY <1>3, Zenon
  <2>4. QED
    BY <2>2, <2>3 DEF Handler
<1>4. CASE Type[h] = "REPLACE"
  <2>1. s = <<"transfer", "invoke", "active", "origin">>
    BY <1>4, StepsAre
  <2>2. Len(s) = 4 /\ s[1] = "transfer" /\ s[2] = "invoke" /\ s[3] = "active" /\ s[4] = "origin"
    BY <2>1
  <2>3. QED
    BY <1>4, <2>2 DEF Handler
<1>5. CASE Type[h] = "DBI" /\ near
  <2>1. s = <<"dbi", "transfer", "invoke", "active">>
    BY <1>5, StepsAre
  <2>2. Len(s) = 4 /\ s[1] = "dbi" /\ s[2] = "transfer" /\ s[3] = "invoke" /\ s[4] = "active"
    BY <2>1
  <2>3. Type[h] = "DBI"
    BY <1>5, Zenon
  <2>4. QED
    BY <2>2, <2>3 DEF Handler
<1>6. CASE Type[h] = "DBI" /\ ~near
  <2>1. s = <<"dbi", "invoke", "active">>
    BY <1>6, StepsAre
  <2>2. Len(s) = 3 /\ s[1] = "dbi" /\ s[2] = "invoke" /\ s[3] = "active"
    BY <2>1
  <2>3. Type[h] = "DBI"
    BY <1>6, Zenon
  <2>4. QED
    BY <2>2, <2>3 DEF Handler
<1>7. QED
  BY <1>1, <1>2, <1>3, <1>4, <1>5, <1>6

\* The closure to be bound next has no slot yet, and those after it are others
LEMMA NextIsFree ==
  ASSUME InstallInv, FieldsFree, NEW f, InstallerAt(f)
  PROVE  /\ f \in Handler => entry[H][f] = NULL /\ (f = "dbi" <=> Type[H] = "DBI")
         /\ Len(Tail(installer.todo)) \in Nat
         /\ \A j \in 1..Len(Tail(installer.todo)) :
              /\ Tail(installer.todo)[j] # f
              /\ Tail(installer.todo)[j] \in Handler => entry[H][Tail(installer.todo)[j]] = NULL
<1> DEFINE s == Steps(H)
           todo == installer.todo
           rest == Tail(todo)
<1>1. H \in Hooks /\ entry[H].near \in BOOLEAN /\ s = BuildSteps(H, entry[H].near)
  BY AtStep DEF EntryOK, Steps
<1>2. PICK k \in 1..Len(s) : /\ todo = SubSeq(s, k, Len(s))
                             /\ s[k] = f
                             /\ rest = SubSeq(s, k + 1, Len(s))
  BY AtStep
<1>3. Len(s) \in Nat
  BY <1>1, <1>2, StepsInOrder
<1>4. /\ \A j \in 1..Len(s) : s[j] = s[k] => j = k
      /\ s[k] \in Handler => (s[k] = "dbi" <=> Type[H] = "DBI")
  BY <1>1, <1>2, StepsOnce
<1> HIDE DEF s
<1>5. PICK m \in Nat : m = Len(s) - k
  BY <1>3
<1>6. /\ Len(todo) = m + 1 /\ \A i \in 1..m + 1 : todo[i] = s[k + i - 1]
      /\ Len(rest) = m /\ \A i \in 1..m : rest[i] = s[k + i]
  <2>1. Len(s) - k + 1 = m + 1 /\ Len(s) - (k + 1) + 1 = m /\ k \in Nat
    BY <1>3, <1>5
  <2>2. todo = [i \in 1..m + 1 |-> s[k + i - 1]]
    BY <1>2, <1>3, <2>1
  <2>3. rest = [i \in 1..m |-> s[(k + 1) + i - 1]]
    BY <1>2, <1>3, <2>1
  <2> HIDE DEF todo, rest
  <2>4. Len(todo) = m + 1 /\ Len(rest) = m
    BY <2>2, <2>3
  <2>5. \A i \in 1..m : (k + 1) + i - 1 = k + i
    BY <2>1
  <2>6. QED
    BY <2>2, <2>3, <2>4, <2>5
<1> HIDE DEF todo, rest
<1>7. \A i \in 1..m + 1 : s[k + i - 1] \in Handler => entry[H][s[k + i - 1]] = NULL
  <2>1. \A j \in 1..Len(todo) : todo[j] \in Handler => entry[H][todo[j]] = NULL
    BY DEF FieldsFree, todo
  <2>2. ASSUME NEW i \in 1..m + 1
        PROVE  s[k + i - 1] \in Handler => entry[H][s[k + i - 1]] = NULL
    <3>1. i \in 1..Len(todo) /\ todo[i] = s[k + i - 1]
      BY <1>6
    <3>2. QED
      BY <2>1, <3>1, Zenon
  <2>3. QED
    BY <2>2
<1>8. 1 \in 1..m + 1 /\ k + 1 - 1 = k
  OBVIOUS
<1>9. f \in Handler => entry[H][f] = NULL
  BY <1>2, <1>7, <1>8
<1>10. ASSUME NEW i \in 1..m
       PROVE  s[k + i] # f /\ (s[k + i] \in Handler => entry[H][s[k + i]] = NULL)
  <2>1. i + 1 \in 1..m + 1 /\ k + (i + 1) - 1 = k + i
    OBVIOUS
  <2>2. k + i \in 1..Len(s) /\ k + i # k
    BY <1>3, <1>5
  <2>3. QED
    BY <1>2, <1>4, <1>7, <2>1, <2>2
<1>11. QED
  BY <1>2, <1>4, <1>6, <1>9, <1>10 DEF rest, todo

(* ------------------------------------------------------------------------ *)
(* What a thread can be                                                            *)

ASet == Hooks \cup 1..2 * Cardinality(Hooks) \cup {NULL}
PcSet == {"idle", "word", "body", "transfer", "slot", "invoke", "replace"} \cup Lost
X17Set == Addr \cup {NULL, Stray}

LEMMA ThreadIsRecord ==
  Thread = [pc : PcSet, at : ASet, fn : Targets \cup {NULL}, i : 0..5, x17 : X17Set,
            due : Seq(AddrOrNull), sees : SUBSET Hooks, through : Seq(Hooks),
            ran : Seq(1..4), overlapped : BOOLEAN]
BY DEF Thread, PcSet, ASet, X17Set

\* Fields that are set to something of their types
LEMMA SetTyped ==
  ASSUME NEW th \in Thread
  PROVE  /\ \A v \in PcSet : [th EXCEPT !.pc = v] \in Thread
         /\ \A v \in PcSet, n \in 0..5 : [th EXCEPT !.pc = v, !.i = n] \in Thread
         /\ \A v \in PcSet, a \in ASet, n \in 0..5 :
              [th EXCEPT !.pc = v, !.at = a, !.i = n] \in Thread
         /\ \A n \in 0..5 : [th EXCEPT !.i = n] \in Thread
         /\ \A v \in X17Set : [th EXCEPT !.x17 = v] \in Thread
         /\ \A v \in Seq(AddrOrNull) : [th EXCEPT !.due = v] \in Thread
         /\ \A v \in Seq(Hooks) : [th EXCEPT !.through = v] \in Thread
         /\ \A v \in Seq(1..4) : [th EXCEPT !.ran = v] \in Thread
         /\ \A v \in BOOLEAN : [th EXCEPT !.overlapped = v] \in Thread
         /\ th.pc \in PcSet /\ th.at \in ASet /\ th.i \in 0..5 /\ th.x17 \in X17Set
         /\ th.due \in Seq(AddrOrNull) /\ th.through \in Seq(Hooks) /\ th.ran \in Seq(1..4)
<1> DEFINE A == Seq(AddrOrNull)
           B == SUBSET Hooks
           C == Seq(Hooks)
           D == Seq(1..4)
           F == Targets \cup {NULL}
           I == 0..5
<1>1. Thread = [pc : PcSet, at : ASet, fn : F, i : I, x17 : X17Set, due : A, sees : B,
                through : C, ran : D, overlapped : BOOLEAN]
  BY ThreadIsRecord
<1> HIDE DEF A, B, C, D, F, I
<1>2. th \in [pc : PcSet, at : ASet, fn : F, i : I, x17 : X17Set, due : A, sees : B,
              through : C, ran : D, overlapped : BOOLEAN]
  BY <1>1
<1>3. /\ \A v \in PcSet : [th EXCEPT !.pc = v] \in Thread
      /\ \A v \in PcSet, n \in I : [th EXCEPT !.pc = v, !.i = n] \in Thread
      /\ \A v \in PcSet, a \in ASet, n \in I :
           [th EXCEPT !.pc = v, !.at = a, !.i = n] \in Thread
  BY <1>1, <1>2
<1>4. /\ \A n \in I : [th EXCEPT !.i = n] \in Thread
      /\ \A v \in X17Set : [th EXCEPT !.x17 = v] \in Thread
      /\ \A v \in A : [th EXCEPT !.due = v] \in Thread
  BY <1>1, <1>2
<1>5. /\ \A v \in C : [th EXCEPT !.through = v] \in Thread
      /\ \A v \in D : [th EXCEPT !.ran = v] \in Thread
      /\ \A v \in BOOLEAN : [th EXCEPT !.overlapped = v] \in Thread
  BY <1>1, <1>2
<1>6. /\ th.pc \in PcSet /\ th.at \in ASet /\ th.i \in I /\ th.x17 \in X17Set
      /\ th.due \in A /\ th.through \in C /\ th.ran \in D
  BY <1>2
<1>7. QED
  BY <1>3, <1>4, <1>5, <1>6 DEF A, C, D, I

LEMMA IdleTyped == Idle \in Thread
<1>1. /\ << >> \in Seq(AddrOrNull) /\ << >> \in Seq(Hooks) /\ << >> \in Seq(1..4)
      /\ {} \in SUBSET Hooks /\ 0 \in 0..5 /\ FALSE \in BOOLEAN
      /\ NULL \in ASet /\ NULL \in X17Set /\ "idle" \in PcSet
  BY DEF ASet, X17Set, PcSet
<1> DEFINE A == Seq(AddrOrNull)
           B == SUBSET Hooks
           C == Seq(Hooks)
           D == Seq(1..4)
           I == 0..5
<1>2. /\ << >> \in A /\ << >> \in C /\ << >> \in D /\ {} \in B /\ 0 \in I
  BY <1>1
<1> HIDE DEF A, B, C, D, I
<1>3. Idle \in [pc : PcSet, at : ASet, fn : Targets \cup {NULL}, i : I, x17 : X17Set, due : A,
                sees : B, through : C, ran : D, overlapped : BOOLEAN]
  BY <1>1, <1>2 DEF Idle
<1>4. QED
  BY <1>3, ThreadIsRecord DEF A, B, C, D, I

\* An address that a thread can be sent to is one
LEMMA ReachTyped ==
  ASSUME SlotsOK, NamedBy(slots, entry), NEW a, Reach(a)
  PROVE  a \in Addr
<1>1. slots \in Seq(slot_t)
  BY DEF SlotsOK, slot_t, Handler
<1>2. Len(slots) \in Nat /\ Len(slots) <= 2 * Cardinality(Hooks)
  BY <1>1, SlotsFew
<1>3. Cardinality(Hooks) \in Nat
  BY FiniteAssumption, FS_CardinalityType
<1>4. \A n \in 1..Len(slots) : Slot(n) \in Addr
  BY <1>2, <1>3 DEF Addr
<1>5. \A h \in Hooks : /\ Code("transfer", h) \in Addr /\ Code("invoke", h) \in Addr
                       /\ Code("replace", h) \in Addr
  BY DEF Addr
<1>6. QED
  BY <1>4, <1>5 DEF Reach

LEMMA GotoTyped ==
  ASSUME NEW th \in Thread, NEW a \in Addr \cup {NULL, Stray}
  PROVE  Goto(th, a) \in Thread
<1>1. CASE a = NULL
  <2>1. "null" \in PcSet
    BY DEF PcSet, Lost
  <2>2. QED
    BY <1>1, <2>1, SetTyped DEF Goto
<1>2. CASE a # NULL
  <2>1. a[1] \in PcSet /\ a[2] \in ASet
    <3>1. CASE a = Stray
      BY <3>1 DEF Stray, PcSet, Lost, ASet
    <3>2. CASE a \in Addr
      BY <3>2 DEF Addr, Slot, Code, PcSet, ASet
    <3>3. QED
      BY <1>2, <3>1, <3>2
  <2>2. Goto(th, a) = [th EXCEPT !.pc = a[1], !.at = a[2], !.i = 1]
    BY <1>2 DEF Goto
  <2>3. PICK v \in PcSet, x \in ASet, n \in 0..5 : v = a[1] /\ x = a[2] /\ n = 1
    BY <2>1
  <2>4. Goto(th, a) = [th EXCEPT !.pc = v, !.at = x, !.i = n]
    BY <2>2, <2>3
  <2>5. [th EXCEPT !.pc = v, !.at = x, !.i = n] \in Thread
    BY SetTyped
  <2>6. QED
    BY <2>4, <2>5
<1>3. QED
  BY <1>1, <1>2

LEMMA AtWordTyped ==
  ASSUME NEW th \in Thread, NEW i \in 0..5
  PROVE  AtWord(th, i) \in Thread
<1>1. "body" \in PcSet /\ "word" \in PcSet /\ 0 \in 0..5
  BY DEF PcSet
<1>2. QED
  BY <1>1, SetTyped DEF AtWord

LEMMA StopTyped ==
  ASSUME NEW th \in Thread, NEW pc \in Lost
  PROVE  [th EXCEPT !.pc = pc] \in Thread
<1>1. pc \in PcSet
  BY DEF PcSet
<1>2. QED
  BY <1>1, SetTyped

LEMMA JumpX17Typed ==
  ASSUME NEW th \in Thread
  PROVE  JumpX17(th) \in Thread
<1>1. th.x17 \in Addr \cup {NULL, Stray} /\ "torn" \in Lost
  BY SetTyped DEF X17Set, Lost
<1>2. QED
  BY <1>1, StopTyped, GotoTyped DEF JumpX17

LEMMA LeaveTyped ==
  ASSUME NEW th \in Thread
  PROVE  Leave(th) \in Thread
<1>1. CASE th.due = << >>
  BY <1>1, IdleTyped DEF Leave
<1>2. CASE th.due # << >>
  <2>1. th.due \in Seq(AddrOrNull)
    BY SetTyped
  <2>2. Last(th.due) \in AddrOrNull
    <3> HIDE DEF AddrOrNull
    <3>1. Len(th.due) \in 1..Len(th.due)
      BY <1>2, <2>1
    <3>2. QED
      BY <2>1, <3>1 DEF Last
  <2>3. Last(th.due) \in Addr \cup {NULL, Stray}
    BY <2>2 DEF AddrOrNull
  <2>4. QED
    BY <1>2, <2>3, GotoTyped DEF Leave
<1>3. QED
  BY <1>1, <1>2

(* ------------------------------------------------------------------------ *)
(* The steps of a thread                                                           *)

LEMMA ExecuteTyped ==
  ASSUME TypedInv, NEW t \in Threads, NEW th \in Thread, Execute(t, th)
  PROVE  TypedInv'
<1>1. /\ thread' = [thread EXCEPT ![t] = th]
      /\ UNCHANGED <<installer, hook_entries, entry, code, slots, table_prot, transfer,
                     origin_call>>
  BY DEF Execute, installVars
<1>2. thread' \in [Threads -> Thread]
  BY <1>1 DEF TypedInv, Shaped
<1>3. Shaped'
  BY <1>1, <1>2 DEF TypedInv, Shaped
<1>4. NamedBy(slots, entry)' /\ FieldsFree'
  BY <1>1 DEF TypedInv, NamedBy, FieldsFree, H, Hooked
<1>5. QED
  BY <1>3, <1>4 DEF TypedInv

\* A thread and what it comes across
LEMMA ThreadTyped ==
  ASSUME InstallInv, OrderInv, TypedInv, NEW t \in Threads
  PROVE  /\ thread[t] \in Thread /\ At(thread[t]) /\ CallAt(thread[t])
         /\ \A f \in Targets : Literal(f) \in X17Set
         /\ \A h \in Hooks : entry[h].invoke \in AddrOrNull /\ entry[h].leave \in AddrOrNull
         /\ \A h \in Hooks : transfer[h] \in AddrOrNull /\ origin_call[h] \in AddrOrNull
         /\ \A a : Reach(a) => a \in Addr
<1>1. SlotsOK /\ CodeOK
  BY DEF InstallInv
<1>2. \A a : Reach(a) => a \in Addr
  BY <1>1, ReachTyped DEF TypedInv
<1>3. \A f \in Targets : Literal(f) \in X17Set
  BY <1>1, <1>2, LiteralOK DEF X17Set
<1>4. \A h \in Hooks : entry[h].invoke \in AddrOrNull /\ entry[h].leave \in AddrOrNull
  <2> HIDE DEF AddrOrNull
  <2>1. QED
    BY DEF TypedInv, Shaped, hook_entry_t
<1>5. QED
  BY <1>2, <1>3, <1>4
     DEF TypedInv, Shaped, InstallInv, ThreadsOK, ThreadOK, OrderInv, PathsOK, PathOK

\* The words of a function that are its own
LEMMA OrigWord ==
  ASSUME OrderInv, NEW f \in Targets, NEW i \in 1..4, code[f][i].op = "orig"
  PROVE  code[f][i].arg \in 1..4
<1>1. \A a : /\ LdrX17.op # "orig" /\ BrX17.op # "orig" /\ Lo(a).op # "orig"
             /\ Hi(a).op # "orig" /\ Inst("b", a).op # "orig"
  BY DEF LdrX17, BrX17, Lo, Hi, Inst
<1>2. i = 1 \/ i = 2 \/ i = 3 \/ i = 4
  OBVIOUS
<1>3. code[f][i] = Orig(i)
  <2>1. ShapeOK(f)
    BY DEF OrderInv, ShapesOK
  <2>2. CASE PlainOK(f)
    BY <1>1, <1>2, <2>2 DEF PlainOK
  <2>3. CASE \E h, left : LongOK(f, h, left)
    BY <1>1, <1>2, <2>3 DEF LongOK
  <2>4. QED
    BY <2>1, <2>2, <2>3 DEF ShapeOK
<1>4. QED
  BY <1>3 DEF Orig, Inst

LEMMA RunOrigTyped ==
  ASSUME NEW th \in Thread, NEW w, w.arg \in 1..4
  PROVE  RunOrig(th, w) \in Thread
<1>1. th.ran \in Seq(1..4)
  BY SetTyped
<1> DEFINE S == 1..4
<1>2. w.arg \in S /\ th.ran \in Seq(S)
  BY <1>1
<1> HIDE DEF S
<1>3. Append(th.ran, w.arg) \in Seq(S)
  BY <1>2
<1>4. QED
  BY <1>3, SetTyped DEF RunOrig, S

LEMMA FetchTyped ==
  ASSUME InstallInv, OrderInv, TypedInv, NEW t \in Threads, Fetch(t)
  PROVE  TypedInv'
<1> DEFINE th == thread[t]
           w == code[th.fn][th.i]
           to == CASE w.op = "orig" -> AtWord(RunOrig(th, w), th.i + 1)
                   [] w.op = "b" -> Goto(th, w.arg)
                   [] w.op = "ldr_x17" ->
                        AtWord([th EXCEPT !.x17 = Literal(th.fn)], th.i + 1)
                   [] w.op = "br_x17" -> JumpX17(th)
                   [] OTHER -> [th EXCEPT !.pc = "torn"]
<1>1. th.pc = "word" /\ Execute(t, to)
  BY DEF Fetch
<1>2. th \in Thread /\ th.fn \in Targets /\ th.i \in 1..4 /\ th.i + 1 \in 0..5
  <2>1. th \in Thread /\ At(th)
    BY ThreadTyped
  <2>2. th.fn \in Targets /\ th.i \in 1..4
    BY <1>1, <2>1 DEF At
  <2>3. QED
    BY <2>1, <2>2
<1>3. WordOK(w)
  BY <1>2 DEF InstallInv, CodeOK
<1>4. to \in Thread
  <2>1. CASE w.op = "orig"
    <3>1. w.arg \in 1..4
      BY <1>2, <2>1, OrigWord
    <3>2. RunOrig(th, w) \in Thread
      BY <1>2, <3>1, RunOrigTyped
    <3>3. AtWord(RunOrig(th, w), th.i + 1) \in Thread
      BY <1>2, <3>2, AtWordTyped
    <3>4. QED
      BY <2>1, <3>3
  <2>2. CASE w.op = "b"
    <3>1. w.arg \in Addr
      BY <1>3, <2>2, ThreadTyped DEF WordOK
    <3>2. Goto(th, w.arg) \in Thread
      BY <1>2, <3>1, GotoTyped
    <3>3. QED
      BY <2>2, <3>2
  <2>3. CASE w.op = "ldr_x17"
    <3> DEFINE loaded == [th EXCEPT !.x17 = Literal(th.fn)]
    <3>1. loaded \in Thread
      BY <1>2, ThreadTyped, SetTyped
    <3> HIDE DEF loaded
    <3>2. AtWord(loaded, th.i + 1) \in Thread
      BY <1>2, <3>1, AtWordTyped
    <3>3. QED
      BY <2>3, <3>2 DEF loaded
  <2>4. CASE w.op = "br_x17"
    BY <1>2, <2>4, JumpX17Typed
  <2>5. CASE w.op \notin {"orig", "b", "ldr_x17", "br_x17"}
    <3>1. [th EXCEPT !.pc = "torn"] \in Thread
      BY <1>2, StopTyped DEF Lost
    <3>2. QED
      BY <2>5, <3>1
  <2>6. QED
    BY <2>1, <2>2, <2>3, <2>4, <2>5
<1> HIDE DEF to
<1>5. QED
  BY <1>1, <1>4, ExecuteTyped

LEMMA OnEnterTransferTyped ==
  ASSUME InstallInv, OrderInv, TypedInv, NEW t \in Threads, OnEnterTransfer(t)
  PROVE  TypedInv'
<1> DEFINE th == thread[t]
           a == transfer[th.at]
           loaded == [th EXCEPT !.x17 = a]
<1>1. th.pc = "transfer" /\ Execute(t, Goto(loaded, a))
  BY DEF OnEnterTransfer
<1>2. th \in Thread /\ th.at \in Hooks
  BY <1>1, ThreadTyped DEF At
<1>3. a \in AddrOrNull
  BY <1>2, ThreadTyped
<1>4. a \in X17Set /\ a \in Addr \cup {NULL, Stray}
  BY <1>3 DEF X17Set, AddrOrNull
<1>5. loaded \in Thread
  BY <1>2, <1>4, SetTyped
<1> HIDE DEF loaded
<1>6. Goto(loaded, a) \in Thread
  BY <1>4, <1>5, GotoTyped
<1>7. QED
  BY <1>1, <1>6, ExecuteTyped
LEMMA OnEnterClosureTyped ==
  ASSUME InstallInv, OrderInv, TypedInv, NEW t \in Threads, OnEnterClosure(t)
  PROVE  TypedInv'
<1> DEFINE th == thread[t]
           h == slots[th.at].hook
           begun == [th EXCEPT !.through = Append(@, h)]
           owing == [begun EXCEPT !.due = Append(@, entry[h].leave)]
           to == IF slots[th.at].handler = "enter" THEN owing ELSE begun
<1>1. th.pc = "slot" /\ Execute(t, Goto(to, entry[h].invoke))
  BY DEF OnEnterClosure
<1>2. th \in Thread /\ At(th)
  BY ThreadTyped
<1>3. h \in Hooks
  BY <1>1, <1>2, SlotsTyped DEF At, InstallInv
<1>4. begun \in Thread
  <2>1. th.through \in Seq(Hooks)
    BY <1>2, SetTyped
  <2>2. Append(th.through, h) \in Seq(Hooks)
    BY <1>3, <2>1
  <2>3. QED
    BY <1>2, <2>2, SetTyped
<1>5. owing \in Thread
  <2>1. entry[h].leave \in AddrOrNull
    BY <1>3, ThreadTyped
  <2> HIDE DEF begun, h
  <2>2. begun.due \in Seq(AddrOrNull)
    BY <1>4, SetTyped
  <2>3. Append(begun.due, entry[h].leave) \in Seq(AddrOrNull)
    <3> HIDE DEF AddrOrNull
    <3>1. QED
      BY <2>1, <2>2
  <2>4. QED
    BY <1>4, <2>3, SetTyped
<1>6. entry[h].invoke \in Addr \cup {NULL, Stray}
  BY <1>3, ThreadTyped DEF AddrOrNull
<1>7. to \in Thread
  BY <1>4, <1>5
<1> HIDE DEF to
<1>8. Goto(to, entry[h].invoke) \in Thread
  BY <1>6, <1>7, GotoTyped
<1>9. QED
  BY <1>1, <1>8, ExecuteTyped

LEMMA OnLeaveClosureTyped ==
  ASSUME InstallInv, OrderInv, TypedInv, NEW t \in Threads, OnLeaveClosure(t)
  PROVE  TypedInv'
<1> DEFINE th == thread[t]
           left == [th EXCEPT !.due = Front(@)]
<1>1. Execute(t, Leave(left))
  BY DEF OnLeaveClosure
<1>2. th \in Thread
  BY ThreadTyped
<1>3. left \in Thread
  <2>1. th.due \in Seq(AddrOrNull)
    BY <1>2, SetTyped
  <2>2. Front(th.due) \in Seq(AddrOrNull)
    <3> HIDE DEF AddrOrNull
    <3>1. SubSeq(th.due, 1, Len(th.due) - 1) \in Seq(AddrOrNull)
      BY <2>1
    <3>2. QED
      BY <3>1 DEF Front
  <2>3. QED
    BY <1>2, <2>2, SetTyped
<1> HIDE DEF left
<1>4. Leave(left) \in Thread
  BY <1>3, LeaveTyped
<1>5. QED
  BY <1>1, <1>4, ExecuteTyped

LEMMA OnInvokeTyped ==
  ASSUME InstallInv, OrderInv, TypedInv, NEW t \in Threads, OnInvoke(t)
  PROVE  TypedInv'
<1> DEFINE th == thread[t]
           ws == invoke[th.at]
           w == ws[th.i]
           next == [th EXCEPT !.i = @ + 1]
           to == CASE w.op = "orig" -> RunOrig(next, w)
                   [] w.op = "jump" -> Goto([th EXCEPT !.x17 = w.arg], w.arg)
                   [] w.op = "load" -> [next EXCEPT !.x17 = Literal(w.arg)]
                   [] w.op = "br_x17" -> JumpX17(th)
                   [] OTHER -> [th EXCEPT !.pc = "torn"]
<1>1. th.pc = "invoke" /\ Execute(t, IF th.i > Len(ws) THEN JumpBack(th) ELSE to)
  BY DEF OnInvoke
<1>2. th \in Thread /\ At(th) /\ CallAt(th)
  BY ThreadTyped
<1>3. th.at \in Hooks /\ InvokeOK(th.at) /\ th.i \in Nat \ {0} /\ th.i \in 0..5
  <2>1. th.at \in Hooks /\ entry[th.at].invoke # NULL /\ th.i \in Nat \ {0}
    BY <1>1, <1>2 DEF At, CallAt, Passed
  <2>2. QED
    BY <1>2, <2>1, SetTyped DEF OrderInv, InvokesOK
<1>4. Len(ws) \in {1, 4} /\ \A i \in 1..Len(ws) : RelocatedOK(ws[i])
  BY <1>3 DEF InvokeOK, Limit, InstallInv, CodeOK
<1>5. \A i \in 1..Len(ws) : ws[i].op = "orig" => ws[i].arg \in 1..4
  <2>1. CASE Len(ws) = Limit(th.at) /\ \A i \in 1..Limit(th.at) : ws[i] = Orig(i)
    <3>1. ASSUME NEW i \in 1..Len(ws) PROVE ws[i].arg \in 1..4
      <4>1. i \in 1..4 /\ ws[i] = Orig(i)
        BY <1>4, <2>1
      <4>2. QED
        BY <4>1 DEF Orig, Inst
    <3>2. QED
      BY <3>1
  <2>2. CASE \E g \in Hooks : Len(ws) = 1 /\ ws[1] = Inst("jump", Code("transfer", g))
    <3>1. ws[1].op = "jump" /\ \A i \in 1..Len(ws) : i = 1
      BY <2>2 DEF Inst
    <3>2. QED
      BY <3>1
  <2>3. QED
    BY <1>3, <2>1, <2>2 DEF InvokeOK
<1> HIDE DEF ws
<1>6. CASE th.i > Len(ws)
  <2> DEFINE loaded == [th EXCEPT !.x17 = Stray]
  <2>1. Stray \in X17Set
    BY DEF X17Set
  <2>2. loaded \in Thread
    BY <1>2, <2>1, SetTyped
  <2> HIDE DEF loaded
  <2>3. AtWord(loaded, th.i) \in Thread
    BY <1>3, <2>2, AtWordTyped
  <2>4. JumpBack(th) \in Thread
    BY <2>3 DEF JumpBack, loaded
  <2>5. Execute(t, JumpBack(th))
    BY <1>1, <1>6
  <2>6. QED
    BY <2>4, <2>5, ExecuteTyped
<1>7. CASE ~(th.i > Len(ws))
  <2>1. th.i \in 1..Len(ws) /\ th.i + 1 \in 0..5
    BY <1>3, <1>4, <1>7
  <2>2. RelocatedOK(w) /\ (w.op = "orig" => w.arg \in 1..4)
    BY <1>4, <1>5, <2>1
  <2>3. next \in Thread
    BY <1>2, <2>1, SetTyped
  <2> HIDE DEF next, w
  <2>4. to \in Thread
    <3>1. CASE w.op = "orig"
      BY <2>2, <2>3, <3>1, RunOrigTyped
    <3>2. CASE w.op = "jump"
      <4> DEFINE loaded == [th EXCEPT !.x17 = w.arg]
      <4>1. w.arg = Stray \/ w.arg \in Addr
        BY <2>2, <3>2, ThreadTyped DEF RelocatedOK
      <4>2. w.arg \in X17Set /\ w.arg \in Addr \cup {NULL, Stray}
        BY <4>1 DEF X17Set
      <4>3. loaded \in Thread
        BY <1>2, <4>2, SetTyped
      <4> HIDE DEF loaded
      <4>4. Goto(loaded, w.arg) \in Thread
        BY <4>2, <4>3, GotoTyped
      <4>5. QED
        BY <3>2, <4>4 DEF loaded
    <3>3. CASE w.op = "load"
      <4>1. Literal(w.arg) \in X17Set
        BY <2>2, <3>3, ThreadTyped DEF RelocatedOK
      <4>2. [next EXCEPT !.x17 = Literal(w.arg)] \in Thread
        BY <2>3, <4>1, SetTyped
      <4>3. QED
        BY <3>3, <4>2
    <3>4. CASE w.op = "br_x17"
      BY <1>2, <3>4, JumpX17Typed
    <3>5. CASE w.op \notin {"orig", "jump", "load", "br_x17"}
      <4>1. [th EXCEPT !.pc = "torn"] \in Thread
        BY <1>2, StopTyped DEF Lost
      <4>2. QED
        BY <3>5, <4>1
    <3>6. QED
      BY <3>1, <3>2, <3>3, <3>4, <3>5
  <2> HIDE DEF to
  <2>5. Execute(t, to)
    BY <1>1, <1>7
  <2>6. QED
    BY <2>4, <2>5, ExecuteTyped
<1>8. QED
  BY <1>6, <1>7

LEMMA ReplaceCallsOriginTyped ==
  ASSUME InstallInv, OrderInv, TypedInv, NEW t \in Threads, ReplaceCallsOrigin(t)
  PROVE  TypedInv'
<1> DEFINE th == thread[t]
           through == [th EXCEPT !.through = Append(@, th.at)]
           stopped == [th EXCEPT !.pc = "no_origin"]
           a == origin_call[th.at]
<1>1. th.pc = "replace" /\ Execute(t, IF a = NULL THEN stopped ELSE Goto(through, a))
  BY DEF ReplaceCallsOrigin
<1>2. th \in Thread /\ At(th)
  BY ThreadTyped
<1>3. th.at \in Hooks
  BY <1>1, <1>2 DEF At
<1>4. stopped \in Thread
  BY <1>2, StopTyped DEF Lost
<1>5. through \in Thread
  <2>1. th.through \in Seq(Hooks)
    BY <1>2, SetTyped
  <2>2. Append(th.through, th.at) \in Seq(Hooks)
    BY <1>3, <2>1
  <2>3. QED
    BY <1>2, <2>2, SetTyped
<1>6. a \in Addr \cup {NULL, Stray}
  BY <1>3, ThreadTyped DEF AddrOrNull
<1> HIDE DEF through, stopped
<1>7. Goto(through, a) \in Thread
  BY <1>5, <1>6, GotoTyped
<1>8. QED
  BY <1>1, <1>4, <1>7, ExecuteTyped

LEMMA CallTyped ==
  ASSUME InstallInv, OrderInv, TypedInv, NEW t \in Threads, NEW f \in Targets, Call(t, f)
  PROVE  TypedInv'
<1> DEFINE to == [Idle EXCEPT !.pc = "word", !.fn = f, !.i = 1,
                              !.sees = {h \in active : Target[h] = f},
                              !.overlapped = HalfPatched(f)]
<1>1. Execute(t, to)
  BY DEF Call
<1>2. to \in Thread
  <2> DEFINE B == SUBSET Hooks
             I == 0..5
             A == Seq(AddrOrNull)
             C == Seq(Hooks)
             D == Seq(1..4)
             sees == {h \in active : Target[h] = f}
             F == Targets \cup {NULL}
  <2>1. sees \in B
    <3>1. active \subseteq Hooked /\ Hooked \subseteq Hooks
      BY EntriesTyped DEF OrderInv, HooksOK, Hooked, ToSet
    <3>2. QED
      BY <3>1
  <2>2. 1 \in I /\ f \in F /\ "word" \in PcSet
    BY DEF PcSet
  <2>3. HalfPatched(f) \in BOOLEAN
    BY Zenon DEF HalfPatched
  <2>4. Thread = [pc : PcSet, at : ASet, fn : F, i : I, x17 : X17Set, due : A, sees : B,
                  through : C, ran : D, overlapped : BOOLEAN]
    BY ThreadIsRecord
  <2> HIDE DEF A, B, C, D, F, I, sees
  <2>5. Idle \in [pc : PcSet, at : ASet, fn : F, i : I, x17 : X17Set, due : A, sees : B,
                  through : C, ran : D, overlapped : BOOLEAN]
    BY <2>4, IdleTyped
  <2>6. PICK o \in BOOLEAN : o = HalfPatched(f)
    BY <2>3
  <2>7. [Idle EXCEPT !.pc = "word", !.fn = f, !.i = 1, !.sees = sees, !.overlapped = o] \in
          [pc : PcSet, at : ASet, fn : F, i : I, x17 : X17Set, due : A, sees : B,
           through : C, ran : D, overlapped : BOOLEAN]
    BY <2>1, <2>2, <2>5
  <2>8. to = [Idle EXCEPT !.pc = "word", !.fn = f, !.i = 1, !.sees = sees, !.overlapped = o]
    BY <2>6 DEF sees
  <2>9. QED
    BY <2>4, <2>7, <2>8
<1> HIDE DEF to
<1>3. QED
  BY <1>1, <1>2, ExecuteTyped

LEMMA RunTyped ==
  ASSUME InstallInv, OrderInv, TypedInv, NEW t \in Threads, Run(t)
  PROVE  TypedInv'
<1>1. thread[t] \in Thread
  BY ThreadTyped
<1>2. CASE ClosureFault(t)
  <2>1. [thread[t] EXCEPT !.pc = "fault"] \in Thread
    BY <1>1, StopTyped DEF Lost
  <2>2. QED
    BY <1>2, <2>1, ExecuteTyped DEF ClosureFault
<1>3. CASE ReplaceReturns(t) \/ BodyReturns(t)
  BY <1>1, <1>3, LeaveTyped, ExecuteTyped DEF ReplaceReturns, BodyReturns
<1>4. QED
  BY <1>2, <1>3, FetchTyped, OnEnterTransferTyped, OnEnterClosureTyped, OnLeaveClosureTyped,
     OnInvokeTyped, ReplaceCallsOriginTyped DEF Run

(* ------------------------------------------------------------------------ *)
(* The steps of the installer                                                      *)

LEMMA FieldsLeft ==
  ASSUME InstallInv, OrderInv, FieldsFree, NEW f, InstallerAt(f),
         installer'.hook = installer.hook, installer'.todo = Tail(installer.todo),
         hook_entries' = hook_entries,
         \A h \in Hooks, x \in Handler : h # H \/ x # f => entry'[h][x] = entry[h][x]
  PROVE  FieldsFree'
<1> DEFINE rest == Tail(installer.todo)
<1>1. H \in Hooks /\ H \in Hooked
  <2>1. installer.todo # << >>
    BY DEF InstallerAt
  <2>2. Len(hook_entries) \in Nat /\ Len(hook_entries) # 0
        /\ H = hook_entries[Len(hook_entries)]
    BY <2>1, EntriesTyped DEF OrderInv, CurrentOK
  <2>3. DOMAIN hook_entries = 1..Len(hook_entries)
    BY EntriesTyped DEF OrderInv
  <2>4. H \in Hooked
    BY <2>2, <2>3 DEF Hooked, ToSet
  <2>5. QED
    BY <2>4, AtStep
<1>2. \A j \in 1..Len(rest) :
        rest[j] # f /\ (rest[j] \in Handler => entry[H][rest[j]] = NULL)
  BY NextIsFree
<1>3. ASSUME NEW j \in 1..Len(rest), rest[j] \in Handler
      PROVE  entry'[H][rest[j]] = NULL
  <2>1. rest[j] # f /\ entry[H][rest[j]] = NULL
    BY <1>2, <1>3
  <2> HIDE DEF rest
  <2>2. QED
    BY <1>1, <1>3, <2>1
<1>4. ASSUME NEW h \in Hooks, h \notin Hooked, NEW x \in Handler
      PROVE  entry'[h][x] = NULL
  BY <1>1, <1>4 DEF FieldsFree
<1>5. H' = H /\ Hooked' = Hooked /\ installer'.todo = rest
  BY DEF H, Hooked
<1> HIDE DEF rest
<1>6. QED
  BY <1>3, <1>4, <1>5 DEF FieldsFree

LEMMA SameNames ==
  ASSUME InstallInv, NamedBy(slots, entry), slots' = slots,
         \A h \in Hooks, x \in Handler : entry'[h][x] = entry[h][x]
  PROVE  NamedBy(slots, entry)'
<1>1. slots \in Seq(slot_t)
  BY DEF InstallInv, SlotsOK, slot_t, Handler
<1>2. \A s \in slot_t : s.hook \in Hooks /\ s.handler \in Handler
  BY DEF slot_t
<1>3. \A n \in 1..Len(slots) : slots[n].hook \in Hooks /\ slots[n].handler \in Handler
  BY <1>1, <1>2
<1>4. QED
  BY <1>3 DEF NamedBy

LEMMA AdvancedIs ==
  ASSUME InstallInv, installer' = Advanced
  PROVE  installer'.hook = installer.hook /\ installer'.todo = Tail(installer.todo)
BY DEF InstallInv, InstallerOK, Idling, Advanced

\* One field of an entry is set to an address
LEMMA EntryTyped ==
  ASSUME entry \in [Hooks -> hook_entry_t], NEW h \in Hooks, NEW a \in Addr,
         NEW f \in {"enter", "leave", "dbi", "transfer", "invoke"},
         entry' = [entry EXCEPT ![h][f] = a]
  PROVE  /\ entry' \in [Hooks -> hook_entry_t]
         /\ \A g \in Hooks, x \in Handler : x # f => entry'[g][x] = entry[g][x]
<1>1. a \in AddrOrNull
  BY DEF AddrOrNull
<1> HIDE DEF AddrOrNull
<1>2. entry[h] \in hook_entry_t
  OBVIOUS
<1>3. [entry[h] EXCEPT ![f] = a] \in hook_entry_t
  BY <1>1, <1>2 DEF hook_entry_t
<1>4. entry' = [entry EXCEPT ![h] = [entry[h] EXCEPT ![f] = a]]
  OBVIOUS
<1>5. entry' \in [Hooks -> hook_entry_t]
  BY <1>3, <1>4
<1>6. ASSUME NEW g \in Hooks, NEW x \in Handler, x # f
      PROVE  entry'[g][x] = entry[g][x]
  <2>1. entry[g] \in hook_entry_t /\ x \in {"enter", "leave", "dbi"}
    BY DEF Handler
  <2>2. QED
    BY <1>4, <1>6, <2>1 DEF hook_entry_t
<1>7. QED
  BY <1>5, <1>6

LEMMA BindClosureTyped ==
  ASSUME InstallInv, OrderInv, TypedInv, InstallInv', NEW f \in Handler, BindClosure(f)
  PROVE  TypedInv'
<1> DEFINE N == Len(slots)
           slot == [hook |-> H, handler |-> f]
<1>1. /\ InstallerAt(f) /\ installer' = Advanced /\ table_prot' = "rx"
      /\ slots' = Append(slots, slot)
      /\ entry' = [entry EXCEPT ![H][f] = Slot(N + 1)]
      /\ UNCHANGED <<hook_entries, transfer, origin_call, thread>>
  BY DEF BindClosure
<1>2. H \in Hooks /\ entry[H][f] = NULL /\ (f = "dbi" <=> Type[H] = "DBI")
  BY <1>1, AtStep, NextIsFree DEF TypedInv
<1>3. slots \in Seq(slot_t) /\ slot \in slot_t /\ N \in Nat
  BY <1>2 DEF InstallInv, SlotsOK, slot_t, Handler
<1>4. /\ slots' \in Seq(slot_t) /\ Len(slots') = N + 1 /\ slots'[N + 1] = slot
      /\ \A n \in 1..N : slots'[n] = slots[n]
  <2> HIDE DEF slot
  <2>1. QED
    BY <1>1, <1>3
<1>5. \A h \in Hooks : entry[h] \in hook_entry_t
  BY DEF TypedInv, Shaped
<1>6. \A h \in Hooks, x \in Handler :
        entry'[h][x] = IF h = H /\ x = f THEN Slot(N + 1) ELSE entry[h][x]
  <2>1. DOMAIN entry = Hooks /\ \A h \in Hooks : DOMAIN entry[h] = DOMAIN NoEntry
    BY DEF InstallInv, EntriesOK, EntryOK
  <2>2. Handler \subseteq DOMAIN NoEntry
    BY DEF Handler, NoEntry
  <2>3. QED
    BY <1>1, <2>1, <2>2
<1>7. \A n \in 1..N : slots[n].hook \in Hooks /\ slots[n].handler \in Handler
  <2>1. \A s \in slot_t : s.hook \in Hooks /\ s.handler \in Handler
    BY DEF slot_t
  <2>2. QED
    BY <1>3, <2>1
<1>8. ASSUME NEW n \in 1..N + 1
      PROVE  /\ entry'[slots'[n].hook][slots'[n].handler] = Slot(n)
             /\ slots'[n].handler = "dbi" <=> Type[slots'[n].hook] = "DBI"
  <2>1. CASE n = N + 1
    BY <1>2, <1>4, <1>6, <2>1
  <2>2. CASE n # N + 1
    <3>1. n \in 1..N /\ n \in Nat
      BY <1>3, <2>2
    <3>2. /\ entry[slots[n].hook][slots[n].handler] = Slot(n)
          /\ slots[n].handler = "dbi" <=> Type[slots[n].hook] = "DBI"
      BY <3>1 DEF TypedInv, NamedBy
    <3>3. Slot(n) # NULL
      BY <3>1, NullIsNoAddress
    <3>4. ~(slots[n].hook = H /\ slots[n].handler = f)
      BY <1>2, <3>2, <3>3
    <3>5. slots'[n] = slots[n]
      BY <1>4, <3>1
    <3>6. entry'[slots[n].hook][slots[n].handler] = entry[slots[n].hook][slots[n].handler]
      BY <1>6, <1>7, <3>1, <3>4
    <3>7. QED
      BY <3>2, <3>5, <3>6
  <2>3. QED
    BY <2>1, <2>2
<1>9. NamedBy(slots, entry)'
  BY <1>4, <1>8 DEF NamedBy
<1>10. FieldsFree'
  BY <1>1, <1>6, AdvancedIs, FieldsLeft DEF TypedInv
<1>11. PICK m \in Nat : m = N + 1
  BY <1>3
<1>12. Slot(m) \in Addr
  <2>1. PICK s, e : s = slots' /\ e = entry'
    OBVIOUS
  <2>2. s \in Seq(slot_t) /\ NamedBy(s, e) /\ Len(s) = m
    BY <1>4, <1>9, <1>11, <2>1 DEF NamedBy
  <2>3. m <= 2 * Cardinality(Hooks)
    BY <2>2, SlotsFew
  <2>4. Cardinality(Hooks) \in Nat
    BY FiniteAssumption, FS_CardinalityType
  <2>5. QED
    BY <1>3, <1>11, <2>3, <2>4 DEF Addr
<1>13. entry' \in [Hooks -> hook_entry_t]
  <2>1. f \in {"enter", "leave", "dbi", "transfer", "invoke"}
    BY DEF Handler
  <2>2. entry' = [entry EXCEPT ![H][f] = Slot(m)]
    BY <1>1, <1>11
  <2>3. PICK h \in Hooks, a \in Addr : h = H /\ a = Slot(m)
    BY <1>2, <1>12
  <2>4. entry' = [entry EXCEPT ![h][f] = a] /\ entry \in [Hooks -> hook_entry_t]
    BY <2>2, <2>3 DEF TypedInv, Shaped
  <2>5. QED
    BY <2>1, <2>4, EntryTyped
<1>14. Shaped'
  BY <1>1, <1>13, AdvancedIs DEF TypedInv, Shaped
<1>15. QED
  BY <1>9, <1>10, <1>14 DEF TypedInv

LEMMA BuildForEnterTransferTyped ==
  ASSUME InstallInv, OrderInv, TypedInv, BuildForEnterTransfer
  PROVE  TypedInv'
<1>1. /\ InstallerAt("transfer") /\ installer' = Advanced
      /\ transfer' = [transfer EXCEPT ![H] = Destination(H)]
      /\ entry' = [entry EXCEPT ![H].transfer = Code("transfer", H)]
      /\ UNCHANGED <<hook_entries, slots, table_prot, origin_call, thread>>
  BY DEF BuildForEnterTransfer
<1>2. PICK h \in Hooks : h = H
  BY <1>1, AtStep
<1>3. PICK a \in Addr : a = Code("transfer", h)
  BY DEF Addr
<1>4. entry' = [entry EXCEPT ![h]["transfer"] = a] /\ entry \in [Hooks -> hook_entry_t]
  BY <1>1, <1>2, <1>3 DEF TypedInv, Shaped
<1>5. /\ entry' \in [Hooks -> hook_entry_t]
      /\ \A g \in Hooks, x \in Handler : entry'[g][x] = entry[g][x]
  <2>1. \A x \in Handler : x # "transfer"
    BY DEF Handler
  <2>2. PICK f \in {"enter", "leave", "dbi", "transfer", "invoke"} : f = "transfer"
    OBVIOUS
  <2>3. entry' = [entry EXCEPT ![h][f] = a]
    BY <1>4, <2>2
  <2>4. entry' \in [Hooks -> hook_entry_t]
    BY <1>4, <2>3, EntryTyped
  <2>5. \A g \in Hooks, x \in Handler : x # f => entry'[g][x] = entry[g][x]
    BY <1>4, <2>3, EntryTyped
  <2>6. QED
    BY <2>1, <2>2, <2>4, <2>5
<1>6. Destination(h) \in AddrOrNull
  <2>1. Code("replace", h) \in AddrOrNull
    BY DEF AddrOrNull, Addr
  <2> HIDE DEF AddrOrNull
  <2>2. entry[h].dbi \in AddrOrNull /\ entry[h].enter \in AddrOrNull
    BY <1>4 DEF hook_entry_t
  <2>3. QED
    BY <2>1, <2>2 DEF Destination
<1>7. transfer' \in [Hooks -> AddrOrNull]
  <2> HIDE DEF AddrOrNull
  <2>1. QED
    BY <1>1, <1>2, <1>6 DEF TypedInv, Shaped
<1>8. Shaped'
  BY <1>1, <1>5, <1>7, AdvancedIs DEF TypedInv, Shaped
<1>9. NamedBy(slots, entry)' /\ FieldsFree'
  BY <1>1, <1>5, AdvancedIs, SameNames, FieldsLeft DEF TypedInv
<1>10. QED
  BY <1>8, <1>9 DEF TypedInv

LEMMA BuildForInvokeTyped ==
  ASSUME InstallInv, OrderInv, TypedInv, BuildForInvoke
  PROVE  TypedInv'
<1>1. /\ InstallerAt("invoke") /\ installer' = Advanced
      /\ entry' = [entry EXCEPT ![H].invoke = Code("invoke", H)]
      /\ UNCHANGED <<hook_entries, slots, table_prot, transfer, origin_call, thread>>
  BY DEF BuildForInvoke
<1>2. PICK h \in Hooks : h = H
  BY <1>1, AtStep
<1>3. PICK a \in Addr : a = Code("invoke", h)
  BY DEF Addr
<1>4. entry' = [entry EXCEPT ![h]["invoke"] = a] /\ entry \in [Hooks -> hook_entry_t]
  BY <1>1, <1>2, <1>3 DEF TypedInv, Shaped
<1>5. /\ entry' \in [Hooks -> hook_entry_t]
      /\ \A g \in Hooks, x \in Handler : entry'[g][x] = entry[g][x]
  <2>1. \A x \in Handler : x # "invoke"
    BY DEF Handler
  <2>2. PICK f \in {"enter", "leave", "dbi", "transfer", "invoke"} : f = "invoke"
    OBVIOUS
  <2>3. entry' = [entry EXCEPT ![h][f] = a]
    BY <1>4, <2>2
  <2>4. entry' \in [Hooks -> hook_entry_t]
    BY <1>4, <2>3, EntryTyped
  <2>5. \A g \in Hooks, x \in Handler : x # f => entry'[g][x] = entry[g][x]
    BY <1>4, <2>3, EntryTyped
  <2>6. QED
    BY <2>1, <2>2, <2>4, <2>5
<1>6. Shaped'
  BY <1>1, <1>5, AdvancedIs DEF TypedInv, Shaped
<1>7. NamedBy(slots, entry)' /\ FieldsFree'
  BY <1>1, <1>5, AdvancedIs, SameNames, FieldsLeft DEF TypedInv
<1>8. QED
  BY <1>6, <1>7 DEF TypedInv
\* Steps that alter no entry, slot or closure yet to be bound
LEMMA QuietTyped ==
  ASSUME TypedInv, UNCHANGED <<entry, slots, hook_entries>>,
         installer'.hook = installer.hook, installer'.todo = installer.todo,
         table_prot' \in {"rx", "rw"}, transfer' = transfer, origin_call' = origin_call,
         thread' \in [Threads -> Thread]
  PROVE  TypedInv'
BY DEF TypedInv, Shaped, NamedBy, FieldsFree, H, Hooked

LEMMA NothingLeft ==
  ASSUME TypedInv, UNCHANGED <<entry, slots, hook_entries, table_prot, transfer, thread>>,
         installer' = Idling, origin_call' \in [Hooks -> AddrOrNull]
  PROVE  TypedInv'
<1>1. Len(installer'.todo) = 0 /\ installer'.hook = NULL
  BY DEF Idling
<1>2. FieldsFree'
  BY <1>1 DEF TypedInv, FieldsFree, Hooked
<1>3. QED
  BY <1>1, <1>2 DEF TypedInv, Shaped, NamedBy

LEMMA BeginHookTyped ==
  ASSUME InstallInv, OrderInv, TypedInv, NEW h \in Hooks, BeginHook(h)
  PROVE  TypedInv'
<1> DEFINE s == BuildSteps(h, g_near_jump_flag)
<1>1. /\ h \notin Hooked /\ hook_entries' = Append(hook_entries, h)
      /\ entry' = [entry EXCEPT ![h].near = g_near_jump_flag]
      /\ installer' = [Idling EXCEPT !.hook = h, !.todo = s]
      /\ UNCHANGED <<slots, table_prot, transfer, origin_call, thread>>
  BY DEF BeginHook, add_hook_entry, Hooked
<1>2. installer'.hook = h
  BY <1>1 DEF Idling
<1>3. /\ entry' \in [Hooks -> hook_entry_t]
      /\ \A g \in Hooks, x \in Handler : entry'[g][x] = entry[g][x]
  <2>1. g_near_jump_flag \in BOOLEAN /\ entry \in [Hooks -> hook_entry_t]
    BY DEF InstallInv, EntriesOK, TypedInv, Shaped
  <2> HIDE DEF AddrOrNull
  <2>2. [entry[h] EXCEPT !.near = g_near_jump_flag] \in hook_entry_t
    BY <2>1 DEF hook_entry_t
  <2>3. entry' = [entry EXCEPT ![h] = [entry[h] EXCEPT !.near = g_near_jump_flag]]
    BY <1>1
  <2>4. entry' \in [Hooks -> hook_entry_t]
    BY <2>1, <2>2, <2>3
  <2>5. ASSUME NEW g \in Hooks, NEW x \in Handler PROVE entry'[g][x] = entry[g][x]
    <3>1. entry[g] \in hook_entry_t /\ x \in {"enter", "leave", "dbi"}
      BY <2>1 DEF Handler
    <3>2. QED
      BY <2>1, <2>3, <3>1 DEF hook_entry_t
  <2>6. QED
    BY <2>4, <2>5
<1>4. Shaped'
  BY <1>1, <1>2, <1>3 DEF TypedInv, Shaped
<1>5. NamedBy(slots, entry)'
  BY <1>1, <1>3, SameNames DEF TypedInv
<1>6. \A x \in Handler : entry'[h][x] = NULL
  BY <1>1, <1>3 DEF TypedInv, FieldsFree
<1>7. Hooked \subseteq Hooked'
  <2>1. hook_entries \in Seq(Hooks)
    BY DEF OrderInv, HooksOK
  <2>2. DOMAIN hook_entries \subseteq DOMAIN hook_entries'
        /\ \A i \in DOMAIN hook_entries : hook_entries'[i] = hook_entries[i]
    BY <1>1, <2>1
  <2>3. QED
    BY <2>2 DEF Hooked, ToSet
<1>8. FieldsFree'
  BY <1>2, <1>3, <1>6, <1>7 DEF TypedInv, FieldsFree, H
<1>9. QED
  BY <1>4, <1>5, <1>8 DEF TypedInv

LEMMA BeginPatchTyped ==
  ASSUME InstallInv, OrderInv, TypedInv, BeginPatch
  PROVE  TypedInv'
<1>1. /\ installer' = [installer EXCEPT !.words = DOMAIN Patch(H)]
      /\ thread' = [t \in Threads |->
           [thread[t] EXCEPT !.overlapped =
              @ \/ (InPrologue(thread[t], Target[H]) /\ ~entry[H].near)]]
      /\ UNCHANGED <<entry, slots, hook_entries, table_prot, transfer, origin_call>>
  BY DEF BeginPatch
<1>2. installer'.hook = installer.hook /\ installer'.todo = installer.todo
  BY <1>1 DEF InstallInv, InstallerOK, Idling
<1>3. ASSUME NEW t \in Threads PROVE thread'[t] \in Thread
  <2> DEFINE o == thread[t].overlapped \/ (InPrologue(thread[t], Target[H]) /\ ~entry[H].near)
  <2>1. thread[t] \in Thread /\ o \in BOOLEAN
    BY ThreadTyped
  <2> HIDE DEF o
  <2>2. [thread[t] EXCEPT !.overlapped = o] \in Thread
    BY <2>1, SetTyped
  <2>3. QED
    BY <1>1, <2>2 DEF o
<1>4. thread' \in [Threads -> Thread]
  BY <1>1, <1>3
<1>5. table_prot \in {"rx", "rw"}
  BY DEF TypedInv, Shaped
<1>6. QED
  BY <1>1, <1>2, <1>4, <1>5, QuietTyped

LEMMA PatchWordTyped ==
  ASSUME InstallInv, OrderInv, TypedInv, PatchWord
  PROVE  TypedInv'
<1>1. /\ InstallerAt("active")
      /\ UNCHANGED <<entry, slots, hook_entries, table_prot, transfer, origin_call, thread>>
  BY DEF PatchWord
<1>2. PICK i \in installer.words :
        installer' = IF installer.words \ {i} # {}
                       THEN [installer EXCEPT !.words = installer.words \ {i}]
                     ELSE IF Len(installer.todo) = 1 THEN Idling
                     ELSE [Advanced EXCEPT !.words = {}]
  BY DEF PatchWord
<1>3. Shaped
  BY DEF TypedInv
<1>4. CASE installer' = [installer EXCEPT !.words = installer.words \ {i}]
  <2>1. installer'.hook = installer.hook /\ installer'.todo = installer.todo
    BY <1>4 DEF InstallInv, InstallerOK, Idling
  <2>2. QED
    BY <1>1, <1>3, <2>1, QuietTyped DEF Shaped
<1>5. CASE installer' = Idling
  BY <1>1, <1>3, <1>5, NothingLeft DEF Shaped
<1>6. CASE installer' = [Advanced EXCEPT !.words = {}]
  <2>1. installer'.hook = installer.hook /\ installer'.todo = Tail(installer.todo)
    BY <1>6 DEF InstallInv, InstallerOK, Idling, Advanced
  <2>2. Shaped'
    BY <1>1, <1>3, <2>1 DEF Shaped
  <2>3. NamedBy(slots, entry)' /\ FieldsFree'
    BY <1>1, <2>1, SameNames, FieldsLeft DEF TypedInv
  <2>4. QED
    BY <2>2, <2>3 DEF TypedInv
<1>7. QED
  BY <1>2, <1>4, <1>5, <1>6

LEMMA StoreOriginCallTyped ==
  ASSUME InstallInv, OrderInv, TypedInv, StoreOriginCall
  PROVE  TypedInv'
<1>1. /\ InstallerAt("origin") /\ installer' = Idling
      /\ origin_call' = [origin_call EXCEPT ![H] = entry[H].invoke]
      /\ UNCHANGED <<entry, slots, hook_entries, table_prot, transfer, thread>>
  BY DEF StoreOriginCall
<1>2. H \in Hooks
  BY <1>1, AtStep
<1>3. origin_call' \in [Hooks -> AddrOrNull]
  <2> HIDE DEF AddrOrNull
  <2>1. entry[H].invoke \in AddrOrNull
    BY <1>2 DEF TypedInv, Shaped, hook_entry_t
  <2>2. QED
    BY <1>1, <1>2, <2>1 DEF TypedInv, Shaped
<1>4. QED
  BY <1>1, <1>3, NothingLeft

(* ------------------------------------------------------------------------ *)
(* The theorem                                                                     *)

LEMMA TypedInvInit == Init => TypedInv
<1> SUFFICES ASSUME Init PROVE TypedInv
  OBVIOUS
<1>1. Shaped
  <2>1. NoEntry \in hook_entry_t /\ NULL \in AddrOrNull
    BY DEF NoEntry, hook_entry_t, AddrOrNull
  <2>2. QED
    BY <2>1, IdleTyped DEF Init, Shaped, Idling
<1>2. NamedBy(slots, entry)
  BY DEF Init, NamedBy
<1>3. FieldsFree
  <2>1. \A x \in Handler : NoEntry[x] = NULL
    BY DEF NoEntry, Handler
  <2>2. Len(installer.todo) = 0
    BY DEF Init, Idling
  <2>3. QED
    BY <2>1, <2>2 DEF Init, FieldsFree
<1>4. QED
  BY <1>1, <1>2, <1>3 DEF TypedInv

LEMMA TypedInvStep == InstallInv /\ OrderInv /\ TypedInv /\ [Next]_vars => TypedInv'
<1> SUFFICES ASSUME InstallInv, OrderInv, TypedInv, [Next]_vars PROVE TypedInv'
  OBVIOUS
<1>1. /\ table_prot \in {"rx", "rw"} /\ thread \in [Threads -> Thread]
      /\ DOMAIN installer = DOMAIN Idling
  BY DEF TypedInv, Shaped, InstallInv, InstallerOK
<1>2. CASE zz_enable_near_jump \/ zz_disable_near_jump \/ UNCHANGED vars
  BY <1>1, <1>2, QuietTyped DEF zz_enable_near_jump, zz_disable_near_jump, vars, installVars
<1>3. CASE \E h \in Hooks : BeginHook(h)
  BY <1>3, BeginHookTyped
<1>4. CASE Build
  <2>1. CASE UnprotectTable
    <3>1. installer'.hook = installer.hook /\ installer'.todo = installer.todo
      BY <1>1, <2>1 DEF UnprotectTable, Idling
    <3>2. QED
      BY <1>1, <2>1, <3>1, QuietTyped DEF UnprotectTable
  <2>2. CASE BuildForEnter \/ BuildForLeave \/ BuildForDBI
    <3>1. InstallInv'
      BY InstallInvStep
    <3>2. QED
      BY <2>2, <3>1, BindClosureTyped DEF BuildForEnter, BuildForLeave, BuildForDBI, Handler
  <2>3. QED
    BY <1>4, <2>1, <2>2, BuildForEnterTransferTyped, BuildForInvokeTyped, BeginPatchTyped,
       PatchWordTyped, StoreOriginCallTyped DEF Build
<1>5. CASE \E t \in Threads : Run(t) \/ \E f \in Targets : Call(t, f)
  BY <1>5, RunTyped, CallTyped
<1>6. QED
  BY <1>2, <1>3, <1>4, <1>5 DEF Next

(***************************************************************************)
(* Every value stays what the code declares it to be.  In particular no    *)
(* hook takes more than two closures, since build_all comes to each field  *)
(* of an entry once, and no call runs more than the four words that a      *)
(* patch covers before it goes on behind them.                             *)
(***************************************************************************)
THEOREM InstallTypes == Spec => []TypeOK
<1>1. Init => InstallInv /\ OrderInv /\ TypedInv
  BY InstallInvInit, OrderInvInit, TypedInvInit
<1>2. InstallInv /\ OrderInv /\ TypedInv /\ [Next]_vars =>
        (InstallInv /\ OrderInv /\ TypedInv)'
  BY InstallInvStep, OrderInvStep, TypedInvStep
<1>3. InstallInv /\ OrderInv /\ TypedInv => TypeOK
  <2> SUFFICES ASSUME InstallInv, OrderInv, TypedInv PROVE TypeOK
    OBVIOUS
  <2>1. installer.words \subseteq 1..4
    <3>1. DOMAIN Patch(H) \subseteq 1..4
      BY DEF Patch
    <3>2. QED
      BY <3>1 DEF InstallInv, InstallerOK
  <2>2. hook_entries \in Seq(Hooks) /\ active \subseteq Hooks
    <3>1. active \subseteq Hooked /\ Hooked \subseteq Hooks
      BY EntriesTyped DEF OrderInv, HooksOK, Hooked, ToSet
    <3>2. QED
      BY <3>1 DEF OrderInv, HooksOK
  <2>3. \A f \in Targets : Len(code[f]) = 4
    <3>1. \A f \in Targets : DOMAIN code[f] = 1..4
      BY DEF InstallInv, CodeOK
    <3>2. \A s : DOMAIN s = 1..4 => Len(s) = 4
      OBVIOUS
    <3>3. QED
      BY <3>1, <3>2, Zenon
  <2>4. g_near_jump_flag \in BOOLEAN
        /\ slots \in Seq([hook : Hooks, handler : {"enter", "leave", "dbi"}])
    BY DEF InstallInv, EntriesOK, SlotsOK
  <2>5. QED
    BY <2>1, <2>2, <2>3, <2>4 DEF TypedInv, Shaped, TypeOK
<1>4. QED
  BY <1>1, <1>2, <1>3, PTL DEF Spec
====

---- MODULE InterceptorRouting ----
(***************************************************************************)
(* src/interceptor_routing.c and the trampolines that lead to it, run by   *)
(* the threads of a program whose hooks are all installed.                 *)
(*                                                                         *)
(* A wrapped function (ZzWrap) is entered through on_enter_trampoline:     *)
(* routing_begin pushes a call_stack, calls pre_call, moves the caller's   *)
(* return address from lr into the call_stack and puts on_leave_trampoline *)
(* in lr.  When the function returns, on_leave_trampoline runs             *)
(* routing_end: it pops a call_stack, calls post_call and branches to the  *)
(* ret_addr it finds there.  Nothing in a call_stack says which function   *)
(* or which stack frame it is for: everything rests on the order of the    *)
(* pushes and pops.  A replaced function (ZzReplace) is entered through    *)
(* on_enter_transfer_trampoline straight into replace_call, which reaches  *)
(* the original through *origin_call; an instrumented one runs dbi_call    *)
(* first.                                                                  *)
(*                                                                         *)
(* The machine: frames[t] is the native stack of thread t, one record per  *)
(* frame; ip[t] is the frame whose code the program counter is in.  The    *)
(* two agree as long as every return goes where the call came from.        *)
(***************************************************************************)
EXTENDS ThreadStack

CONSTANTS
  Functions,     \* the functions of the program
  Wrapped,       \* those hooked with ZzWrap
  Replaced,      \* those hooked with ZzReplace
  Instrumented,  \* those whose first instruction is hooked with
                 \* ZzDynamicBinaryInstrumentation
  HasPre,        \* the wrapped functions given a pre_call
  HasPost,       \* the wrapped functions given a post_call
  HasDbi,        \* the instrumented functions given a dbi_call
  MaxDepth,      \* bound: calls are made below this depth, tail calls up to it
  MaxLive        \* bound: the call_stacks one thread holds at once

\* A function is hooked at most once, as the checks and proofs below assume.
ASSUME HooksAssumption ==
  /\ Wrapped \subseteq Functions
  /\ Replaced \subseteq Functions
  /\ Instrumented \subseteq Functions
  /\ Wrapped \cap Replaced = {}
  /\ Wrapped \cap Instrumented = {}
  /\ Replaced \cap Instrumented = {}
  /\ HasPre \subseteq Wrapped
  /\ HasPost \subseteq Wrapped
  /\ HasDbi \subseteq Instrumented
  /\ NULL \notin Functions \cup CallIds \cup Values

ASSUME BoundsAssumption == MaxDepth \in Nat /\ MaxLive \in Nat

VARIABLES
  frames,    \* [Threads -> Seq(Frame)]: the native stacks
  ip,        \* [Threads -> Nat]: the frame that is executing
  entryOf    \* auxiliary, [CallIds -> Wrapped \cup {NULL}]: the hook whose routing_begin
             \* made the call_stack; no code reads it

vars == <<call_stacks, allocated, ret_addr, kv, frames, ip, entryOf>>

(* ------------------------------------------------------------------------ *)
(* Addresses and frames                                                        *)

\* The instruction after the call that frame n made, and a hook's
\* on_leave_trampoline.  Nothing is at site 0: it stands for the null address.
SiteAddr(n) == <<"site", n>>
LeaveAddr(f) == <<"leave", f>>
NullAddr == SiteAddr(0)
Addr == ({"site"} \X Nat) \cup ({"leave"} \X Wrapped)

(***************************************************************************)
(* What a frame is executing:                                              *)
(*   main                the thread's first function                       *)
(*   code, replace       a function's own code, a replace_call             *)
(*   pre, post, dbi      the user's callback                               *)
(*   enter, begin        on_enter_trampoline; routing_begin after pre_call *)
(*   leave, end          on_leave_trampoline; routing_end after post_call  *)
(*   dbi_enter, dbi_end  dynamic_binary_instrumentation_trampoline; its    *)
(*                       handler after dbi_call                            *)
(***************************************************************************)
UserCode == {"main", "code", "replace", "pre", "post", "dbi"}
Pc == UserCode \cup {"enter", "begin", "leave", "end", "dbi_enter", "dbi_end"}

\* lr is the link register of the frame, id the call_stack the handler or the
\* callback holds.  mark is auxiliary: the length of the thread's call_stacks
\* when the frame was pushed.
Frame == [pc: Pc, fn: Functions \cup {NULL}, lr: Addr,
          id: CallIds \cup {NULL}, mark: Nat]

NewFrame(pc, f, lr, id, mark) ==
  [pc |-> pc, fn |-> f, lr |-> lr, id |-> id, mark |-> mark]

MainFrame == NewFrame("main", NULL, NullAddr, NULL, 0)

Depth(t) == Len(frames[t])
Top(t) == frames[t][Depth(t)]
SetTop(s, fr) == [s EXCEPT ![Len(s)] = fr]

\* A thread whose program counter and stack disagree has crashed: it does not
\* take another step.
Running(t) == ip[t] = Depth(t)
At(t, pc) == Running(t) /\ Top(t).pc = pc
InUserCode(t) == Running(t) /\ Top(t).pc \in UserCode

\* The frames above the top, the new top included
SetFrames(t, s) ==
  /\ frames' = [frames EXCEPT ![t] = s]
  /\ ip' = [ip EXCEPT ![t] = Len(s)]

(***************************************************************************)
(* A branch to the address a: a return site takes the frame off the stack, *)
(* a leave trampoline runs in the frame that branched to it.               *)
(***************************************************************************)
Jump(t, a) ==
  IF a[1] = "site"
    THEN /\ frames' = [frames EXCEPT ![t] = SubSeq(@, 1, Len(@) - 1)]
         /\ ip' = [ip EXCEPT ![t] = a[2]]
    ELSE SetFrames(t, SetTop(frames[t],
                             NewFrame("leave", a[2], a, NULL, Top(t).mark)))

(* ------------------------------------------------------------------------ *)
(* The program                                                                 *)

\* What runs when a thread branches to the first instruction of f: active()
\* has written a branch to one of the entry's trampolines there.
EntryPoint(f) ==
  CASE f \in Wrapped      -> "enter"
    [] f \in Replaced     -> "replace"
    [] f \in Instrumented -> "dbi_enter"
    [] OTHER              -> "code"

\* The call_stacks a thread holds: those on its list and the one that each
\* routing_end in progress has popped.
LiveCallStacks(t) ==
  Len(call_stacks[t]) +
    Len(SelectSeq(frames[t], LAMBDA fr : fr.pc = "end"))

\* bl: the callee runs in a new frame and lr is the return site
Branch(t, f, pc) ==
  /\ InUserCode(t)
  /\ Depth(t) < MaxDepth
  /\ pc = "enter" => LiveCallStacks(t) < MaxLive
  /\ SetFrames(t, Append(frames[t],
                         NewFrame(pc, f, SiteAddr(Depth(t)), NULL,
                                  Len(call_stacks[t]))))
  /\ UNCHANGED <<threadStackVars, entryOf>>

\* b: the callee takes over the frame and its link register
TailBranch(t, f, pc) ==
  /\ InUserCode(t)
  /\ Top(t).pc # "main"
  /\ Depth(t) <= MaxDepth
  /\ pc = "enter" => LiveCallStacks(t) < MaxLive
  /\ SetFrames(t, SetTop(frames[t],
                         NewFrame(pc, f, Top(t).lr, NULL, Top(t).mark)))
  /\ UNCHANGED <<threadStackVars, entryOf>>

Call(t, f) == Branch(t, f, EntryPoint(f))
TailCall(t, f) == TailBranch(t, f, EntryPoint(f))

\* Through the pointer ZzReplace stored in *origin_call: on_invoke_trampoline
CallOrigin(t, f) == f \in Replaced /\ Branch(t, f, "code")
TailCallOrigin(t, f) == f \in Replaced /\ TailBranch(t, f, "code")

Return(t) ==
  /\ InUserCode(t)
  /\ Top(t).pc # "main"
  /\ Jump(t, Top(t).lr)
  /\ UNCHANGED <<threadStackVars, entryOf>>

\* Mutant: the store of the latest call_stack, not of the callback's call_id
CallbackKvSet_Latest(t, v) ==
  /\ At(t, "pre") \/ At(t, "post")
  /\ call_stacks[t] # << >>
  /\ KvSet(LastCallStack(t), v)
  /\ UNCHANGED <<call_stacks, allocated, ret_addr, frames, ip, entryOf>>

\* A callback stores a value under its call_id
CallbackKvSet(t, v) ==
  /\ At(t, "pre") \/ At(t, "post")
  /\ KvSet(Top(t).id, v)
  /\ UNCHANGED <<call_stacks, allocated, ret_addr, frames, ip, entryOf>>

(* ------------------------------------------------------------------------ *)
(* The interceptor                                                             *)

\* The handler h becomes the top frame; when the entry has the callback, the
\* callback runs in a frame above it and returns into the handler.
InvokeCallback(t, h, pc, present) ==
  LET s == SetTop(frames[t], h)
  IN  SetFrames(t, IF present
                     THEN Append(s, NewFrame(pc, h.fn, SiteAddr(Depth(t)), h.id,
                                             Len(call_stacks'[t])))
                     ELSE s)

\* interceptor_routing_begin up to and including the call of pre_call
RoutingBegin(t) ==
  /\ At(t, "enter")
  /\ \E id \in CallIds :
       /\ NewCallStack(id, NullAddr)
       /\ PushCallStack(t, id)
       /\ entryOf' = [entryOf EXCEPT ![id] = Top(t).fn]
       /\ InvokeCallback(t, [Top(t) EXCEPT !.pc = "begin", !.id = id],
                         "pre", Top(t).fn \in HasPre)

\* Mutant: the return address is taken to be in the frame below, as it is unless
\* the function was reached by a tail call
RoutingBeginNextHop_NoTail(t) ==
  /\ At(t, "begin")
  /\ ret_addr' = [ret_addr EXCEPT ![Top(t).id] = SiteAddr(Depth(t) - 1)]
  /\ SetFrames(t, SetTop(frames[t],
                         NewFrame("code", Top(t).fn, LeaveAddr(Top(t).fn), NULL,
                                  Top(t).mark)))
  /\ UNCHANGED <<call_stacks, allocated, kv, entryOf>>

\* The rest of it: the next hop is on_invoke_trampoline, and lr is diverted
RoutingBeginNextHop(t) ==
  /\ At(t, "begin")
  /\ ret_addr' = [ret_addr EXCEPT ![Top(t).id] = Top(t).lr]
  /\ SetFrames(t, SetTop(frames[t],
                         NewFrame("code", Top(t).fn, LeaveAddr(Top(t).fn), NULL,
                                  Top(t).mark)))
  /\ UNCHANGED <<call_stacks, allocated, kv, entryOf>>

\* Mutant: the call_stack is destroyed before post_call
RoutingEnd_EarlyDestroy(t) ==
  /\ At(t, "leave")
  /\ call_stacks[t] # << >>
  /\ PopCallStack(t)
  /\ allocated' = allocated \ {LastCallStack(t)}
  /\ InvokeCallback(t, [Top(t) EXCEPT !.pc = "end", !.id = LastCallStack(t)],
                    "post", Top(t).fn \in HasPost)
  /\ UNCHANGED <<ret_addr, kv, entryOf>>

\* interceptor_routing_end up to and including the call of post_call.  With an
\* empty list list_rpop returns NULL and the thread dies on it.
RoutingEnd(t) ==
  /\ At(t, "leave")
  /\ call_stacks[t] # << >>
  /\ PopCallStack(t)
  /\ InvokeCallback(t, [Top(t) EXCEPT !.pc = "end", !.id = LastCallStack(t)],
                    "post", Top(t).fn \in HasPost)
  /\ UNCHANGED <<allocated, ret_addr, kv, entryOf>>

\* The rest of it: branch to the ret_addr of the popped call_stack
RoutingEndNextHop(t) ==
  /\ At(t, "end")
  /\ Jump(t, ret_addr[Top(t).id])
  /\ DestroyCallStack(Top(t).id, NullAddr)
  /\ entryOf' = [entryOf EXCEPT ![Top(t).id] = NULL]
  /\ UNCHANGED call_stacks

\* interceptor_routing_dynamic_binary_instrumentation and its next hop
RoutingDBI(t) ==
  /\ At(t, "dbi_enter")
  /\ UNCHANGED <<threadStackVars, entryOf>>
  /\ InvokeCallback(t, [Top(t) EXCEPT !.pc = "dbi_end"],
                    "dbi", Top(t).fn \in HasDbi)

\* Mutant: the next hop is the patched instruction itself
RoutingDBINextHop_Target(t) ==
  /\ At(t, "dbi_end")
  /\ SetFrames(t, SetTop(frames[t], [Top(t) EXCEPT !.pc = "dbi_enter"]))
  /\ UNCHANGED <<threadStackVars, entryOf>>

RoutingDBINextHop(t) ==
  /\ At(t, "dbi_end")
  /\ SetFrames(t, SetTop(frames[t], [Top(t) EXCEPT !.pc = "code"]))
  /\ UNCHANGED <<threadStackVars, entryOf>>

(* ------------------------------------------------------------------------ *)
Init ==
  /\ ThreadStackInit(NullAddr)
  /\ frames = [t \in Threads |-> <<MainFrame>>]
  /\ ip = [t \in Threads |-> 1]
  /\ entryOf = [id \in CallIds |-> NULL]

Interceptor(t) ==
  \/ RoutingBegin(t)
  \/ RoutingBeginNextHop(t)
  \/ RoutingEnd(t)
  \/ RoutingEndNextHop(t)
  \/ RoutingDBI(t)
  \/ RoutingDBINextHop(t)

Program(t) ==
  \/ \E f \in Functions : Call(t, f) \/ TailCall(t, f)
  \/ \E f \in Functions : CallOrigin(t, f) \/ TailCallOrigin(t, f)
  \/ Return(t)
  \/ \E v \in Values : CallbackKvSet(t, v)

Next == \E t \in Threads : Interceptor(t) \/ Program(t)

Spec == Init /\ [][Next]_vars

(***************************************************************************)
(* Fairness: the scheduler runs every thread, and the program's functions  *)
(* and callbacks terminate, that is, a frame that keeps getting control    *)
(* back returns at some point.                                             *)
(***************************************************************************)
Fairness ==
  \A t \in Threads :
    /\ WF_vars(Interceptor(t))
    /\ \A d \in 2..MaxDepth + 1 : SF_vars(Depth(t) = d /\ Return(t))

FairSpec == Spec /\ Fairness

(* ------------------------------------------------------------------------ *)
(* Properties                                                                  *)

TypeOK ==
  /\ call_stacks \in [Threads -> Seq(CallIds)]
  /\ allocated \subseteq CallIds
  /\ ret_addr \in [CallIds -> Addr]
  /\ kv \in [CallIds -> Values \cup {NULL}]
  /\ frames \in [Threads -> Seq(Frame)]
  /\ ip \in [Threads -> Nat]
  /\ entryOf \in [CallIds -> Wrapped \cup {NULL}]

\* The call_stacks pushed by frame k and not yet popped lie above mark_k and up
\* to Upper(t, k) on the thread's list.
Upper(t, k) == IF k = Depth(t) THEN Len(call_stacks[t]) ELSE frames[t][k + 1].mark

(***************************************************************************)
(* Every return goes back to the frame that made the call: through nested, *)
(* recursive and tail calls of hooked functions, and calls made by         *)
(* callbacks, the program counter and the native stack stay together.      *)
(* About the diversion of lr in routing_begin and routing_end's next hop.  *)
(***************************************************************************)
ReturnsToCaller == \A t \in Threads : ip[t] = Depth(t)

(***************************************************************************)
(* The call_stack that routing_end pops for a hook is the one that the     *)
(* same hook's routing_begin pushed, so post_call gets the call_id its     *)
(* pre_call had.  About pop_call_stack taking what is last on the list.    *)
(***************************************************************************)
PostMatchesPre ==
  \A t \in Threads : \A k \in 1..Depth(t) :
    frames[t][k].pc = "end" => entryOf[frames[t][k].id] = frames[t][k].fn

(***************************************************************************)
(* on_leave_trampoline never runs with an empty list, on which             *)
(* pop_call_stack dereferences NULL, and a thread back in its first        *)
(* function has left no call_stack behind.                                 *)
(***************************************************************************)
PushesMatchPops ==
  \A t \in Threads :
    /\ Top(t).pc = "leave" => call_stacks[t] # << >>
    /\ Depth(t) = 1 => call_stacks[t] = << >>

\* The call_stacks that thread t can still reach: list and handlers
Held(t) ==
  {call_stacks[t][i] : i \in 1..Len(call_stacks[t])}
    \cup {frames[t][k].id : k \in {k \in 1..Depth(t) : frames[t][k].pc \in {"begin", "end"}}}

(***************************************************************************)
(* A call_id is held by one thread, once, as long as a callback can use    *)
(* it: the block behind it is not freed, and no other call's.  About the   *)
(* lifetime of call_stack_t between call_stack_new and call_stack_destory. *)
(***************************************************************************)
CallIdsLive ==
  /\ \A t \in Threads : Held(t) \subseteq allocated
  /\ \A t, u \in Threads : t # u => Held(t) \cap Held(u) = {}
  /\ \A t \in Threads : \A i, j \in 1..Len(call_stacks[t]) :
       call_stacks[t][i] = call_stacks[t][j] => i = j
  /\ allocated = UNION {Held(t) : t \in Threads}

(***************************************************************************)
(* InterceptorRouting implements HookedCalls.  The debts of frame k are    *)
(* its call_stacks; the hook of a debt is the one whose leave trampoline   *)
(* will pop it: the link register of the frame for the last, the next      *)
(* call_stack's ret_addr for the others.                                   *)
(***************************************************************************)
DivertedTo(t, k, i) ==
  IF i < Upper(t, k) THEN ret_addr[call_stacks[t][i + 1]] ELSE frames[t][k].lr

DebtHook(t, k, i) ==
  IF frames[t][k].pc = "begin"
    THEN IF i = Upper(t, k) THEN frames[t][k].fn
         ELSE IF i = Upper(t, k) - 1 THEN frames[t][k].lr[2]
         ELSE DivertedTo(t, k, i)[2]
    ELSE IF frames[t][k].pc = "end" /\ i = Upper(t, k)
           THEN ret_addr[frames[t][k].id][2]
           ELSE DivertedTo(t, k, i)[2]

Debts(t, k) ==
  [j \in 1..(Upper(t, k) - frames[t][k].mark) |->
     [fn |-> DebtHook(t, k, frames[t][k].mark + j),
      store |-> kv[call_stacks[t][frames[t][k].mark + j]]]]

AbstractCalls ==
  [t \in Threads |->
     [k \in 1..Depth(t) |->
        [pc |-> frames[t][k].pc,
         fn |-> frames[t][k].fn,
         owed |-> Debts(t, k),
         store |-> IF frames[t][k].pc = "end" THEN kv[frames[t][k].id] ELSE NULL]]]

Calls == INSTANCE HookedCalls WITH act <- AbstractCalls

ImplementsHookedCalls == Calls!Spec

(***************************************************************************)
(* Every thread is again and again back in its first function: no call of  *)
(* a hooked function is lost in its trampolines.                           *)
(***************************************************************************)
CallsReturn == \A t \in Threads : []<>(Depth(t) = 1)
====

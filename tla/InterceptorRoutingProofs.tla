---- MODULE InterceptorRoutingProofs ----
(***************************************************************************)
(* Theorems of InterceptorRouting, for every set of threads, functions and *)
(* hooks and every bound: its safety, and that it implements HookedCalls.  *)
(*                                                                         *)
(* AbstractCalls finds the hook of a debt where the code has it, in link   *)
(* registers and ret_addrs.  By RoutingInv that is the hook which made the *)
(* call_stack, so that a thread's activations are a function of its native *)
(* stack, its call_stacks and entryOf, in which a step is easy to follow.  *)
(***************************************************************************)
EXTENDS InterceptorRouting, SequenceTheorems, TLAPS

(* ------------------------------------------------------------------------ *)
(* Sequences                                                                   *)

\* Replacing the last element of a sequence
LEMMA SetTopProperties ==
  ASSUME NEW S, NEW s \in Seq(S), s # << >>, NEW e \in S
  PROVE  /\ SetTop(s, e) \in Seq(S)
         /\ Len(SetTop(s, e)) = Len(s)
         /\ \A i \in 1..Len(s) : SetTop(s, e)[i] = IF i = Len(s) THEN e ELSE s[i]
<1>1. Len(s) \in 1..Len(s)
  BY EmptySeq
<1>2. QED
  BY <1>1, ExceptSeq DEF SetTop

\* Dropping the last element of a sequence
LEMMA PopProperties ==
  ASSUME NEW S, NEW s \in Seq(S), s # << >>
  PROVE  /\ SubSeq(s, 1, Len(s) - 1) \in Seq(S)
         /\ Len(SubSeq(s, 1, Len(s) - 1)) = Len(s) - 1
         /\ \A i \in 1..Len(s) - 1 : SubSeq(s, 1, Len(s) - 1)[i] = s[i]
<1>1. Len(s) \in Nat /\ Len(s) >= 1
  BY EmptySeq
<1> DEFINE n == Len(s) - 1
<1>2. n \in Nat /\ \A i \in 1..n : s[i] \in S
  BY <1>1, ElementOfSeq
<1> HIDE DEF n
<1>3. /\ SubSeq(s, 1, n) \in Seq(S)
      /\ Len(SubSeq(s, 1, n)) = IF 1 <= n THEN n - 1 + 1 ELSE 0
      /\ \A i \in 1..n - 1 + 1 : SubSeq(s, 1, n)[i] = s[1 + i - 1]
  BY <1>2, SubSeqProperties
<1>4. n - 1 + 1 = n /\ \A i \in 1..n : 1 + i - 1 = i
  BY <1>2
<1>5. Len(SubSeq(s, 1, n)) = n /\ \A i \in 1..n : SubSeq(s, 1, n)[i] = s[i]
  BY <1>2, <1>3, <1>4
<1>6. QED
  BY <1>3, <1>5 DEF n

(* ------------------------------------------------------------------------ *)
(* Type correctness                                                            *)

\* A frame above the first one
Callee(fr) ==
  /\ fr \in Frame
  /\ fr.pc # "main"
  /\ fr.pc \in {"enter", "begin"} => fr.fn \in Wrapped
  /\ fr.pc = "end" => fr.id \in CallIds

Stack(s) ==
  /\ s \in Seq(Frame)
  /\ s # << >>
  /\ s[1].pc = "main"
  /\ \A k \in 2..Len(s) : Callee(s[k])

\* TypeOK is inductive once the native stacks have their shape.
TypeInv == TypeOK /\ \A t \in Threads : Stack(frames[t])

LEMMA StackPush ==
  ASSUME NEW s, Stack(s), NEW fr, Callee(fr)
  PROVE  Stack(Append(s, fr)) /\ Len(Append(s, fr)) \in Nat
<1>1. Len(s) \in Nat /\ Len(s) >= 1
  BY EmptySeq DEF Stack
<1>2. /\ Append(s, fr) \in Seq(Frame)
      /\ Len(Append(s, fr)) = Len(s) + 1
      /\ \A i \in 1..Len(s) : Append(s, fr)[i] = s[i]
      /\ Append(s, fr)[Len(s) + 1] = fr
      /\ Append(s, fr) # << >>
  BY AppendProperties DEF Stack, Callee
<1>3. QED
  BY <1>1, <1>2 DEF Stack

LEMMA StackSetTop ==
  ASSUME NEW s, Stack(s), s[Len(s)].pc # "main", NEW fr, Callee(fr)
  PROVE  Stack(SetTop(s, fr)) /\ Len(SetTop(s, fr)) \in Nat
                              /\ SetTop(s, fr)[Len(SetTop(s, fr))] = fr
<1>1. Len(s) \in Nat /\ Len(s) >= 2
  BY EmptySeq DEF Stack
<1> DEFINE q == SetTop(s, fr)
<1>2. /\ q \in Seq(Frame)
      /\ Len(q) = Len(s)
      /\ \A i \in 1..Len(s) : q[i] = IF i = Len(s) THEN fr ELSE s[i]
  BY SetTopProperties DEF Stack, Callee
<1>3. q # << >>
  BY <1>1, <1>2, EmptySeq
<1> HIDE DEF q
<1>4. Stack(q) /\ Len(q) \in Nat /\ q[Len(q)] = fr
  BY <1>1, <1>2, <1>3 DEF Stack, Callee
<1>5. QED
  BY <1>4 DEF q

LEMMA StackPop ==
  ASSUME NEW s, Stack(s), s[Len(s)].pc # "main"
  PROVE  Stack(SubSeq(s, 1, Len(s) - 1))
<1>1. Len(s) \in Nat /\ Len(s) >= 2
  BY EmptySeq DEF Stack
<1> DEFINE q == SubSeq(s, 1, Len(s) - 1)
<1>2. q \in Seq(Frame) /\ Len(q) = Len(s) - 1 /\ \A i \in 1..Len(s) - 1 : q[i] = s[i]
  BY <1>1, PopProperties DEF Stack
<1> HIDE DEF q
<1>3. q # << >>
  BY <1>1, <1>2, EmptySeq
<1>4. Stack(q)
  BY <1>1, <1>2, <1>3 DEF Stack
<1>5. QED
  BY <1>4 DEF q

LEMMA StackTop ==
  ASSUME NEW s, Stack(s)
  PROVE  /\ Len(s) \in Nat \ {0}
         /\ s[Len(s)] \in Frame
         /\ s[Len(s)].pc # "main" => Callee(s[Len(s)])
<1>1. Len(s) \in Nat /\ Len(s) >= 1
  BY EmptySeq DEF Stack
<1>2. QED
  BY <1>1, ElementOfSeq DEF Stack

\* What a step does to the native stacks and program counters
FramesOK ==
  /\ frames \in [Threads -> Seq(Frame)]
  /\ ip \in [Threads -> Nat]
  /\ \A t \in Threads : Stack(frames[t])

LEMMA SetFramesType ==
  ASSUME FramesOK, NEW t \in Threads, NEW s, Stack(s), SetFrames(t, s)
  PROVE  FramesOK'
<1>1. s \in Seq(Frame) /\ Len(s) \in Nat
  BY StackTop DEF Stack
<1>2. \A u \in Threads : Stack(frames'[u])
  BY DEF SetFrames, FramesOK
<1>3. QED
  BY <1>1, <1>2 DEF SetFrames, FramesOK

LEMMA JumpType ==
  ASSUME FramesOK, NEW t \in Threads, Top(t).pc # "main",
         NEW a \in Addr, Jump(t, a)
  PROVE  FramesOK'
<1> DEFINE s == frames[t]
<1>1. Stack(s) /\ s[Len(s)].pc # "main"
  BY DEF FramesOK, Top, Depth
<1>2. CASE a[1] = "site"
  <2> DEFINE q == SubSeq(s, 1, Len(s) - 1)
  <2>1. Stack(q)
    BY <1>1, StackPop
  <2>2. a[2] \in Nat
    BY <1>2 DEF Addr
  <2>3. frames' = [frames EXCEPT ![t] = q] /\ ip' = [ip EXCEPT ![t] = a[2]]
    BY <1>2 DEF Jump
  <2> HIDE DEF q
  <2>4. \A u \in Threads : Stack(frames'[u])
    BY <2>1, <2>3 DEF FramesOK
  <2>5. QED
    BY <2>1, <2>2, <2>3, <2>4 DEF FramesOK, Stack
<1>3. CASE a[1] # "site"
  <2> DEFINE fr == NewFrame("leave", a[2], a, NULL, Top(t).mark)
  <2>1. a[2] \in Functions
    BY <1>3, HooksAssumption DEF Addr
  <2>2. Top(t).mark \in Nat
    BY <1>1, StackTop DEF Top, Depth, Frame
  <2>3. Callee(fr)
    BY <2>1, <2>2 DEF Callee, Frame, NewFrame, Pc, UserCode
  <2> HIDE DEF fr
  <2>4. Stack(SetTop(s, fr))
    BY <1>1, <2>3, StackSetTop
  <2>5. SetFrames(t, SetTop(s, fr))
    BY <1>3 DEF Jump, fr
  <2>6. QED
    BY <2>4, <2>5, SetFramesType
<1>4. QED
  BY <1>2, <1>3

LEMMA InvokeCallbackType ==
  ASSUME FramesOK, NEW t \in Threads, Top(t).pc # "main",
         NEW h, Callee(h), NEW pc \in {"pre", "post", "dbi"}, NEW present,
         Len(call_stacks'[t]) \in Nat,
         InvokeCallback(t, h, pc, present)
  PROVE  FramesOK'
<1> DEFINE s == SetTop(frames[t], h)
           fr == NewFrame(pc, h.fn, SiteAddr(Depth(t)), h.id, Len(call_stacks'[t]))
<1>1. Stack(frames[t]) /\ frames[t][Len(frames[t])].pc # "main"
  BY DEF FramesOK, Top, Depth
<1>2. Stack(s)
  BY <1>1, StackSetTop
<1>3. Depth(t) \in Nat
  BY <1>1, StackTop DEF Depth
<1>4. Callee(fr)
  BY <1>3 DEF Callee, Frame, NewFrame, Pc, UserCode, SiteAddr, Addr
<1> HIDE DEF s, fr
<1>5. Stack(Append(s, fr))
  BY <1>2, <1>4, StackPush
<1>6. SetFrames(t, IF present THEN Append(s, fr) ELSE s)
  BY DEF InvokeCallback, s, fr
<1>7. QED
  BY <1>2, <1>5, <1>6, SetFramesType

LEMMA TypeInit == Init => TypeInv
<1> SUFFICES ASSUME Init PROVE TypeInv
  OBVIOUS
<1>1. MainFrame \in Frame
  BY DEF MainFrame, NewFrame, Frame, Pc, UserCode, NullAddr, SiteAddr, Addr
<1>2. <<MainFrame>> \in Seq(Frame) /\ Len(<<MainFrame>>) = 1
  BY <1>1
<1>3. Stack(<<MainFrame>>)
  <2>1. <<MainFrame>>[1].pc = "main"
    BY DEF MainFrame, NewFrame
  <2>2. <<MainFrame>> # << >>
    BY <1>2, EmptySeq
  <2>3. QED
    BY <1>2, <2>1, <2>2 DEF Stack
<1>4. NullAddr \in Addr
  BY DEF NullAddr, SiteAddr, Addr
<1>5. << >> \in Seq(CallIds)
  OBVIOUS
<1>6. \A t \in Threads : Stack(frames[t])
  BY <1>3 DEF Init
<1>7. TypeOK
  BY <1>2, <1>4, <1>5 DEF Init, ThreadStackInit, TypeOK
<1>8. QED
  BY <1>6, <1>7 DEF TypeInv

LEMMA EntryPointType ==
  ASSUME NEW f \in Functions
  PROVE  /\ EntryPoint(f) \in Pc \ {"main", "begin", "end"}
         /\ EntryPoint(f) = "enter" => f \in Wrapped
  BY HooksAssumption DEF EntryPoint, Pc, UserCode

LEMMA BranchType ==
  ASSUME TypeInv, NEW t \in Threads, NEW f \in Functions,
         NEW pc \in Pc \ {"main", "begin", "end"}, pc = "enter" => f \in Wrapped,
         Branch(t, f, pc) \/ TailBranch(t, f, pc)
  PROVE  TypeInv'
<1> DEFINE s == frames[t]
<1>1. FramesOK /\ Stack(s) /\ Depth(t) \in Nat /\ Len(call_stacks[t]) \in Nat
  BY StackTop DEF TypeInv, TypeOK, FramesOK, Depth
<1>2. UNCHANGED <<threadStackVars, entryOf>>
  BY DEF Branch, TailBranch
<1>3. FramesOK'
  <2>1. CASE Branch(t, f, pc)
    <3> DEFINE fr == NewFrame(pc, f, SiteAddr(Depth(t)), NULL, Len(call_stacks[t]))
    <3>1. Callee(fr)
      BY <1>1 DEF Callee, Frame, NewFrame, SiteAddr, Addr
    <3>2. SetFrames(t, Append(s, fr))
      BY <2>1 DEF Branch
    <3> HIDE DEF fr
    <3>3. Stack(Append(s, fr))
      BY <1>1, <3>1, StackPush
    <3>4. QED
      BY <1>1, <3>2, <3>3, SetFramesType
  <2>2. CASE TailBranch(t, f, pc)
    <3> DEFINE fr == NewFrame(pc, f, Top(t).lr, NULL, Top(t).mark)
    <3>1. Top(t) \in Frame /\ s[Len(s)].pc # "main"
      BY <1>1, <2>2, StackTop DEF TailBranch, Top, Depth
    <3>2. Callee(fr)
      BY <3>1 DEF Callee, Frame, NewFrame
    <3>3. SetFrames(t, SetTop(s, fr))
      BY <2>2 DEF TailBranch
    <3> HIDE DEF fr
    <3>4. Stack(SetTop(s, fr))
      BY <1>1, <3>1, <3>2, StackSetTop
    <3>5. QED
      BY <1>1, <3>3, <3>4, SetFramesType
  <2>3. QED
    BY <2>1, <2>2
<1>4. QED
  BY <1>2, <1>3 DEF TypeInv, TypeOK, FramesOK, threadStackVars

LEMMA TypeStep == TypeInv /\ [Next]_vars => TypeInv'
<1> SUFFICES ASSUME TypeInv, [Next]_vars PROVE TypeInv'
  OBVIOUS
<1>1. FramesOK
  BY DEF TypeInv, TypeOK, FramesOK
<1>2. ASSUME NEW t \in Threads
      PROVE  /\ Depth(t) \in Nat \ {0}
             /\ Top(t) \in Frame
             /\ Top(t).pc # "main" => Callee(Top(t))
             /\ Len(call_stacks[t]) \in Nat
  BY <1>1, StackTop DEF FramesOK, Top, Depth, TypeInv, TypeOK
<1>3. ASSUME NEW t \in Threads, RoutingBegin(t) PROVE TypeInv'
  <2> PICK id \in CallIds :
        /\ NewCallStack(id, NullAddr)
        /\ PushCallStack(t, id)
        /\ entryOf' = [entryOf EXCEPT ![id] = Top(t).fn]
        /\ InvokeCallback(t, [Top(t) EXCEPT !.pc = "begin", !.id = id],
                          "pre", Top(t).fn \in HasPre)
    BY <1>3 DEF RoutingBegin
  <2> DEFINE h == [Top(t) EXCEPT !.pc = "begin", !.id = id]
  <2>1. Top(t).pc = "enter" /\ Callee(Top(t)) /\ Top(t).fn \in Wrapped
    BY <1>2, <1>3 DEF RoutingBegin, At, Callee
  <2>2. Callee(h)
    BY <2>1 DEF Callee, Frame, Pc
  <2>3. /\ call_stacks' \in [Threads -> Seq(CallIds)]
        /\ Len(call_stacks'[t]) \in Nat
    <3>1. call_stacks[t] \in Seq(CallIds)
      BY DEF TypeInv, TypeOK
    <3>2. Append(call_stacks[t], id) \in Seq(CallIds)
      BY <3>1, AppendProperties
    <3>3. QED
      BY <3>2 DEF TypeInv, TypeOK, PushCallStack
  <2> HIDE DEF h
  <2>4. FramesOK'
    <3>1. InvokeCallback(t, h, "pre", Top(t).fn \in HasPre)
      BY DEF h
    <3>2. QED
      BY <1>1, <2>1, <2>2, <2>3, <3>1, InvokeCallbackType
  <2>5. NullAddr \in Addr
    BY DEF NullAddr, SiteAddr, Addr
  <2>6. QED
    BY <2>1, <2>3, <2>4, <2>5 DEF TypeInv, TypeOK, FramesOK, NewCallStack
<1>4. ASSUME NEW t \in Threads, RoutingBeginNextHop(t) PROVE TypeInv'
  <2> DEFINE fr == NewFrame("code", Top(t).fn, LeaveAddr(Top(t).fn), NULL, Top(t).mark)
             s == frames[t]
  <2>1. Top(t).pc = "begin" /\ Callee(Top(t)) /\ Top(t).fn \in Wrapped
    BY <1>2, <1>4 DEF RoutingBeginNextHop, At, Callee
  <2>2. Callee(fr)
    BY <2>1, HooksAssumption DEF Callee, Frame, NewFrame, Pc, UserCode, LeaveAddr, Addr
  <2>3. ret_addr' \in [CallIds -> Addr]
    BY <1>4, <2>1 DEF TypeInv, TypeOK, RoutingBeginNextHop, Callee, Frame
  <2>4. SetFrames(t, SetTop(s, fr))
    BY <1>4 DEF RoutingBeginNextHop
  <2> HIDE DEF fr
  <2>5. Stack(SetTop(s, fr))
    BY <1>1, <2>1, <2>2, StackSetTop DEF FramesOK, Top, Depth
  <2>6. FramesOK'
    BY <1>1, <2>4, <2>5, SetFramesType
  <2>7. QED
    BY <1>4, <2>3, <2>6 DEF TypeInv, TypeOK, FramesOK, RoutingBeginNextHop
<1>5. ASSUME NEW t \in Threads, RoutingEnd(t) PROVE TypeInv'
  <2> DEFINE h == [Top(t) EXCEPT !.pc = "end", !.id = LastCallStack(t)]
  <2>1. Top(t).pc = "leave" /\ Callee(Top(t))
    BY <1>2, <1>5 DEF RoutingEnd, At
  <2>2. call_stacks[t] \in Seq(CallIds) /\ call_stacks[t] # << >>
    BY <1>5 DEF TypeInv, TypeOK, RoutingEnd
  <2>3. LastCallStack(t) \in CallIds
    BY <2>2, EmptySeq, ElementOfSeq DEF LastCallStack
  <2>4. Callee(h)
    BY <2>1, <2>3 DEF Callee, Frame, Pc
  <2> DEFINE q == SubSeq(call_stacks[t], 1, Len(call_stacks[t]) - 1)
  <2>5. q \in Seq(CallIds)
    BY <2>2, PopProperties
  <2> HIDE DEF q
  <2>6. call_stacks' = [call_stacks EXCEPT ![t] = q]
    BY <1>5 DEF RoutingEnd, PopCallStack, q
  <2>7. call_stacks' \in [Threads -> Seq(CallIds)] /\ Len(call_stacks'[t]) \in Nat
    BY <2>5, <2>6 DEF TypeInv, TypeOK
  <2>8. InvokeCallback(t, h, "post", Top(t).fn \in HasPost)
    BY <1>5 DEF RoutingEnd
  <2> HIDE DEF h
  <2>9. FramesOK'
    BY <1>1, <2>1, <2>4, <2>7, <2>8, InvokeCallbackType
  <2>10. QED
    BY <1>5, <2>7, <2>9 DEF TypeInv, TypeOK, FramesOK, RoutingEnd
<1>6. ASSUME NEW t \in Threads, RoutingEndNextHop(t) PROVE TypeInv'
  <2>1. Top(t).pc = "end" /\ Callee(Top(t))
    BY <1>2, <1>6 DEF RoutingEndNextHop, At
  <2>2. ret_addr[Top(t).id] \in Addr
    BY <2>1 DEF TypeInv, TypeOK, Callee
  <2>3. FramesOK'
    BY <1>1, <1>6, <2>1, <2>2, JumpType DEF RoutingEndNextHop
  <2>4. NullAddr \in Addr
    BY DEF NullAddr, SiteAddr, Addr
  <2>5. QED
    BY <1>6, <2>3, <2>4
    DEF TypeInv, TypeOK, FramesOK, RoutingEndNextHop, DestroyCallStack
<1>7. ASSUME NEW t \in Threads, RoutingDBI(t) PROVE TypeInv'
  <2> DEFINE h == [Top(t) EXCEPT !.pc = "dbi_end"]
  <2>1. Top(t).pc = "dbi_enter" /\ Callee(Top(t))
    BY <1>2, <1>7 DEF RoutingDBI, At
  <2>2. Callee(h)
    BY <2>1 DEF Callee, Frame, Pc
  <2>3. InvokeCallback(t, h, "dbi", Top(t).fn \in HasDbi) /\ UNCHANGED <<threadStackVars, entryOf>>
    BY <1>7 DEF RoutingDBI
  <2>4. Len(call_stacks'[t]) \in Nat
    BY <1>2, <2>3 DEF threadStackVars
  <2> HIDE DEF h
  <2>5. FramesOK'
    BY <1>1, <2>1, <2>2, <2>3, <2>4, InvokeCallbackType
  <2>6. QED
    BY <2>3, <2>5 DEF TypeInv, TypeOK, FramesOK, threadStackVars
<1>8. ASSUME NEW t \in Threads, RoutingDBINextHop(t) PROVE TypeInv'
  <2> DEFINE h == [Top(t) EXCEPT !.pc = "code"]
  <2>1. Top(t).pc = "dbi_end" /\ Callee(Top(t))
    BY <1>2, <1>8 DEF RoutingDBINextHop, At
  <2>2. Callee(h)
    BY <2>1 DEF Callee, Frame, Pc, UserCode
  <2>3. SetFrames(t, SetTop(frames[t], h)) /\ UNCHANGED <<threadStackVars, entryOf>>
    BY <1>8 DEF RoutingDBINextHop
  <2> HIDE DEF h
  <2>4. Stack(SetTop(frames[t], h))
    BY <1>1, <2>1, <2>2, StackSetTop DEF FramesOK, Top, Depth
  <2>5. FramesOK'
    BY <1>1, <2>3, <2>4, SetFramesType
  <2>6. QED
    BY <2>3, <2>5 DEF TypeInv, TypeOK, FramesOK, threadStackVars
<1>9. ASSUME NEW t \in Threads, NEW f \in Functions,
             Call(t, f) \/ TailCall(t, f) \/ CallOrigin(t, f) \/ TailCallOrigin(t, f)
      PROVE TypeInv'
  <2>1. CASE Call(t, f) \/ TailCall(t, f)
    BY <2>1, BranchType, EntryPointType DEF Call, TailCall
  <2>2. CASE CallOrigin(t, f) \/ TailCallOrigin(t, f)
    <3>1. "code" \in Pc \ {"main", "begin", "end"} /\ "code" # "enter"
      BY DEF Pc, UserCode
    <3>2. QED
      BY <2>2, <3>1, BranchType DEF CallOrigin, TailCallOrigin
  <2>3. QED
    BY <1>9, <2>1, <2>2
<1>10. ASSUME NEW t \in Threads, Return(t) PROVE TypeInv'
  <2>1. Top(t).lr \in Addr
    BY <1>2 DEF Frame
  <2>2. FramesOK'
    BY <1>1, <1>10, <2>1, JumpType DEF Return
  <2>3. QED
    BY <1>10, <2>2 DEF TypeInv, TypeOK, FramesOK, Return, threadStackVars
<1>11. ASSUME NEW t \in Threads, NEW v \in Values, CallbackKvSet(t, v) PROVE TypeInv'
  BY <1>11 DEF TypeInv, TypeOK, CallbackKvSet, KvSet
<1>12. CASE UNCHANGED vars
  BY <1>12 DEF TypeInv, TypeOK, vars
<1>13. QED
  BY <1>3, <1>4, <1>5, <1>6, <1>7, <1>8, <1>9, <1>10, <1>11, <1>12
  DEF Next, Interceptor, Program

(***************************************************************************)
(* Every variable keeps its type: in particular a diverted or saved return *)
(* address is a return site or the leave trampoline of a wrapped function, *)
(* and a thread never runs off its native stack.                           *)
(***************************************************************************)
THEOREM TypeCorrect == Spec => []TypeOK
<1>1. TypeInv => TypeOK
  BY DEF TypeInv
<1>2. QED
  BY TypeInit, TypeStep, <1>1, PTL DEF Spec

(* ------------------------------------------------------------------------ *)
(* Returns                                                                     *)
(*                                                                             *)
(* The invariant behind ReturnsToCaller says where every frame and every       *)
(* call_stack will return to.  It is stated on the stack fs and the list cs    *)
(* of one thread, with the two fields ra and eo of the call_stacks.            *)

\* Upper of InterceptorRouting on values, and where frame k, which is fr, must go once
\* the call_stacks above the i-th are popped: to the leave trampoline of the i-th
\* call_stack's hook, or to its caller
UpperOf(fs, cs, k) == IF k = Len(fs) THEN Len(cs) ELSE fs[k + 1].mark

Returns(fr, k, i, cs, eo) ==
  IF i = fr.mark THEN SiteAddr(k - 1) ELSE LeaveAddr(eo[cs[i]])

\* Frame k, which has pushed the call_stacks above its mark and up to u
FrameOK(fr, k, u, cs, ra, eo) ==
  /\ fr.mark <= u /\ u <= Len(cs)
  /\ k = 1 => fr.mark = 0 /\ u = 0
  /\ fr.pc = "begin" => /\ fr.mark < u
                        /\ fr.id = cs[u]
                        /\ eo[fr.id] = fr.fn
                        /\ fr.lr = Returns(fr, k, u - 1, cs, eo)
  /\ fr.pc = "leave" => fr.mark < u /\ eo[cs[u]] = fr.fn
  /\ fr.pc = "end" => ra[fr.id] = Returns(fr, k, u, cs, eo) /\ eo[fr.id] = fr.fn
  /\ fr.pc \notin {"begin", "leave", "end"} => fr.lr = Returns(fr, k, u, cs, eo)
  /\ \A i \in fr.mark + 1..u :
       (fr.pc = "begin" => i # u) => ra[cs[i]] = Returns(fr, k, i - 1, cs, eo)

ThreadOK(fs, cs, ra, eo) ==
  /\ \A k \in 1..Len(fs) : FrameOK(fs[k], k, UpperOf(fs, cs, k), cs, ra, eo)
  /\ \A j, k \in 1..Len(fs) : j <= k => fs[j].mark <= fs[k].mark
  /\ \A k \in 1..Len(fs) : fs[k].mark <= Len(cs)

\* The call_stacks of one thread: on its list, and popped by a routing_end
Ends(fs) == {k \in 1..Len(fs) : fs[k].pc = "end"}
IdsOf(fs, cs) == {cs[i] : i \in 1..Len(cs)} \cup {fs[k].id : k \in Ends(fs)}

Distinct(fs, cs) ==
  /\ \A i, j \in 1..Len(cs) : cs[i] = cs[j] => i = j
  /\ \A k, l \in Ends(fs) : fs[k].id = fs[l].id => k = l
  /\ \A i \in 1..Len(cs), k \in Ends(fs) : cs[i] # fs[k].id

\* No two call_stacks in use are the same block, and no block is lost
IdsOK ==
  /\ \A t \in Threads : Distinct(frames[t], call_stacks[t])
  /\ \A t, u \in Threads :
       t # u => IdsOf(frames[t], call_stacks[t]) \cap IdsOf(frames[u], call_stacks[u]) = {}
  /\ allocated = UNION {IdsOf(frames[t], call_stacks[t]) : t \in Threads}

ThreadsOK ==
  \A t \in Threads : /\ ThreadOK(frames[t], call_stacks[t], ret_addr, entryOf)
                     /\ ip[t] = Len(frames[t])

RoutingInv == TypeInv /\ IdsOK /\ ThreadsOK

\* A new frame above the others
LEMMA ThreadPush ==
  ASSUME NEW fs, Stack(fs), NEW cs \in Seq(CallIds), NEW ra, NEW eo,
         ThreadOK(fs, cs, ra, eo),
         NEW fr, Callee(fr), fr.mark = Len(cs), fr.lr = SiteAddr(Len(fs)),
         fr.pc \notin {"begin", "leave", "end"}
  PROVE  ThreadOK(Append(fs, fr), cs, ra, eo)
<1> DEFINE q == Append(fs, fr)
<1>1. Len(fs) \in Nat \ {0} /\ Len(cs) \in Nat
  BY StackTop
<1>2. /\ Len(q) = Len(fs) + 1
      /\ \A k \in 1..Len(fs) : q[k] = fs[k]
      /\ q[Len(fs) + 1] = fr
  BY AppendProperties DEF Stack, Callee
<1> HIDE DEF q
<1>3. \A k \in 1..Len(fs) : UpperOf(q, cs, k) = UpperOf(fs, cs, k)
  BY <1>1, <1>2 DEF UpperOf
<1>4. UpperOf(q, cs, Len(fs) + 1) = Len(cs)
  BY <1>1, <1>2 DEF UpperOf
<1>5. FrameOK(fr, Len(fs) + 1, Len(cs), cs, ra, eo)
  BY <1>1 DEF FrameOK, Returns, Callee, Frame
<1>6. \A k \in 1..Len(q) : FrameOK(q[k], k, UpperOf(q, cs, k), cs, ra, eo)
  <2> SUFFICES ASSUME NEW k \in 1..Len(q)
               PROVE  FrameOK(q[k], k, UpperOf(q, cs, k), cs, ra, eo)
    OBVIOUS
  <2>1. CASE k \in 1..Len(fs)
    BY <1>2, <1>3, <2>1 DEF ThreadOK
  <2>2. CASE k = Len(fs) + 1
    BY <1>2, <1>4, <1>5, <2>2
  <2>3. QED
    BY <1>1, <1>2, <2>1, <2>2
<1>7. \A k \in 1..Len(q) : q[k].mark <= Len(cs)
  BY <1>1, <1>2 DEF ThreadOK
<1>8. \A j, k \in 1..Len(q) : j <= k => q[j].mark <= q[k].mark
  BY <1>1, <1>2 DEF ThreadOK
<1>9. ThreadOK(q, cs, ra, eo)
  BY <1>6, <1>7, <1>8 DEF ThreadOK
<1>10. QED
  BY <1>9 DEF q

\* FrameOK looks at the call_stacks up to u only
LEMMA FrameCarry ==
  ASSUME NEW f \in Frame, NEW k, NEW u \in Nat,
         NEW cs, NEW ra, NEW eo, NEW ds, NEW rb, NEW fo,
         FrameOK(f, k, u, cs, ra, eo),
         \A i \in 1..u : ds[i] = cs[i] /\ fo[ds[i]] = eo[cs[i]] /\ rb[ds[i]] = ra[cs[i]],
         f.pc = "end" => rb[f.id] = ra[f.id] /\ fo[f.id] = eo[f.id],
         u <= Len(ds)
  PROVE  FrameOK(f, k, u, ds, rb, fo)
<1>1. f.mark \in Nat /\ f.mark <= u
  BY DEF Frame, FrameOK
<1>2. \A i \in f.mark..u : Returns(f, k, i, ds, fo) = Returns(f, k, i, cs, eo)
  BY <1>1 DEF Returns
<1>3. f.pc = "begin" => /\ f.mark < u
                        /\ f.id = ds[u]
                        /\ fo[f.id] = f.fn
                        /\ f.lr = Returns(f, k, u - 1, ds, fo)
  <2> SUFFICES ASSUME f.pc = "begin"
               PROVE  /\ f.mark < u
                      /\ f.id = ds[u]
                      /\ fo[f.id] = f.fn
                      /\ f.lr = Returns(f, k, u - 1, ds, fo)
    OBVIOUS
  <2>1. f.mark < u /\ f.id = cs[u] /\ eo[f.id] = f.fn
        /\ f.lr = Returns(f, k, u - 1, cs, eo)
    BY DEF FrameOK
  <2>2. u \in 1..u /\ u - 1 \in f.mark..u
    BY <1>1, <2>1
  <2>3. QED
    BY <1>2, <2>1, <2>2
<1>4. f.pc = "leave" => f.mark < u /\ fo[ds[u]] = f.fn
  BY <1>1 DEF FrameOK
<1>5. f.pc = "end" => rb[f.id] = Returns(f, k, u, ds, fo) /\ fo[f.id] = f.fn
  BY <1>1, <1>2 DEF FrameOK
<1>6. f.pc \notin {"begin", "leave", "end"} => f.lr = Returns(f, k, u, ds, fo)
  BY <1>1, <1>2 DEF FrameOK
<1>7. \A i \in f.mark + 1..u :
        (f.pc = "begin" => i # u) => rb[ds[i]] = Returns(f, k, i - 1, ds, fo)
  <2> SUFFICES ASSUME NEW i \in f.mark + 1..u, f.pc = "begin" => i # u
               PROVE  rb[ds[i]] = Returns(f, k, i - 1, ds, fo)
    OBVIOUS
  <2>1. i \in 1..u /\ i - 1 \in f.mark..u
    BY <1>1
  <2>2. ra[cs[i]] = Returns(f, k, i - 1, cs, eo)
    BY DEF FrameOK
  <2>3. QED
    BY <1>2, <2>1, <2>2
<1>8. k = 1 => f.mark = 0 /\ u = 0
  BY DEF FrameOK
<1>9. QED
  BY <1>1, <1>3, <1>4, <1>5, <1>6, <1>7, <1>8 DEF FrameOK

\* A change of the top frame, of the end of the list and of the call_stacks' fields
\* that leaves the frames below as they were
LEMMA ThreadSetTop ==
  ASSUME NEW fs, Stack(fs), NEW cs \in Seq(CallIds), NEW ra, NEW eo,
         ThreadOK(fs, cs, ra, eo),
         NEW ds \in Seq(CallIds), NEW rb, NEW fo,
         NEW fr, Callee(fr), fs[Len(fs)].pc # "main", fr.mark = fs[Len(fs)].mark,
         \A i \in 1..fr.mark : ds[i] = cs[i] /\ fo[ds[i]] = eo[cs[i]] /\ rb[ds[i]] = ra[cs[i]],
         \A k \in 1..Len(fs) - 1 : fs[k].pc = "end" => /\ rb[fs[k].id] = ra[fs[k].id]
                                                       /\ fo[fs[k].id] = eo[fs[k].id],
         fr.mark <= Len(ds),
         FrameOK(fr, Len(fs), Len(ds), ds, rb, fo)
  PROVE  ThreadOK(SetTop(fs, fr), ds, rb, fo)
<1> DEFINE q == SetTop(fs, fr)
           n == Len(fs)
<1>1. n \in Nat /\ n >= 2 /\ Len(cs) \in Nat /\ Len(ds) \in Nat
  BY EmptySeq DEF Stack
<1>2. Len(q) = n /\ \A k \in 1..n : q[k] = IF k = n THEN fr ELSE fs[k]
  BY SetTopProperties DEF Stack, Callee
<1>3. \A k \in 1..n : q[k] \in Frame /\ fs[k] \in Frame
  BY <1>2, ElementOfSeq DEF Stack, Callee
<1> HIDE DEF q
<1>4. \A k \in 1..n - 1 : fs[k + 1] \in Frame /\ UpperOf(q, ds, k) = UpperOf(fs, cs, k)
  BY <1>1, <1>2, <1>3 DEF UpperOf
<1>5. \A k \in 1..n - 1 : UpperOf(fs, cs, k) \in Nat /\ UpperOf(fs, cs, k) <= fr.mark
  BY <1>1, <1>3, <1>4 DEF UpperOf, ThreadOK, Frame
<1>6. \A k \in 1..n - 1 : FrameOK(fs[k], k, UpperOf(fs, cs, k), ds, rb, fo)
  <2> SUFFICES ASSUME NEW k \in 1..n - 1
               PROVE  FrameOK(fs[k], k, UpperOf(fs, cs, k), ds, rb, fo)
    OBVIOUS
  <2>1. fs[k] \in Frame /\ fr.mark \in Nat
    BY <1>1, <1>3 DEF Callee, Frame
  <2>2. UpperOf(fs, cs, k) \in Nat /\ UpperOf(fs, cs, k) <= fr.mark
    BY <1>5
  <2>3. UpperOf(fs, cs, k) <= Len(ds)
    BY <1>1, <2>1, <2>2
  <2>4. \A i \in 1..UpperOf(fs, cs, k) : i \in 1..fr.mark
    BY <2>1, <2>2
  <2>5. FrameOK(fs[k], k, UpperOf(fs, cs, k), cs, ra, eo)
    BY <1>1 DEF ThreadOK
  <2>6. QED
    BY <2>1, <2>2, <2>3, <2>4, <2>5, FrameCarry
<1>7. \A k \in 1..n : FrameOK(q[k], k, UpperOf(q, ds, k), ds, rb, fo)
  <2> SUFFICES ASSUME NEW k \in 1..n
               PROVE  FrameOK(q[k], k, UpperOf(q, ds, k), ds, rb, fo)
    OBVIOUS
  <2>1. CASE k \in 1..n - 1
    <3>1. q[k] = fs[k] /\ UpperOf(q, ds, k) = UpperOf(fs, cs, k)
      BY <1>1, <1>2, <1>4, <2>1
    <3>2. QED
      BY <1>6, <2>1, <3>1
  <2>2. CASE k = n
    <3>1. q[k] = fr /\ UpperOf(q, ds, k) = Len(ds)
      BY <1>1, <1>2, <2>2 DEF UpperOf
    <3>2. QED
      BY <2>2, <3>1
  <2>3. QED
    BY <1>1, <2>1, <2>2
<1>8. \A k \in 1..n : q[k].mark = fs[k].mark
  BY <1>1, <1>2
<1>9. \A j, k \in 1..n : j <= k => q[j].mark <= q[k].mark
  BY <1>8 DEF ThreadOK
<1>10. \A k \in 1..n : q[k].mark <= Len(ds)
  <2>1. \A k \in 1..n : fs[k].mark <= fs[n].mark
    BY <1>1 DEF ThreadOK
  <2>2. \A k \in 1..n : fs[k].mark \in Nat
    BY <1>3 DEF Frame
  <2>3. QED
    BY <1>1, <1>8, <2>1, <2>2
<1>11. ThreadOK(q, ds, rb, fo)
  BY <1>2, <1>7, <1>9, <1>10 DEF ThreadOK
<1>12. QED
  BY <1>11 DEF q

\* The top frame is gone, with nothing left to pop
LEMMA ThreadPop ==
  ASSUME NEW fs, Stack(fs), NEW cs \in Seq(CallIds), NEW ra, NEW eo,
         ThreadOK(fs, cs, ra, eo),
         fs[Len(fs)].pc # "main", fs[Len(fs)].mark = Len(cs)
  PROVE  ThreadOK(SubSeq(fs, 1, Len(fs) - 1), cs, ra, eo)
<1> DEFINE q == SubSeq(fs, 1, Len(fs) - 1)
           n == Len(fs)
<1>1. n \in Nat /\ n >= 2
  BY EmptySeq DEF Stack
<1>2. Len(q) = n - 1 /\ \A k \in 1..n - 1 : q[k] = fs[k]
  BY PopProperties DEF Stack
<1> HIDE DEF q
<1>3. \A k \in 1..n - 1 : UpperOf(q, cs, k) = UpperOf(fs, cs, k)
  <2> SUFFICES ASSUME NEW k \in 1..n - 1 PROVE UpperOf(q, cs, k) = UpperOf(fs, cs, k)
    OBVIOUS
  <2>1. UpperOf(fs, cs, k) = fs[k + 1].mark
    BY <1>1 DEF UpperOf
  <2>2. CASE k = n - 1
    BY <1>1, <1>2, <2>1, <2>2 DEF UpperOf
  <2>3. CASE k # n - 1
    BY <1>1, <1>2, <2>1, <2>3 DEF UpperOf
  <2>4. QED
    BY <2>2, <2>3
<1>4. \A k \in 1..n - 1 : k \in 1..n
  BY <1>1
<1>5. \A k \in 1..n - 1 : FrameOK(q[k], k, UpperOf(q, cs, k), cs, ra, eo)
  BY <1>2, <1>3, <1>4 DEF ThreadOK
<1>6. ThreadOK(q, cs, ra, eo)
  BY <1>2, <1>4, <1>5 DEF ThreadOK
<1>7. QED
  BY <1>6 DEF q

\* ThreadOK looks at the thread's own call_stacks only
LEMMA ThreadCarry ==
  ASSUME NEW fs, Stack(fs), NEW cs \in Seq(CallIds), NEW ra, NEW eo, NEW rb, NEW fo,
         ThreadOK(fs, cs, ra, eo),
         \A i \in 1..Len(cs) : fo[cs[i]] = eo[cs[i]] /\ rb[cs[i]] = ra[cs[i]],
         \A k \in Ends(fs) : rb[fs[k].id] = ra[fs[k].id] /\ fo[fs[k].id] = eo[fs[k].id]
  PROVE  ThreadOK(fs, cs, rb, fo)
<1>1. Len(fs) \in Nat /\ Len(cs) \in Nat
  BY StackTop
<1>2. \A k \in 1..Len(fs) : FrameOK(fs[k], k, UpperOf(fs, cs, k), cs, rb, fo)
  <2> SUFFICES ASSUME NEW k \in 1..Len(fs)
               PROVE  FrameOK(fs[k], k, UpperOf(fs, cs, k), cs, rb, fo)
    OBVIOUS
  <2> DEFINE u == UpperOf(fs, cs, k)
  <2>1. \A j \in 1..Len(fs) : fs[j] \in Frame
    BY ElementOfSeq DEF Stack
  <2>2. u \in Nat
    BY <1>1, <2>1 DEF UpperOf, Frame
  <2>3. FrameOK(fs[k], k, u, cs, ra, eo)
    BY DEF ThreadOK
  <2>4. u <= Len(cs)
    BY <2>3 DEF FrameOK
  <2>5. \A i \in 1..u : i \in 1..Len(cs)
    BY <1>1, <2>2, <2>4
  <2>6. fs[k].pc = "end" => rb[fs[k].id] = ra[fs[k].id] /\ fo[fs[k].id] = eo[fs[k].id]
    BY DEF Ends
  <2>7. QED
    BY <2>1, <2>2, <2>3, <2>4, <2>5, <2>6, FrameCarry
<1>3. QED
  BY <1>2 DEF ThreadOK

\* A callback's frame above its handler
LEMMA ThreadCallback ==
  ASSUME NEW fs, Stack(fs), fs[Len(fs)].pc # "main",
         NEW ds \in Seq(CallIds), NEW rb, NEW fo,
         NEW h, Callee(h), ThreadOK(SetTop(fs, h), ds, rb, fo),
         NEW pc \in {"pre", "post", "dbi"}
  PROVE  ThreadOK(Append(SetTop(fs, h),
                         NewFrame(pc, h.fn, SiteAddr(Len(fs)), h.id, Len(ds))), ds, rb, fo)
<1> DEFINE q == SetTop(fs, h)
           fr == NewFrame(pc, h.fn, SiteAddr(Len(fs)), h.id, Len(ds))
<1>1. Stack(q) /\ Len(q) = Len(fs) /\ Len(fs) \in Nat
  <2>1. Len(fs) \in Nat
    BY StackTop
  <2>2. fs \in Seq(Frame) /\ fs # << >> /\ h \in Frame
    BY DEF Stack, Callee
  <2>3. Len(q) = Len(fs)
    BY <2>2, SetTopProperties
  <2>4. Stack(q)
    BY StackSetTop
  <2>5. QED
    BY <2>1, <2>3, <2>4
<1>2. Callee(fr)
  BY <1>1 DEF Callee, Frame, NewFrame, Pc, UserCode, SiteAddr, Addr
<1>3. fr.mark = Len(ds) /\ fr.lr = SiteAddr(Len(fs)) /\ fr.pc = pc
  BY DEF NewFrame
<1> HIDE DEF q, fr
<1>4. ThreadOK(Append(q, fr), ds, rb, fo)
  BY <1>1, <1>2, <1>3, ThreadPush DEF q
<1>5. QED
  BY <1>4 DEF q, fr

\* A thread that takes no step keeps its invariant when one call_stack of another
\* thread, or a block that is not in use, is written
LEMMA OtherThread ==
  ASSUME RoutingInv, NEW u \in Threads, NEW id,
         \A x \in CallIds : x # id => ret_addr'[x] = ret_addr[x] /\ entryOf'[x] = entryOf[x],
         \A i \in 1..Len(call_stacks[u]) : call_stacks[u][i] # id,
         \A k \in Ends(frames[u]) : frames[u][k].id # id,
         frames'[u] = frames[u], call_stacks'[u] = call_stacks[u], ip'[u] = ip[u]
  PROVE  ThreadOK(frames'[u], call_stacks'[u], ret_addr', entryOf')
         /\ ip'[u] = Len(frames'[u])
<1>1. /\ Stack(frames[u]) /\ call_stacks[u] \in Seq(CallIds)
      /\ ThreadOK(frames[u], call_stacks[u], ret_addr, entryOf)
      /\ ip[u] = Len(frames[u])
  BY DEF RoutingInv, ThreadsOK, TypeInv, TypeOK
<1>2. \A i \in 1..Len(call_stacks[u]) : call_stacks[u][i] \in CallIds
  BY <1>1, ElementOfSeq
<1>3. \A k \in Ends(frames[u]) : frames[u][k].id \in CallIds
  <2> SUFFICES ASSUME NEW k \in Ends(frames[u]) PROVE frames[u][k].id \in CallIds
    OBVIOUS
  <2>1. k \in 1..Len(frames[u]) /\ frames[u][k].pc = "end" /\ Len(frames[u]) \in Nat
    BY <1>1, StackTop DEF Ends
  <2>2. k # 1
    BY <1>1, <2>1 DEF Stack
  <2>3. k \in 2..Len(frames[u])
    BY <2>1, <2>2
  <2>4. QED
    BY <1>1, <2>1, <2>3 DEF Stack, Callee
<1>4. QED
  BY <1>1, <1>2, <1>3, ThreadCarry

\* What holds of the thread that takes a step, before it
LEMMA TopFacts ==
  ASSUME RoutingInv, NEW t \in Threads
  PROVE  /\ Stack(frames[t]) /\ call_stacks[t] \in Seq(CallIds)
         /\ Len(frames[t]) \in Nat \ {0} /\ Len(call_stacks[t]) \in Nat
         /\ Depth(t) = Len(frames[t]) /\ Top(t) = frames[t][Len(frames[t])]
         /\ Top(t) \in Frame
         /\ Top(t).pc # "main" => Callee(Top(t))
         /\ ThreadOK(frames[t], call_stacks[t], ret_addr, entryOf)
         /\ FrameOK(Top(t), Len(frames[t]), Len(call_stacks[t]), call_stacks[t],
                    ret_addr, entryOf)
         /\ ip[t] = Len(frames[t])
         /\ \A i \in 1..Len(call_stacks[t]) : call_stacks[t][i] \in CallIds
<1>1. /\ Stack(frames[t]) /\ call_stacks[t] \in Seq(CallIds)
      /\ ThreadOK(frames[t], call_stacks[t], ret_addr, entryOf)
      /\ ip[t] = Len(frames[t])
  BY DEF RoutingInv, ThreadsOK, TypeInv, TypeOK
<1>2. /\ Len(frames[t]) \in Nat \ {0} /\ Len(call_stacks[t]) \in Nat
      /\ frames[t][Len(frames[t])] \in Frame
      /\ frames[t][Len(frames[t])].pc # "main" => Callee(frames[t][Len(frames[t])])
  BY <1>1, StackTop
<1>3. FrameOK(frames[t][Len(frames[t])], Len(frames[t]), Len(call_stacks[t]),
              call_stacks[t], ret_addr, entryOf)
  <2>1. Len(frames[t]) \in 1..Len(frames[t])
    BY <1>2
  <2>2. UpperOf(frames[t], call_stacks[t], Len(frames[t])) = Len(call_stacks[t])
    BY DEF UpperOf
  <2>3. QED
    BY <1>1, <2>1, <2>2 DEF ThreadOK
<1>4. QED
  BY <1>1, <1>2, <1>3, ElementOfSeq DEF Depth, Top

\* A new top frame that leaves the thread's call_stacks alone
LEMMA ThreadReplaceTop ==
  ASSUME RoutingInv, NEW t \in Threads, Top(t).pc # "main",
         NEW fr, Callee(fr), fr.mark = Top(t).mark,
         FrameOK(fr, Len(frames[t]), Len(call_stacks[t]), call_stacks[t], ret_addr, entryOf)
  PROVE  ThreadOK(SetTop(frames[t], fr), call_stacks[t], ret_addr, entryOf)
<1>1. /\ fr.mark <= Len(call_stacks[t])
      /\ \A k \in 1..Len(frames[t]) - 1 : frames[t][k].pc = "end" =>
           /\ ret_addr[frames[t][k].id] = ret_addr[frames[t][k].id]
           /\ entryOf[frames[t][k].id] = entryOf[frames[t][k].id]
  BY DEF FrameOK
<1> DEFINE fs == frames[t]
           cs == call_stacks[t]
<1>2. /\ Stack(fs) /\ cs \in Seq(CallIds) /\ ThreadOK(fs, cs, ret_addr, entryOf)
      /\ fs[Len(fs)].pc # "main" /\ fr.mark = fs[Len(fs)].mark
  BY TopFacts
<1>3. \A i \in 1..fr.mark : /\ cs[i] = cs[i]
                            /\ entryOf[cs[i]] = entryOf[cs[i]]
                            /\ ret_addr[cs[i]] = ret_addr[cs[i]]
  OBVIOUS
<1> HIDE DEF fs, cs
<1>4. ThreadOK(SetTop(fs, fr), cs, ret_addr, entryOf)
  BY <1>1, <1>2, <1>3, ThreadSetTop DEF fs, cs
<1>5. QED
  BY <1>4 DEF fs, cs

\* Between steps of user code the frame keeps its link register
Handlers == {"begin", "leave", "end"}

LEMMA FrameReplace ==
  ASSUME NEW f, NEW k, NEW u, NEW cs, NEW ra, NEW eo, FrameOK(f, k, u, cs, ra, eo),
         NEW fr, fr.mark = f.mark, fr.lr = f.lr,
         f.pc \notin Handlers, fr.pc \notin Handlers
  PROVE  FrameOK(fr, k, u, cs, ra, eo)
<1>1. \A i : Returns(fr, k, i, cs, eo) = Returns(f, k, i, cs, eo)
  BY DEF Returns
<1>2. QED
  BY <1>1 DEF FrameOK, Handlers

\* One thread steps and no call_stack is written
LEMMA ThreadsStep ==
  ASSUME RoutingInv, NEW t \in Threads, UNCHANGED <<ret_addr, entryOf>>,
         \A u \in Threads : u # t => /\ frames'[u] = frames[u]
                                     /\ call_stacks'[u] = call_stacks[u]
                                     /\ ip'[u] = ip[u],
         ThreadOK(frames'[t], call_stacks'[t], ret_addr, entryOf),
         ip'[t] = Len(frames'[t])
  PROVE  ThreadsOK'
  BY DEF RoutingInv, ThreadsOK

LEMMA SetFramesFacts ==
  ASSUME TypeInv, NEW t \in Threads, NEW s, SetFrames(t, s)
  PROVE  /\ frames'[t] = s /\ ip'[t] = Len(s)
         /\ \A u \in Threads : u # t => frames'[u] = frames[u] /\ ip'[u] = ip[u]
  BY DEF TypeInv, TypeOK, SetFrames

LEMMA BranchThreads ==
  ASSUME RoutingInv, NEW t \in Threads, NEW f \in Functions,
         NEW pc \in Pc \ {"main", "begin", "leave", "end"}, pc = "enter" => f \in Wrapped,
         Branch(t, f, pc) \/ TailBranch(t, f, pc)
  PROVE  ThreadsOK'
<1> DEFINE s == frames[t]
<1>1. UNCHANGED <<threadStackVars, entryOf>> /\ Top(t).pc \notin Handlers
  BY DEF Branch, TailBranch, InUserCode, UserCode, Handlers
<1>2. TypeInv
  BY DEF RoutingInv
<1>3. CASE Branch(t, f, pc)
  <2> DEFINE fr == NewFrame(pc, f, SiteAddr(Depth(t)), NULL, Len(call_stacks[t]))
  <2>1. Callee(fr) /\ fr.mark = Len(call_stacks[t]) /\ fr.lr = SiteAddr(Len(s))
        /\ fr.pc \notin {"begin", "leave", "end"}
    BY TopFacts DEF Callee, Frame, NewFrame, SiteAddr, Addr
  <2>2. SetFrames(t, Append(s, fr))
    BY <1>3 DEF Branch
  <2> HIDE DEF fr
  <2>3. ThreadOK(Append(s, fr), call_stacks[t], ret_addr, entryOf)
    BY <2>1, TopFacts, ThreadPush
  <2>4. QED
    BY <1>1, <1>2, <2>2, <2>3, SetFramesFacts, ThreadsStep DEF threadStackVars
<1>4. CASE TailBranch(t, f, pc)
  <2> DEFINE fr == NewFrame(pc, f, Top(t).lr, NULL, Top(t).mark)
  <2>1. Top(t).pc # "main" /\ SetFrames(t, SetTop(s, fr))
    BY <1>4 DEF TailBranch
  <2>2. Callee(fr)
    BY TopFacts DEF Callee, Frame, NewFrame
  <2>3. fr.mark = Top(t).mark /\ fr.lr = Top(t).lr /\ fr.pc \notin Handlers
    BY DEF NewFrame, Handlers
  <2> HIDE DEF fr
  <2>4. FrameOK(fr, Len(s), Len(call_stacks[t]), call_stacks[t], ret_addr, entryOf)
    BY <1>1, <2>3, TopFacts, FrameReplace
  <2>5. ThreadOK(SetTop(s, fr), call_stacks[t], ret_addr, entryOf)
    BY <2>1, <2>2, <2>3, <2>4, ThreadReplaceTop
  <2>6. QED
    BY <1>1, <1>2, <2>1, <2>5, SetFramesFacts, ThreadsStep DEF threadStackVars
<1>5. QED
  BY <1>3, <1>4

\* A branch to where the top frame must go
LEMMA JumpThread ==
  ASSUME RoutingInv, NEW t \in Threads, Top(t).pc \notin {"main", "begin"},
         NEW a \in Addr, a = Returns(Top(t), Len(frames[t]), Len(call_stacks[t]), call_stacks[t], entryOf),
         Jump(t, a)
  PROVE  /\ ThreadOK(frames'[t], call_stacks[t], ret_addr, entryOf)
         /\ ip'[t] = Len(frames'[t])
         /\ \A u \in Threads : u # t => frames'[u] = frames[u] /\ ip'[u] = ip[u]
<1> DEFINE s == frames[t]
           n == Len(frames[t])
           cs == call_stacks[t]
           f == Top(t)
<1>1. /\ Stack(s) /\ cs \in Seq(CallIds) /\ n \in Nat \ {0} /\ f \in Frame /\ f = s[n]
      /\ ThreadOK(s, cs, ret_addr, entryOf) /\ Len(cs) \in Nat
      /\ FrameOK(f, n, Len(cs), cs, ret_addr, entryOf)
      /\ f.mark \in Nat
  BY TopFacts DEF Frame
<1>2. TypeInv
  BY DEF RoutingInv
<1>3. CASE f.mark = Len(cs)
  <2>1. a = SiteAddr(n - 1)
    BY <1>3 DEF Returns
  <2> DEFINE q == SubSeq(s, 1, n - 1)
  <2>2. frames' = [frames EXCEPT ![t] = q] /\ ip' = [ip EXCEPT ![t] = n - 1]
    BY <2>1 DEF Jump, SiteAddr
  <2>3. Len(q) = n - 1
    BY <1>1, PopProperties DEF Stack
  <2>4. ThreadOK(q, cs, ret_addr, entryOf)
    BY <1>1, <1>3, ThreadPop
  <2> HIDE DEF q
  <2>5. frames'[t] = q /\ ip'[t] = n - 1
        /\ \A u \in Threads : u # t => frames'[u] = frames[u] /\ ip'[u] = ip[u]
    BY <1>2, <2>2 DEF TypeInv, TypeOK
  <2>6. QED
    BY <2>3, <2>4, <2>5
<1>4. CASE f.mark # Len(cs)
  <2> DEFINE w == entryOf[cs[Len(cs)]]
             fr == NewFrame("leave", w, LeaveAddr(w), NULL, f.mark)
  <2>1. a = LeaveAddr(w)
    BY <1>4 DEF Returns
  <2>2. SetFrames(t, SetTop(s, fr))
    BY <2>1 DEF Jump, LeaveAddr
  <2>3. w \in Wrapped
    BY <2>1 DEF Addr, LeaveAddr
  <2>4. Callee(fr)
    BY <1>1, <2>3, HooksAssumption
    DEF Callee, NewFrame, Frame, Pc, UserCode, LeaveAddr, Addr
  <2>5. FrameOK(fr, n, Len(cs), cs, ret_addr, entryOf)
    <3>1. fr.mark = f.mark /\ fr.pc = "leave" /\ fr.fn = w
      BY DEF NewFrame
    <3>2. \A i : Returns(fr, n, i, cs, entryOf) = Returns(f, n, i, cs, entryOf)
      BY <3>1 DEF Returns
    <3>3. fr.mark < Len(cs)
      BY <1>1, <1>4, <3>1 DEF FrameOK
    <3> HIDE DEF fr
    <3>4. QED
      BY <1>1, <3>1, <3>2, <3>3 DEF FrameOK
  <2>6. fr.mark = Top(t).mark
    BY DEF NewFrame
  <2> HIDE DEF fr
  <2>7. ThreadOK(SetTop(s, fr), cs, ret_addr, entryOf)
    BY <2>4, <2>5, <2>6, ThreadReplaceTop
  <2>8. QED
    BY <1>2, <2>2, <2>7, SetFramesFacts
<1>5. QED
  BY <1>3, <1>4

\* A handler, with or without a callback above it
LEMMA CallbackThreads ==
  ASSUME RoutingInv, NEW t \in Threads, Top(t).pc # "main",
         NEW h, Callee(h), NEW pc \in {"pre", "post", "dbi"}, NEW present,
         call_stacks'[t] \in Seq(CallIds),
         ThreadOK(SetTop(frames[t], h), call_stacks'[t], ret_addr', entryOf'),
         InvokeCallback(t, h, pc, present)
  PROVE  /\ ThreadOK(frames'[t], call_stacks'[t], ret_addr', entryOf')
         /\ ip'[t] = Len(frames'[t])
         /\ \A u \in Threads : u # t => frames'[u] = frames[u] /\ ip'[u] = ip[u]
<1> DEFINE q == SetTop(frames[t], h)
           r == Append(q, NewFrame(pc, h.fn, SiteAddr(Len(frames[t])), h.id,
                                   Len(call_stacks'[t])))
<1>1. Stack(frames[t]) /\ frames[t][Len(frames[t])].pc # "main" /\ Depth(t) = Len(frames[t])
  BY TopFacts
<1>2. ThreadOK(r, call_stacks'[t], ret_addr', entryOf')
  BY <1>1, ThreadCallback
<1>3. SetFrames(t, IF present THEN r ELSE q)
  BY <1>1 DEF InvokeCallback
<1> HIDE DEF q, r
<1>4. TypeInv
  BY DEF RoutingInv
<1>5. CASE present
  BY <1>2, <1>3, <1>4, <1>5, SetFramesFacts
<1>6. CASE ~present
  <2>1. SetFrames(t, q)
    BY <1>3, <1>6
  <2>2. ThreadOK(q, call_stacks'[t], ret_addr', entryOf')
    BY DEF q
  <2>3. QED
    BY <1>4, <2>1, <2>2, SetFramesFacts
<1>7. QED
  BY <1>5, <1>6

\* The only call_stack whose fields change is id
WritesOnly(id, ra, eo, rb, fo) ==
  \A x \in CallIds : x # id => rb[x] = ra[x] /\ fo[x] = eo[x]

\* Nothing of the thread refers to the call_stack id
Avoids(fs, cs, id) ==
  /\ \A i \in 1..Len(cs) : cs[i] # id
  /\ \A k \in Ends(fs) : fs[k].id # id

\* The ids of a thread's list and of its handlers are call_ids
LEMMA IdsTyped ==
  ASSUME NEW fs, Stack(fs), NEW cs \in Seq(CallIds)
  PROVE  /\ Len(fs) \in Nat \ {0} /\ Len(cs) \in Nat
         /\ \A i \in 1..Len(cs) : cs[i] \in CallIds
         /\ \A k \in 1..Len(fs) : fs[k].pc = "end" => k \in Ends(fs) /\ fs[k].id \in CallIds
<1>1. Len(fs) \in Nat \ {0} /\ Len(cs) \in Nat
  BY StackTop
<1>2. \A i \in 1..Len(cs) : cs[i] \in CallIds
  BY ElementOfSeq
<1>3. \A k \in 1..Len(fs) : fs[k].pc = "end" => k \in Ends(fs) /\ fs[k].id \in CallIds
  <2> SUFFICES ASSUME NEW k \in 1..Len(fs), fs[k].pc = "end"
               PROVE  k \in Ends(fs) /\ fs[k].id \in CallIds
    OBVIOUS
  <2>1. k # 1
    BY DEF Stack
  <2>2. k \in 2..Len(fs)
    BY <1>1, <2>1
  <2>3. QED
    BY <2>2 DEF Stack, Callee, Ends
<1>4. QED
  BY <1>1, <1>2, <1>3

\* routing_begin pushes the call_stack id, which nothing of the thread refers to
LEMMA BeginThread ==
  ASSUME NEW fs, Stack(fs), NEW cs \in Seq(CallIds), NEW ra, NEW eo,
         ThreadOK(fs, cs, ra, eo), fs[Len(fs)].pc = "enter",
         NEW id \in CallIds, NEW rb, NEW fo,
         WritesOnly(id, ra, eo, rb, fo), Avoids(fs, cs, id),
         NEW h, Callee(h), h.pc = "begin", h.id = id, h.fn = fs[Len(fs)].fn,
         h.lr = fs[Len(fs)].lr, h.mark = fs[Len(fs)].mark, fo[id] = h.fn
  PROVE  ThreadOK(SetTop(fs, h), Append(cs, id), rb, fo)
<1> DEFINE n == Len(fs)
           m == Len(cs)
           f == fs[Len(fs)]
           ds == Append(cs, id)
<1>1. /\ n \in Nat \ {0} /\ m \in Nat /\ f \in Frame /\ f.mark \in Nat
      /\ \A i \in 1..m : cs[i] \in CallIds
      /\ \A k \in 1..n : fs[k].pc = "end" => k \in Ends(fs) /\ fs[k].id \in CallIds
  BY IdsTyped, StackTop DEF Frame
<1>2. /\ ds \in Seq(CallIds) /\ Len(ds) = m + 1 /\ ds[m + 1] = id
      /\ \A i \in 1..m : ds[i] = cs[i]
  BY AppendProperties
<1>3. FrameOK(f, n, m, cs, ra, eo)
  <2>1. n \in 1..n /\ UpperOf(fs, cs, n) = m
    BY <1>1 DEF UpperOf
  <2>2. QED
    BY <2>1 DEF ThreadOK
<1>4. f.pc = "enter" /\ h.pc = "begin" /\ h.id = id /\ h.lr = f.lr /\ h.mark = f.mark
      /\ h.mark \in Nat /\ fo[id] = h.fn
  BY <1>1
<1> HIDE DEF n, m, f, ds
<1>5. \A i \in 1..m : ds[i] = cs[i] /\ fo[ds[i]] = eo[cs[i]] /\ rb[ds[i]] = ra[cs[i]]
  BY <1>1, <1>2 DEF m, WritesOnly, Avoids
<1>6. h.mark <= m /\ f.lr = Returns(f, n, m, cs, eo)
      /\ \A i \in f.mark + 1..m : ra[cs[i]] = Returns(f, n, i - 1, cs, eo)
  BY <1>3, <1>4 DEF FrameOK
<1>7. \A i \in f.mark..m : Returns(h, n, i, ds, fo) = Returns(f, n, i, cs, eo)
  <2> SUFFICES ASSUME NEW i \in f.mark..m, i # f.mark PROVE fo[ds[i]] = eo[cs[i]]
    BY <1>4 DEF Returns
  <2>1. i \in 1..m
    BY <1>1
  <2>2. QED
    BY <1>5, <2>1
<1>8. FrameOK(h, n, Len(ds), ds, rb, fo)
  <2>1. h.mark <= Len(ds) /\ h.mark < Len(ds) /\ Len(ds) - 1 = m
    BY <1>1, <1>2, <1>4, <1>6
  <2>2. n # 1
    BY <1>4 DEF Stack, n, f
  <2>3. h.id = ds[Len(ds)] /\ fo[h.id] = h.fn
    BY <1>2, <1>4
  <2>4. h.lr = Returns(h, n, Len(ds) - 1, ds, fo)
    <3>1. m \in f.mark..m
      BY <1>1, <1>4, <1>6
    <3>2. QED
      BY <1>4, <1>6, <1>7, <2>1, <3>1
  <2>5. \A i \in h.mark + 1..Len(ds) :
          i # Len(ds) => rb[ds[i]] = Returns(h, n, i - 1, ds, fo)
    <3> SUFFICES ASSUME NEW i \in h.mark + 1..Len(ds), i # Len(ds)
                 PROVE  rb[ds[i]] = Returns(h, n, i - 1, ds, fo)
      OBVIOUS
    <3>1. i \in f.mark + 1..m /\ i - 1 \in f.mark..m /\ i \in 1..m
      BY <1>1, <1>2, <1>4
    <3>2. ra[cs[i]] = Returns(f, n, i - 1, cs, eo)
      BY <1>6, <3>1
    <3>3. Returns(h, n, i - 1, ds, fo) = Returns(f, n, i - 1, cs, eo)
      BY <1>7, <3>1
    <3>4. QED
      BY <1>5, <3>1, <3>2, <3>3
  <2>6. QED
    BY <1>4, <2>1, <2>2, <2>3, <2>4, <2>5 DEF FrameOK
<1>9. \A i \in 1..h.mark : ds[i] = cs[i] /\ fo[ds[i]] = eo[cs[i]] /\ rb[ds[i]] = ra[cs[i]]
  <2>1. \A i \in 1..h.mark : i \in 1..m
    BY <1>1, <1>4, <1>6
  <2>2. QED
    BY <1>5, <2>1
<1>10. \A k \in 1..n - 1 : fs[k].pc = "end" => rb[fs[k].id] = ra[fs[k].id]
                                              /\ fo[fs[k].id] = eo[fs[k].id]
  BY <1>1 DEF WritesOnly, Avoids
<1>11. h.mark <= Len(ds) /\ fs[Len(fs)].pc # "main" /\ h.mark = fs[Len(fs)].mark
  BY <1>4, <1>8 DEF FrameOK, f
<1>12. ThreadOK(SetTop(fs, h), ds, rb, fo)
  BY <1>2, <1>8, <1>9, <1>10, <1>11, ThreadSetTop DEF n
<1>13. QED
  BY <1>12 DEF ds

\* A thread keeps its invariant when a block it does not refer to is written
LEMMA CarryWrite ==
  ASSUME NEW fs, Stack(fs), NEW cs \in Seq(CallIds), NEW ra, NEW eo,
         ThreadOK(fs, cs, ra, eo), NEW id, NEW rb, NEW fo,
         WritesOnly(id, ra, eo, rb, fo), Avoids(fs, cs, id)
  PROVE  ThreadOK(fs, cs, rb, fo)
<1>1. \A i \in 1..Len(cs) : fo[cs[i]] = eo[cs[i]] /\ rb[cs[i]] = ra[cs[i]]
  BY IdsTyped DEF WritesOnly, Avoids
<1>2. \A k \in Ends(fs) : rb[fs[k].id] = ra[fs[k].id] /\ fo[fs[k].id] = eo[fs[k].id]
  BY IdsTyped DEF Ends, WritesOnly, Avoids
<1>3. QED
  BY <1>1, <1>2, ThreadCarry

\* One thread steps and one call_stack, which no other thread refers to, is written
LEMMA ThreadsWrite ==
  ASSUME RoutingInv, NEW t \in Threads, NEW id,
         WritesOnly(id, ret_addr, entryOf, ret_addr', entryOf'),
         \A u \in Threads : u # t =>
           /\ frames'[u] = frames[u] /\ call_stacks'[u] = call_stacks[u] /\ ip'[u] = ip[u]
           /\ Avoids(frames[u], call_stacks[u], id),
         ThreadOK(frames'[t], call_stacks'[t], ret_addr', entryOf'),
         ip'[t] = Len(frames'[t])
  PROVE  ThreadsOK'
<1> DEFINE rb == ret_addr'
           fo == entryOf'
<1>1. ASSUME NEW u \in Threads, u # t
      PROVE  ThreadOK(frames[u], call_stacks[u], rb, fo) /\ ip[u] = Len(frames[u])
  <2>1. /\ Stack(frames[u]) /\ call_stacks[u] \in Seq(CallIds)
        /\ ThreadOK(frames[u], call_stacks[u], ret_addr, entryOf)
        /\ ip[u] = Len(frames[u])
    BY DEF RoutingInv, ThreadsOK, TypeInv, TypeOK
  <2>2. WritesOnly(id, ret_addr, entryOf, rb, fo) /\ Avoids(frames[u], call_stacks[u], id)
    BY <1>1
  <2> HIDE DEF rb, fo
  <2>3. ThreadOK(frames[u], call_stacks[u], rb, fo)
    BY <2>1, <2>2, CarryWrite
  <2>4. QED
    BY <2>1, <2>3
<1>2. ASSUME NEW u \in Threads, u # t
      PROVE  ThreadOK(frames'[u], call_stacks'[u], ret_addr', entryOf')
             /\ ip'[u] = Len(frames'[u])
  <2>1. frames'[u] = frames[u] /\ call_stacks'[u] = call_stacks[u] /\ ip'[u] = ip[u]
    BY <1>2
  <2>2. QED
    BY <1>1, <1>2, <2>1
<1>3. QED
  BY <1>2 DEF ThreadsOK

LEMMA BeginThreads ==
  ASSUME RoutingInv, NEW t \in Threads, RoutingBegin(t)
  PROVE  ThreadsOK'
<1> PICK id \in CallIds :
      /\ NewCallStack(id, NullAddr)
      /\ PushCallStack(t, id)
      /\ entryOf' = [entryOf EXCEPT ![id] = Top(t).fn]
      /\ InvokeCallback(t, [Top(t) EXCEPT !.pc = "begin", !.id = id],
                        "pre", Top(t).fn \in HasPre)
  BY Zenon DEF RoutingBegin
<1> DEFINE h == [Top(t) EXCEPT !.pc = "begin", !.id = id]
           rb == ret_addr'
           fo == entryOf'
<1>1. Top(t).pc = "enter" /\ Callee(Top(t)) /\ Top(t).fn \in Wrapped
  BY TopFacts DEF RoutingBegin, At, Callee
<1>2. \A u \in Threads : Avoids(frames[u], call_stacks[u], id)
  BY DEF NewCallStack, RoutingInv, IdsOK, IdsOf, Avoids
<1>3. call_stacks'[t] = Append(call_stacks[t], id)
      /\ \A u \in Threads : u # t => call_stacks'[u] = call_stacks[u]
  BY DEF PushCallStack, RoutingInv, TypeInv, TypeOK
<1>4. fo[id] = h.fn /\ WritesOnly(id, ret_addr, entryOf, rb, fo)
  BY <1>1 DEF WritesOnly, NewCallStack, RoutingInv, TypeInv, TypeOK, Frame, Callee
<1>5. Callee(h) /\ h.mark = Top(t).mark /\ h.pc = "begin" /\ h.id = id
      /\ h.fn = Top(t).fn /\ h.lr = Top(t).lr
  BY <1>1 DEF Callee, Frame, Pc
<1>6. InvokeCallback(t, h, "pre", Top(t).fn \in HasPre)
  OBVIOUS
<1>7. /\ Stack(frames[t]) /\ call_stacks[t] \in Seq(CallIds)
      /\ ThreadOK(frames[t], call_stacks[t], ret_addr, entryOf)
      /\ Top(t) = frames[t][Len(frames[t])]
  BY TopFacts
<1> HIDE DEF h, rb, fo
<1>8. ThreadOK(SetTop(frames[t], h), Append(call_stacks[t], id), rb, fo)
  BY <1>1, <1>2, <1>4, <1>5, <1>7, BeginThread
<1>9. Append(call_stacks[t], id) \in Seq(CallIds)
  BY <1>7, AppendProperties
<1>10. call_stacks'[t] \in Seq(CallIds)
       /\ ThreadOK(SetTop(frames[t], h), call_stacks'[t], ret_addr', entryOf')
  BY <1>3, <1>8, <1>9 DEF rb, fo
<1>11. /\ ThreadOK(frames'[t], call_stacks'[t], ret_addr', entryOf')
       /\ ip'[t] = Len(frames'[t])
       /\ \A u \in Threads : u # t => frames'[u] = frames[u] /\ ip'[u] = ip[u]
  BY <1>1, <1>5, <1>6, <1>10, CallbackThreads
<1>12. WritesOnly(id, ret_addr, entryOf, ret_addr', entryOf')
  BY <1>4 DEF rb, fo
<1>13. QED
  BY <1>2, <1>3, <1>11, <1>12, ThreadsWrite

\* The rest of routing_begin saves and diverts the link register
LEMMA BeginNextHopThread ==
  ASSUME NEW fs, Stack(fs), NEW cs \in Seq(CallIds), NEW ra, NEW eo,
         ThreadOK(fs, cs, ra, eo), fs[Len(fs)].pc = "begin",
         Len(cs) # 0 => Avoids(fs, SubSeq(cs, 1, Len(cs) - 1), cs[Len(cs)]),
         NEW rb, WritesOnly(fs[Len(fs)].id, ra, eo, rb, eo),
         rb[fs[Len(fs)].id] = fs[Len(fs)].lr,
         NEW h, Callee(h), h.pc = "code",
         h.lr = LeaveAddr(fs[Len(fs)].fn), h.mark = fs[Len(fs)].mark
  PROVE  ThreadOK(SetTop(fs, h), cs, rb, eo)
<1> DEFINE n == Len(fs)
           m == Len(cs)
           f == fs[Len(fs)]
<1>1. /\ n \in Nat \ {0} /\ m \in Nat /\ f \in Frame /\ f.mark \in Nat
      /\ \A i \in 1..m : cs[i] \in CallIds
      /\ \A k \in 1..n : fs[k].pc = "end" => k \in Ends(fs) /\ fs[k].id \in CallIds
  BY IdsTyped, StackTop DEF Frame
<1>2. FrameOK(f, n, m, cs, ra, eo)
  <2>1. n \in 1..n /\ UpperOf(fs, cs, n) = m
    BY <1>1 DEF UpperOf
  <2>2. QED
    BY <2>1 DEF ThreadOK
<1>3. /\ f.mark < m /\ f.id = cs[m] /\ eo[f.id] = f.fn /\ f.lr = Returns(f, n, m - 1, cs, eo)
      /\ \A i \in f.mark + 1..m : i # m => ra[cs[i]] = Returns(f, n, i - 1, cs, eo)
  BY <1>2 DEF FrameOK, f
<1>4. /\ \A i \in 1..m - 1 : cs[i] # cs[m]
      /\ \A k \in Ends(fs) : fs[k].id # cs[m]
  <2>1. m # 0
    BY <1>1, <1>3
  <2>2. cs # << >>
    BY <2>1, EmptySeq
  <2>3. Avoids(fs, SubSeq(cs, 1, m - 1), cs[m])
    BY <2>1
  <2>4. Len(SubSeq(cs, 1, m - 1)) = m - 1
        /\ \A i \in 1..m - 1 : SubSeq(cs, 1, m - 1)[i] = cs[i]
    BY <2>2, PopProperties
  <2>5. QED
    BY <2>3, <2>4 DEF Avoids
<1>5. n # 1 /\ f.pc # "main"
  BY DEF Stack
<1>6. h.mark = f.mark /\ h.lr = LeaveAddr(f.fn) /\ rb[f.id] = f.lr
      /\ WritesOnly(f.id, ra, eo, rb, eo)
  OBVIOUS
<1> HIDE DEF n, m, f
<1>7. \A i \in 1..m - 1 : rb[cs[i]] = ra[cs[i]]
  <2>1. \A i \in 1..m - 1 : cs[i] \in CallIds /\ cs[i] # f.id
    BY <1>1, <1>3, <1>4
  <2>2. QED
    BY <1>6, <2>1 DEF WritesOnly
<1>8. \A i : Returns(h, n, i, cs, eo) = Returns(f, n, i, cs, eo)
  BY <1>6 DEF Returns
<1>9. FrameOK(h, n, m, cs, rb, eo)
  <2>1. h.lr = Returns(h, n, m, cs, eo)
    BY <1>1, <1>3, <1>6 DEF Returns
  <2>2. \A i \in h.mark + 1..m : rb[cs[i]] = Returns(h, n, i - 1, cs, eo)
    <3> SUFFICES ASSUME NEW i \in h.mark + 1..m
                 PROVE  rb[cs[i]] = Returns(f, n, i - 1, cs, eo)
      BY <1>8
    <3>1. CASE i = m
      BY <1>3, <1>6, <3>1
    <3>2. CASE i # m
      <4>1. i \in 1..m - 1 /\ i \in f.mark + 1..m
        BY <1>1, <1>6, <3>2
      <4>2. QED
        BY <1>3, <1>7, <3>2, <4>1
    <3>3. QED
      BY <3>1, <3>2
  <2>3. h.mark <= m /\ m <= Len(cs)
    BY <1>1, <1>3, <1>6 DEF m
  <2>4. QED
    BY <1>5, <2>1, <2>2, <2>3 DEF FrameOK
<1>10. \A i \in 1..h.mark : cs[i] = cs[i] /\ eo[cs[i]] = eo[cs[i]] /\ rb[cs[i]] = ra[cs[i]]
  <2>1. \A i \in 1..h.mark : i \in 1..m - 1
    BY <1>1, <1>3, <1>6
  <2>2. QED
    BY <1>7, <2>1
<1>11. \A k \in 1..n - 1 : fs[k].pc = "end" => rb[fs[k].id] = ra[fs[k].id]
                                              /\ eo[fs[k].id] = eo[fs[k].id]
  <2>1. \A k \in 1..n - 1 : fs[k].pc = "end" => fs[k].id \in CallIds /\ fs[k].id # f.id
    BY <1>1, <1>3, <1>4
  <2>2. QED
    BY <1>6, <2>1 DEF WritesOnly
<1>12. h.mark <= Len(cs) /\ fs[Len(fs)].pc # "main"
  BY <1>5, <1>9 DEF FrameOK, f, m
<1>13. QED
  BY <1>9, <1>10, <1>11, <1>12, ThreadSetTop DEF n, m

\* routing_end pops the call_stack that the frame's leave trampoline is for
LEMMA EndThread ==
  ASSUME NEW fs, Stack(fs), NEW cs \in Seq(CallIds), NEW ra, NEW eo,
         ThreadOK(fs, cs, ra, eo), fs[Len(fs)].pc = "leave", cs # << >>,
         NEW h, Callee(h), h.pc = "end", h.id = cs[Len(cs)],
         h.fn = fs[Len(fs)].fn, h.mark = fs[Len(fs)].mark
  PROVE  ThreadOK(SetTop(fs, h), SubSeq(cs, 1, Len(cs) - 1), ra, eo)
<1> DEFINE n == Len(fs)
           m == Len(cs)
           f == fs[Len(fs)]
           ds == SubSeq(cs, 1, Len(cs) - 1)
<1>1. n \in Nat \ {0} /\ m \in Nat /\ f \in Frame /\ f.mark \in Nat
  BY IdsTyped, StackTop DEF Frame
<1>2. FrameOK(f, n, m, cs, ra, eo)
  <2>1. n \in 1..n /\ UpperOf(fs, cs, n) = m
    BY <1>1 DEF UpperOf
  <2>2. QED
    BY <2>1 DEF ThreadOK
<1>3. /\ f.mark < m /\ eo[cs[m]] = f.fn
      /\ \A i \in f.mark + 1..m : ra[cs[i]] = Returns(f, n, i - 1, cs, eo)
  BY <1>2 DEF FrameOK, f
<1>4. /\ ds \in Seq(CallIds) /\ Len(ds) = m - 1
      /\ \A i \in 1..m - 1 : ds[i] = cs[i]
  BY PopProperties
<1>5. n # 1 /\ f.pc # "main"
  BY DEF Stack
<1>6. h.mark = f.mark /\ h.id = cs[m] /\ h.fn = f.fn
  OBVIOUS
<1> HIDE DEF n, m, f, ds
<1>7. \A i \in f.mark..m - 1 : Returns(h, n, i, ds, eo) = Returns(f, n, i, cs, eo)
  <2> SUFFICES ASSUME NEW i \in f.mark..m - 1, i # f.mark PROVE ds[i] = cs[i]
    BY <1>6 DEF Returns
  <2>1. i \in 1..m - 1
    BY <1>1
  <2>2. QED
    BY <1>4, <2>1
<1>8. FrameOK(h, n, m - 1, ds, ra, eo)
  <2>1. m \in f.mark + 1..m /\ m - 1 \in f.mark..m - 1
    BY <1>1, <1>3
  <2>2. ra[h.id] = Returns(h, n, m - 1, ds, eo)
    BY <1>3, <1>6, <1>7, <2>1
  <2>3. \A i \in h.mark + 1..m - 1 : ra[ds[i]] = Returns(h, n, i - 1, ds, eo)
    <3> SUFFICES ASSUME NEW i \in f.mark + 1..m - 1
                 PROVE  ra[ds[i]] = Returns(h, n, i - 1, ds, eo)
      BY <1>6
    <3>1. i \in 1..m - 1 /\ i - 1 \in f.mark..m - 1 /\ i \in f.mark + 1..m
      BY <1>1
    <3>2. QED
      BY <1>3, <1>4, <1>7, <3>1
  <2>4. h.mark <= m - 1 /\ m - 1 <= Len(ds)
    BY <1>1, <1>3, <1>4, <1>6
  <2>5. eo[h.id] = h.fn
    BY <1>3, <1>6
  <2>6. QED
    BY <1>5, <2>2, <2>3, <2>4, <2>5 DEF FrameOK
<1>9. \A i \in 1..h.mark : ds[i] = cs[i] /\ eo[ds[i]] = eo[cs[i]] /\ ra[ds[i]] = ra[cs[i]]
  <2>1. \A i \in 1..h.mark : i \in 1..m - 1
    BY <1>1, <1>3, <1>6
  <2>2. QED
    BY <1>4, <2>1
<1>10. \A k \in 1..n - 1 : fs[k].pc = "end" => ra[fs[k].id] = ra[fs[k].id]
                                              /\ eo[fs[k].id] = eo[fs[k].id]
  OBVIOUS
<1>11. h.mark <= Len(ds) /\ fs[Len(fs)].pc # "main"
  BY <1>4, <1>5, <1>8 DEF FrameOK, f
<1>12. ThreadOK(SetTop(fs, h), ds, ra, eo)
  BY <1>4, <1>8, <1>9, <1>10, <1>11, ThreadSetTop DEF n, f
<1>13. QED
  BY <1>12 DEF ds

LEMMA BeginNextHopThreads ==
  ASSUME RoutingInv, NEW t \in Threads, RoutingBeginNextHop(t)
  PROVE  ThreadsOK'
<1> DEFINE h == NewFrame("code", Top(t).fn, LeaveAddr(Top(t).fn), NULL, Top(t).mark)
           id == Top(t).id
           rb == ret_addr'
           cs == call_stacks[t]
<1>1. /\ Stack(frames[t]) /\ cs \in Seq(CallIds)
      /\ ThreadOK(frames[t], cs, ret_addr, entryOf)
      /\ Top(t) = frames[t][Len(frames[t])] /\ Top(t) \in Frame
      /\ FrameOK(Top(t), Len(frames[t]), Len(cs), cs, ret_addr, entryOf)
      /\ Len(cs) \in Nat /\ \A i \in 1..Len(cs) : cs[i] \in CallIds
  BY TopFacts
<1>2. Top(t).pc = "begin" /\ Callee(Top(t)) /\ Top(t).fn \in Wrapped
  BY TopFacts DEF RoutingBeginNextHop, At, Callee
<1>3. Callee(h) /\ h.pc = "code" /\ h.lr = LeaveAddr(Top(t).fn) /\ h.mark = Top(t).mark
  BY <1>2, HooksAssumption DEF Callee, Frame, NewFrame, Pc, UserCode, LeaveAddr, Addr
<1>4. Len(cs) # 0 /\ id = cs[Len(cs)] /\ id \in CallIds
  <2>1. Top(t).mark < Len(cs) /\ id = cs[Len(cs)] /\ Top(t).mark \in Nat
    BY <1>1, <1>2 DEF FrameOK, Frame
  <2>2. Len(cs) \in 1..Len(cs)
    BY <1>1, <2>1
  <2>3. QED
    BY <1>1, <2>1, <2>2
<1>5. /\ entryOf' = entryOf /\ call_stacks' = call_stacks
      /\ WritesOnly(id, ret_addr, entryOf, rb, entryOf)
      /\ rb[id] = Top(t).lr
      /\ SetFrames(t, SetTop(frames[t], h))
  BY <1>4 DEF RoutingBeginNextHop, WritesOnly, RoutingInv, TypeInv, TypeOK
<1>6. \A u \in Threads : u # t => Avoids(frames[u], call_stacks[u], id)
  <2> SUFFICES ASSUME NEW u \in Threads, u # t
               PROVE  Avoids(frames[u], call_stacks[u], id)
    OBVIOUS
  <2>1. Len(cs) \in 1..Len(cs)
    BY <1>1, <1>4
  <2>2. QED
    BY <1>4, <2>1 DEF Avoids, RoutingInv, IdsOK, IdsOf
<1>7. Avoids(frames[t], SubSeq(cs, 1, Len(cs) - 1), id)
  <2>1. Len(cs) \in 1..Len(cs) /\ cs # << >>
    BY <1>1, <1>4, EmptySeq
  <2>2. \A k \in Ends(frames[t]) : frames[t][k].id # id
    BY <1>4, <2>1 DEF RoutingInv, IdsOK, Distinct
  <2>3. \A i \in 1..Len(cs) - 1 : cs[i] # id
    <3> SUFFICES ASSUME NEW i \in 1..Len(cs) - 1, cs[i] = cs[Len(cs)] PROVE FALSE
      BY <1>4
    <3>1. i \in 1..Len(cs) /\ i # Len(cs)
      BY <1>1
    <3>2. QED
      BY <2>1, <3>1 DEF RoutingInv, IdsOK, Distinct
  <2>4. Len(SubSeq(cs, 1, Len(cs) - 1)) = Len(cs) - 1
        /\ \A i \in 1..Len(cs) - 1 : SubSeq(cs, 1, Len(cs) - 1)[i] = cs[i]
    BY <1>1, <2>1, PopProperties
  <2>5. QED
    BY <2>2, <2>3, <2>4 DEF Avoids
<1> HIDE DEF h, id, rb, cs
<1>8. ThreadOK(SetTop(frames[t], h), cs, rb, entryOf)
  BY <1>1, <1>2, <1>3, <1>4, <1>5, <1>7, BeginNextHopThread DEF id
<1>9. TypeInv
  BY DEF RoutingInv
<1>10. /\ frames'[t] = SetTop(frames[t], h) /\ ip'[t] = Len(frames'[t])
       /\ \A u \in Threads : u # t => frames'[u] = frames[u] /\ ip'[u] = ip[u]
  BY <1>5, <1>9, SetFramesFacts
<1>11. ThreadOK(frames'[t], call_stacks'[t], ret_addr', entryOf')
  BY <1>5, <1>8, <1>10 DEF cs, rb
<1>12. WritesOnly(id, ret_addr, entryOf, ret_addr', entryOf')
  BY <1>5 DEF rb
<1>13. QED
  BY <1>5, <1>6, <1>10, <1>11, <1>12, ThreadsWrite

LEMMA EndThreads ==
  ASSUME RoutingInv, NEW t \in Threads, RoutingEnd(t)
  PROVE  ThreadsOK'
<1> DEFINE h == [Top(t) EXCEPT !.pc = "end", !.id = LastCallStack(t)]
           q == SubSeq(call_stacks[t], 1, Len(call_stacks[t]) - 1)
<1>1. /\ Stack(frames[t]) /\ call_stacks[t] \in Seq(CallIds) /\ call_stacks[t] # << >>
      /\ ThreadOK(frames[t], call_stacks[t], ret_addr, entryOf)
      /\ Top(t) = frames[t][Len(frames[t])]
  BY TopFacts DEF RoutingEnd
<1>2. Top(t).pc = "leave" /\ Callee(Top(t))
  BY TopFacts DEF RoutingEnd, At
<1>3. LastCallStack(t) = call_stacks[t][Len(call_stacks[t])] /\ LastCallStack(t) \in CallIds
  BY <1>1, EmptySeq, ElementOfSeq DEF LastCallStack
<1>4. Callee(h) /\ h.pc = "end" /\ h.id = call_stacks[t][Len(call_stacks[t])]
      /\ h.fn = Top(t).fn /\ h.mark = Top(t).mark
  BY <1>2, <1>3 DEF Callee, Frame, Pc
<1>5. /\ UNCHANGED <<ret_addr, entryOf>>
      /\ InvokeCallback(t, h, "post", Top(t).fn \in HasPost)
  BY DEF RoutingEnd
<1>6. call_stacks'[t] = q /\ \A u \in Threads : u # t => call_stacks'[u] = call_stacks[u]
  BY DEF RoutingEnd, PopCallStack, RoutingInv, TypeInv, TypeOK
<1>7. q \in Seq(CallIds)
  BY <1>1, PopProperties
<1> HIDE DEF h
<1>8. ThreadOK(SetTop(frames[t], h), q, ret_addr, entryOf)
  BY <1>1, <1>2, <1>4, EndThread
<1> HIDE DEF q
<1>9. /\ call_stacks'[t] \in Seq(CallIds)
      /\ ThreadOK(SetTop(frames[t], h), call_stacks'[t], ret_addr', entryOf')
  BY <1>5, <1>6, <1>7, <1>8
<1>10. /\ ThreadOK(frames'[t], call_stacks'[t], ret_addr', entryOf')
       /\ ip'[t] = Len(frames'[t])
       /\ \A u \in Threads : u # t => frames'[u] = frames[u] /\ ip'[u] = ip[u]
  BY <1>2, <1>4, <1>5, <1>9, CallbackThreads
<1>11. QED
  BY <1>5, <1>6, <1>10, ThreadsStep

LEMMA DBIThreads ==
  ASSUME RoutingInv, NEW t \in Threads, RoutingDBI(t) \/ RoutingDBINextHop(t)
  PROVE  ThreadsOK'
<1>1. /\ UNCHANGED <<ret_addr, entryOf, call_stacks>>
      /\ Top(t).pc \in {"dbi_enter", "dbi_end"} /\ Callee(Top(t))
      /\ call_stacks[t] \in Seq(CallIds)
      /\ FrameOK(Top(t), Len(frames[t]), Len(call_stacks[t]), call_stacks[t],
                 ret_addr, entryOf)
  BY TopFacts DEF RoutingDBI, RoutingDBINextHop, At, threadStackVars
<1>2. ASSUME NEW pc \in {"dbi_end", "code"}
      PROVE  LET h == [Top(t) EXCEPT !.pc = pc]
             IN  Callee(h) /\ ThreadOK(SetTop(frames[t], h), call_stacks[t], ret_addr, entryOf)
  <2> DEFINE h == [Top(t) EXCEPT !.pc = pc]
  <2>1. Callee(h) /\ h.mark = Top(t).mark /\ h.lr = Top(t).lr /\ h.pc = pc
    BY <1>1, <1>2 DEF Callee, Frame, Pc, UserCode
  <2>2. h.pc \notin Handlers /\ Top(t).pc \notin Handlers /\ Top(t).pc # "main"
    BY <1>1, <2>1 DEF Handlers
  <2> HIDE DEF h
  <2>3. FrameOK(h, Len(frames[t]), Len(call_stacks[t]), call_stacks[t], ret_addr, entryOf)
    BY <1>1, <2>1, <2>2, FrameReplace
  <2>4. ThreadOK(SetTop(frames[t], h), call_stacks[t], ret_addr, entryOf)
    BY <2>1, <2>2, <2>3, ThreadReplaceTop
  <2>5. QED
    BY <2>1, <2>4 DEF h
<1>3. CASE RoutingDBI(t)
  <2> DEFINE h == [Top(t) EXCEPT !.pc = "dbi_end"]
  <2>1. Callee(h) /\ ThreadOK(SetTop(frames[t], h), call_stacks[t], ret_addr, entryOf)
    BY <1>2
  <2>2. InvokeCallback(t, h, "dbi", Top(t).fn \in HasDbi)
    BY <1>3 DEF RoutingDBI
  <2> HIDE DEF h
  <2>3. call_stacks'[t] \in Seq(CallIds)
        /\ ThreadOK(SetTop(frames[t], h), call_stacks'[t], ret_addr', entryOf')
    BY <1>1, <2>1
  <2>4. /\ ThreadOK(frames'[t], call_stacks'[t], ret_addr', entryOf')
        /\ ip'[t] = Len(frames'[t])
        /\ \A u \in Threads : u # t => frames'[u] = frames[u] /\ ip'[u] = ip[u]
    BY <1>1, <2>1, <2>2, <2>3, CallbackThreads
  <2>5. QED
    BY <1>1, <2>4, ThreadsStep
<1>4. CASE RoutingDBINextHop(t)
  <2> DEFINE h == [Top(t) EXCEPT !.pc = "code"]
  <2>1. ThreadOK(SetTop(frames[t], h), call_stacks[t], ret_addr, entryOf)
    BY <1>2
  <2>2. SetFrames(t, SetTop(frames[t], h))
    BY <1>4 DEF RoutingDBINextHop
  <2> HIDE DEF h
  <2>3. TypeInv
    BY DEF RoutingInv
  <2>4. QED
    BY <1>1, <2>1, <2>2, <2>3, SetFramesFacts, ThreadsStep
<1>5. QED
  BY <1>3, <1>4

LEMMA ReturnThreads ==
  ASSUME RoutingInv, NEW t \in Threads, Return(t)
  PROVE  ThreadsOK'
<1>1. /\ UNCHANGED <<ret_addr, entryOf, call_stacks>>
      /\ Top(t).pc # "main" /\ Top(t).pc \notin Handlers
      /\ Jump(t, Top(t).lr)
  BY DEF Return, InUserCode, UserCode, Handlers, threadStackVars
<1>2. /\ Top(t).lr \in Addr
      /\ Top(t).lr = Returns(Top(t), Len(frames[t]), Len(call_stacks[t]), call_stacks[t], entryOf)
  BY <1>1, TopFacts DEF Frame, FrameOK, Handlers
<1>3. /\ ThreadOK(frames'[t], call_stacks[t], ret_addr, entryOf)
      /\ ip'[t] = Len(frames'[t])
      /\ \A u \in Threads : u # t => frames'[u] = frames[u] /\ ip'[u] = ip[u]
  BY <1>1, <1>2, JumpThread DEF Handlers
<1>4. QED
  BY <1>1, <1>3, ThreadsStep

(* ------------------------------------------------------------------------ *)
(* The call_stacks in use                                                      *)

SameEnds(r, s) == Ends(r) = Ends(s) /\ \A k \in Ends(s) : r[k].id = s[k].id

LEMMA SameEndsIds ==
  ASSUME NEW r, NEW s, SameEnds(r, s), NEW cs
  PROVE  IdsOf(r, cs) = IdsOf(s, cs) /\ (Distinct(s, cs) => Distinct(r, cs))
<1>1. {r[k].id : k \in Ends(r)} = {s[k].id : k \in Ends(s)}
  BY DEF SameEnds
<1>2. Distinct(s, cs) => Distinct(r, cs)
  BY DEF SameEnds, Distinct
<1>3. QED
  BY <1>1, <1>2 DEF IdsOf

LEMMA EndsPush ==
  ASSUME NEW s, Stack(s), NEW fr, Callee(fr), fr.pc # "end"
  PROVE  SameEnds(Append(s, fr), s)
<1> DEFINE q == Append(s, fr)
<1>1. Len(s) \in Nat /\ Len(q) = Len(s) + 1 /\ q[Len(s) + 1] = fr
      /\ \A k \in 1..Len(s) : q[k] = s[k]
  BY StackTop, AppendProperties DEF Stack, Callee
<1> HIDE DEF q
<1>2. Ends(q) = Ends(s)
  <2>1. \A k \in 1..Len(q) : k \in 1..Len(s) \/ k = Len(s) + 1
    BY <1>1
  <2>2. \A k \in 1..Len(s) : k \in 1..Len(q)
    BY <1>1
  <2>3. QED
    BY <1>1, <2>1, <2>2 DEF Ends
<1>3. SameEnds(q, s)
  BY <1>1, <1>2 DEF SameEnds, Ends
<1>4. QED
  BY <1>3 DEF q

LEMMA EndsSetTop ==
  ASSUME NEW s, Stack(s), NEW fr, Callee(fr)
  PROVE  /\ Ends(SetTop(s, fr)) = (Ends(s) \ {Len(s)})
                                    \cup (IF fr.pc = "end" THEN {Len(s)} ELSE {})
         /\ \A k \in Ends(s) \ {Len(s)} : SetTop(s, fr)[k] = s[k]
         /\ SetTop(s, fr)[Len(s)] = fr
<1> DEFINE q == SetTop(s, fr)
<1>1. Len(s) \in Nat \ {0} /\ s \in Seq(Frame) /\ s # << >> /\ fr \in Frame
  BY StackTop DEF Stack, Callee
<1>2. Len(q) = Len(s) /\ \A k \in 1..Len(s) : q[k] = IF k = Len(s) THEN fr ELSE s[k]
  BY <1>1, SetTopProperties
<1> HIDE DEF q
<1>3. Len(s) \in 1..Len(s)
  BY <1>1
<1>4. Ends(q) = (Ends(s) \ {Len(s)}) \cup (IF fr.pc = "end" THEN {Len(s)} ELSE {})
  BY <1>2, <1>3 DEF Ends
<1>5. (\A k \in Ends(s) \ {Len(s)} : q[k] = s[k]) /\ q[Len(s)] = fr
  BY <1>2, <1>3 DEF Ends
<1>6. QED
  BY <1>4, <1>5 DEF q

LEMMA EndsReplace ==
  ASSUME NEW s, Stack(s), s[Len(s)].pc # "end", NEW fr, Callee(fr), fr.pc # "end"
  PROVE  SameEnds(SetTop(s, fr), s)
<1>1. Len(s) \notin Ends(s)
  BY DEF Ends
<1>2. Ends(SetTop(s, fr)) = (Ends(s) \ {Len(s)}) \cup {}
      /\ \A k \in Ends(s) \ {Len(s)} : SetTop(s, fr)[k] = s[k]
  BY EndsSetTop
<1>3. Ends(SetTop(s, fr)) = Ends(s) /\ \A k \in Ends(s) : SetTop(s, fr)[k] = s[k]
  BY <1>1, <1>2
<1>4. QED
  BY <1>3 DEF SameEnds

\* A branch to a leave trampoline or a return: the top frame's handler, if any, is gone
LEMMA EndsJump ==
  ASSUME FramesOK, NEW t \in Threads, Top(t).pc # "main", NEW a \in Addr, Jump(t, a)
  PROVE  /\ Ends(frames'[t]) = Ends(frames[t]) \ {Len(frames[t])}
         /\ \A k \in Ends(frames'[t]) : frames'[t][k] = frames[t][k]
<1> DEFINE s == frames[t]
<1>1. Stack(s) /\ s[Len(s)].pc # "main" /\ Len(s) \in Nat \ {0}
  BY StackTop DEF FramesOK, Top, Depth
<1>2. CASE a[1] = "site"
  <2> DEFINE q == SubSeq(s, 1, Len(s) - 1)
  <2>1. frames'[t] = q
    BY <1>2 DEF Jump, FramesOK
  <2>2. Len(q) = Len(s) - 1 /\ \A k \in 1..Len(s) - 1 : q[k] = s[k]
    BY <1>1, PopProperties DEF Stack
  <2> HIDE DEF q
  <2>3. \A k : k \in 1..Len(s) - 1 <=> k \in 1..Len(s) /\ k # Len(s)
    BY <1>1
  <2>4. Ends(q) = Ends(s) \ {Len(s)} /\ \A k \in Ends(q) : q[k] = s[k]
    BY <2>2, <2>3 DEF Ends
  <2>5. QED
    BY <2>1, <2>4
<1>3. CASE a[1] # "site"
  <2> DEFINE fr == NewFrame("leave", a[2], a, NULL, Top(t).mark)
  <2>1. Callee(fr)
    <3>1. a[2] \in Functions
      BY <1>3, HooksAssumption DEF Addr
    <3>2. Top(t).mark \in Nat
      BY <1>1, StackTop DEF Top, Depth, Frame
    <3>3. QED
      BY <3>1, <3>2 DEF Callee, Frame, NewFrame, Pc, UserCode
  <2>2. frames'[t] = SetTop(s, fr)
    BY <1>3 DEF Jump, SetFrames, FramesOK
  <2>3. fr.pc # "end"
    BY DEF NewFrame
  <2> HIDE DEF fr
  <2>4. Ends(SetTop(s, fr)) = Ends(s) \ {Len(s)}
        /\ \A k \in Ends(s) \ {Len(s)} : SetTop(s, fr)[k] = s[k]
    BY <1>1, <2>1, <2>3, EndsSetTop
  <2>5. QED
    BY <2>2, <2>4
<1>4. QED
  BY <1>2, <1>3

\* One thread steps, gives up the call_stacks of D and takes those of A
LEMMA IdsStep ==
  ASSUME IdsOK, NEW t \in Threads, NEW D, NEW A,
         \A u \in Threads : u # t => /\ frames'[u] = frames[u]
                                     /\ call_stacks'[u] = call_stacks[u],
         Distinct(frames'[t], call_stacks'[t]),
         D \subseteq IdsOf(frames[t], call_stacks[t]), A \cap allocated = {},
         IdsOf(frames'[t], call_stacks'[t]) = (IdsOf(frames[t], call_stacks[t]) \ D) \cup A,
         allocated' = (allocated \ D) \cup A
  PROVE  IdsOK'
<1> DEFINE I(u) == IdsOf(frames[u], call_stacks[u])
           J(u) == IdsOf(frames'[u], call_stacks'[u])
<1>1. /\ \A u \in Threads : u # t => J(u) = I(u)
      /\ J(t) = (I(t) \ D) \cup A
      /\ D \subseteq I(t) /\ A \cap allocated = {}
  OBVIOUS
<1>2. /\ \A u, v \in Threads : u # v => I(u) \cap I(v) = {}
      /\ allocated = UNION {I(u) : u \in Threads}
  BY DEF IdsOK
<1>3. \A u \in Threads : Distinct(frames'[u], call_stacks'[u])
  BY DEF IdsOK
<1> HIDE DEF I, J
<1>4. \A u \in Threads : I(u) \subseteq allocated
  BY <1>2
<1>5. \A u, v \in Threads : u # v => J(u) \cap J(v) = {}
  BY <1>1, <1>2, <1>4
<1>6. allocated' = UNION {J(u) : u \in Threads}
  <2>1. ASSUME NEW x \in allocated' PROVE \E u \in Threads : x \in J(u)
    BY <1>1, <1>2, <2>1
  <2>2. ASSUME NEW u \in Threads, NEW x \in J(u) PROVE x \in allocated'
    <3>1. CASE u = t
      BY <1>1, <1>4, <2>2, <3>1
    <3>2. CASE u # t
      BY <1>1, <1>2, <1>4, <2>2, <3>2
    <3>3. QED
      BY <3>1, <3>2
  <2>3. QED
    BY <2>1, <2>2
<1>7. QED
  BY <1>3, <1>5, <1>6 DEF IdsOK, I, J

\* One thread steps and the call_stacks stay where they are
LEMMA IdsSame ==
  ASSUME RoutingInv, NEW t \in Threads, UNCHANGED <<call_stacks, allocated>>,
         \A u \in Threads : u # t => frames'[u] = frames[u],
         SameEnds(frames'[t], frames[t])
  PROVE  IdsOK'
<1>1. IdsOK /\ Distinct(frames[t], call_stacks[t])
  BY DEF RoutingInv, IdsOK
<1>2. /\ Distinct(frames'[t], call_stacks[t])
      /\ IdsOf(frames'[t], call_stacks[t]) = IdsOf(frames[t], call_stacks[t])
  BY <1>1, SameEndsIds
<1> DEFINE D == {}
<1>3. /\ Distinct(frames'[t], call_stacks'[t])
      /\ IdsOf(frames'[t], call_stacks'[t]) = (IdsOf(frames[t], call_stacks[t]) \ D) \cup D
      /\ allocated' = (allocated \ D) \cup D
      /\ D \subseteq IdsOf(frames[t], call_stacks[t]) /\ D \cap allocated = {}
  BY <1>2
<1>4. \A u \in Threads : u # t => frames'[u] = frames[u] /\ call_stacks'[u] = call_stacks[u]
  OBVIOUS
<1> HIDE DEF D
<1>5. QED
  BY <1>1, <1>3, <1>4, IdsStep

\* A callback's frame holds no call_stack of its own
LEMMA CallbackEnds ==
  ASSUME TypeInv, NEW t \in Threads, Top(t).pc # "main", NEW h, Callee(h),
         NEW pc \in {"pre", "post", "dbi"}, NEW present, Len(call_stacks'[t]) \in Nat,
         InvokeCallback(t, h, pc, present)
  PROVE  /\ SameEnds(frames'[t], SetTop(frames[t], h))
         /\ \A u \in Threads : u # t => frames'[u] = frames[u]
<1> DEFINE q == SetTop(frames[t], h)
           fr == NewFrame(pc, h.fn, SiteAddr(Depth(t)), h.id, Len(call_stacks'[t]))
           r == IF present THEN Append(q, fr) ELSE q
<1>1. Stack(q) /\ Depth(t) \in Nat
  BY StackTop, StackSetTop DEF TypeInv, Top, Depth
<1>2. Callee(fr) /\ fr.pc # "end"
  BY <1>1 DEF Callee, Frame, NewFrame, Pc, UserCode, SiteAddr, Addr
<1>3. SetFrames(t, r)
  BY DEF InvokeCallback
<1> HIDE DEF q, fr
<1>4. SameEnds(Append(q, fr), q)
  BY <1>1, <1>2, EndsPush
<1>5. SameEnds(q, q)
  BY DEF SameEnds
<1>6. SameEnds(r, q)
  BY <1>4, <1>5
<1> HIDE DEF r
<1>7. frames'[t] = r /\ \A u \in Threads : u # t => frames'[u] = frames[u]
  BY <1>3, SetFramesFacts
<1>8. QED
  BY <1>6, <1>7 DEF q

LEMMA BranchIds ==
  ASSUME RoutingInv, NEW t \in Threads, NEW f \in Functions,
         NEW pc \in Pc \ {"main", "begin", "leave", "end"}, pc = "enter" => f \in Wrapped,
         Branch(t, f, pc) \/ TailBranch(t, f, pc)
  PROVE  IdsOK'
<1> DEFINE s == frames[t]
<1>1. /\ UNCHANGED <<call_stacks, allocated>> /\ Top(t).pc # "end" /\ TypeInv
      /\ Stack(s) /\ Top(t) = s[Len(s)] /\ Depth(t) = Len(s) /\ Len(s) \in Nat
      /\ Len(call_stacks[t]) \in Nat /\ Top(t) \in Frame
  BY TopFacts DEF Branch, TailBranch, InUserCode, UserCode, threadStackVars, RoutingInv
<1>2. CASE Branch(t, f, pc)
  <2> DEFINE fr == NewFrame(pc, f, SiteAddr(Depth(t)), NULL, Len(call_stacks[t]))
  <2>1. Callee(fr) /\ fr.pc # "end"
    BY <1>1 DEF Callee, Frame, NewFrame, SiteAddr, Addr
  <2>2. SetFrames(t, Append(s, fr))
    BY <1>2 DEF Branch
  <2> HIDE DEF fr
  <2>3. SameEnds(Append(s, fr), s)
    BY <1>1, <2>1, EndsPush
  <2>4. QED
    BY <1>1, <2>2, <2>3, SetFramesFacts, IdsSame
<1>3. CASE TailBranch(t, f, pc)
  <2> DEFINE fr == NewFrame(pc, f, Top(t).lr, NULL, Top(t).mark)
  <2>1. Callee(fr) /\ fr.pc # "end"
    BY <1>1 DEF Callee, Frame, NewFrame
  <2>2. SetFrames(t, SetTop(s, fr))
    BY <1>3 DEF TailBranch
  <2> HIDE DEF fr
  <2>3. SameEnds(SetTop(s, fr), s)
    BY <1>1, <2>1, EndsReplace
  <2>4. QED
    BY <1>1, <2>2, <2>3, SetFramesFacts, IdsSame
<1>4. QED
  BY <1>2, <1>3

LEMMA BeginIds ==
  ASSUME RoutingInv, NEW t \in Threads, RoutingBegin(t)
  PROVE  IdsOK'
<1> PICK id \in CallIds :
      /\ NewCallStack(id, NullAddr)
      /\ PushCallStack(t, id)
      /\ entryOf' = [entryOf EXCEPT ![id] = Top(t).fn]
      /\ InvokeCallback(t, [Top(t) EXCEPT !.pc = "begin", !.id = id],
                        "pre", Top(t).fn \in HasPre)
  BY Zenon DEF RoutingBegin
<1> DEFINE h == [Top(t) EXCEPT !.pc = "begin", !.id = id]
           s == frames[t]
           cs == call_stacks[t]
           ds == Append(cs, id)
<1>1. /\ Stack(s) /\ cs \in Seq(CallIds) /\ TypeInv /\ Len(cs) \in Nat
      /\ Top(t) = s[Len(s)] /\ Distinct(s, cs) /\ IdsOK
  BY TopFacts DEF RoutingInv, IdsOK
<1>2. Top(t).pc = "enter" /\ Callee(Top(t)) /\ Top(t).fn \in Wrapped
  BY TopFacts DEF RoutingBegin, At, Callee
<1>3. Callee(h) /\ h.pc # "end"
  BY <1>2 DEF Callee, Frame, Pc
<1>4. /\ call_stacks'[t] = ds
      /\ \A u \in Threads : u # t => call_stacks'[u] = call_stacks[u]
      /\ id \notin allocated /\ allocated' = allocated \cup {id}
  BY DEF PushCallStack, NewCallStack, RoutingInv, TypeInv, TypeOK
<1>5. Len(ds) = Len(cs) + 1 /\ ds[Len(cs) + 1] = id /\ \A i \in 1..Len(cs) : ds[i] = cs[i]
  BY <1>1, AppendProperties
<1>6. InvokeCallback(t, h, "pre", Top(t).fn \in HasPre)
  OBVIOUS
<1>7. IdsOf(s, cs) \subseteq allocated
  BY DEF RoutingInv, IdsOK
<1> HIDE DEF h, s, cs, ds
<1>8. Len(call_stacks'[t]) \in Nat
  BY <1>1, <1>4, <1>5
<1>9. SameEnds(frames'[t], SetTop(frames[t], h)) /\ \A u \in Threads : u # t => frames'[u] = frames[u]
  BY <1>1, <1>2, <1>3, <1>6, <1>8, CallbackEnds
<1>10. SameEnds(SetTop(s, h), s)
  BY <1>1, <1>2, <1>3, EndsReplace
<1>11. SameEnds(frames'[t], s)
  BY <1>9, <1>10 DEF SameEnds, s
<1>12. Distinct(s, ds) /\ IdsOf(s, ds) = IdsOf(s, cs) \cup {id}
  <2>1. \A i \in 1..Len(ds) : i \in 1..Len(cs) \/ i = Len(cs) + 1
    BY <1>1, <1>5
  <2>2. \A i \in 1..Len(cs) : i \in 1..Len(ds) /\ cs[i] # id
    BY <1>1, <1>4, <1>5, <1>7 DEF IdsOf
  <2>3. \A k \in Ends(s) : s[k].id # id
    BY <1>4, <1>7 DEF IdsOf
  <2>4. Len(cs) + 1 \in 1..Len(ds)
    BY <1>1, <1>5
  <2>5. Distinct(s, ds)
    BY <1>1, <1>5, <2>1, <2>2, <2>3 DEF Distinct
  <2>6. {ds[i] : i \in 1..Len(ds)} = {cs[i] : i \in 1..Len(cs)} \cup {id}
    BY <1>5, <2>1, <2>2, <2>4
  <2>7. QED
    BY <2>5, <2>6 DEF IdsOf
<1>13. Distinct(frames'[t], ds) /\ IdsOf(frames'[t], ds) = IdsOf(s, cs) \cup {id}
  BY <1>11, <1>12, SameEndsIds
<1> DEFINE D == {}
           A == {id}
<1>14. /\ Distinct(frames'[t], call_stacks'[t])
       /\ IdsOf(frames'[t], call_stacks'[t]) = (IdsOf(frames[t], call_stacks[t]) \ D) \cup A
       /\ allocated' = (allocated \ D) \cup A
       /\ D \subseteq IdsOf(frames[t], call_stacks[t]) /\ A \cap allocated = {}
  BY <1>4, <1>13 DEF s, cs
<1> HIDE DEF D, A
<1>15. QED
  BY <1>1, <1>4, <1>9, <1>14, IdsStep

LEMMA BeginNextHopIds ==
  ASSUME RoutingInv, NEW t \in Threads, RoutingBeginNextHop(t)
  PROVE  IdsOK'
<1> DEFINE h == NewFrame("code", Top(t).fn, LeaveAddr(Top(t).fn), NULL, Top(t).mark)
<1>1. /\ Stack(frames[t]) /\ Top(t) = frames[t][Len(frames[t])] /\ TypeInv
      /\ Top(t).pc = "begin" /\ Callee(Top(t)) /\ Top(t).fn \in Wrapped
  BY TopFacts DEF RoutingBeginNextHop, At, Callee, RoutingInv
<1>2. Callee(h) /\ h.pc # "end"
  BY <1>1, HooksAssumption DEF Callee, Frame, NewFrame, Pc, UserCode, LeaveAddr, Addr
<1>3. SetFrames(t, SetTop(frames[t], h)) /\ UNCHANGED <<call_stacks, allocated>>
  BY DEF RoutingBeginNextHop
<1> HIDE DEF h
<1>4. SameEnds(SetTop(frames[t], h), frames[t])
  BY <1>1, <1>2, EndsReplace
<1>5. QED
  BY <1>1, <1>3, <1>4, SetFramesFacts, IdsSame

LEMMA EndIds ==
  ASSUME RoutingInv, NEW t \in Threads, RoutingEnd(t)
  PROVE  IdsOK'
<1> DEFINE h == [Top(t) EXCEPT !.pc = "end", !.id = LastCallStack(t)]
           s == frames[t]
           cs == call_stacks[t]
           n == Len(s)
           m == Len(cs)
           ds == SubSeq(cs, 1, m - 1)
           q == SetTop(s, h)
<1>1. /\ Stack(s) /\ cs \in Seq(CallIds) /\ cs # << >> /\ TypeInv /\ m \in Nat \ {0}
      /\ Top(t) = s[n] /\ Distinct(s, cs) /\ IdsOK
  BY TopFacts, EmptySeq DEF RoutingEnd, RoutingInv, IdsOK
<1>2. Top(t).pc = "leave" /\ Callee(Top(t))
  BY TopFacts DEF RoutingEnd, At
<1>3. LastCallStack(t) = cs[m] /\ cs[m] \in CallIds
  BY <1>1, ElementOfSeq DEF LastCallStack
<1>4. Callee(h) /\ h.pc = "end" /\ h.id = cs[m]
  BY <1>2, <1>3 DEF Callee, Frame, Pc
<1>5. InvokeCallback(t, h, "post", Top(t).fn \in HasPost) /\ allocated' = allocated
  BY DEF RoutingEnd
<1>6. call_stacks'[t] = ds /\ \A u \in Threads : u # t => call_stacks'[u] = call_stacks[u]
  BY DEF RoutingEnd, PopCallStack, RoutingInv, TypeInv, TypeOK
<1>7. Len(ds) = m - 1 /\ \A i \in 1..m - 1 : ds[i] = cs[i]
  BY <1>1, PopProperties
<1>8. n \notin Ends(s)
  BY <1>1, <1>2 DEF Ends
<1> HIDE DEF h
<1>9. /\ Ends(q) = (Ends(s) \ {n}) \cup {n} /\ q[n] = h
      /\ \A k \in Ends(s) \ {n} : q[k] = s[k]
  BY <1>1, <1>4, EndsSetTop
<1> HIDE DEF n, m, ds, q
<1>10. Len(call_stacks'[t]) \in Nat
  BY <1>1, <1>6, <1>7
<1>11. SameEnds(frames'[t], q) /\ \A u \in Threads : u # t => frames'[u] = frames[u]
  BY <1>1, <1>2, <1>4, <1>5, <1>10, CallbackEnds DEF q
<1>12. Distinct(q, ds) /\ IdsOf(q, ds) = IdsOf(s, cs)
  <2>1. \A i \in 1..m : i \in 1..m - 1 \/ i = m
    BY <1>1
  <2>2. \A i \in 1..m - 1 : i \in 1..m /\ i # m
    BY <1>1
  <2>3. m \in 1..m
    BY <1>1
  <2>4. /\ \A i, j \in 1..m : cs[i] = cs[j] => i = j
        /\ \A k, l \in Ends(s) : s[k].id = s[l].id => k = l
        /\ \A i \in 1..m, k \in Ends(s) : cs[i] # s[k].id
    BY <1>1 DEF Distinct, m
  <2>5. \A k \in Ends(q) : (k = n /\ q[k].id = cs[m]) \/ (k # n /\ k \in Ends(s) /\ q[k].id = s[k].id)
    BY <1>4, <1>8, <1>9
  <2>6. \A i, j \in 1..Len(ds) : ds[i] = ds[j] => i = j
    BY <1>7, <2>2, <2>4
  <2>7. \A k, l \in Ends(q) : q[k].id = q[l].id => k = l
    BY <2>3, <2>4, <2>5
  <2>8. \A i \in 1..Len(ds), k \in Ends(q) : ds[i] # q[k].id
    BY <1>7, <2>2, <2>3, <2>4, <2>5
  <2>9. {cs[i] : i \in 1..m} = {ds[i] : i \in 1..Len(ds)} \cup {cs[m]}
    BY <1>7, <2>1, <2>2, <2>3
  <2>10. {q[k].id : k \in Ends(q)} = {s[k].id : k \in Ends(s)} \cup {cs[m]}
    BY <1>4, <1>8, <1>9
  <2>11. IdsOf(q, ds) = IdsOf(s, cs)
    BY <2>9, <2>10 DEF IdsOf, m
  <2>12. QED
    BY <2>6, <2>7, <2>8, <2>11 DEF Distinct
<1>13. Distinct(frames'[t], ds) /\ IdsOf(frames'[t], ds) = IdsOf(s, cs)
  BY <1>11, <1>12, SameEndsIds
<1> DEFINE D == {}
<1>14. /\ Distinct(frames'[t], call_stacks'[t])
       /\ IdsOf(frames'[t], call_stacks'[t]) = (IdsOf(s, cs) \ D) \cup D
       /\ allocated' = (allocated \ D) \cup D
       /\ D \subseteq IdsOf(s, cs) /\ D \cap allocated = {}
  BY <1>5, <1>6, <1>13
<1> HIDE DEF D
<1>15. QED
  BY <1>1, <1>6, <1>11, <1>14, IdsStep

LEMMA DBIIds ==
  ASSUME RoutingInv, NEW t \in Threads, RoutingDBI(t) \/ RoutingDBINextHop(t)
  PROVE  IdsOK'
<1>1. /\ Stack(frames[t]) /\ Top(t) = frames[t][Len(frames[t])] /\ TypeInv
      /\ UNCHANGED <<call_stacks, allocated>> /\ Len(call_stacks[t]) \in Nat
      /\ Top(t).pc \in {"dbi_enter", "dbi_end"} /\ Callee(Top(t))
  BY TopFacts DEF RoutingDBI, RoutingDBINextHop, At, threadStackVars, RoutingInv
<1>2. CASE RoutingDBI(t)
  <2> DEFINE h == [Top(t) EXCEPT !.pc = "dbi_end"]
  <2>1. Callee(h) /\ h.pc # "end"
    BY <1>1 DEF Callee, Frame, Pc
  <2>2. InvokeCallback(t, h, "dbi", Top(t).fn \in HasDbi)
    BY <1>2 DEF RoutingDBI
  <2> HIDE DEF h
  <2>3. Len(call_stacks'[t]) \in Nat
    BY <1>1
  <2>4. SameEnds(frames'[t], SetTop(frames[t], h))
        /\ \A u \in Threads : u # t => frames'[u] = frames[u]
    BY <1>1, <2>1, <2>2, <2>3, CallbackEnds
  <2>5. SameEnds(SetTop(frames[t], h), frames[t])
    BY <1>1, <2>1, EndsReplace
  <2>6. SameEnds(frames'[t], frames[t])
    BY <2>4, <2>5 DEF SameEnds
  <2>7. QED
    BY <1>1, <2>4, <2>6, IdsSame
<1>3. CASE RoutingDBINextHop(t)
  <2> DEFINE h == [Top(t) EXCEPT !.pc = "code"]
  <2>1. Callee(h) /\ h.pc # "end"
    BY <1>1 DEF Callee, Frame, Pc, UserCode
  <2>2. SetFrames(t, SetTop(frames[t], h))
    BY <1>3 DEF RoutingDBINextHop
  <2> HIDE DEF h
  <2>3. SameEnds(SetTop(frames[t], h), frames[t])
    BY <1>1, <2>1, EndsReplace
  <2>4. QED
    BY <1>1, <2>2, <2>3, SetFramesFacts, IdsSame
<1>4. QED
  BY <1>2, <1>3

LEMMA ReturnIds ==
  ASSUME RoutingInv, NEW t \in Threads, Return(t)
  PROVE  IdsOK'
<1>1. /\ UNCHANGED <<call_stacks, allocated>> /\ FramesOK
      /\ Top(t).pc # "main" /\ Top(t).pc # "end" /\ Top(t).lr \in Addr
      /\ Top(t) = frames[t][Len(frames[t])] /\ Jump(t, Top(t).lr)
  BY TopFacts DEF Return, InUserCode, UserCode, threadStackVars, RoutingInv, TypeInv,
                  TypeOK, FramesOK, Frame
<1>2. Len(frames[t]) \notin Ends(frames[t])
  BY <1>1 DEF Ends
<1>3. /\ Ends(frames'[t]) = Ends(frames[t]) \ {Len(frames[t])}
      /\ \A k \in Ends(frames'[t]) : frames'[t][k] = frames[t][k]
  BY <1>1, EndsJump
<1>4. SameEnds(frames'[t], frames[t])
  BY <1>2, <1>3 DEF SameEnds
<1>5. \A u \in Threads : u # t => frames'[u] = frames[u]
  BY <1>1 DEF Jump, SetFrames, FramesOK
<1>6. QED
  BY <1>1, <1>4, <1>5, IdsSame

\* The next hop of routing_end: the popped call_stack is gone with its handler
LEMMA EndNextHopInv ==
  ASSUME RoutingInv, NEW t \in Threads, RoutingEndNextHop(t)
  PROVE  IdsOK' /\ ThreadsOK'
<1> DEFINE s == frames[t]
           n == Len(s)
           cs == call_stacks[t]
           r == frames'[t]
           id == Top(t).id
           a == ret_addr[id]
<1>1. /\ Stack(s) /\ cs \in Seq(CallIds) /\ Top(t) = s[n] /\ n \in Nat \ {0} /\ FramesOK
      /\ Distinct(s, cs) /\ IdsOK
      /\ FrameOK(Top(t), n, Len(cs), cs, ret_addr, entryOf)
  BY TopFacts DEF RoutingInv, IdsOK, TypeInv, TypeOK, FramesOK
<1>2. Top(t).pc = "end" /\ Callee(Top(t)) /\ id \in CallIds
  BY TopFacts DEF RoutingEndNextHop, At, Callee
<1>3. a \in Addr /\ a = Returns(Top(t), n, Len(cs), cs, entryOf)
  BY <1>1, <1>2 DEF FrameOK, RoutingInv, TypeInv, TypeOK
<1>4. /\ Jump(t, a) /\ call_stacks' = call_stacks /\ allocated' = allocated \ {id}
      /\ WritesOnly(id, ret_addr, entryOf, ret_addr', entryOf')
  BY DEF RoutingEndNextHop, DestroyCallStack, WritesOnly, RoutingInv, TypeInv, TypeOK
<1>5. n \in Ends(s) /\ s[n].id = id
  BY <1>1, <1>2 DEF Ends
<1>6. /\ Ends(r) = Ends(s) \ {n} /\ \A k \in Ends(r) : r[k] = s[k]
  BY <1>1, <1>2, <1>3, <1>4, EndsJump
<1>7. /\ ThreadOK(r, cs, ret_addr, entryOf) /\ ip'[t] = Len(r)
      /\ \A u \in Threads : u # t => frames'[u] = frames[u] /\ ip'[u] = ip[u]
  BY <1>2, <1>3, <1>4, JumpThread
<1>8. Stack(r)
  BY <1>1, <1>2, <1>3, <1>4, JumpType DEF FramesOK
<1>9. Distinct(r, cs) /\ IdsOf(r, cs) = IdsOf(s, cs) \ {id}
  <2>1. Distinct(r, cs)
    BY <1>1, <1>6 DEF Distinct
  <2>2. \A k \in Ends(r) : r[k].id = s[k].id /\ r[k].id # id
    BY <1>1, <1>5, <1>6 DEF Distinct
  <2>3. \A i \in 1..Len(cs) : cs[i] # id
    BY <1>1, <1>5 DEF Distinct
  <2>4. QED
    BY <1>5, <1>6, <2>1, <2>2, <2>3 DEF IdsOf
<1>10. IdsOK'
  <2> DEFINE D == {id}
             A == {}
  <2>1. /\ Distinct(frames'[t], call_stacks'[t])
        /\ IdsOf(frames'[t], call_stacks'[t]) = (IdsOf(s, cs) \ D) \cup A
        /\ allocated' = (allocated \ D) \cup A
        /\ D \subseteq IdsOf(s, cs) /\ A \cap allocated = {}
    BY <1>4, <1>5, <1>9 DEF IdsOf
  <2> HIDE DEF D, A, s, cs, r, id, a
  <2>2. QED
    BY <1>1, <1>4, <1>7, <2>1, IdsStep DEF s, cs
<1>11. ThreadsOK'
  <2> DEFINE rb == ret_addr'
             fo == entryOf'
  <2>1. Avoids(r, cs, id)
    BY <1>9 DEF Avoids, IdsOf
  <2>2. \A u \in Threads : u # t => Avoids(frames[u], call_stacks[u], id)
    <3> SUFFICES ASSUME NEW u \in Threads, u # t
                 PROVE  Avoids(frames[u], call_stacks[u], id)
      OBVIOUS
    <3>1. id \in IdsOf(s, cs)
      BY <1>5 DEF IdsOf
    <3>2. id \notin IdsOf(frames[u], call_stacks[u])
      BY <1>1, <3>1 DEF IdsOK
    <3>3. QED
      BY <3>2 DEF Avoids, IdsOf
  <2>3. WritesOnly(id, ret_addr, entryOf, rb, fo)
    BY <1>4
  <2> HIDE DEF rb, fo, r, cs, id, s
  <2>4. ThreadOK(r, cs, rb, fo)
    BY <1>1, <1>7, <1>8, <2>1, <2>3, CarryWrite
  <2>5. ThreadOK(frames'[t], call_stacks'[t], ret_addr', entryOf')
    BY <1>4, <2>4 DEF r, cs, rb, fo
  <2>6. QED
    BY <1>4, <1>7, <2>2, <2>5, ThreadsWrite DEF r
<1>12. QED
  BY <1>10, <1>11

(* ------------------------------------------------------------------------ *)
(* The theorems                                                                *)

LEMMA RoutingInit == Init => RoutingInv
<1> SUFFICES ASSUME Init PROVE RoutingInv
  OBVIOUS
<1>1. /\ \A t \in Threads : frames[t] = <<MainFrame>> /\ call_stacks[t] = << >> /\ ip[t] = 1
      /\ allocated = {}
  BY DEF Init, ThreadStackInit
<1>2. Len(<<MainFrame>>) = 1 /\ <<MainFrame>>[1] = MainFrame /\ Len(<< >>) = 0
  OBVIOUS
<1>3. MainFrame.pc = "main" /\ MainFrame.lr = SiteAddr(0) /\ MainFrame.mark = 0
  BY DEF MainFrame, NewFrame, NullAddr
<1>4. Ends(<<MainFrame>>) = {}
  BY <1>2, <1>3 DEF Ends
<1>5. IdsOf(<<MainFrame>>, << >>) = {} /\ Distinct(<<MainFrame>>, << >>)
  BY <1>2, <1>4 DEF IdsOf, Distinct
<1>6. FrameOK(MainFrame, 1, 0, << >>, ret_addr, entryOf)
  BY <1>2, <1>3 DEF FrameOK, Returns
<1>7. ThreadOK(<<MainFrame>>, << >>, ret_addr, entryOf)
  <2>1. \A k \in 1..1 : k = 1
    OBVIOUS
  <2>2. UpperOf(<<MainFrame>>, << >>, 1) = 0
    BY <1>2 DEF UpperOf
  <2>3. QED
    BY <1>2, <1>3, <1>6, <2>1, <2>2 DEF ThreadOK
<1>8. IdsOK
  BY <1>1, <1>5 DEF IdsOK
<1>9. ThreadsOK
  BY <1>1, <1>2, <1>7 DEF ThreadsOK
<1>10. QED
  BY <1>8, <1>9, TypeInit DEF RoutingInv

LEMMA RoutingStep == RoutingInv /\ [Next]_vars => RoutingInv'
<1> SUFFICES ASSUME RoutingInv, [Next]_vars PROVE IdsOK' /\ ThreadsOK'
  BY TypeStep DEF RoutingInv
<1>1. ASSUME NEW t \in Threads, RoutingBegin(t) PROVE IdsOK' /\ ThreadsOK'
  BY <1>1, BeginIds, BeginThreads
<1>2. ASSUME NEW t \in Threads, RoutingBeginNextHop(t) PROVE IdsOK' /\ ThreadsOK'
  BY <1>2, BeginNextHopIds, BeginNextHopThreads
<1>3. ASSUME NEW t \in Threads, RoutingEnd(t) PROVE IdsOK' /\ ThreadsOK'
  BY <1>3, EndIds, EndThreads
<1>4. ASSUME NEW t \in Threads, RoutingEndNextHop(t) PROVE IdsOK' /\ ThreadsOK'
  BY <1>4, EndNextHopInv
<1>5. ASSUME NEW t \in Threads, RoutingDBI(t) \/ RoutingDBINextHop(t)
      PROVE  IdsOK' /\ ThreadsOK'
  BY <1>5, DBIIds, DBIThreads
<1>6. ASSUME NEW t \in Threads, NEW f \in Functions,
             Call(t, f) \/ TailCall(t, f) \/ CallOrigin(t, f) \/ TailCallOrigin(t, f)
      PROVE  IdsOK' /\ ThreadsOK'
  <2>1. PICK pc \in Pc \ {"main", "begin", "leave", "end"} :
          /\ pc = "enter" => f \in Wrapped
          /\ Branch(t, f, pc) \/ TailBranch(t, f, pc)
    <3>1. CASE Call(t, f) \/ TailCall(t, f)
      <4>1. EntryPoint(f) \in Pc \ {"main", "begin", "leave", "end"}
        BY DEF EntryPoint, Pc, UserCode
      <4>2. EntryPoint(f) = "enter" => f \in Wrapped
        BY EntryPointType
      <4>3. QED
        BY <3>1, <4>1, <4>2 DEF Call, TailCall
    <3>2. CASE CallOrigin(t, f) \/ TailCallOrigin(t, f)
      <4>1. "code" \in Pc \ {"main", "begin", "leave", "end"} /\ "code" # "enter"
        BY DEF Pc, UserCode
      <4>2. QED
        BY <3>2, <4>1 DEF CallOrigin, TailCallOrigin
    <3>3. QED
      BY <1>6, <3>1, <3>2
  <2>2. QED
    BY <2>1, BranchIds, BranchThreads
<1>7. ASSUME NEW t \in Threads, Return(t) PROVE IdsOK' /\ ThreadsOK'
  BY <1>7, ReturnIds, ReturnThreads
<1>8. CASE UNCHANGED <<call_stacks, allocated, ret_addr, entryOf, frames, ip>>
  BY <1>8 DEF RoutingInv, IdsOK, ThreadsOK
<1>9. ASSUME NEW t \in Threads, NEW v \in Values, CallbackKvSet(t, v)
      PROVE  IdsOK' /\ ThreadsOK'
  BY <1>8, <1>9 DEF CallbackKvSet
<1>10. CASE UNCHANGED vars
  BY <1>8, <1>10 DEF vars
<1>11. QED
  BY <1>1, <1>2, <1>3, <1>4, <1>5, <1>6, <1>7, <1>9, <1>10
  DEF Next, Interceptor, Program

THEOREM RoutingInvariant == Spec => []RoutingInv
<1>1. QED
  BY RoutingInit, RoutingStep, PTL DEF Spec

(***************************************************************************)
(* However hooked functions nest, recurse, call each other last or are     *)
(* called by callbacks, a thread's program counter stays in the frame on   *)
(* top of its native stack: no diverted return goes to a wrong address.    *)
(***************************************************************************)
THEOREM ReturnsCorrect == Spec => []ReturnsToCaller
<1>1. RoutingInv => ReturnsToCaller
  BY DEF RoutingInv, ThreadsOK, ReturnsToCaller, Depth
<1>2. QED
  BY RoutingInvariant, <1>1, PTL

(***************************************************************************)
(* pop_call_stack always gives routing_end the call_stack that the         *)
(* routing_begin of the same hook made.                                    *)
(***************************************************************************)
THEOREM CallbacksPaired == Spec => []PostMatchesPre
<1>1. RoutingInv => PostMatchesPre
  <2> SUFFICES ASSUME RoutingInv, NEW t \in Threads, NEW k \in 1..Depth(t),
                      frames[t][k].pc = "end"
               PROVE  entryOf[frames[t][k].id] = frames[t][k].fn
    BY DEF PostMatchesPre
  <2>1. ThreadOK(frames[t], call_stacks[t], ret_addr, entryOf) /\ Depth(t) = Len(frames[t])
    BY DEF RoutingInv, ThreadsOK, Depth
  <2>2. FrameOK(frames[t][k], k, UpperOf(frames[t], call_stacks[t], k), call_stacks[t],
                ret_addr, entryOf)
    BY <2>1 DEF ThreadOK
  <2>3. QED
    BY <2>2 DEF FrameOK
<1>2. QED
  BY RoutingInvariant, <1>1, PTL

(***************************************************************************)
(* routing_end never finds an empty list, and a thread that is back in its *)
(* first function has popped all it pushed.                                *)
(***************************************************************************)
THEOREM PushesAndPopsMatch == Spec => []PushesMatchPops
<1>1. RoutingInv => PushesMatchPops
  <2> SUFFICES ASSUME RoutingInv, NEW t \in Threads
               PROVE  /\ Top(t).pc = "leave" => call_stacks[t] # << >>
                      /\ Depth(t) = 1 => call_stacks[t] = << >>
    BY DEF PushesMatchPops
  <2>1. /\ FrameOK(Top(t), Len(frames[t]), Len(call_stacks[t]), call_stacks[t],
                   ret_addr, entryOf)
        /\ Depth(t) = Len(frames[t]) /\ Top(t).mark \in Nat
        /\ call_stacks[t] \in Seq(CallIds) /\ Len(call_stacks[t]) \in Nat
    BY TopFacts DEF Frame
  <2>2. Top(t).pc = "leave" => Len(call_stacks[t]) # 0
    BY <2>1 DEF FrameOK
  <2>3. Depth(t) = 1 => Len(call_stacks[t]) = 0
    BY <2>1 DEF FrameOK
  <2>4. QED
    BY <2>1, <2>2, <2>3, EmptySeq
<1>2. QED
  BY RoutingInvariant, <1>1, PTL

(***************************************************************************)
(* The call_id a callback holds is a live block that no other call uses,   *)
(* and a block that nothing refers to has been freed.                      *)
(***************************************************************************)
THEOREM CallIdsCorrect == Spec => []CallIdsLive
<1>1. RoutingInv => CallIdsLive
  <2> SUFFICES ASSUME RoutingInv PROVE CallIdsLive
    OBVIOUS
  <2>1. ASSUME NEW t \in Threads PROVE Held(t) = IdsOf(frames[t], call_stacks[t])
    <3>1. /\ Depth(t) = Len(frames[t]) /\ Len(frames[t]) \in Nat /\ Len(call_stacks[t]) \in Nat
          /\ ThreadOK(frames[t], call_stacks[t], ret_addr, entryOf)
          /\ frames[t] \in Seq(Frame)
      BY TopFacts DEF Stack
    <3>2. ASSUME NEW k \in 1..Depth(t), frames[t][k].pc = "begin"
          PROVE  \E i \in 1..Len(call_stacks[t]) : frames[t][k].id = call_stacks[t][i]
      <4> DEFINE u == UpperOf(frames[t], call_stacks[t], k)
      <4>1. FrameOK(frames[t][k], k, u, call_stacks[t], ret_addr, entryOf)
        BY <3>1 DEF ThreadOK
      <4>2. frames[t][k].mark \in Nat /\ u \in Nat
        <5>1. \A j \in 1..Len(frames[t]) : frames[t][j] \in Frame
          BY <3>1, ElementOfSeq
        <5>2. \A j \in 1..Len(frames[t]) : frames[t][j].mark \in Nat
          BY <5>1 DEF Frame
        <5>3. QED
          BY <3>1, <5>2 DEF UpperOf
      <4>3. frames[t][k].id = call_stacks[t][u] /\ u \in 1..Len(call_stacks[t])
        BY <3>1, <3>2, <4>1, <4>2 DEF FrameOK
      <4>4. QED
        BY <4>3
    <3>3. QED
      BY <3>1, <3>2 DEF Held, IdsOf, Ends
  <2>2. IdsOK
    BY DEF RoutingInv
  <2>3. QED
    BY <2>1, <2>2 DEF IdsOK, Distinct, CallIdsLive
<1>2. QED
  BY RoutingInvariant, <1>1, PTL

(* ------------------------------------------------------------------------ *)
(* Activations as the code has them, and by entryOf                            *)

\* AbstractCalls of one thread, on values: stack fs, list cs, and the call_stacks' fields
HookBy(fs, cs, ra, k, i) ==
  LET u == UpperOf(fs, cs, k)
      diverted == IF i < u THEN ra[cs[i + 1]] ELSE fs[k].lr
  IN  IF fs[k].pc = "begin"
        THEN IF i = u THEN fs[k].fn
             ELSE IF i = u - 1 THEN fs[k].lr[2]
             ELSE diverted[2]
        ELSE IF fs[k].pc = "end" /\ i = u
               THEN ra[fs[k].id][2]
               ELSE diverted[2]

Mapped(fs, cs, ra, kw) ==
  [k \in 1..Len(fs) |->
     [pc |-> fs[k].pc,
      fn |-> fs[k].fn,
      owed |-> [j \in 1..(UpperOf(fs, cs, k) - fs[k].mark) |->
                  [fn |-> HookBy(fs, cs, ra, k, fs[k].mark + j),
                   store |-> kw[cs[fs[k].mark + j]]]],
      store |-> IF fs[k].pc = "end" THEN kw[fs[k].id] ELSE NULL]]

\* The debts of the call_stacks above the b-th and up to the u-th
DebtAt(i, cs, eo, kw) == [fn |-> eo[cs[i]], store |-> kw[cs[i]]]
OwedBy(b, u, cs, eo, kw) == [j \in 1..(u - b) |-> DebtAt(b + j, cs, eo, kw)]

\* The call of the frame fr, which has pushed up to the u-th call_stack
CallOf(fr, u, cs, eo, kw) ==
  [pc |-> fr.pc,
   fn |-> fr.fn,
   owed |-> OwedBy(fr.mark, u, cs, eo, kw),
   store |-> IF fr.pc = "end" THEN kw[fr.id] ELSE NULL]

CallsOf(fs, cs, eo, kw) ==
  [k \in 1..Len(fs) |-> CallOf(fs[k], UpperOf(fs, cs, k), cs, eo, kw)]

\* AbstractCalls is the mapping on values
LEMMA AbstractCallsMapped ==
  AbstractCalls = [t \in Threads |-> Mapped(frames[t], call_stacks[t], ret_addr, kv)]
  BY DEF AbstractCalls, Mapped, HookBy, Debts, DebtHook, DivertedTo, Upper, UpperOf, Depth

LEMMA AbstractCallsMappedPrime ==
  AbstractCalls' = [t \in Threads |-> Mapped(frames'[t], call_stacks'[t], ret_addr', kv')]
  BY DEF AbstractCalls, Mapped, HookBy, Debts, DebtHook, DivertedTo, Upper, UpperOf, Depth

(***************************************************************************)
(* What the mapping needs beyond RoutingInv: on_leave_trampoline runs with *)
(* its own address in lr, and a callback has the call_id of the handler    *)
(* below it.                                                               *)
(***************************************************************************)
HandlersOK(fs) ==
  /\ \A k \in 1..Len(fs) : fs[k].pc = "leave" => fs[k].lr = LeaveAddr(fs[k].fn)
  /\ \A k \in 2..Len(fs) :
       /\ fs[k].pc = "pre" => fs[k - 1].pc = "begin" /\ fs[k].id = fs[k - 1].id
       /\ fs[k].pc = "post" => fs[k - 1].pc = "end" /\ fs[k].id = fs[k - 1].id

CallsInv == RoutingInv /\ \A t \in Threads : HandlersOK(frames[t])

\* What ThreadOK says of one frame, typed
LEMMA FrameFacts ==
  ASSUME NEW fs, NEW cs, NEW ra, NEW eo, Stack(fs), cs \in Seq(CallIds),
         ThreadOK(fs, cs, ra, eo), NEW k \in 1..Len(fs)
  PROVE  /\ fs[k] \in Frame /\ fs[k].mark \in Nat /\ UpperOf(fs, cs, k) \in Nat
         /\ fs[k].mark <= UpperOf(fs, cs, k) /\ UpperOf(fs, cs, k) <= Len(cs)
         /\ FrameOK(fs[k], k, UpperOf(fs, cs, k), cs, ra, eo)
<1>1. Len(fs) \in Nat /\ Len(cs) \in Nat /\ \A j \in 1..Len(fs) : fs[j] \in Frame
  BY ElementOfSeq DEF Stack
<1>2. \A j \in 1..Len(fs) : fs[j].mark \in Nat
  BY <1>1 DEF Frame
<1>3. UpperOf(fs, cs, k) \in Nat
  BY <1>1, <1>2 DEF UpperOf
<1>4. FrameOK(fs[k], k, UpperOf(fs, cs, k), cs, ra, eo)
  BY DEF ThreadOK
<1>5. QED
  BY <1>1, <1>2, <1>3, <1>4 DEF FrameOK

\* The hook of a debt, wherever the code has it, is the one that made the call_stack
LEMMA HookByEntry ==
  ASSUME NEW fs, NEW cs, NEW ra, NEW eo, Stack(fs), cs \in Seq(CallIds),
         ThreadOK(fs, cs, ra, eo), HandlersOK(fs),
         NEW k \in 1..Len(fs), NEW i \in fs[k].mark + 1..UpperOf(fs, cs, k)
  PROVE  HookBy(fs, cs, ra, k, i) = eo[cs[i]]
<1> DEFINE fr == fs[k]
           u == UpperOf(fs, cs, k)
<1>1. /\ fr.mark \in Nat /\ u \in Nat /\ i \in Nat
      /\ fr.mark < i /\ i <= u
  BY FrameFacts
<1>2. FrameOK(fr, k, u, cs, ra, eo)
  BY FrameFacts
<1>3. \A j : j # fr.mark => Returns(fr, k, j, cs, eo)[2] = eo[cs[j]]
  BY DEF Returns, LeaveAddr
<1>4. fr.pc = "leave" => fr.lr = LeaveAddr(fr.fn)
  BY DEF HandlersOK
<1>5. i < u => i + 1 \in fr.mark + 1..u /\ i + 1 - 1 = i
  BY <1>1
<1> HIDE DEF u
<1>6. CASE fr.pc = "begin"
  <2>1. CASE i = u
    BY <1>2, <1>6, <2>1 DEF FrameOK, HookBy, u
  <2>2. CASE i = u - 1
    <3>1. i # u /\ i # fr.mark
      BY <1>1, <2>2
    <3>2. fr.lr[2] = eo[cs[i]]
      BY <1>2, <1>3, <1>6, <2>2, <3>1 DEF FrameOK
    <3>3. QED
      BY <1>6, <2>2, <3>1, <3>2 DEF HookBy, u
  <2>3. CASE i # u /\ i # u - 1
    <3>1. i < u /\ i + 1 # u /\ i # fr.mark
      BY <1>1, <2>3
    <3>2. ra[cs[i + 1]] = Returns(fr, k, i, cs, eo)
      BY <1>2, <1>5, <3>1 DEF FrameOK
    <3>3. QED
      BY <1>3, <1>6, <2>3, <3>1, <3>2 DEF HookBy, u
  <2>4. QED
    BY <2>1, <2>2, <2>3
<1>7. CASE fr.pc # "begin"
  <2>1. CASE i < u
    <3>1. ra[cs[i + 1]] = Returns(fr, k, i, cs, eo)
      BY <1>2, <1>5, <1>7, <2>1 DEF FrameOK
    <3>2. i # fr.mark /\ i # u
      BY <1>1, <2>1
    <3>3. QED
      BY <1>3, <1>7, <2>1, <3>1, <3>2 DEF HookBy, u
  <2>2. CASE i = u
    <3>1. ~(i < u) /\ i # fr.mark
      BY <1>1, <2>2
    <3>2. CASE fr.pc = "end"
      BY <1>2, <1>3, <2>2, <3>1, <3>2 DEF FrameOK, HookBy, u
    <3>3. CASE fr.pc = "leave"
      BY <1>2, <1>4, <2>2, <3>1, <3>3 DEF FrameOK, HookBy, LeaveAddr, u
    <3>4. CASE fr.pc \notin {"end", "leave"}
      BY <1>2, <1>3, <1>7, <2>2, <3>1, <3>4 DEF FrameOK, HookBy, u
    <3>5. QED
      BY <3>2, <3>3, <3>4
  <2>3. QED
    BY <1>1, <2>1, <2>2
<1>8. QED
  BY <1>6, <1>7

\* A thread's activations are a function of its frames, its list and entryOf
LEMMA MappedByEntry ==
  ASSUME NEW fs, NEW cs, NEW ra, NEW eo, NEW kw, Stack(fs), cs \in Seq(CallIds),
         ThreadOK(fs, cs, ra, eo), HandlersOK(fs)
  PROVE  Mapped(fs, cs, ra, kw) = CallsOf(fs, cs, eo, kw)
<1>1. ASSUME NEW k \in 1..Len(fs)
      PROVE  \A j \in 1..(UpperOf(fs, cs, k) - fs[k].mark) :
               HookBy(fs, cs, ra, k, fs[k].mark + j) = eo[cs[fs[k].mark + j]]
  <2>1. fs[k].mark \in Nat /\ UpperOf(fs, cs, k) \in Nat
    BY FrameFacts
  <2>2. \A j \in 1..(UpperOf(fs, cs, k) - fs[k].mark) :
          fs[k].mark + j \in fs[k].mark + 1..UpperOf(fs, cs, k)
    BY <2>1
  <2>3. QED
    BY <2>2, HookByEntry
<1>2. QED
  BY <1>1 DEF Mapped, CallsOf, CallOf, OwedBy, DebtAt

\* So are those of all threads, before a step and after it
LEMMA CallsByEntry ==
  CallsInv => AbstractCalls = [t \in Threads |->
                                 CallsOf(frames[t], call_stacks[t], entryOf, kv)]
  BY AbstractCallsMapped, MappedByEntry
     DEF CallsInv, RoutingInv, ThreadsOK, TypeInv, TypeOK

LEMMA CallsByEntryPrime ==
  CallsInv' => AbstractCalls' = [t \in Threads |->
                                   CallsOf(frames'[t], call_stacks'[t], entryOf', kv')]
  BY AbstractCallsMappedPrime, MappedByEntry
     DEF CallsInv, RoutingInv, ThreadsOK, TypeInv, TypeOK

(* ------------------------------------------------------------------------ *)
(* HandlersOK                                                                  *)

\* A frame that may be put on top of the others, which end with the frame below
MayFollow(below, fr) ==
  /\ fr.pc = "leave" => fr.lr = LeaveAddr(fr.fn)
  /\ fr.pc = "pre" => below.pc = "begin" /\ fr.id = below.id
  /\ fr.pc = "post" => below.pc = "end" /\ fr.id = below.id

\* A frame that may follow the top one is pushed
LEMMA HandlersPush ==
  ASSUME NEW s, Stack(s), HandlersOK(s), NEW fr, Callee(fr), MayFollow(s[Len(s)], fr)
  PROVE  HandlersOK(Append(s, fr))
<1>1. Len(s) \in Nat /\ Len(s) >= 1
  BY EmptySeq DEF Stack
<1>2. /\ Len(Append(s, fr)) = Len(s) + 1
      /\ \A i \in 1..Len(s) : Append(s, fr)[i] = s[i]
      /\ Append(s, fr)[Len(s) + 1] = fr
  BY AppendProperties DEF Stack, Callee
<1> DEFINE q == Append(s, fr)
<1> HIDE DEF q
<1>3. \A k \in 1..Len(q) : q[k].pc = "leave" => q[k].lr = LeaveAddr(q[k].fn)
  BY <1>1, <1>2 DEF HandlersOK, MayFollow, q
<1>4. ASSUME NEW k \in 2..Len(q)
      PROVE  /\ q[k].pc = "pre" => q[k - 1].pc = "begin" /\ q[k].id = q[k - 1].id
             /\ q[k].pc = "post" => q[k - 1].pc = "end" /\ q[k].id = q[k - 1].id
  <2>1. CASE k = Len(s) + 1
    BY <1>1, <1>2, <2>1 DEF MayFollow, q
  <2>2. CASE k # Len(s) + 1
    <3>1. k \in 2..Len(s) /\ k - 1 \in 1..Len(s) /\ k \in 1..Len(s)
      BY <1>1, <1>2, <2>2 DEF q
    <3>2. q[k] = s[k] /\ q[k - 1] = s[k - 1]
      BY <1>2, <3>1 DEF q
    <3>3. QED
      BY <3>1, <3>2 DEF HandlersOK
  <2>3. QED
    BY <2>1, <2>2
<1>5. HandlersOK(q)
  BY <1>3, <1>4 DEF HandlersOK
<1>6. QED
  BY <1>5 DEF q

\* A frame that is not a callback replaces the top one
LEMMA HandlersSetTop ==
  ASSUME NEW s, Stack(s), HandlersOK(s), NEW fr, Callee(fr),
         fr.pc = "leave" => fr.lr = LeaveAddr(fr.fn), fr.pc \notin {"pre", "post"}
  PROVE  HandlersOK(SetTop(s, fr))
<1>1. Len(s) \in Nat /\ Len(s) >= 1
  BY EmptySeq DEF Stack
<1> DEFINE q == SetTop(s, fr)
<1>2. Len(q) = Len(s) /\ \A i \in 1..Len(s) : q[i] = IF i = Len(s) THEN fr ELSE s[i]
  BY SetTopProperties DEF Stack, Callee
<1> HIDE DEF q
<1>3. \A k \in 1..Len(q) : q[k].pc = "leave" => q[k].lr = LeaveAddr(q[k].fn)
  BY <1>1, <1>2 DEF HandlersOK
<1>4. ASSUME NEW k \in 2..Len(q)
      PROVE  /\ q[k].pc = "pre" => q[k - 1].pc = "begin" /\ q[k].id = q[k - 1].id
             /\ q[k].pc = "post" => q[k - 1].pc = "end" /\ q[k].id = q[k - 1].id
  <2>1. k \in 2..Len(s) /\ k - 1 \in 1..Len(s) /\ k - 1 # Len(s) /\ k \in 1..Len(s)
    BY <1>1, <1>2
  <2>2. q[k - 1] = s[k - 1] /\ q[k] = IF k = Len(s) THEN fr ELSE s[k]
    BY <1>2, <2>1
  <2>3. QED
    BY <2>1, <2>2 DEF HandlersOK
<1>5. HandlersOK(q)
  BY <1>3, <1>4 DEF HandlersOK
<1>6. QED
  BY <1>5 DEF q

\* The top frame is dropped
LEMMA HandlersPop ==
  ASSUME NEW s, Stack(s), HandlersOK(s)
  PROVE  HandlersOK(SubSeq(s, 1, Len(s) - 1))
<1>1. Len(s) \in Nat /\ Len(s) >= 1
  BY EmptySeq DEF Stack
<1> DEFINE q == SubSeq(s, 1, Len(s) - 1)
<1>2. Len(q) = Len(s) - 1 /\ \A i \in 1..Len(s) - 1 : q[i] = s[i]
  BY PopProperties DEF Stack
<1> HIDE DEF q
<1>3. \A k \in 1..Len(q) : k \in 1..Len(s) /\ q[k] = s[k]
  BY <1>1, <1>2
<1>4. \A k \in 2..Len(q) : k \in 2..Len(s) /\ q[k] = s[k] /\ q[k - 1] = s[k - 1]
  BY <1>1, <1>2
<1>5. HandlersOK(q)
  BY <1>3, <1>4 DEF HandlersOK
<1>6. QED
  BY <1>5 DEF q

\* One thread's new stack, with those of the others
LEMMA HandlersSetFrames ==
  ASSUME TypeInv, \A u \in Threads : HandlersOK(frames[u]),
         NEW t \in Threads, NEW s, HandlersOK(s), SetFrames(t, s)
  PROVE  \A u \in Threads : HandlersOK(frames'[u])
  BY SetFramesFacts

\* A branch to an address
LEMMA HandlersJump ==
  ASSUME CallsInv, NEW t \in Threads, Top(t).pc # "main", NEW a \in Addr, Jump(t, a)
  PROVE  \A u \in Threads : HandlersOK(frames'[u])
<1>1. /\ TypeInv /\ Stack(frames[t]) /\ HandlersOK(frames[t])
      /\ Top(t).mark \in Nat
  BY TopFacts DEF CallsInv, RoutingInv, Frame
<1>2. CASE a[1] = "site"
  <2>1. frames' = [frames EXCEPT ![t] = SubSeq(@, 1, Len(@) - 1)]
    BY <1>2 DEF Jump
  <2>2. \A u \in Threads : frames'[u] = IF u = t THEN SubSeq(frames[t], 1, Len(frames[t]) - 1)
                                        ELSE frames[u]
    BY <1>1, <2>1 DEF TypeInv, TypeOK
  <2>3. QED
    BY <1>1, <2>2, HandlersPop DEF CallsInv
<1>3. CASE a[1] # "site"
  <2> DEFINE fr == NewFrame("leave", a[2], a, NULL, Top(t).mark)
  <2>1. a[2] \in Functions /\ a = LeaveAddr(a[2])
    BY <1>3, HooksAssumption DEF Addr, LeaveAddr
  <2>2. Callee(fr) /\ fr.lr = LeaveAddr(fr.fn) /\ fr.pc = "leave"
    BY <1>1, <2>1 DEF Callee, Frame, NewFrame, Pc, UserCode
  <2> HIDE DEF fr
  <2>3. HandlersOK(SetTop(frames[t], fr))
    BY <1>1, <2>2, HandlersSetTop
  <2>4. SetFrames(t, SetTop(frames[t], fr))
    BY <1>3 DEF Jump, fr
  <2>5. QED
    BY <1>1, <2>3, <2>4, HandlersSetFrames DEF CallsInv
<1>4. QED
  BY <1>2, <1>3

\* A handler with its callback
LEMMA HandlersCallback ==
  ASSUME CallsInv, NEW t \in Threads, Top(t).pc # "main",
         NEW h, Callee(h), h.pc \in {"begin", "end", "dbi_end"},
         NEW pc, NEW present,
         pc = CASE h.pc = "begin" -> "pre" [] h.pc = "end" -> "post" [] OTHER -> "dbi",
         Len(call_stacks'[t]) \in Nat,
         InvokeCallback(t, h, pc, present)
  PROVE  \A u \in Threads : HandlersOK(frames'[u])
<1> DEFINE s == SetTop(frames[t], h)
           fr == NewFrame(pc, h.fn, SiteAddr(Depth(t)), h.id, Len(call_stacks'[t]))
<1>1. /\ TypeInv /\ Stack(frames[t]) /\ HandlersOK(frames[t])
      /\ Depth(t) \in Nat /\ frames[t][Len(frames[t])].pc # "main"
  BY TopFacts DEF CallsInv, RoutingInv
<1>2. Stack(s) /\ s[Len(s)] = h
  BY <1>1, StackSetTop
<1>3. HandlersOK(s)
  BY <1>1, HandlersSetTop
<1>4. Callee(fr) /\ MayFollow(h, fr)
  BY <1>1 DEF Callee, Frame, NewFrame, Pc, UserCode, SiteAddr, Addr, MayFollow
<1> HIDE DEF s, fr
<1>5. HandlersOK(Append(s, fr))
  BY <1>2, <1>3, <1>4, HandlersPush
<1>6. SetFrames(t, IF present THEN Append(s, fr) ELSE s)
  BY DEF InvokeCallback, s, fr
<1>7. QED
  BY <1>1, <1>3, <1>5, <1>6, HandlersSetFrames DEF CallsInv

\* A call or a tail call
LEMMA HandlersBranch ==
  ASSUME CallsInv, NEW t \in Threads, NEW f \in Functions,
         NEW pc \in Pc \ {"main", "begin", "leave", "end", "pre", "post"},
         pc = "enter" => f \in Wrapped,
         Branch(t, f, pc) \/ TailBranch(t, f, pc)
  PROVE  \A u \in Threads : HandlersOK(frames'[u])
<1>1. /\ TypeInv /\ Stack(frames[t]) /\ HandlersOK(frames[t])
      /\ Depth(t) \in Nat /\ Len(call_stacks[t]) \in Nat
      /\ Top(t) \in Frame /\ Top(t) = frames[t][Len(frames[t])]
  BY TopFacts DEF CallsInv, RoutingInv
<1>2. CASE Branch(t, f, pc)
  <2> DEFINE fr == NewFrame(pc, f, SiteAddr(Depth(t)), NULL, Len(call_stacks[t]))
  <2>1. Callee(fr) /\ MayFollow(Top(t), fr)
    BY <1>1 DEF Callee, Frame, NewFrame, SiteAddr, Addr, MayFollow
  <2> HIDE DEF fr
  <2>2. SetFrames(t, Append(frames[t], fr))
    BY <1>2 DEF Branch, fr
  <2>3. HandlersOK(Append(frames[t], fr))
    BY <1>1, <2>1, HandlersPush
  <2>4. QED
    BY <1>1, <2>2, <2>3, HandlersSetFrames DEF CallsInv
<1>3. CASE TailBranch(t, f, pc)
  <2> DEFINE fr == NewFrame(pc, f, Top(t).lr, NULL, Top(t).mark)
  <2>1. Callee(fr) /\ fr.pc \notin {"leave", "pre", "post"}
    BY <1>1 DEF Callee, Frame, NewFrame
  <2> HIDE DEF fr
  <2>2. SetFrames(t, SetTop(frames[t], fr))
    BY <1>3 DEF TailBranch, fr
  <2>3. HandlersOK(SetTop(frames[t], fr))
    BY <1>1, <2>1, HandlersSetTop
  <2>4. QED
    BY <1>1, <2>2, <2>3, HandlersSetFrames DEF CallsInv
<1>4. QED
  BY <1>2, <1>3

\* CallsInv is inductive
LEMMA CallsInvInit == Init => CallsInv
<1> SUFFICES ASSUME Init PROVE \A t \in Threads : HandlersOK(frames[t])
  BY RoutingInit DEF CallsInv
<1>1. HandlersOK(<<MainFrame>>)
  <2>1. Len(<<MainFrame>>) = 1 /\ <<MainFrame>>[1].pc = "main"
    BY DEF MainFrame, NewFrame
  <2>2. QED
    BY <2>1 DEF HandlersOK
<1>2. QED
  BY <1>1 DEF Init

\* The frame that runs on when a handler's part is done
LEMMA HandlerFrames ==
  ASSUME RoutingInv, NEW t \in Threads
  PROVE  /\ \A id \in CallIds : Top(t).pc = "enter" =>
              Callee([Top(t) EXCEPT !.pc = "begin", !.id = id])
         /\ Top(t).pc = "begin" =>
              Callee(NewFrame("code", Top(t).fn, LeaveAddr(Top(t).fn), NULL, Top(t).mark))
         /\ Top(t).pc = "leave" /\ call_stacks[t] # << >> =>
              /\ LastCallStack(t) \in CallIds
              /\ Callee([Top(t) EXCEPT !.pc = "end", !.id = LastCallStack(t)])
         /\ Top(t).pc = "dbi_enter" => Callee([Top(t) EXCEPT !.pc = "dbi_end"])
         /\ Top(t).pc = "dbi_end" => Callee([Top(t) EXCEPT !.pc = "code"])
<1>1. /\ Top(t) \in Frame /\ call_stacks[t] \in Seq(CallIds)
      /\ Top(t).pc # "main" => Callee(Top(t))
  BY TopFacts
<1>2. \A id \in CallIds : Top(t).pc = "enter" =>
        Callee([Top(t) EXCEPT !.pc = "begin", !.id = id])
  BY <1>1 DEF Callee, Frame, Pc
<1>3. Top(t).pc = "begin" =>
        Callee(NewFrame("code", Top(t).fn, LeaveAddr(Top(t).fn), NULL, Top(t).mark))
  BY <1>1, HooksAssumption DEF Callee, Frame, NewFrame, Pc, UserCode, LeaveAddr, Addr
<1>4. call_stacks[t] # << >> => LastCallStack(t) \in CallIds
  BY <1>1, EmptySeq, ElementOfSeq DEF LastCallStack
<1>5. \A id \in CallIds : Top(t).pc = "leave" =>
        Callee([Top(t) EXCEPT !.pc = "end", !.id = id])
  BY <1>1 DEF Callee, Frame, Pc
<1>6. /\ Top(t).pc = "dbi_enter" => Callee([Top(t) EXCEPT !.pc = "dbi_end"])
      /\ Top(t).pc = "dbi_end" => Callee([Top(t) EXCEPT !.pc = "code"])
  BY <1>1 DEF Callee, Frame, Pc, UserCode
<1>7. QED
  BY <1>2, <1>3, <1>4, <1>5, <1>6

\* Every step keeps CallsInv
LEMMA CallsInvStep == CallsInv /\ [Next]_vars => CallsInv'
<1> SUFFICES ASSUME CallsInv, [Next]_vars PROVE \A u \in Threads : HandlersOK(frames'[u])
  BY RoutingStep DEF CallsInv
<1> DEFINE Good == \A u \in Threads : HandlersOK(frames'[u])
<1>1. RoutingInv /\ TypeInv /\ \A u \in Threads : HandlersOK(frames[u])
  BY DEF CallsInv, RoutingInv
<1>2. ASSUME NEW t \in Threads
      PROVE  /\ Stack(frames[t]) /\ call_stacks'[t] \in Seq(CallIds)
             /\ Len(call_stacks'[t]) \in Nat
             /\ Top(t) \in Frame /\ (Top(t).pc # "main" => Callee(Top(t)))
  <2>1. TypeInv'
    BY <1>1, TypeStep
  <2>2. call_stacks'[t] \in Seq(CallIds)
    BY <2>1 DEF TypeInv, TypeOK
  <2>3. QED
    BY <1>1, <2>2, TopFacts
<1>3. ASSUME NEW t \in Threads, RoutingBegin(t) PROVE Good
  <2> PICK id \in CallIds :
        InvokeCallback(t, [Top(t) EXCEPT !.pc = "begin", !.id = id],
                       "pre", Top(t).fn \in HasPre)
    BY <1>3 DEF RoutingBegin
  <2> DEFINE h == [Top(t) EXCEPT !.pc = "begin", !.id = id]
  <2>1. Top(t).pc = "enter"
    BY <1>3 DEF RoutingBegin, At
  <2>2. Callee(h) /\ h.pc = "begin"
    BY <1>1, <1>2, <2>1, HandlerFrames DEF Frame
  <2> HIDE DEF h
  <2>3. InvokeCallback(t, h, "pre", Top(t).fn \in HasPre)
    BY DEF h
  <2>4. QED
    BY <1>2, <2>1, <2>2, <2>3, HandlersCallback
<1>4. ASSUME NEW t \in Threads, RoutingBeginNextHop(t) PROVE Good
  <2> DEFINE fr == NewFrame("code", Top(t).fn, LeaveAddr(Top(t).fn), NULL, Top(t).mark)
  <2>1. Top(t).pc = "begin" /\ SetFrames(t, SetTop(frames[t], fr))
    BY <1>4 DEF RoutingBeginNextHop, At
  <2>2. Callee(fr) /\ fr.pc = "code"
    BY <1>1, <2>1, HandlerFrames DEF NewFrame
  <2> HIDE DEF fr
  <2>3. HandlersOK(SetTop(frames[t], fr))
    BY <1>1, <1>2, <2>2, HandlersSetTop
  <2>4. QED
    BY <1>1, <2>1, <2>3, HandlersSetFrames
<1>5. ASSUME NEW t \in Threads, RoutingEnd(t) PROVE Good
  <2> DEFINE h == [Top(t) EXCEPT !.pc = "end", !.id = LastCallStack(t)]
  <2>1. /\ Top(t).pc = "leave" /\ call_stacks[t] # << >>
        /\ InvokeCallback(t, h, "post", Top(t).fn \in HasPost)
    BY <1>5 DEF RoutingEnd, At
  <2>2. Callee(h) /\ h.pc = "end"
    BY <1>1, <1>2, <2>1, HandlerFrames DEF Frame
  <2> HIDE DEF h
  <2>3. QED
    BY <1>2, <2>1, <2>2, HandlersCallback
<1>6. ASSUME NEW t \in Threads, RoutingEndNextHop(t) PROVE Good
  <2>1. Top(t).pc = "end"
    BY <1>6 DEF RoutingEndNextHop, At
  <2>2. ret_addr[Top(t).id] \in Addr
    BY <1>1, <1>2, <2>1 DEF TypeInv, TypeOK, Callee
  <2>3. QED
    BY <1>6, <2>1, <2>2, HandlersJump DEF RoutingEndNextHop
<1>7. ASSUME NEW t \in Threads, RoutingDBI(t) PROVE Good
  <2> DEFINE h == [Top(t) EXCEPT !.pc = "dbi_end"]
  <2>1. Top(t).pc = "dbi_enter" /\ InvokeCallback(t, h, "dbi", Top(t).fn \in HasDbi)
    BY <1>7 DEF RoutingDBI, At
  <2>2. Callee(h) /\ h.pc = "dbi_end"
    BY <1>1, <1>2, <2>1, HandlerFrames DEF Frame
  <2> HIDE DEF h
  <2>3. QED
    BY <1>2, <2>1, <2>2, HandlersCallback
<1>8. ASSUME NEW t \in Threads, RoutingDBINextHop(t) PROVE Good
  <2> DEFINE h == [Top(t) EXCEPT !.pc = "code"]
  <2>1. Top(t).pc = "dbi_end" /\ SetFrames(t, SetTop(frames[t], h))
    BY <1>8 DEF RoutingDBINextHop, At
  <2>2. Callee(h) /\ h.pc = "code"
    BY <1>1, <1>2, <2>1, HandlerFrames DEF Frame
  <2> HIDE DEF h
  <2>3. HandlersOK(SetTop(frames[t], h))
    BY <1>1, <1>2, <2>2, HandlersSetTop
  <2>4. QED
    BY <1>1, <2>1, <2>3, HandlersSetFrames
<1>9. ASSUME NEW t \in Threads, NEW f \in Functions,
             Call(t, f) \/ TailCall(t, f) \/ CallOrigin(t, f) \/ TailCallOrigin(t, f)
      PROVE  Good
  <2>1. PICK pc \in {EntryPoint(f), "code"} : Branch(t, f, pc) \/ TailBranch(t, f, pc)
    BY <1>9 DEF Call, TailCall, CallOrigin, TailCallOrigin
  <2>2. /\ pc \in Pc \ {"main", "begin", "leave", "end", "pre", "post"}
        /\ pc = "enter" => f \in Wrapped
    BY HooksAssumption DEF EntryPoint, Pc, UserCode
  <2>3. QED
    BY <2>1, <2>2, HandlersBranch
<1>10. ASSUME NEW t \in Threads, Return(t) PROVE Good
  <2>1. Top(t).lr \in Addr /\ Top(t).pc # "main" /\ Jump(t, Top(t).lr)
    BY <1>2, <1>10 DEF Return, Frame
  <2>2. QED
    BY <2>1, HandlersJump
<1>11. CASE UNCHANGED frames
  BY <1>1, <1>11
<1>12. QED
  BY <1>3, <1>4, <1>5, <1>6, <1>7, <1>8, <1>9, <1>10, <1>11
     DEF Next, Interceptor, Program, CallbackKvSet, vars

(* ------------------------------------------------------------------------ *)
(* Sequences as functions                                                      *)

\* A function on 1..n is a sequence of length n
LEMMA FunctionIsSeq ==
  ASSUME NEW n \in Nat, NEW f, f = [i \in 1..n |-> f[i]]
  PROVE  f \in Seq({f[i] : i \in 1..n}) /\ Len(f) = n
<1> DEFINE S == {f[i] : i \in 1..n}
<1>1. f \in [1..n -> S]
  OBVIOUS
<1>2. f \in Seq(S)
  BY <1>1, SeqDef
<1>3. DOMAIN f = 1..n /\ DOMAIN f = 1..Len(f) /\ Len(f) \in Nat
  BY <1>1, <1>2, LenProperties
<1>4. Len(f) = n
  BY <1>3
<1>5. QED
  BY <1>2, <1>4

\* Append adds one place to it
LEMMA AppendFunction ==
  ASSUME NEW n \in Nat, NEW f, f = [i \in 1..n |-> f[i]], NEW x
  PROVE  Append(f, x) = [i \in 1..n + 1 |-> IF i = n + 1 THEN x ELSE f[i]]
<1> DEFINE S == {f[i] : i \in 1..n} \cup {x}
           g == Append(f, x)
<1>1. f \in [1..n -> S]
  OBVIOUS
<1>2. f \in Seq(S) /\ Len(f) = n
  BY <1>1, SeqDef, FunctionIsSeq
<1>3. /\ g \in Seq(S) /\ Len(g) = n + 1
      /\ \A i \in 1..n : g[i] = f[i]
      /\ g[n + 1] = x
  BY <1>2, AppendProperties
<1> HIDE DEF g
<1>4. g = [i \in 1..n + 1 |-> g[i]]
  BY <1>3, LenProperties
<1>5. \A i \in 1..n + 1 : g[i] = IF i = n + 1 THEN x ELSE f[i]
  BY <1>3
<1>6. QED
  BY <1>4, <1>5 DEF g

\* Its front is its restriction
LEMMA FrontFunction ==
  ASSUME NEW n \in Nat \ {0}, NEW f, f = [i \in 1..n |-> f[i]]
  PROVE  SubSeq(f, 1, Len(f) - 1) = [i \in 1..n - 1 |-> f[i]]
<1> DEFINE S == {f[i] : i \in 1..n}
           g == SubSeq(f, 1, Len(f) - 1)
<1>1. f \in Seq(S) /\ Len(f) = n /\ f # << >>
  BY FunctionIsSeq, EmptySeq
<1> HIDE DEF S
<1>2. g \in Seq(S) /\ Len(g) = n - 1 /\ \A i \in 1..n - 1 : g[i] = f[i]
  BY <1>1, PopProperties
<1> HIDE DEF g
<1>3. g = [i \in 1..n - 1 |-> g[i]]
  BY <1>2, LenProperties
<1>4. QED
  BY <1>2, <1>3 DEF g

\* A sequence f of length n, and f with one element or two in the place of its last
OfLength(f, n) == n \in Nat \ {0} /\ f = [i \in 1..n |-> f[i]] /\ Len(f) = n

LastOne(f, n, x) == [i \in 1..n |-> IF i = n THEN x ELSE f[i]]

LastTwo(f, n, x, y) ==
  [i \in 1..n + 1 |-> IF i = n + 1 THEN y ELSE IF i = n THEN x ELSE f[i]]

\* The front of f, with one element or two put behind it
LEMMA ReplaceLast ==
  ASSUME NEW n, NEW f, OfLength(f, n), NEW x
  PROVE  /\ Append(SubSeq(f, 1, n - 1), x) = LastOne(f, n, x)
         /\ SubSeq(f, 1, n - 1) \o <<x>> \o << >> = LastOne(f, n, x)
         /\ \A y : SubSeq(f, 1, n - 1) \o <<x>> \o <<y>> = LastTwo(f, n, x, y)
<1> USE DEF OfLength
<1> SUFFICES ASSUME NEW y
             PROVE  /\ Append(SubSeq(f, 1, n - 1), x) = LastOne(f, n, x)
                    /\ SubSeq(f, 1, n - 1) \o <<x>> \o << >> = LastOne(f, n, x)
                    /\ SubSeq(f, 1, n - 1) \o <<x>> \o <<y>> = LastTwo(f, n, x, y)
  OBVIOUS
<1> DEFINE outer == SubSeq(f, 1, n - 1)
           g == [i \in 1..n |-> IF i = n THEN x ELSE f[i]]
           S == {f[i] : i \in 1..n} \cup {x, y}
<1>1. outer = [i \in 1..n - 1 |-> f[i]] /\ n - 1 \in Nat /\ n - 1 + 1 = n
  BY FrontFunction
<1> HIDE DEF outer
<1>2. outer = [i \in 1..n - 1 |-> outer[i]]
  BY <1>1
<1>3. Append(outer, x) = [i \in 1..n - 1 + 1 |-> IF i = n - 1 + 1 THEN x ELSE outer[i]]
  BY <1>1, <1>2, AppendFunction
<1>4. Append(outer, x) = g
  BY <1>1, <1>3
<1>5. outer \in Seq(S) /\ g \in Seq(S)
  <2>1. outer \in [1..n - 1 -> S] /\ g \in [1..n -> S]
    BY <1>1
  <2> HIDE DEF S, g
  <2>2. \A m \in Nat : [1..m -> S] \subseteq Seq(S)
    BY SeqDef
  <2>3. QED
    BY <1>1, <2>1, <2>2
<1> HIDE DEF S
<1>6. outer \o <<x>> = Append(outer, x)
  BY <1>5, AppendIsConcat
<1>7. g \o << >> = g
  BY <1>5, ConcatEmptySeq
<1>8. g \o <<y>> = Append(g, y)
  BY <1>5, AppendIsConcat
<1>9. Append(g, y) = [i \in 1..n + 1 |-> IF i = n + 1 THEN y ELSE g[i]]
  <2>1. g = [i \in 1..n |-> g[i]]
    OBVIOUS
  <2> HIDE DEF g
  <2>2. QED
    BY <2>1, AppendFunction
<1>10. \A i \in 1..n + 1 : i # n + 1 => g[i] = IF i = n THEN x ELSE f[i]
  OBVIOUS
<1>11. outer \o <<x>> = g /\ outer \o <<x>> \o << >> = g
  BY <1>4, <1>6, <1>7
<1>12. outer \o <<x>> \o <<y>> = [i \in 1..n + 1 |-> IF i = n + 1 THEN y ELSE g[i]]
  BY <1>8, <1>9, <1>11
<1>13. outer \o <<x>> \o <<y>> =
         [i \in 1..n + 1 |-> IF i = n + 1 THEN y ELSE IF i = n THEN x ELSE f[i]]
  BY <1>10, <1>12
<1>14. QED
  BY <1>4, <1>11, <1>13 DEF outer, LastOne, LastTwo
LEMMA ReplaceLastTwo ==
  ASSUME NEW n, NEW f, NEW x, NEW y, OfLength(f, n)
  PROVE  SubSeq(f, 1, n - 1) \o <<x>> \o <<y>> = LastTwo(f, n, x, y)
BY ReplaceLast, ZenonT(60)

(* ------------------------------------------------------------------------ *)
(* Activations from one state to the next                                      *)

\* The activations of thread t now
CallsAt(t) == CallsOf(frames[t], call_stacks[t], entryOf, kv)

\* A call is what it was while its call_stacks hold what they held
LEMMA CallSame ==
  ASSUME NEW fr, fr.mark \in Nat, NEW u \in Nat, NEW cs, NEW eo, NEW kw, NEW ds, NEW fo, NEW kx,
         \A i \in fr.mark + 1..u :
           ds[i] = cs[i] /\ fo[cs[i]] = eo[cs[i]] /\ kx[cs[i]] = kw[cs[i]],
         fr.pc = "end" => kx[fr.id] = kw[fr.id]
  PROVE  CallOf(fr, u, ds, fo, kx) = CallOf(fr, u, cs, eo, kw)
<1>1. \A j \in 1..(u - fr.mark) : fr.mark + j \in fr.mark + 1..u
  OBVIOUS
<1>2. \A j \in 1..(u - fr.mark) :
        /\ ds[fr.mark + j] = cs[fr.mark + j]
        /\ fo[cs[fr.mark + j]] = eo[cs[fr.mark + j]]
        /\ kx[cs[fr.mark + j]] = kw[cs[fr.mark + j]]
  BY <1>1
<1>3. OwedBy(fr.mark, u, ds, fo, kx) = OwedBy(fr.mark, u, cs, eo, kw)
  <2>1. \A j \in 1..(u - fr.mark) :
          DebtAt(fr.mark + j, ds, fo, kx) = DebtAt(fr.mark + j, cs, eo, kw)
    BY <1>2 DEF DebtAt
  <2>2. QED
    BY <2>1, Zenon DEF OwedBy
<1>4. QED
  BY <1>3, Zenon DEF CallOf

\* The frames of fs below the top and their call_stacks are the same in gs
SameBelow(fs, cs, eo, kw, gs, ds, fo, kx) ==
  /\ Len(gs) \in Nat /\ Len(gs) >= Len(fs) - 1
  /\ \A k \in 1..Len(fs) - 1 : gs[k] = fs[k]
  /\ IF Len(gs) = Len(fs) - 1 THEN Len(ds) = fs[Len(fs)].mark
     ELSE gs[Len(fs)].mark = fs[Len(fs)].mark
  /\ \A i \in 1..fs[Len(fs)].mark :
       ds[i] = cs[i] /\ fo[cs[i]] = eo[cs[i]] /\ kx[cs[i]] = kw[cs[i]]
  /\ \A k \in 1..Len(fs) - 1 : fs[k].pc = "end" => kx[fs[k].id] = kw[fs[k].id]

\* So are their calls
LEMMA CallsBelow ==
  ASSUME NEW fs, NEW cs, NEW ra, NEW eo, NEW kw, Stack(fs), cs \in Seq(CallIds),
         ThreadOK(fs, cs, ra, eo),
         NEW gs, NEW ds, NEW fo, NEW kx, SameBelow(fs, cs, eo, kw, gs, ds, fo, kx),
         NEW k \in 1..Len(fs) - 1
  PROVE  CallOf(gs[k], UpperOf(gs, ds, k), ds, fo, kx) = CallOf(fs[k], UpperOf(fs, cs, k), cs, eo, kw)
<1> DEFINE n == Len(fs)
           u == fs[k + 1].mark
<1>1. n \in Nat /\ k \in 1..n /\ k + 1 \in 1..n /\ n \in 1..n /\ k # n /\ k + 1 <= n
  BY StackTop
<1>2. UpperOf(fs, cs, k) = u /\ u \in Nat /\ fs[k].mark \in Nat
  BY <1>1, FrameFacts DEF UpperOf
<1>3. u <= fs[n].mark /\ fs[n].mark \in Nat
  BY <1>1, FrameFacts DEF ThreadOK
<1>4. UpperOf(gs, ds, k) = u
  <2>1. CASE k = Len(gs)
    <3>1. k + 1 = n /\ Len(gs) = n - 1
      BY <1>1, <2>1 DEF SameBelow
    <3>2. QED
      BY <2>1, <3>1 DEF UpperOf, SameBelow
  <2>2. CASE k # Len(gs) /\ k + 1 = n
    <3>1. Len(gs) # n - 1
      BY <1>1, <2>2
    <3>2. QED
      BY <2>2, <3>1 DEF UpperOf, SameBelow
  <2>3. CASE k # Len(gs) /\ k + 1 # n
    <3>1. k + 1 \in 1..n - 1
      BY <1>1, <2>3
    <3>2. QED
      BY <2>3, <3>1 DEF UpperOf, SameBelow
  <2>4. QED
    BY <2>1, <2>2, <2>3
<1>5. \A i \in fs[k].mark + 1..u :
        ds[i] = cs[i] /\ fo[cs[i]] = eo[cs[i]] /\ kx[cs[i]] = kw[cs[i]]
  <2>1. fs[k].mark + 1..u \subseteq 1..fs[n].mark
    BY <1>2, <1>3
  <2>2. QED
    BY <2>1 DEF SameBelow
<1> HIDE DEF u
<1>6. CallOf(fs[k], u, ds, fo, kx) = CallOf(fs[k], u, cs, eo, kw)
  <2>1. fs[k].pc = "end" => kx[fs[k].id] = kw[fs[k].id]
    BY DEF SameBelow
  <2>2. QED
    BY <1>2, <1>5, <2>1, CallSame
<1>7. gs[k] = fs[k]
  BY DEF SameBelow
<1>8. QED
  BY <1>2, <1>4, <1>6, <1>7

\* What is said of a call_stack is what it was: a thread's activations are what they were
LEMMA CallsUnchanged ==
  ASSUME NEW fs, NEW cs, NEW ra, NEW eo, NEW kw, Stack(fs), cs \in Seq(CallIds),
         ThreadOK(fs, cs, ra, eo), NEW fo, NEW kx,
         \A x \in IdsOf(fs, cs) : fo[x] = eo[x] /\ kx[x] = kw[x]
  PROVE  CallsOf(fs, cs, fo, kx) = CallsOf(fs, cs, eo, kw)
<1>1. ASSUME NEW k \in 1..Len(fs)
      PROVE  CallOf(fs[k], UpperOf(fs, cs, k), cs, fo, kx) =
               CallOf(fs[k], UpperOf(fs, cs, k), cs, eo, kw)
  <2> DEFINE u == UpperOf(fs, cs, k)
  <2>1. fs[k].mark \in Nat /\ u \in Nat /\ u <= Len(cs) /\ Len(cs) \in Nat
    BY FrameFacts
  <2>2. \A i \in fs[k].mark + 1..u : i \in 1..Len(cs)
    BY <2>1
  <2>3. \A i \in fs[k].mark + 1..u : cs[i] \in IdsOf(fs, cs)
    BY <2>2 DEF IdsOf
  <2>4. fs[k].pc = "end" => fs[k].id \in IdsOf(fs, cs)
    BY DEF IdsOf, Ends
  <2> HIDE DEF u
  <2>5. QED
    BY <2>1, <2>3, <2>4, CallSame DEF u
<1>2. QED
  BY <1>1 DEF CallsOf

\* A step of thread t, which may write the call_stacks it holds, is a step of its activations
LEMMA CallsBecome ==
  ASSUME CallsInv, CallsInv', NEW t \in Threads,
         \A u \in Threads : u # t =>
           /\ frames'[u] = frames[u] /\ call_stacks'[u] = call_stacks[u]
           /\ \A x \in IdsOf(frames[u], call_stacks[u]) : entryOf'[x] = entryOf[x] /\ kv'[x] = kv[x]
  PROVE  Calls!Becomes(t, CallsAt(t)')
<1>1. AbstractCalls = [u \in Threads |-> CallsAt(u)]
  BY CallsByEntry DEF CallsAt
<1>2. AbstractCalls' = [u \in Threads |-> CallsAt(u)']
  BY CallsByEntryPrime DEF CallsAt
<1>3. ASSUME NEW u \in Threads, u # t
      PROVE  CallsAt(u)' = CallsAt(u)
  <2>1. /\ Stack(frames[u]) /\ call_stacks[u] \in Seq(CallIds)
        /\ ThreadOK(frames[u], call_stacks[u], ret_addr, entryOf)
    BY TopFacts DEF CallsInv
  <2>2. CallsOf(frames[u], call_stacks[u], entryOf', kv') = CallsAt(u)
    BY <1>3, <2>1, CallsUnchanged DEF CallsAt
  <2>3. QED
    BY <1>3, <2>2 DEF CallsAt
<1>4. QED
  BY <1>1, <1>2, <1>3 DEF Calls!Becomes

\* The activations of a thread, and the innermost one
LEMMA CallsTop ==
  ASSUME CallsInv, NEW t \in Threads
  PROVE  LET n == Len(frames[t])
         IN  /\ AbstractCalls[t] = CallsAt(t)
             /\ n \in Nat \ {0} /\ Len(CallsAt(t)) = n
             /\ CallsAt(t) = [k \in 1..n |-> CallsAt(t)[k]]
             /\ CallsAt(t)[n] = CallOf(Top(t), Len(call_stacks[t]), call_stacks[t], entryOf, kv)
             /\ Calls!Innermost(t) = CallsAt(t)[n]
             /\ Calls!Outer(t) = SubSeq(CallsAt(t), 1, n - 1)
<1> DEFINE n == Len(frames[t])
<1>1. /\ n \in Nat \ {0} /\ Top(t) = frames[t][n]
      /\ Stack(frames[t])
  BY TopFacts DEF CallsInv
<1>2. AbstractCalls[t] = CallsAt(t)
  BY CallsByEntry DEF CallsAt
<1>3. CallsAt(t) = [k \in 1..n |-> CallsAt(t)[k]]
  BY DEF CallsAt, CallsOf
<1>4. CallsAt(t)[n] = CallOf(Top(t), Len(call_stacks[t]), call_stacks[t], entryOf, kv)
  BY <1>1 DEF CallsAt, CallsOf, UpperOf
<1> HIDE DEF n
<1>5. Len(CallsAt(t)) = n
  BY <1>1, <1>3, FunctionIsSeq
<1>6. QED
  BY <1>1, <1>2, <1>3, <1>4, <1>5 DEF Calls!Innermost, Calls!Outer, n

\* A step of t leaves alone what the frames below its top, and the other threads, hold
WritesAbove(t) ==
  /\ \A u \in Threads : u # t =>
       /\ frames'[u] = frames[u] /\ call_stacks'[u] = call_stacks[u]
       /\ \A x \in IdsOf(frames[u], call_stacks[u]) : entryOf'[x] = entryOf[x] /\ kv'[x] = kv[x]
  /\ \A i \in 1..Top(t).mark :
       LET id == call_stacks[t][i]
       IN  call_stacks'[t][i] = id /\ entryOf'[id] = entryOf[id] /\ kv'[id] = kv[id]
  /\ \A k \in 1..Len(frames[t]) - 1 :
       frames[t][k].pc = "end" => kv'[frames[t][k].id] = kv[frames[t][k].id]

\* A step that writes no call_stack
LEMMA WritesNothing ==
  ASSUME NEW t \in Threads, UNCHANGED <<call_stacks, entryOf, kv>>,
         \A u \in Threads : u # t => frames'[u] = frames[u]
  PROVE  WritesAbove(t)
  BY DEF WritesAbove

\* The activations below the innermost are what they were
LEMMA BelowTop ==
  ASSUME CallsInv, NEW t \in Threads, WritesAbove(t), Len(frames'[t]) \in Nat,
         Len(frames'[t]) >= Len(frames[t]) - 1,
         \A k \in 1..Len(frames[t]) - 1 : frames'[t][k] = frames[t][k],
         IF Len(frames'[t]) = Len(frames[t]) - 1 THEN Len(call_stacks'[t]) = Top(t).mark
         ELSE frames'[t][Len(frames[t])].mark = Top(t).mark,
         NEW k \in 1..Len(frames[t]) - 1
  PROVE  CallsAt(t)'[k] = CallsAt(t)[k]
<1> DEFINE fs == frames[t]
           cs == call_stacks[t]
           gs == frames'[t]
           ds == call_stacks'[t]
<1>1. /\ Stack(fs) /\ cs \in Seq(CallIds) /\ ThreadOK(fs, cs, ret_addr, entryOf)
      /\ Top(t) = fs[Len(fs)] /\ Len(fs) \in Nat
  BY TopFacts DEF CallsInv
<1>2. k \in 1..Len(fs) /\ k \in 1..Len(gs)
  BY <1>1
<1>3. /\ \A i \in 1..fs[Len(fs)].mark :
           ds[i] = cs[i] /\ entryOf'[cs[i]] = entryOf[cs[i]] /\ kv'[cs[i]] = kv[cs[i]]
      /\ \A j \in 1..Len(fs) - 1 : fs[j].pc = "end" => kv'[fs[j].id] = kv[fs[j].id]
  BY <1>1 DEF WritesAbove
<1>4. /\ \A j \in 1..Len(fs) - 1 : gs[j] = fs[j]
      /\ IF Len(gs) = Len(fs) - 1 THEN Len(ds) = fs[Len(fs)].mark
         ELSE gs[Len(fs)].mark = fs[Len(fs)].mark
      /\ Len(gs) \in Nat /\ Len(gs) >= Len(fs) - 1
  BY <1>1
<1>5. k \in 1..Len(fs) - 1 /\ SameBelow(fs, cs, entryOf, kv, gs, ds, entryOf', kv')
  BY <1>3, <1>4 DEF SameBelow
<1> HIDE DEF fs, cs, gs, ds
<1>6. CallOf(gs[k], UpperOf(gs, ds, k), ds, entryOf', kv') =
        CallOf(fs[k], UpperOf(fs, cs, k), cs, entryOf, kv)
  BY <1>1, <1>5, CallsBelow
<1>7. QED
  BY <1>2, <1>4, <1>6 DEF CallsAt, CallsOf, fs, cs, gs, ds

\* A frame above the others
LEMMA PushCalls ==
  ASSUME CallsInv, CallsInv', NEW t \in Threads, UNCHANGED <<call_stacks, entryOf, kv>>,
         \A u \in Threads : u # t => frames'[u] = frames[u],
         NEW fr, Callee(fr), fr.pc # "end", fr.mark = Len(call_stacks[t]),
         frames'[t] = Append(frames[t], fr)
  PROVE  Calls!Becomes(t, Append(AbstractCalls[t], Calls!Activation(fr.pc, fr.fn, << >>, NULL)))
<1> DEFINE n == Len(frames[t])
           a == Calls!Activation(fr.pc, fr.fn, << >>, NULL)
<1>1. /\ Stack(frames[t]) /\ n \in Nat \ {0} /\ Top(t) = frames[t][n]
      /\ Len(call_stacks[t]) \in Nat
  BY TopFacts DEF CallsInv
<1>2. /\ Len(frames'[t]) = n + 1 /\ frames'[t][n + 1] = fr
      /\ \A k \in 1..n : frames'[t][k] = frames[t][k]
  BY <1>1, AppendProperties DEF Stack, Callee
<1>3. WritesAbove(t)
  BY WritesNothing
<1>4. \A k \in 1..n - 1 : CallsAt(t)'[k] = CallsAt(t)[k]
  <2>1. /\ Len(frames'[t]) \in Nat /\ Len(frames'[t]) >= n - 1 /\ Len(frames'[t]) # n - 1
        /\ \A k \in 1..n - 1 : frames'[t][k] = frames[t][k]
        /\ frames'[t][n].mark = Top(t).mark
    BY <1>1, <1>2
  <2>2. QED
    BY <1>3, <2>1, BelowTop
<1>5. CallsAt(t)'[n] = CallsAt(t)[n]
  <2>1. UpperOf(frames'[t], call_stacks'[t], n) = Len(call_stacks[t])
    BY <1>1, <1>2 DEF UpperOf
  <2>2. n \in 1..Len(frames'[t]) /\ frames'[t][n] = Top(t)
    BY <1>1, <1>2
  <2>3. CallsAt(t)'[n] = CallOf(Top(t), Len(call_stacks[t]), call_stacks[t], entryOf, kv)
    BY <2>1, <2>2 DEF CallsAt, CallsOf
  <2>4. QED
    BY <2>3, CallsTop
<1>6. CallsAt(t)'[n + 1] = a
  <2>1. n + 1 \in 1..Len(frames'[t])
        /\ UpperOf(frames'[t], call_stacks'[t], n + 1) = Len(call_stacks[t])
    BY <1>1, <1>2 DEF UpperOf
  <2>2. CallsAt(t)'[n + 1] = CallOf(fr, Len(call_stacks[t]), call_stacks[t], entryOf, kv)
    BY <1>2, <2>1 DEF CallsAt, CallsOf
  <2>3. 1..(Len(call_stacks[t]) - fr.mark) = {}
    BY <1>1
  <2>4. CallOf(fr, Len(call_stacks[t]), call_stacks[t], entryOf, kv).owed = << >>
    BY <2>3 DEF CallOf, OwedBy, DebtAt
  <2>5. QED
    BY <2>2, <2>4 DEF CallOf, OwedBy, DebtAt, Calls!Activation
<1>7. CallsAt(t)' = [k \in 1..n + 1 |-> CallsAt(t)'[k]]
  BY <1>2 DEF CallsAt, CallsOf
<1>8. Append(CallsAt(t), a) = [k \in 1..n + 1 |-> IF k = n + 1 THEN a ELSE CallsAt(t)[k]]
  <2>1. CallsAt(t) = [k \in 1..n |-> CallsAt(t)[k]]
    BY CallsTop
  <2> HIDE DEF a, n
  <2>2. QED
    BY <1>1, <2>1, AppendFunction
<1> HIDE DEF a, n
<1>9. \A k \in 1..n + 1 : CallsAt(t)'[k] = IF k = n + 1 THEN a ELSE CallsAt(t)[k]
  <2>1. \A k \in 1..n + 1 : k \in 1..n - 1 \/ k = n \/ k = n + 1
    BY <1>1
  <2>2. n # n + 1 /\ n - 1 # n + 1
    BY <1>1
  <2>3. QED
    BY <1>1, <1>4, <1>5, <1>6, <2>1, <2>2
<1>10. CallsAt(t)' = Append(CallsAt(t), a)
  BY <1>7, <1>8, <1>9
<1>11. Calls!Becomes(t, CallsAt(t)')
  BY <1>3, CallsBecome DEF WritesAbove
<1>12. QED
  BY <1>10, <1>11, CallsTop DEF a

\* A stack with another top frame
LEMMA NewTop ==
  ASSUME NEW s, Stack(s), NEW fr, Callee(fr)
  PROVE  /\ Len(SetTop(s, fr)) = Len(s) /\ SetTop(s, fr)[Len(s)] = fr
         /\ \A k \in 1..Len(s) - 1 : SetTop(s, fr)[k] = s[k]
<1>1. Len(s) \in Nat /\ Len(s) >= 1
  BY EmptySeq DEF Stack
<1>2. s \in Seq(Frame) /\ s # << >> /\ fr \in Frame
  BY <1>1, EmptySeq DEF Stack, Callee
<1>3. /\ Len(SetTop(s, fr)) = Len(s)
      /\ \A i \in 1..Len(s) : SetTop(s, fr)[i] = IF i = Len(s) THEN fr ELSE s[i]
  BY <1>2, SetTopProperties
<1>4. Len(s) \in 1..Len(s) /\ \A i \in 1..Len(s) - 1 : i \in 1..Len(s) /\ i # Len(s)
  BY <1>1
<1>5. QED
  BY <1>3, <1>4

\* Another frame in the place of the top one
LEMMA TopCalls ==
  ASSUME CallsInv, CallsInv', NEW t \in Threads, WritesAbove(t),
         NEW fr, Callee(fr), fr.mark = Top(t).mark,
         frames'[t] = SetTop(frames[t], fr)
  PROVE  Calls!Becomes(t, Append(Calls!Outer(t),
                                 CallOf(fr, Len(call_stacks'[t]), call_stacks'[t], entryOf', kv')))
<1> DEFINE n == Len(frames[t])
           a == CallOf(fr, Len(call_stacks'[t]), call_stacks'[t], entryOf', kv')
<1>1. /\ Stack(frames[t]) /\ n \in Nat \ {0} /\ Top(t) = frames[t][n]
  BY TopFacts DEF CallsInv
<1>2. /\ Len(frames'[t]) = n /\ frames'[t][n] = fr
      /\ \A k \in 1..n - 1 : frames'[t][k] = frames[t][k]
  BY <1>1, NewTop
<1>3. \A k \in 1..n - 1 : CallsAt(t)'[k] = CallsAt(t)[k]
  <2>1. /\ Len(frames'[t]) \in Nat /\ Len(frames'[t]) >= n - 1 /\ Len(frames'[t]) # n - 1
        /\ \A k \in 1..n - 1 : frames'[t][k] = frames[t][k]
        /\ frames'[t][n].mark = Top(t).mark
    BY <1>1, <1>2
  <2>2. QED
    BY <2>1, BelowTop
<1>4. CallsAt(t)'[n] = a
  <2>1. n \in 1..Len(frames'[t])
        /\ UpperOf(frames'[t], call_stacks'[t], n) = Len(call_stacks'[t])
    BY <1>1, <1>2 DEF UpperOf
  <2>2. QED
    BY <1>2, <2>1 DEF CallsAt, CallsOf
<1>5. CallsAt(t)' = [k \in 1..n |-> CallsAt(t)'[k]]
  BY <1>2 DEF CallsAt, CallsOf
<1>6. Append(SubSeq(CallsAt(t), 1, n - 1), a) = [k \in 1..n |-> IF k = n THEN a ELSE CallsAt(t)[k]]
  <2>1. CallsAt(t) = [k \in 1..n |-> CallsAt(t)[k]] /\ Len(CallsAt(t)) = n
    BY CallsTop
  <2> DEFINE c == CallsAt(t)
  <2>2. OfLength(c, n)
    BY <1>1, <2>1 DEF OfLength
  <2> HIDE DEF a, n, c
  <2>3. Append(SubSeq(c, 1, n - 1), a) = LastOne(c, n, a)
    BY <2>2, ReplaceLast
  <2>4. QED
    BY <2>3 DEF LastOne, c
<1> HIDE DEF a, n
<1>7. \A k \in 1..n : CallsAt(t)'[k] = IF k = n THEN a ELSE CallsAt(t)[k]
  <2>1. \A k \in 1..n : k \in 1..n - 1 \/ k = n
    BY <1>1
  <2>2. n # n - 1
    BY <1>1
  <2>3. QED
    BY <1>1, <1>3, <1>4, <2>1, <2>2
<1>8. CallsAt(t)' = Append(SubSeq(CallsAt(t), 1, n - 1), a)
  BY <1>5, <1>6, <1>7
<1>9. Calls!Becomes(t, CallsAt(t)')
  BY CallsBecome DEF WritesAbove
<1>10. QED
  BY <1>8, <1>9, CallsTop DEF a, n

\* The top frame is gone, with its call_stacks popped before
LEMMA PopCalls ==
  ASSUME CallsInv, CallsInv', NEW t \in Threads, WritesAbove(t),
         Len(call_stacks'[t]) = Top(t).mark, Top(t).pc # "main",
         frames'[t] = SubSeq(frames[t], 1, Len(frames[t]) - 1)
  PROVE  Calls!Becomes(t, Calls!Outer(t))
<1> DEFINE n == Len(frames[t])
<1>1. /\ Stack(frames[t]) /\ n \in Nat \ {0} /\ Top(t) = frames[t][n]
  BY TopFacts DEF CallsInv
<1>2. /\ Len(frames'[t]) = n - 1
      /\ \A k \in 1..n - 1 : frames'[t][k] = frames[t][k]
  BY <1>1, PopProperties DEF Stack
<1>3. \A k \in 1..n - 1 : CallsAt(t)'[k] = CallsAt(t)[k]
  <2>1. /\ Len(frames'[t]) \in Nat /\ Len(frames'[t]) >= n - 1
        /\ \A k \in 1..n - 1 : frames'[t][k] = frames[t][k]
    BY <1>1, <1>2
  <2>2. QED
    BY <1>2, <2>1, BelowTop
<1>4. CallsAt(t)' = [k \in 1..n - 1 |-> CallsAt(t)'[k]]
  BY <1>2 DEF CallsAt, CallsOf
<1>5. SubSeq(CallsAt(t), 1, n - 1) = [k \in 1..n - 1 |-> CallsAt(t)[k]]
  <2>1. CallsAt(t) = [k \in 1..n |-> CallsAt(t)[k]] /\ Len(CallsAt(t)) = n
    BY CallsTop
  <2> HIDE DEF n
  <2>2. QED
    BY <1>1, <2>1, FrontFunction
<1>6. CallsAt(t)' = SubSeq(CallsAt(t), 1, n - 1)
  BY <1>3, <1>4, <1>5
<1>7. Calls!Becomes(t, CallsAt(t)')
  BY CallsBecome DEF WritesAbove
<1>8. QED
  BY <1>6, <1>7, CallsTop

\* A handler with the callback it calls, if there is one
LEMMA CallbackCalls ==
  ASSUME CallsInv, CallsInv', NEW t \in Threads, WritesAbove(t),
         NEW h, Callee(h), h.mark = Top(t).mark, Top(t).pc # "main",
         NEW pc \in {"pre", "post", "dbi"}, NEW present \in BOOLEAN,
         InvokeCallback(t, h, pc, present)
  PROVE  Calls!Becomes(t, Calls!Outer(t)
           \o <<CallOf(h, Len(call_stacks'[t]), call_stacks'[t], entryOf', kv')>>
           \o (IF present THEN <<Calls!Activation(pc, h.fn, << >>, NULL)>> ELSE << >>))
<1> DEFINE n == Len(frames[t])
           a == CallOf(h, Len(call_stacks'[t]), call_stacks'[t], entryOf', kv')
           b == Calls!Activation(pc, h.fn, << >>, NULL)
           fr == NewFrame(pc, h.fn, SiteAddr(Depth(t)), h.id, Len(call_stacks'[t]))
           q == SetTop(frames[t], h)
<1>1. /\ Stack(frames[t]) /\ n \in Nat \ {0} /\ Top(t) = frames[t][n] /\ Depth(t) = n
      /\ TypeInv
  BY TopFacts DEF CallsInv, RoutingInv
<1>2. Len(call_stacks'[t]) \in Nat
  <2>1. call_stacks'[t] \in Seq(CallIds)
    BY DEF CallsInv, RoutingInv, TypeInv, TypeOK
  <2>2. QED
    BY <2>1
<1>3. frames'[t] = IF present THEN Append(q, fr) ELSE q
  <2> HIDE DEF q, fr
  <2>1. SetFrames(t, IF present THEN Append(q, fr) ELSE q)
    BY DEF InvokeCallback, q, fr
  <2>2. QED
    BY <1>1, <2>1, SetFramesFacts
<1>4. CASE ~present
  <2>1. Calls!Becomes(t, Append(Calls!Outer(t), a))
    BY <1>3, <1>4, TopCalls
  <2>2. Append(Calls!Outer(t), a) = Calls!Outer(t) \o <<a>> \o << >>
    <3>1. /\ CallsAt(t) = [k \in 1..n |-> CallsAt(t)[k]] /\ Len(CallsAt(t)) = n
          /\ Calls!Outer(t) = SubSeq(CallsAt(t), 1, n - 1)
      BY CallsTop
    <3> DEFINE c == CallsAt(t)
    <3>2. OfLength(c, n)
      BY <1>1, <3>1 DEF OfLength
    <3> HIDE DEF a, n, c
    <3>3. Append(SubSeq(c, 1, n - 1), a) = LastOne(c, n, a)
      BY <3>2, ReplaceLast
    <3>4. SubSeq(c, 1, n - 1) \o <<a>> \o << >> = LastOne(c, n, a)
      BY <3>2, ReplaceLast
    <3>5. QED
      BY <3>1, <3>3, <3>4 DEF c
  <2> HIDE DEF a
  <2>3. QED
    BY <1>4, <2>1, <2>2 DEF a
<1>5. CASE present
  <2>1. Callee(fr) /\ fr.mark = Len(call_stacks'[t]) /\ fr.pc = pc /\ fr.fn = h.fn
    BY <1>1, <1>2 DEF Callee, Frame, NewFrame, Pc, UserCode, SiteAddr, Addr
  <2>2. /\ Stack(q) /\ Len(q) = n /\ q[n] = h
        /\ \A k \in 1..n - 1 : q[k] = frames[t][k]
    <3>1. Stack(q)
      BY <1>1, StackSetTop
    <3>2. QED
      BY <1>1, <3>1, NewTop
  <2> HIDE DEF fr, q
  <2>3. /\ Len(frames'[t]) = n + 1 /\ frames'[t][n + 1] = fr /\ frames'[t][n] = h
        /\ \A k \in 1..n - 1 : frames'[t][k] = frames[t][k]
    <3>1. /\ Len(Append(q, fr)) = n + 1 /\ Append(q, fr)[n + 1] = fr
          /\ \A k \in 1..n : Append(q, fr)[k] = q[k]
      <4>1. q \in Seq(Frame) /\ fr \in Frame
        BY <2>1, <2>2 DEF Stack, Callee
      <4>2. /\ Len(Append(q, fr)) = Len(q) + 1 /\ Append(q, fr)[Len(q) + 1] = fr
            /\ \A k \in 1..Len(q) : Append(q, fr)[k] = q[k]
        BY <4>1, AppendProperties
      <4>3. QED
        BY <2>2, <4>2
    <3>2. n \in 1..n /\ \A k \in 1..n - 1 : k \in 1..n
      BY <1>1
    <3>3. QED
      BY <1>3, <1>5, <2>2, <3>1, <3>2
  <2>4. \A k \in 1..n - 1 : CallsAt(t)'[k] = CallsAt(t)[k]
    <3>1. /\ Len(frames'[t]) \in Nat /\ Len(frames'[t]) >= n - 1 /\ Len(frames'[t]) # n - 1
          /\ \A k \in 1..n - 1 : frames'[t][k] = frames[t][k]
          /\ frames'[t][n].mark = Top(t).mark
      BY <1>1, <2>3
    <3>2. QED
      BY <3>1, BelowTop
  <2>5. CallsAt(t)'[n] = a
    <3>1. n \in 1..Len(frames'[t])
          /\ UpperOf(frames'[t], call_stacks'[t], n) = Len(call_stacks'[t])
      BY <1>1, <2>1, <2>3 DEF UpperOf
    <3>2. QED
      BY <2>3, <3>1 DEF CallsAt, CallsOf
  <2>6. CallsAt(t)'[n + 1] = b
    <3>1. n + 1 \in 1..Len(frames'[t])
          /\ UpperOf(frames'[t], call_stacks'[t], n + 1) = Len(call_stacks'[t])
      BY <1>1, <2>3 DEF UpperOf
    <3>2. CallsAt(t)'[n + 1] = CallOf(fr, Len(call_stacks'[t]), call_stacks'[t], entryOf', kv')
      BY <2>3, <3>1 DEF CallsAt, CallsOf
    <3>3. 1..(Len(call_stacks'[t]) - fr.mark) = {}
      BY <1>2, <2>1
    <3>4. CallOf(fr, Len(call_stacks'[t]), call_stacks'[t], entryOf', kv').owed = << >>
      BY <3>3 DEF CallOf, OwedBy, DebtAt
    <3>5. QED
      BY <2>1, <3>2, <3>4 DEF CallOf, OwedBy, DebtAt, Calls!Activation
  <2>7. CallsAt(t)' = [k \in 1..n + 1 |-> CallsAt(t)'[k]]
    BY <2>3 DEF CallsAt, CallsOf
  <2>8. SubSeq(CallsAt(t), 1, n - 1) \o <<a>> \o <<b>> =
          [k \in 1..n + 1 |-> IF k = n + 1 THEN b ELSE IF k = n THEN a ELSE CallsAt(t)[k]]
    <3> DEFINE c == CallsAt(t)
    <3>1. OfLength(c, n)
      BY <1>1, CallsTop DEF OfLength
    <3> HIDE DEF a, b, n, c
    <3>2. SubSeq(c, 1, n - 1) \o <<a>> \o <<b>> = LastTwo(c, n, a, b)
      BY <3>1, ReplaceLastTwo, Zenon
    <3>3. QED
      BY <3>2 DEF LastTwo, c
  <2> HIDE DEF a, b, n
  <2>9. \A k \in 1..n + 1 :
          CallsAt(t)'[k] = IF k = n + 1 THEN b ELSE IF k = n THEN a ELSE CallsAt(t)[k]
    <3>1. \A k \in 1..n + 1 : k \in 1..n - 1 \/ k = n \/ k = n + 1
      BY <1>1
    <3>2. \A k \in 1..n - 1 : k # n /\ k # n + 1
      BY <1>1
    <3>3. n # n + 1
      BY <1>1
    <3>4. QED
      BY <2>4, <2>5, <2>6, <3>1, <3>2, <3>3
  <2>10. CallsAt(t)' = SubSeq(CallsAt(t), 1, n - 1) \o <<a>> \o <<b>>
    BY <2>7, <2>8, <2>9
  <2>11. Calls!Becomes(t, CallsAt(t)')
    BY CallsBecome DEF WritesAbove
  <2>12. Calls!Outer(t) = SubSeq(CallsAt(t), 1, n - 1)
    BY CallsTop DEF n
  <2>13. QED
    BY <1>5, <2>10, <2>11, <2>12 DEF a, b
<1>6. QED
  BY <1>4, <1>5

(* ------------------------------------------------------------------------ *)
(* The actions                                                                 *)

\* The debts of thread t's innermost activation
Owes(t) ==
  LET fr == Top(t)
      cs == call_stacks[t]
  IN  OwedBy(fr.mark, Len(cs), cs, entryOf, kv)

\* The innermost activation is that of the top frame
LEMMA InnermostCall ==
  ASSUME CallsInv, NEW t \in Threads
  PROVE  /\ Calls!Innermost(t).pc = Top(t).pc /\ Calls!Innermost(t).fn = Top(t).fn
         /\ Calls!Innermost(t).owed = Owes(t)
         /\ Top(t).mark \in Nat /\ Len(call_stacks[t]) \in Nat
         /\ Top(t).mark <= Len(call_stacks[t])
         /\ Len(Owes(t)) = Len(call_stacks[t]) - Top(t).mark
<1>1. Calls!Innermost(t) = CallOf(Top(t), Len(call_stacks[t]), call_stacks[t], entryOf, kv)
  BY CallsTop
<1>2. /\ Top(t).mark \in Nat /\ Len(call_stacks[t]) \in Nat
      /\ Top(t).mark <= Len(call_stacks[t])
  BY TopFacts DEF CallsInv, Frame, FrameOK
<1>3. Len(Owes(t)) = Len(call_stacks[t]) - Top(t).mark
  <2> DEFINE n == Len(call_stacks[t]) - Top(t).mark
             g == Owes(t)
  <2>1. n \in Nat /\ g = [j \in 1..n |-> g[j]]
    BY <1>2 DEF Owes, OwedBy, DebtAt
  <2> HIDE DEF n, g
  <2>2. Len(g) = n
    BY <2>1, FunctionIsSeq
  <2>3. QED
    BY <2>2 DEF n, g
<1>4. QED
  BY <1>1, <1>2, <1>3 DEF CallOf, Owes, OwedBy, DebtAt

\* What a frame owes is told by its mark
LEMMA SameDebts ==
  ASSUME NEW t \in Threads, NEW fr, fr.mark = Top(t).mark, fr.pc # "end",
         UNCHANGED <<call_stacks, entryOf, kv>>
  PROVE  CallOf(fr, Len(call_stacks'[t]), call_stacks'[t], entryOf', kv') =
           Calls!Activation(fr.pc, fr.fn, Owes(t), NULL)
  BY DEF CallOf, Owes, OwedBy, DebtAt, Calls!Activation

\* A call pushes an activation, a tail call takes over the debts of its caller
LEMMA BranchCalls ==
  ASSUME CallsInv, CallsInv', NEW t \in Threads, NEW f \in Functions,
         NEW pc \in Pc \ {"main", "begin", "leave", "end", "pre", "post"},
         pc = "enter" => f \in Wrapped,
         Branch(t, f, pc) \/ TailBranch(t, f, pc)
  PROVE  Calls!Enter(t, f, pc)
<1>1. /\ TypeInv /\ Stack(frames[t])
      /\ Depth(t) \in Nat /\ Len(call_stacks[t]) \in Nat
      /\ Top(t) \in Frame
  BY TopFacts DEF CallsInv, RoutingInv
<1>2. Top(t).pc \in UserCode /\ UNCHANGED <<call_stacks, entryOf, kv>>
  BY DEF Branch, TailBranch, InUserCode, threadStackVars
<1>3. Calls!InUserCode(t)
  BY <1>2, InnermostCall DEF Calls!InUserCode, UserCode
<1>4. CASE Branch(t, f, pc)
  <2> DEFINE fr == NewFrame(pc, f, SiteAddr(Depth(t)), NULL, Len(call_stacks[t]))
  <2>1. /\ Callee(fr) /\ fr.pc # "end" /\ fr.mark = Len(call_stacks[t])
        /\ fr.pc = pc /\ fr.fn = f
    BY <1>1 DEF Callee, Frame, NewFrame, SiteAddr, Addr
  <2> HIDE DEF fr
  <2>2. SetFrames(t, Append(frames[t], fr))
    BY <1>4 DEF Branch, fr
  <2>3. /\ frames'[t] = Append(frames[t], fr)
        /\ \A u \in Threads : u # t => frames'[u] = frames[u]
    BY <1>1, <2>2, SetFramesFacts
  <2>4. Calls!Becomes(t, Append(AbstractCalls[t], Calls!Activation(fr.pc, fr.fn, << >>, NULL)))
    BY <1>2, <2>1, <2>3, PushCalls
  <2>5. QED
    BY <1>3, <2>1, <2>4 DEF Calls!Enter
<1>5. CASE TailBranch(t, f, pc)
  <2> DEFINE fr == NewFrame(pc, f, Top(t).lr, NULL, Top(t).mark)
  <2>1. /\ Callee(fr) /\ fr.pc # "end" /\ fr.mark = Top(t).mark
        /\ fr.pc = pc /\ fr.fn = f /\ Top(t).pc # "main"
    BY <1>1, <1>5 DEF Callee, Frame, NewFrame, TailBranch
  <2> HIDE DEF fr
  <2>2. SetFrames(t, SetTop(frames[t], fr))
    BY <1>5 DEF TailBranch, fr
  <2>3. /\ frames'[t] = SetTop(frames[t], fr)
        /\ \A u \in Threads : u # t => frames'[u] = frames[u]
    BY <1>1, <2>2, SetFramesFacts
  <2>4. Calls!Becomes(t, Append(Calls!Outer(t),
                                CallOf(fr, Len(call_stacks'[t]), call_stacks'[t], entryOf', kv')))
    BY <1>2, <2>1, <2>3, WritesNothing, TopCalls
  <2>5. CallOf(fr, Len(call_stacks'[t]), call_stacks'[t], entryOf', kv') =
          Calls!Activation(pc, f, Calls!Innermost(t).owed, NULL)
    BY <1>2, <2>1, SameDebts, InnermostCall
  <2>6. QED
    BY <1>3, <2>1, <2>4, <2>5, InnermostCall DEF Calls!Enter
<1>6. QED
  BY <1>4, <1>5

\* EntryPoint is what the abstract call enters
LEMMA ProgramCalls ==
  ASSUME CallsInv, CallsInv', NEW t \in Threads, NEW f \in Functions,
         Call(t, f) \/ TailCall(t, f) \/ CallOrigin(t, f) \/ TailCallOrigin(t, f)
  PROVE  Calls!Call(t, f) \/ Calls!CallOrigin(t, f)
<1>1. /\ EntryPoint(f) \in Pc \ {"main", "begin", "leave", "end", "pre", "post"}
      /\ EntryPoint(f) = "enter" => f \in Wrapped
      /\ "code" \in Pc \ {"main", "begin", "leave", "end", "pre", "post"}
  BY HooksAssumption DEF EntryPoint, Pc, UserCode
<1>2. Calls!Entry(f) = EntryPoint(f)
  BY DEF Calls!Entry, EntryPoint
<1>3. CASE Call(t, f) \/ TailCall(t, f)
  BY <1>1, <1>2, <1>3, BranchCalls DEF Call, TailCall, Calls!Call
<1>4. CASE CallOrigin(t, f) \/ TailCallOrigin(t, f)
  BY <1>1, <1>4, BranchCalls DEF CallOrigin, TailCallOrigin, Calls!CallOrigin
<1>5. QED
  BY <1>3, <1>4

\* A frame that is done branches to where it must: to its caller, or to the leave
\* trampoline of the latest call_stack it has pushed
LEMMA FinishCalls ==
  ASSUME CallsInv, CallsInv', NEW t \in Threads, WritesAbove(t), Top(t).pc # "main",
         call_stacks' = call_stacks,
         \A i \in 1..Len(call_stacks[t]) :
           LET id == call_stacks[t][i] IN entryOf'[id] = entryOf[id] /\ kv'[id] = kv[id],
         NEW a \in Addr, Jump(t, a),
         a = Returns(Top(t), Depth(t), Len(call_stacks[t]), call_stacks[t], entryOf)
  PROVE  Calls!Finish(t, Owes(t))
<1> DEFINE cs == call_stacks[t]
           m == Len(call_stacks[t])
           b == Top(t).mark
<1>1. /\ b \in Nat /\ m \in Nat /\ b <= m /\ Len(Owes(t)) = m - b
      /\ TypeInv /\ Stack(frames[t]) /\ Depth(t) = Len(frames[t])
  BY InnermostCall, TopFacts DEF CallsInv, RoutingInv
<1>2. CASE m = b
  <2>1. a[1] = "site"
    BY <1>2 DEF Returns, SiteAddr
  <2>2. frames' = [frames EXCEPT ![t] = SubSeq(@, 1, Len(@) - 1)]
    BY <2>1 DEF Jump
  <2>3. frames'[t] = SubSeq(frames[t], 1, Len(frames[t]) - 1)
    BY <1>1, <2>2 DEF TypeInv, TypeOK
  <2>4. Calls!Becomes(t, Calls!Outer(t))
    BY <1>2, <2>3, PopCalls
  <2>5. Owes(t) = << >>
    <3>1. 1..(m - b) = {}
      BY <1>1, <1>2
    <3>2. QED
      BY <3>1 DEF Owes, OwedBy, DebtAt
  <2>6. QED
    BY <2>4, <2>5 DEF Calls!Finish
<1>3. CASE m # b
  <2> DEFINE fr == NewFrame("leave", a[2], a, NULL, Top(t).mark)
  <2>1. a = LeaveAddr(entryOf[cs[m]]) /\ a[1] # "site" /\ a[2] = entryOf[cs[m]]
    BY <1>3 DEF Returns, LeaveAddr
  <2>2. a[2] \in Functions
    BY <2>1, HooksAssumption DEF Addr
  <2>3. /\ Callee(fr) /\ fr.pc = "leave" /\ fr.mark = b /\ fr.fn = entryOf[cs[m]]
    BY <1>1, <2>1, <2>2 DEF Callee, Frame, NewFrame, Pc, UserCode
  <2>4. SetFrames(t, SetTop(frames[t], fr))
    BY <2>1 DEF Jump
  <2> HIDE DEF fr
  <2>5. frames'[t] = SetTop(frames[t], fr)
    BY <1>1, <2>4, SetFramesFacts
  <2>6. Calls!Becomes(t, Append(Calls!Outer(t),
                                CallOf(fr, Len(call_stacks'[t]), call_stacks'[t], entryOf', kv')))
    BY <2>3, <2>5, TopCalls
  <2>7. CallOf(fr, Len(call_stacks'[t]), call_stacks'[t], entryOf', kv') =
          CallOf(fr, m, cs, entryOf, kv)
    <3>1. \A i \in fr.mark + 1..m : i \in 1..m
      BY <1>1, <2>3
    <3>2. fr.mark \in Nat /\ fr.pc # "end"
      BY <1>1, <2>3
    <3>3. \A i \in fr.mark + 1..m :
            cs[i] = cs[i] /\ entryOf'[cs[i]] = entryOf[cs[i]] /\ kv'[cs[i]] = kv[cs[i]]
      BY <3>1
    <3> DEFINE fo == entryOf'
               kx == kv'
    <3> HIDE DEF fr, cs, m, fo, kx
    <3>4. CallOf(fr, m, cs, fo, kx) = CallOf(fr, m, cs, entryOf, kv)
      BY <1>1, <3>2, <3>3, CallSame DEF fo, kx
    <3>5. QED
      BY <3>4 DEF cs, m, fo, kx
  <2>8. CallOf(fr, m, cs, entryOf, kv) =
          Calls!Activation("leave", fr.fn, Owes(t), NULL)
    BY <2>3 DEF CallOf, Owes, OwedBy, DebtAt, Calls!Activation
  <2>9. Calls!LastOf(Owes(t)).fn = fr.fn /\ Owes(t) # << >>
    <3>1. m - b \in 1..(m - b) /\ b + (m - b) = m /\ m - b # 0
      BY <1>1, <1>3
    <3>2. Owes(t)[m - b].fn = entryOf[cs[b + (m - b)]]
      BY <3>1 DEF Owes, OwedBy, DebtAt
    <3>3. Owes(t) # << >>
      BY <1>1, <3>1
    <3>4. QED
      BY <1>1, <2>3, <3>1, <3>2, <3>3 DEF Calls!LastOf
  <2>10. QED
    BY <2>6, <2>7, <2>8, <2>9 DEF Calls!Finish
<1>4. QED
  BY <1>2, <1>3

\* A function returns: its lr is where FinishCalls says
LEMMA ReturnCalls ==
  ASSUME CallsInv, CallsInv', NEW t \in Threads, Return(t)
  PROVE  Calls!Return(t)
<1>1. /\ UNCHANGED <<call_stacks, entryOf, kv>>
      /\ Top(t).pc \in UserCode \ {"main"} /\ Jump(t, Top(t).lr)
  BY DEF Return, InUserCode, threadStackVars
<1>2. /\ Top(t).lr \in Addr
      /\ Top(t).lr = Returns(Top(t), Depth(t), Len(call_stacks[t]), call_stacks[t], entryOf)
  BY <1>1, TopFacts DEF CallsInv, Frame, FrameOK, UserCode
<1>3. \A u \in Threads : u # t => frames'[u] = frames[u]
  BY <1>1 DEF CallsInv, RoutingInv, TypeInv, TypeOK, Jump, SetFrames
<1>4. Calls!Finish(t, Owes(t))
  <2>1. WritesAbove(t)
    BY <1>1, <1>3, WritesNothing
  <2>2. QED
    BY <1>1, <1>2, <2>1, FinishCalls
<1>5. QED
  BY <1>1, <1>4, InnermostCall DEF Calls!Return, Calls!InUserCode, UserCode

\* routing_end branches to ret_addr and destroys a call_stack nothing else refers to
LEMMA EndNextHopCalls ==
  ASSUME CallsInv, CallsInv', NEW t \in Threads, RoutingEndNextHop(t)
  PROVE  Calls!Leave(t)
<1> DEFINE id == Top(t).id
           a == ret_addr[id]
           n == Depth(t)
<1>1. /\ Top(t).pc = "end" /\ Jump(t, a) /\ call_stacks' = call_stacks
      /\ DestroyCallStack(id, NullAddr) /\ entryOf' = [entryOf EXCEPT ![id] = NULL]
  BY DEF RoutingEndNextHop, At
<1>2. /\ id \in CallIds /\ a \in Addr /\ n = Len(frames[t]) /\ n \in Nat \ {0}
      /\ a = Returns(Top(t), n, Len(call_stacks[t]), call_stacks[t], entryOf)
      /\ TypeOK /\ IdsOK /\ Top(t) = frames[t][n]
  BY <1>1, TopFacts DEF CallsInv, RoutingInv, TypeInv, TypeOK, Callee, FrameOK
<1>3. \A u \in Threads : u # t => frames'[u] = frames[u]
  BY <1>1, <1>2 DEF TypeOK, Jump, SetFrames
<1>4. \A x \in CallIds \ {id} : entryOf'[x] = entryOf[x] /\ kv'[x] = kv[x]
  BY <1>1, <1>2 DEF TypeOK, DestroyCallStack
<1>5. n \in Ends(frames[t]) /\ id \in IdsOf(frames[t], call_stacks[t])
  BY <1>1, <1>2 DEF Ends, IdsOf
<1>6. \A i \in 1..Len(call_stacks[t]) : call_stacks[t][i] \in CallIds \ {id}
  BY <1>2, <1>5, TopFacts DEF CallsInv, IdsOK, Distinct
<1>7. \A k \in Ends(frames[t]) : k # n => frames[t][k].id \in CallIds \ {id}
  <2>1. \A k \in Ends(frames[t]) : frames[t][k].id \in CallIds
    BY TopFacts, IdsTyped DEF CallsInv, Ends
  <2>2. QED
    BY <1>2, <1>5, <2>1 DEF IdsOK, Distinct
<1>8. \A u \in Threads : u # t =>
        \A x \in IdsOf(frames[u], call_stacks[u]) : x \in CallIds \ {id}
  <2>1. \A u \in Threads : IdsOf(frames[u], call_stacks[u]) \subseteq CallIds
    BY <1>2 DEF IdsOK, TypeOK
  <2>2. QED
    BY <1>2, <1>5, <2>1 DEF IdsOK
<1>9. WritesAbove(t)
  <2>1. Top(t).mark <= Len(call_stacks[t]) /\ Top(t).mark \in Nat /\ Len(call_stacks[t]) \in Nat
    BY InnermostCall
  <2>2. \A i \in 1..Top(t).mark : i \in 1..Len(call_stacks[t])
    BY <2>1
  <2>3. \A k \in 1..Len(frames[t]) - 1 : frames[t][k].pc = "end" =>
          k \in Ends(frames[t]) /\ k # n
    BY <1>2 DEF Ends
  <2> HIDE DEF id
  <2>4. QED
    BY <1>1, <1>3, <1>4, <1>6, <1>7, <1>8, <2>2, <2>3 DEF WritesAbove
<1>10. Calls!Finish(t, Owes(t))
  BY <1>1, <1>2, <1>4, <1>6, <1>9, FinishCalls
<1>11. QED
  BY <1>1, <1>10, InnermostCall DEF Calls!Leave

\* The handler of a hook, with its callback
LEMMA HandlerCalls ==
  ASSUME CallsInv, CallsInv', NEW t \in Threads, WritesAbove(t),
         NEW h, Callee(h), h.mark = Top(t).mark, Top(t).pc # "main",
         NEW pc \in {"pre", "post", "dbi"}, NEW present \in BOOLEAN,
         InvokeCallback(t, h, pc, present)
  PROVE  Calls!WithCallback(t, CallOf(h, Len(call_stacks'[t]), call_stacks'[t], entryOf', kv'),
                            pc, present)
<1> DEFINE a == CallOf(h, Len(call_stacks'[t]), call_stacks'[t], entryOf', kv')
<1>1. a.fn = h.fn
  BY DEF CallOf, OwedBy, DebtAt
<1>2. Calls!Becomes(t, Calls!Outer(t) \o <<a>>
           \o (IF present THEN <<Calls!Activation(pc, h.fn, << >>, NULL)>> ELSE << >>))
  BY CallbackCalls
<1> HIDE DEF a
<1>3. Calls!WithCallback(t, a, pc, present)
  BY <1>1, <1>2 DEF Calls!WithCallback
<1>4. QED
  BY <1>3 DEF a

\* A step to other code of the same call
LEMMA BodyCalls ==
  ASSUME CallsInv, CallsInv', NEW t \in Threads, UNCHANGED <<call_stacks, entryOf, kv>>,
         NEW fr, Callee(fr), fr.mark = Top(t).mark, fr.fn = Top(t).fn, fr.pc = "code",
         SetFrames(t, SetTop(frames[t], fr)), Top(t).pc \in {"begin", "dbi_end"}
  PROVE  Calls!Body(t)
<1>1. /\ frames'[t] = SetTop(frames[t], fr)
      /\ \A u \in Threads : u # t => frames'[u] = frames[u]
  BY SetFramesFacts DEF CallsInv, RoutingInv
<1>2. Calls!Becomes(t, Append(Calls!Outer(t),
                              CallOf(fr, Len(call_stacks'[t]), call_stacks'[t], entryOf', kv')))
  BY <1>1, WritesNothing, TopCalls
<1>3. CallOf(fr, Len(call_stacks'[t]), call_stacks'[t], entryOf', kv') =
        Calls!Activation("code", Top(t).fn, Owes(t), NULL)
  BY SameDebts
<1>4. QED
  BY <1>2, <1>3, InnermostCall DEF Calls!Body

\* routing_begin goes on to the function
LEMMA BeginNextHopCalls ==
  ASSUME CallsInv, CallsInv', NEW t \in Threads, RoutingBeginNextHop(t)
  PROVE  Calls!Body(t)
<1> DEFINE fr == NewFrame("code", Top(t).fn, LeaveAddr(Top(t).fn), NULL, Top(t).mark)
<1>1. /\ Top(t).pc = "begin" /\ SetFrames(t, SetTop(frames[t], fr))
      /\ UNCHANGED <<call_stacks, entryOf, kv>>
  BY DEF RoutingBeginNextHop, At
<1>2. Callee(fr) /\ fr.mark = Top(t).mark /\ fr.fn = Top(t).fn /\ fr.pc = "code"
  BY <1>1, HandlerFrames DEF CallsInv, NewFrame
<1> HIDE DEF fr
<1>3. QED
  BY <1>1, <1>2, BodyCalls

\* The dbi handler goes on to the function
LEMMA DBINextHopCalls ==
  ASSUME CallsInv, CallsInv', NEW t \in Threads, RoutingDBINextHop(t)
  PROVE  Calls!Body(t)
<1> DEFINE fr == [Top(t) EXCEPT !.pc = "code"]
<1>1. /\ Top(t).pc = "dbi_end" /\ SetFrames(t, SetTop(frames[t], fr))
      /\ UNCHANGED <<call_stacks, entryOf, kv>> /\ Top(t) \in Frame
  BY TopFacts DEF CallsInv, RoutingDBINextHop, At, threadStackVars
<1>2. Callee(fr) /\ fr.mark = Top(t).mark /\ fr.fn = Top(t).fn /\ fr.pc = "code"
  BY <1>1, HandlerFrames DEF CallsInv, Frame
<1> HIDE DEF fr
<1>3. QED
  BY <1>1, <1>2, BodyCalls

\* The dbi handler with its callback
LEMMA DBICalls ==
  ASSUME CallsInv, CallsInv', NEW t \in Threads, RoutingDBI(t)
  PROVE  Calls!DbiCall(t)
<1> DEFINE h == [Top(t) EXCEPT !.pc = "dbi_end"]
<1>1. /\ Top(t).pc = "dbi_enter" /\ InvokeCallback(t, h, "dbi", Top(t).fn \in HasDbi)
      /\ UNCHANGED <<call_stacks, entryOf, kv>> /\ Top(t) \in Frame
  BY TopFacts DEF CallsInv, RoutingDBI, At, threadStackVars
<1>2. Callee(h) /\ h.mark = Top(t).mark /\ h.fn = Top(t).fn /\ h.pc = "dbi_end"
  BY <1>1, HandlerFrames DEF CallsInv, Frame
<1>3. \A u \in Threads : u # t => frames'[u] = frames[u]
  BY <1>1, SetFramesFacts DEF InvokeCallback, CallsInv, RoutingInv
<1> HIDE DEF h
<1>4. WritesAbove(t)
  BY <1>1, <1>3, WritesNothing
<1>5. Calls!WithCallback(t, CallOf(h, Len(call_stacks'[t]), call_stacks'[t], entryOf', kv'),
                         "dbi", Top(t).fn \in HasDbi)
  <2> DEFINE present == Top(t).fn \in HasDbi
  <2>1. present \in BOOLEAN /\ InvokeCallback(t, h, "dbi", present)
    BY <1>1
  <2> HIDE DEF present
  <2>2. Calls!WithCallback(t, CallOf(h, Len(call_stacks'[t]), call_stacks'[t], entryOf', kv'),
                           "dbi", present)
    BY <1>1, <1>2, <1>4, <2>1, HandlerCalls
  <2>3. QED
    BY <2>2 DEF present
<1>6. CallOf(h, Len(call_stacks'[t]), call_stacks'[t], entryOf', kv') =
        Calls!Activation("dbi_end", Top(t).fn, Owes(t), NULL)
  BY <1>1, <1>2, SameDebts
<1>7. QED
  BY <1>1, <1>5, <1>6, InnermostCall DEF Calls!DbiCall

\* A call_stack on top of those a frame has pushed
LEMMA DebtsPush ==
  ASSUME NEW b \in Nat, NEW m \in Nat, b <= m, NEW cs, NEW eo, NEW kw, NEW ds, NEW fo, NEW kx,
         \A i \in b + 1..m : ds[i] = cs[i] /\ fo[cs[i]] = eo[cs[i]] /\ kx[cs[i]] = kw[cs[i]]
  PROVE  OwedBy(b, m + 1, ds, fo, kx) =
           Append(OwedBy(b, m, cs, eo, kw), DebtAt(m + 1, ds, fo, kx))
<1> DEFINE n == m - b
           o == OwedBy(b, m, cs, eo, kw)
           d == DebtAt(m + 1, ds, fo, kx)
<1>1. n \in Nat /\ m + 1 - b = n + 1 /\ b + (n + 1) = m + 1 /\ \A j \in 1..n : b + j \in b + 1..m
  OBVIOUS
<1>2. o = [j \in 1..n |-> o[j]] /\ \A j \in 1..n : o[j] = DebtAt(b + j, cs, eo, kw)
  BY DEF OwedBy
<1>3. \A j \in 1..n : DebtAt(b + j, ds, fo, kx) = o[j]
  BY <1>1, <1>2 DEF DebtAt
<1>4. DebtAt(b + (n + 1), ds, fo, kx) = d
  BY <1>1
<1> HIDE DEF n, o, d
<1>5. Append(o, d) = [j \in 1..n + 1 |-> IF j = n + 1 THEN d ELSE o[j]]
  BY <1>1, <1>2, AppendFunction
<1>6. OwedBy(b, m + 1, ds, fo, kx) = [j \in 1..n + 1 |-> DebtAt(b + j, ds, fo, kx)]
  BY <1>1 DEF OwedBy
<1>7. \A j \in 1..n + 1 : DebtAt(b + j, ds, fo, kx) = IF j = n + 1 THEN d ELSE o[j]
  BY <1>1, <1>3, <1>4
<1>8. QED
  BY <1>5, <1>6, <1>7 DEF o, d

\* The new call_stack is nobody's
LEMMA FreshId ==
  ASSUME CallsInv, NEW id, id \notin allocated
  PROVE  /\ \A u \in Threads : \A x \in IdsOf(frames[u], call_stacks[u]) : x \in CallIds \ {id}
         /\ \A u \in Threads : \A i \in 1..Len(call_stacks[u]) :
              call_stacks[u][i] \in CallIds \ {id}
         /\ \A u \in Threads : \A k \in 1..Len(frames[u]) :
              frames[u][k].pc = "end" => frames[u][k].id \in CallIds \ {id}
<1>1. \A u \in Threads : IdsOf(frames[u], call_stacks[u]) \subseteq CallIds \ {id}
  BY DEF CallsInv, RoutingInv, IdsOK, TypeInv, TypeOK
<1>2. QED
  BY <1>1 DEF IdsOf, Ends

\* routing_begin pushes a call_stack: a new debt, with an empty store
LEMMA BeginCalls ==
  ASSUME CallsInv, CallsInv', NEW t \in Threads, RoutingBegin(t)
  PROVE  Calls!PreCall(t)
<1> PICK id \in CallIds :
      /\ NewCallStack(id, NullAddr)
      /\ PushCallStack(t, id)
      /\ entryOf' = [entryOf EXCEPT ![id] = Top(t).fn]
      /\ InvokeCallback(t, [Top(t) EXCEPT !.pc = "begin", !.id = id],
                        "pre", Top(t).fn \in HasPre)
  BY DEF RoutingBegin
<1> DEFINE h == [Top(t) EXCEPT !.pc = "begin", !.id = id]
           cs == call_stacks[t]
           m == Len(cs)
           b == Top(t).mark
           ds == call_stacks'[t]
           fo == entryOf'
           kx == kv'
<1>1. /\ Top(t).pc = "enter" /\ Top(t) \in Frame /\ TypeInv /\ id \notin allocated
      /\ call_stacks' = [call_stacks EXCEPT ![t] = Append(@, id)]
      /\ kx = [kv EXCEPT ![id] = NULL] /\ fo = [entryOf EXCEPT ![id] = Top(t).fn]
  BY TopFacts DEF RoutingBegin, At, CallsInv, RoutingInv, NewCallStack, PushCallStack
<1>2. /\ Callee(h) /\ h.mark = b /\ h.fn = Top(t).fn /\ h.pc = "begin"
      /\ InvokeCallback(t, h, "pre", Top(t).fn \in HasPre)
  BY <1>1, HandlerFrames DEF CallsInv, Frame
<1>3. /\ b \in Nat /\ m \in Nat /\ b <= m /\ Len(Owes(t)) = m - b /\ cs \in Seq(CallIds)
  BY InnermostCall, TopFacts DEF CallsInv
<1>4. /\ \A u \in Threads : u # t =>
           frames'[u] = frames[u] /\ call_stacks'[u] = call_stacks[u]
      /\ ds = Append(cs, id)
  BY <1>1, <1>2, SetFramesFacts DEF InvokeCallback, TypeInv, TypeOK
<1>5. Len(ds) = m + 1 /\ ds[m + 1] = id /\ \A i \in 1..m : ds[i] = cs[i]
  BY <1>3, <1>4, AppendProperties
<1>6. /\ \A x \in CallIds \ {id} : fo[x] = entryOf[x] /\ kx[x] = kv[x]
      /\ fo[id] = Top(t).fn /\ kx[id] = NULL
  BY <1>1 DEF TypeInv, TypeOK
<1>7. WritesAbove(t)
  <2>1. \A i \in 1..b : i \in 1..m
    BY <1>3
  <2>2. \A k \in 1..Len(frames[t]) - 1 : k \in 1..Len(frames[t])
    BY TopFacts DEF CallsInv
  <2>3. \A i \in 1..b : ds[i] = cs[i] /\ cs[i] \in CallIds \ {id}
    BY <1>1, <1>5, <2>1, FreshId
  <2>4. \A k \in 1..Len(frames[t]) - 1 : frames[t][k].pc = "end" =>
          frames[t][k].id \in CallIds \ {id}
    BY <1>1, <2>2, FreshId
  <2>5. \A u \in Threads : \A x \in IdsOf(frames[u], call_stacks[u]) : x \in CallIds \ {id}
    BY <1>1, FreshId
  <2> HIDE DEF h
  <2>6. QED
    BY <1>4, <1>6, <2>3, <2>4, <2>5 DEF WritesAbove
<1>8. CallOf(h, m + 1, ds, fo, kx) =
        Calls!Activation("begin", Top(t).fn, Append(Owes(t), Calls!Debt(Top(t).fn)), NULL)
  <2>1. \A i \in b + 1..m :
          ds[i] = cs[i] /\ fo[cs[i]] = entryOf[cs[i]] /\ kx[cs[i]] = kv[cs[i]]
    <3>1. \A i \in b + 1..m : i \in 1..m
      BY <1>3
    <3>2. \A i \in b + 1..m : cs[i] \in CallIds \ {id}
      BY <1>1, <3>1, FreshId
    <3>3. QED
      BY <1>5, <1>6, <3>1, <3>2
  <2>2. DebtAt(m + 1, ds, fo, kx) = Calls!Debt(Top(t).fn)
    BY <1>5, <1>6 DEF DebtAt, Calls!Debt
  <2>3. Owes(t) = OwedBy(b, m, cs, entryOf, kv)
    BY DEF Owes
  <2> HIDE DEF fo, kx, ds, cs, h, m, b
  <2>4. OwedBy(b, m + 1, ds, fo, kx) = Append(Owes(t), Calls!Debt(Top(t).fn))
    BY <1>3, <2>1, <2>2, <2>3, DebtsPush
  <2>5. QED
    BY <1>2, <2>4 DEF CallOf, Calls!Activation
<1>9. Calls!WithCallback(t, CallOf(h, Len(ds), ds, fo, kx), "pre", Top(t).fn \in HasPre)
  <2> DEFINE present == Top(t).fn \in HasPre
  <2>1. present \in BOOLEAN /\ InvokeCallback(t, h, "pre", present)
    BY <1>2
  <2> HIDE DEF present, h
  <2>2. Calls!WithCallback(t, CallOf(h, Len(ds), ds, fo, kx), "pre", present)
    BY <1>1, <1>2, <1>7, <2>1, HandlerCalls
  <2>3. QED
    BY <2>2 DEF present
<1>10. QED
  BY <1>1, <1>5, <1>8, <1>9, InnermostCall DEF Calls!PreCall

\* The call_stacks a frame has pushed, the others, and the latest
OwedBut(o, front, last) ==
  front = SubSeq(o, 1, Len(o) - 1) /\ o[Len(o)] = last /\ o # << >>

\* The front and the last of what a frame owes
LEMMA DebtsPop ==
  ASSUME NEW b \in Nat, NEW m \in Nat, b < m, NEW cs, NEW eo, NEW kw, NEW ds,
         \A i \in b + 1..m - 1 : ds[i] = cs[i]
  PROVE  OwedBut(OwedBy(b, m, cs, eo, kw), OwedBy(b, m - 1, ds, eo, kw), DebtAt(m, cs, eo, kw))
<1> DEFINE n == m - b
           o == OwedBy(b, m, cs, eo, kw)
<1>1. /\ n \in Nat \ {0} /\ m - 1 - b = n - 1 /\ b + n = m /\ n \in 1..n
      /\ \A j \in 1..n - 1 : b + j \in b + 1..m - 1 /\ j \in 1..n
  OBVIOUS
<1>2. o = [j \in 1..n |-> o[j]] /\ \A j \in 1..n : o[j] = DebtAt(b + j, cs, eo, kw)
  BY DEF OwedBy
<1>3. \A j \in 1..n - 1 : DebtAt(b + j, ds, eo, kw) = o[j]
  BY <1>1, <1>2 DEF DebtAt
<1>4. OwedBy(b, m - 1, ds, eo, kw) = [j \in 1..n - 1 |-> DebtAt(b + j, ds, eo, kw)]
  BY <1>1 DEF OwedBy
<1> HIDE DEF n, o
<1>5. SubSeq(o, 1, Len(o) - 1) = [j \in 1..n - 1 |-> o[j]] /\ Len(o) = n
  BY <1>1, <1>2, FrontFunction, FunctionIsSeq
<1>6. o[n] = DebtAt(m, cs, eo, kw) /\ o # << >>
  BY <1>1, <1>2, <1>5
<1>7. QED
  BY <1>3, <1>4, <1>5, <1>6 DEF OwedBut, o

\* routing_end pops the call_stack of the latest debt
LEMMA EndCalls ==
  ASSUME CallsInv, CallsInv', NEW t \in Threads, RoutingEnd(t)
  PROVE  Calls!PostCall(t)
<1> DEFINE h == [Top(t) EXCEPT !.pc = "end", !.id = LastCallStack(t)]
           cs == call_stacks[t]
           m == Len(cs)
           b == Top(t).mark
           ds == call_stacks'[t]
<1>1. /\ Top(t).pc = "leave" /\ cs # << >> /\ Top(t) \in Frame /\ TypeInv
      /\ call_stacks' = [call_stacks EXCEPT ![t] = SubSeq(@, 1, Len(@) - 1)]
      /\ UNCHANGED <<entryOf, kv>>
      /\ InvokeCallback(t, h, "post", Top(t).fn \in HasPost)
  BY TopFacts DEF RoutingEnd, At, CallsInv, RoutingInv, PopCallStack
<1>2. /\ Callee(h) /\ h.mark = b /\ h.pc = "end" /\ h.id = cs[m]
  BY <1>1, HandlerFrames DEF CallsInv, Frame, LastCallStack
<1>3. /\ b \in Nat /\ m \in Nat /\ b < m /\ Len(Owes(t)) = m - b /\ cs \in Seq(CallIds)
      /\ entryOf[cs[m]] = Top(t).fn
  BY <1>1, InnermostCall, TopFacts DEF CallsInv, FrameOK
<1>4. h.fn = Top(t).fn
  BY <1>1 DEF Frame
<1>5. /\ \A u \in Threads : u # t =>
           frames'[u] = frames[u] /\ call_stacks'[u] = call_stacks[u]
      /\ ds = SubSeq(cs, 1, m - 1)
  BY <1>1, SetFramesFacts DEF InvokeCallback, TypeInv, TypeOK
<1>6. Len(ds) = m - 1 /\ \A i \in 1..m - 1 : ds[i] = cs[i]
  BY <1>1, <1>3, <1>5, PopProperties
<1>7. WritesAbove(t)
  <2>1. \A i \in 1..b : i \in 1..m - 1
    BY <1>3
  <2> HIDE DEF h
  <2>2. QED
    BY <1>1, <1>5, <1>6, <2>1 DEF WritesAbove
<1>8. /\ CallOf(h, m - 1, ds, entryOf', kv') =
           Calls!Activation("end", Calls!LastOf(Owes(t)).fn, Calls!FrontOf(Owes(t)),
                            Calls!LastOf(Owes(t)).store)
      /\ Owes(t) # << >>
  <2> DEFINE o == Owes(t)
  <2>1. o = OwedBy(b, m, cs, entryOf, kv)
    BY DEF Owes
  <2>2. \A i \in b + 1..m - 1 : ds[i] = cs[i]
    BY <1>3, <1>6
  <2> HIDE DEF o, cs, m, b, ds, h
  <2>3. /\ OwedBy(b, m - 1, ds, entryOf, kv) = SubSeq(o, 1, Len(o) - 1)
        /\ o[Len(o)] = DebtAt(m, cs, entryOf, kv) /\ o # << >>
    <3>1. OwedBut(OwedBy(b, m, cs, entryOf, kv), OwedBy(b, m - 1, ds, entryOf, kv),
                  DebtAt(m, cs, entryOf, kv))
      BY <1>3, <2>2, DebtsPop
    <3>2. QED
      BY <2>1, <3>1 DEF OwedBut
  <2>4. /\ Calls!FrontOf(o) = OwedBy(b, m - 1, ds, entryOf, kv)
        /\ Calls!LastOf(o).fn = h.fn /\ Calls!LastOf(o).store = kv[h.id]
    BY <1>2, <1>3, <1>4, <2>3 DEF Calls!FrontOf, Calls!LastOf, DebtAt
  <2>5. CallOf(h, m - 1, ds, entryOf, kv) =
          Calls!Activation("end", Calls!LastOf(o).fn, Calls!FrontOf(o), Calls!LastOf(o).store)
    BY <1>2, <2>4 DEF CallOf, Calls!Activation
  <2>6. QED
    BY <1>1, <2>3, <2>5 DEF o
<1>9. Calls!WithCallback(t, CallOf(h, m - 1, ds, entryOf', kv'), "post", Top(t).fn \in HasPost)
  <2> DEFINE present == Top(t).fn \in HasPost
  <2>1. present \in BOOLEAN /\ InvokeCallback(t, h, "post", present)
    BY <1>1
  <2> HIDE DEF present, h
  <2>2. Calls!WithCallback(t, CallOf(h, Len(ds), ds, entryOf', kv'), "post", present)
    BY <1>1, <1>2, <1>7, <2>1, HandlerCalls
  <2>3. QED
    BY <1>6, <2>2 DEF present
<1>10. QED
  BY <1>1, <1>8, <1>9, InnermostCall DEF Calls!PostCall

\* A value for the latest debt of the call c, or for the call itself
StoreLast(o, v) == [o EXCEPT ![Len(o)].store = v]
StoreOwed(c, v) == [c EXCEPT !.owed = StoreLast(c.owed, v)]
StoreOwn(c, v) == [c EXCEPT !.store = v]

\* The latest call_stack of a frame is the only one whose store is written
LEMMA DebtsStore ==
  ASSUME NEW b \in Nat, NEW u \in Nat, b < u, NEW cs, NEW eo, NEW kw, NEW kx, NEW v,
         \A i \in b + 1..u - 1 : kx[cs[i]] = kw[cs[i]], kx[cs[u]] = v
  PROVE  OwedBy(b, u, cs, eo, kx) = StoreLast(OwedBy(b, u, cs, eo, kw), v)
<1> DEFINE n == u - b
           o == OwedBy(b, u, cs, eo, kw)
           p == OwedBy(b, u, cs, eo, kx)
<1>1. /\ n \in Nat \ {0} /\ b + n = u /\ n \in 1..n
      /\ \A j \in 1..n : j # n => b + j \in b + 1..u - 1
  OBVIOUS
<1>2. o = [j \in 1..n |-> o[j]] /\ \A j \in 1..n : o[j] = DebtAt(b + j, cs, eo, kw)
  BY DEF OwedBy
<1>3. p = [j \in 1..n |-> p[j]] /\ \A j \in 1..n : p[j] = DebtAt(b + j, cs, eo, kx)
  BY DEF OwedBy
<1> HIDE DEF n, o, p
<1>4. Len(o) = n
  BY <1>1, <1>2, FunctionIsSeq
<1>5. ASSUME NEW j \in 1..n, j # n PROVE p[j] = o[j]
  <2>1. kx[cs[b + j]] = kw[cs[b + j]]
    BY <1>1, <1>5
  <2>2. o[j] = DebtAt(b + j, cs, eo, kw) /\ p[j] = DebtAt(b + j, cs, eo, kx)
    BY <1>2, <1>3
  <2>3. QED
    BY <2>1, <2>2 DEF DebtAt
<1>6. p[n] = [o[n] EXCEPT !.store = v]
  BY <1>1, <1>2, <1>3 DEF DebtAt
<1>7. [o EXCEPT ![n].store = v] = [j \in 1..n |-> IF j = n THEN [o[n] EXCEPT !.store = v] ELSE o[j]]
  BY <1>1, <1>2
<1>8. p = [o EXCEPT ![n].store = v]
  BY <1>3, <1>5, <1>6, <1>7
<1>9. QED
  BY <1>4, <1>8 DEF o, p, StoreLast

\* The value goes to the call below the callback, as its pre_call or its post_call
LEMMA StoreBelow ==
  ASSUME CallsInv, NEW t \in Threads, Top(t).pc \in {"pre", "post"}, NEW v,
         kv' = [kv EXCEPT ![Top(t).id] = v], UNCHANGED <<frames, call_stacks, entryOf>>
  PROVE  LET k == Len(frames[t]) - 1
             c == CallsAt(t)
         IN  /\ k \in 1..Len(frames[t])
             /\ \A j \in 1..Len(frames[t]) : j # k => CallsAt(t)'[j] = c[j]
             /\ Top(t).pc = "pre" => CallsAt(t)'[k] = StoreOwed(c[k], v)
             /\ Top(t).pc = "post" => CallsAt(t)'[k] = StoreOwn(c[k], v)
             /\ \A u \in Threads : u # t =>
                  \A x \in IdsOf(frames[u], call_stacks[u]) : kv'[x] = kv[x]
<1> DEFINE fs == frames[t]
           cs == call_stacks[t]
           n == Len(fs)
           m == Len(cs)
           k == n - 1
           u == UpperOf(fs, cs, k)
           id == Top(t).id
           kx == kv'
<1>1. /\ n \in Nat \ {0} /\ Top(t) = fs[n] /\ Stack(fs) /\ cs \in Seq(CallIds)
      /\ ThreadOK(fs, cs, ret_addr, entryOf) /\ HandlersOK(fs) /\ Distinct(fs, cs)
      /\ IdsOK /\ TypeOK /\ m \in Nat
  BY TopFacts DEF CallsInv, RoutingInv, TypeInv, IdsOK
<1>2. n \in 2..n /\ k \in 1..n /\ k # n /\ k + 1 = n /\ k \in 1..n - 1
  <2>1. n # 1
    BY <1>1 DEF Stack
  <2>2. n \in Nat \ {0}
    BY <1>1
  <2> HIDE DEF n
  <2>3. QED
    BY <2>1, <2>2
<1>3. /\ Top(t).pc = "pre" => fs[k].pc = "begin" /\ id = fs[k].id
      /\ Top(t).pc = "post" => fs[k].pc = "end" /\ id = fs[k].id
  BY <1>1, <1>2 DEF HandlersOK
<1>4. /\ \A j \in 1..n : /\ fs[j].mark \in Nat /\ UpperOf(fs, cs, j) \in Nat
                         /\ UpperOf(fs, cs, j) <= m
                         /\ FrameOK(fs[j], j, UpperOf(fs, cs, j), cs, ret_addr, entryOf)
      /\ \A i, j \in 1..n : i <= j => fs[i].mark <= fs[j].mark
  BY <1>1, FrameFacts DEF ThreadOK
<1>5. u = fs[n].mark /\ u \in Nat
  BY <1>2, <1>4 DEF UpperOf
<1>6. /\ id \in IdsOf(fs, cs)
      /\ Top(t).pc = "pre" => fs[k].mark < u /\ id = cs[u] /\ u \in 1..m
  <2>1. CASE Top(t).pc = "pre"
    <3>1. fs[k].mark < u /\ id = cs[u]
      BY <1>2, <1>3, <1>4, <2>1 DEF FrameOK
    <3>2. u \in 1..m
      BY <1>1, <1>2, <1>4, <1>5, <3>1
    <3>3. QED
      BY <2>1, <3>1, <3>2 DEF IdsOf
  <2>2. CASE Top(t).pc = "post"
    <3>1. k \in Ends(fs)
      BY <1>2, <1>3, <2>2 DEF Ends
    <3>2. QED
      BY <1>3, <2>2, <3>1 DEF IdsOf
  <2>3. QED
    BY <2>1, <2>2
<1>7. /\ \A x \in CallIds : x # id => kx[x] = kv[x]
      /\ id \in CallIds /\ kx[id] = v
  <2>1. id \in CallIds
    BY <1>1, <1>6 DEF IdsOK, TypeOK
  <2>2. QED
    BY <1>1, <2>1 DEF TypeOK
<1>8. \A i \in 1..m : cs[i] # id => kx[cs[i]] = kv[cs[i]]
  BY <1>1, <1>7
<1>9. \A j \in 1..n : fs[j].pc = "end" /\ j # k => kx[fs[j].id] = kv[fs[j].id]
  <2> SUFFICES ASSUME NEW j \in 1..n, fs[j].pc = "end", j # k PROVE kx[fs[j].id] = kv[fs[j].id]
    OBVIOUS
  <2>1. j \in Ends(fs) /\ fs[j].id \in CallIds
    BY <1>1, IdsTyped DEF Ends
  <2>2. fs[j].id # id
    <3>1. CASE Top(t).pc = "pre"
      BY <1>1, <1>6, <2>1, <3>1 DEF Distinct
    <3>2. CASE Top(t).pc = "post"
      <4>1. k \in Ends(fs)
        BY <1>2, <1>3, <3>2 DEF Ends
      <4>2. QED
        BY <1>1, <1>3, <2>1, <3>2, <4>1 DEF Distinct
    <3>3. QED
      BY <3>1, <3>2
  <2>3. QED
    BY <1>7, <2>1, <2>2
<1>10. \A i \in 1..m : (Top(t).pc = "pre" => i # u) => kx[cs[i]] = kv[cs[i]]
  <2> SUFFICES ASSUME NEW i \in 1..m, Top(t).pc = "pre" => i # u PROVE cs[i] # id
    BY <1>8
  <2>1. CASE Top(t).pc = "pre"
    BY <1>1, <1>6, <2>1 DEF Distinct
  <2>2. CASE Top(t).pc = "post"
    <3>1. k \in Ends(fs)
      BY <1>2, <1>3, <2>2 DEF Ends
    <3>2. QED
      BY <1>1, <1>3, <2>2, <3>1 DEF Distinct
  <2>3. QED
    BY <2>1, <2>2
<1>11. \A j \in 1..n : /\ CallsAt(t)[j] = CallOf(fs[j], UpperOf(fs, cs, j), cs, entryOf, kv)
                       /\ CallsAt(t)'[j] = CallOf(fs[j], UpperOf(fs, cs, j), cs, entryOf, kx)
  BY DEF CallsAt, CallsOf
<1>12. ASSUME NEW j \in 1..n, j # k PROVE CallsAt(t)'[j] = CallsAt(t)[j]
  <2> DEFINE w == UpperOf(fs, cs, j)
  <2>1. \A i \in fs[j].mark + 1..w : i \in 1..m /\ (Top(t).pc = "pre" => i # u)
    <3>1. CASE j = n
      BY <1>1, <1>4, <1>5, <3>1
    <3>2. CASE j # n
      <4>1. j + 1 \in 1..n /\ j + 1 <= k
        BY <1>1, <1>2, <1>12, <3>2
      <4>2. w = fs[j + 1].mark /\ fs[j + 1].mark <= fs[k].mark
        BY <1>2, <1>4, <3>2, <4>1 DEF UpperOf
      <4>3. fs[k].mark <= u /\ u <= m /\ fs[k].mark \in Nat
        BY <1>2, <1>4 DEF FrameOK
      <4>4. Top(t).pc = "pre" => fs[k].mark < u
        BY <1>6
      <4>5. fs[j].mark \in Nat /\ w \in Nat /\ w <= fs[k].mark
        BY <1>4, <4>2
      <4>6. u \in Nat /\ m \in Nat
        BY <1>1, <1>5
      <4> DEFINE b == fs[k].mark
                 c == fs[j].mark
      <4>7. b \in Nat /\ b <= u /\ u <= m /\ c \in Nat /\ w \in Nat /\ w <= b
            /\ (Top(t).pc = "pre" => b < u)
        BY <4>3, <4>4, <4>5
      <4> HIDE DEF w, u, m, k, fs, b, c
      <4>8. \A i \in c + 1..w : i \in 1..m /\ (Top(t).pc = "pre" => i # u)
        BY <4>6, <4>7
      <4>9. QED
        BY <4>8 DEF c
    <3>3. QED
      BY <3>1, <3>2
  <2>2. \A i \in fs[j].mark + 1..w : kx[cs[i]] = kv[cs[i]]
    BY <1>10, <2>1
  <2>3. fs[j].mark \in Nat /\ w \in Nat /\ (fs[j].pc = "end" => kx[fs[j].id] = kv[fs[j].id])
    BY <1>4, <1>9, <1>12
  <2> HIDE DEF w, kx, fs, cs
  <2>4. CallOf(fs[j], w, cs, entryOf, kx) = CallOf(fs[j], w, cs, entryOf, kv)
    BY <2>2, <2>3, CallSame
  <2>5. QED
    BY <1>11, <2>4 DEF w
<1>13. ASSUME Top(t).pc = "pre" PROVE CallsAt(t)'[k] = StoreOwed(CallsAt(t)[k], v)
  <2> DEFINE c == CallOf(fs[k], u, cs, entryOf, kv)
             d == CallOf(fs[k], u, cs, entryOf, kx)
             b == fs[k].mark
  <2>1. b \in Nat /\ b < u /\ fs[k].pc = "begin" /\ kx[cs[u]] = v
    BY <1>2, <1>3, <1>4, <1>6, <1>7, <1>13
  <2>2. \A i \in b + 1..u - 1 : kx[cs[i]] = kv[cs[i]]
    <3>1. \A i \in b + 1..u - 1 : i \in 1..m /\ i # u
      <4>1. u \in 1..m /\ m \in Nat
        BY <1>1, <1>6, <1>13
      <4> HIDE DEF b, u, m
      <4>2. QED
        BY <2>1, <4>1
    <3>2. QED
      BY <1>10, <3>1
  <2>3. c.owed = OwedBy(b, u, cs, entryOf, kv)
    BY DEF CallOf
  <2>4. OwedBy(b, u, cs, entryOf, kx) = StoreLast(OwedBy(b, u, cs, entryOf, kv), v)
    <3> HIDE DEF b, c, kx, u, cs
    <3>1. QED
      BY <1>5, <2>1, <2>2, DebtsStore, SMTT(30)
  <2>5. d = StoreOwed(c, v)
    <3> DEFINE o == OwedBy(b, u, cs, entryOf, kv)
               p == OwedBy(b, u, cs, entryOf, kx)
    <3>1. /\ c = [pc |-> fs[k].pc, fn |-> fs[k].fn, owed |-> o, store |-> NULL]
          /\ d = [pc |-> fs[k].pc, fn |-> fs[k].fn, owed |-> p, store |-> NULL]
          /\ p = StoreLast(o, v)
      BY <2>1, <2>4 DEF CallOf
    <3> HIDE DEF o, p, c, d
    <3>2. QED
      BY <3>1 DEF StoreOwed
  <2>6. QED
    BY <1>2, <1>11, <2>5
<1>14. ASSUME Top(t).pc = "post" PROVE CallsAt(t)'[k] = StoreOwn(CallsAt(t)[k], v)
  <2> DEFINE c == CallOf(fs[k], u, cs, entryOf, kv)
             d == CallOf(fs[k], u, cs, entryOf, kx)
             b == fs[k].mark
  <2>1. b \in Nat /\ fs[k].pc = "end" /\ kx[fs[k].id] = v /\ u <= m
    BY <1>2, <1>3, <1>4, <1>7, <1>14
  <2>2. \A i \in b + 1..u : kx[cs[i]] = kv[cs[i]]
    <3>1. \A i \in b + 1..u : i \in 1..m
      BY <1>1, <1>5, <2>1
    <3>2. QED
      BY <1>10, <1>14, <3>1
  <2>3. OwedBy(b, u, cs, entryOf, kx) = OwedBy(b, u, cs, entryOf, kv)
    <3>1. \A j \in 1..(u - b) : b + j \in b + 1..u
      BY <1>5, <2>1
    <3>2. \A j \in 1..(u - b) : DebtAt(b + j, cs, entryOf, kx) = DebtAt(b + j, cs, entryOf, kv)
      BY <2>2, <3>1 DEF DebtAt
    <3> HIDE DEF kx, b, u, cs
    <3>3. QED
      BY <3>2 DEF OwedBy
  <2>4. d = StoreOwn(c, v)
    BY <2>1, <2>3 DEF CallOf, StoreOwn
  <2>5. QED
    BY <1>2, <1>11, <2>4
<1>15. \A w \in Threads : w # t =>
         \A x \in IdsOf(frames[w], call_stacks[w]) : kx[x] = kv[x]
  <2>1. \A w \in Threads : IdsOf(frames[w], call_stacks[w]) \subseteq CallIds
    BY <1>1 DEF IdsOK, TypeOK
  <2>2. QED
    BY <1>1, <1>6, <1>7, <2>1 DEF IdsOK
<1>16. QED
  BY <1>2, <1>12, <1>13, <1>14, <1>15

\* A callback stores a value
LEMMA StoreCalls ==
  ASSUME CallsInv, CallsInv', NEW t \in Threads, NEW v \in Values, CallbackKvSet(t, v)
  PROVE  Calls!Store(t, v)
<1> DEFINE n == Len(frames[t])
           k == n - 1
           c == CallsAt(t)
           x == IF Top(t).pc = "pre" THEN StoreOwed(c[k], v) ELSE StoreOwn(c[k], v)
<1>1. /\ Top(t).pc \in {"pre", "post"} /\ UNCHANGED <<frames, call_stacks, entryOf>>
      /\ kv' = [kv EXCEPT ![Top(t).id] = v]
  BY DEF CallbackKvSet, At, KvSet
<1>2. /\ k \in 1..n /\ \A j \in 1..n : j # k => CallsAt(t)'[j] = c[j]
      /\ CallsAt(t)'[k] = x
      /\ \A u \in Threads : u # t =>
           \A y \in IdsOf(frames[u], call_stacks[u]) : kv'[y] = kv[y]
  BY <1>1, StoreBelow
<1>3. /\ AbstractCalls[t] = c /\ Len(c) = n /\ c = [j \in 1..n |-> c[j]]
      /\ Calls!Innermost(t) = c[n] /\ Calls!Innermost(t).pc = Top(t).pc
  BY CallsTop, InnermostCall
<1>4. CallsAt(t)' = [j \in 1..n |-> CallsAt(t)'[j]]
  BY <1>1 DEF CallsAt, CallsOf
<1>5. CallsAt(t)' = [c EXCEPT ![k] = x]
  <2> DEFINE d == CallsAt(t)'
  <2>1. /\ d = [j \in 1..n |-> d[j]] /\ d[k] = x /\ \A j \in 1..n : j # k => d[j] = c[j]
    BY <1>2, <1>4
  <2> HIDE DEF d, c, x, k, n
  <2>2. d = [c EXCEPT ![k] = x]
    BY <1>2, <1>3, <2>1
  <2>3. QED
    BY <2>2 DEF d
<1>6. Calls!Becomes(t, [c EXCEPT ![k] = x])
  <2>1. Calls!Becomes(t, CallsAt(t)')
    BY <1>1, <1>2, CallsBecome
  <2>2. QED
    BY <1>5, <2>1
<1>7. /\ AbstractCalls' = [AbstractCalls EXCEPT ![t] = [AbstractCalls[t] EXCEPT ![k] = x]]
      /\ Calls!Below(t) = AbstractCalls[t][k] /\ Len(AbstractCalls[t]) - 1 = k
  BY <1>3, <1>6 DEF Calls!Becomes, Calls!Below
<1>8. CASE Top(t).pc = "pre"
  <2>1. x = StoreOwed(AbstractCalls[t][k], v)
    BY <1>3, <1>8
  <2> HIDE DEF x, k
  <2>2. AbstractCalls' =
          [AbstractCalls EXCEPT ![t][k].owed[Len(AbstractCalls[t][k].owed)].store = v]
    BY <1>7, <2>1 DEF StoreOwed, StoreLast
  <2>3. QED
    BY <1>3, <1>7, <1>8, <2>2 DEF Calls!Store
<1>9. CASE Top(t).pc = "post"
  <2>1. x = StoreOwn(AbstractCalls[t][k], v)
    BY <1>3, <1>9
  <2> HIDE DEF x, k
  <2>2. AbstractCalls' = [AbstractCalls EXCEPT ![t][k].store = v]
    BY <1>7, <2>1 DEF StoreOwn
  <2>3. QED
    BY <1>3, <1>7, <1>9, <2>2 DEF Calls!Store
<1>10. QED
  BY <1>1, <1>8, <1>9

(* ------------------------------------------------------------------------ *)
(* The theorem                                                                 *)

\* The initial states
LEMMA CallsInit == Init => Calls!Init
<1> SUFFICES ASSUME Init PROVE Calls!Init
  OBVIOUS
<1>1. CallsInv
  BY CallsInvInit
<1>2. ASSUME NEW t \in Threads PROVE CallsAt(t) = <<Calls!Activation("main", NULL, << >>, NULL)>>
  <2> DEFINE c == CallsAt(t)
             a == Calls!Activation("main", NULL, << >>, NULL)
  <2>1. frames[t] = <<MainFrame>> /\ call_stacks[t] = << >> /\ Len(frames[t]) = 1
    BY DEF Init, ThreadStackInit
  <2>2. Top(t) = MainFrame
    BY <2>1 DEF Top, Depth
  <2>3. c = [j \in 1..1 |-> c[j]]
    BY <2>1 DEF CallsAt, CallsOf
  <2>4. c[1] = a
    <3>1. c[1] = CallOf(MainFrame, 0, << >>, entryOf, kv)
      BY <1>1, <2>1, <2>2, CallsTop
    <3>2. OwedBy(0, 0, << >>, entryOf, kv) = << >>
      <4>1. 1..(0 - 0) = {}
        OBVIOUS
      <4>2. QED
        BY <4>1 DEF OwedBy
    <3>3. QED
      BY <3>1, <3>2 DEF CallOf, MainFrame, NewFrame, Calls!Activation
  <2> HIDE DEF c, a
  <2>5. c = <<a>>
    BY <2>3, <2>4
  <2>6. QED
    BY <2>5 DEF c, a
<1>3. AbstractCalls = [t \in Threads |-> CallsAt(t)]
  BY <1>1, CallsByEntry DEF CallsAt
<1>4. QED
  BY <1>2, <1>3 DEF Calls!Init

\* Every step is a step of HookedCalls or a stutter
LEMMA CallsStep ==
  ASSUME CallsInv, CallsInv', [Next]_vars
  PROVE  Calls!Next \/ UNCHANGED AbstractCalls
<1>1. ASSUME NEW t \in Threads, Interceptor(t) PROVE Calls!Next
  BY <1>1, BeginCalls, BeginNextHopCalls, EndCalls, EndNextHopCalls, DBICalls, DBINextHopCalls
     DEF Interceptor, Calls!Next
<1>2. ASSUME NEW t \in Threads, Program(t) PROVE Calls!Next
  <2>1. ASSUME NEW f \in Functions,
               Call(t, f) \/ TailCall(t, f) \/ CallOrigin(t, f) \/ TailCallOrigin(t, f)
        PROVE  Calls!Next
    BY <2>1, ProgramCalls DEF Calls!Next
  <2>2. ASSUME Return(t) PROVE Calls!Next
    BY <2>2, ReturnCalls DEF Calls!Next
  <2>3. ASSUME NEW v \in Values, CallbackKvSet(t, v) PROVE Calls!Next
    BY <2>3, StoreCalls DEF Calls!Next
  <2>4. QED
    BY <1>2, <2>1, <2>2, <2>3 DEF Program
<1>3. ASSUME UNCHANGED vars PROVE UNCHANGED AbstractCalls
  BY <1>3, CallsByEntry, CallsByEntryPrime DEF vars, threadStackVars
<1>4. QED
  BY <1>1, <1>2, <1>3 DEF Next

(***************************************************************************)
(* What interceptor_routing.c and thread_stack.c do with link registers    *)
(* and call_stacks is what HookedCalls promises: every call returns to its *)
(* caller, and pays its post_calls on the way, the latest first, each with *)
(* the store that its own pre_call filled.                                 *)
(***************************************************************************)
THEOREM HookedCallsImplemented == Spec => ImplementsHookedCalls
<1>1. Spec => []CallsInv
  <2>1. Init => CallsInv
    BY CallsInvInit
  <2>2. CallsInv /\ [Next]_vars => CallsInv'
    BY CallsInvStep
  <2>3. QED
    BY <2>1, <2>2, PTL DEF Spec
<1>2. Init => Calls!Init
  BY CallsInit
<1>3. CallsInv /\ CallsInv' /\ [Next]_vars => [Calls!Next]_AbstractCalls
  BY CallsStep
<1>4. QED
  BY <1>1, <1>2, <1>3, PTL DEF Spec, ImplementsHookedCalls, Calls!Spec
====

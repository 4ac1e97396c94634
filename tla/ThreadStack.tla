---- MODULE ThreadStack ----
(***************************************************************************)
(* thread_support/thread_stack.c: every thread owns a list of call_stack_t *)
(* objects, one for each wrapped call it has entered and not yet left.  A  *)
(* call_stack_t is a heap block; its address is its call_id, the handle    *)
(* that pre_call and post_call receive, and it carries the return address  *)
(* that the wrapper took out of the link register and a key/value store    *)
(* for the two callbacks (context_kv, here one key: module StdMap has the  *)
(* keys).                                                                  *)
(*                                                                         *)
(* The manager that thread_stack_shared_instance() creates on first use is *)
(* reached through a thread-local variable, so it is the index t here.     *)
(***************************************************************************)
EXTENDS Naturals, Sequences

CONSTANTS
  Threads,   \* the threads of the program
  CallIds,   \* the addresses malloc may give to a call_stack_t
  Values,    \* what a callback may store with call_stack_kv_set
  NULL       \* the null pointer

VARIABLES
  call_stacks,  \* [Threads -> Seq(CallIds)]: thread_stack_manager_t.call_stacks
  allocated,    \* the call_ids malloc has handed out and free has not taken back
  ret_addr,     \* [CallIds -> address]: call_stack_t.ret_addr
  kv            \* [CallIds -> Values \cup {NULL}]: call_stack_t.context_kv

threadStackVars == <<call_stacks, allocated, ret_addr, kv>>

ThreadStackInit(NoAddr) ==
  /\ call_stacks = [t \in Threads |-> << >>]
  /\ allocated = {}
  /\ ret_addr = [id \in CallIds |-> NoAddr]
  /\ kv = [id \in CallIds |-> NULL]

(***************************************************************************)
(* call_stack_new: safe_malloc clears the block, map_new gives it an empty *)
(* store.  The allocator may return any block that is not in use.          *)
(***************************************************************************)
NewCallStack(id, NoAddr) ==
  /\ id \notin allocated
  /\ allocated' = allocated \cup {id}
  /\ ret_addr' = [ret_addr EXCEPT ![id] = NoAddr]
  /\ kv' = [kv EXCEPT ![id] = NULL]

\* Mutant: the node is pushed before the block it stands for is there
PushCallStack_Null(t, id) ==
  call_stacks' = [call_stacks EXCEPT ![t] = Append(@, NULL)]

\* Mutant: the manager is a plain static, so that the threads share one list
PushCallStack_Shared(t, id) ==
  call_stacks' = [u \in Threads |-> Append(call_stacks[u], id)]

\* thread_stack_push_call_stack: list_rpush
PushCallStack(t, id) ==
  call_stacks' = [call_stacks EXCEPT ![t] = Append(@, id)]

\* Mutant: the first node is read, as list_lpop would
LastCallStack_First(t) == call_stacks[t][1]

\* The node that list_rpop takes, and what it leaves of the list
LastCallStack(t) == call_stacks[t][Len(call_stacks[t])]

\* Mutant: the node is read and stays on the list
PopCallStack_Kept(t) == UNCHANGED call_stacks

PopCallStack(t) ==
  call_stacks' = [call_stacks EXCEPT ![t] = SubSeq(@, 1, Len(@) - 1)]

(***************************************************************************)
(* call_stack_destory: the store is destroyed and the block goes back to   *)
(* the allocator.  What a freed block holds is not defined: it reads as an *)
(* empty block here, never as what it was.                                 *)
(***************************************************************************)
DestroyCallStack(id, NoAddr) ==
  /\ allocated' = allocated \ {id}
  /\ ret_addr' = [ret_addr EXCEPT ![id] = NoAddr]
  /\ kv' = [kv EXCEPT ![id] = NULL]

\* call_stack_kv_set, through the call_id the callback was given
KvSet(id, v) == kv' = [kv EXCEPT ![id] = v]
====

# HookZz: models, checks and proofs

HookZz installs hooks into a running process: it overwrites the first instructions of a function (or one instruction)
with a branch to trampolines that it builds at run time. This directory holds TLA+ models of the C sources under
`src/src/`, for ARM64 and for the older ARM32 backend, the TLC configurations that check them, and TLAPS proofs about
them. Source paths below are relative to `src/src/` when they do not start with `src/`; `PROJECT.json` maps every
definition to the lines it stands for.

Contents: [inventory](#inventory) · [modules and their code](#modules-and-their-code) · [runs](#runs) ·
[what the code does wrong](#what-the-code-does-wrong) · [not modelled](#not-modelled) · [fairness](#fairness) · [proofs](#proofs) ·
[assumptions and limits](#assumptions-and-limits) · [plan](#plan)

## Inventory

A hook is one `hook_entry_t`. The API call that makes it runs, in one thread, through all the components in the first
half of the table; every thread of the program then runs through those in the second half, with no locks.

| component | state | operations | made correct by |
|---|---|---|---|
| Public API `hookzz.c` | near-jump flag, the user's `*origin_call` | `ZzWrap`, `ZzReplace`, `ZzDynamicBinaryInstrumentation`, `zz_enable_near_jump`, `zz_disable_near_jump` | a hook is complete before its target leads to it, and the original can be called from then on |
| Interceptor registry `interceptor.c` | list of entries | `add_hook_entry`, `find_hook_entry` (unused) | an entry is registered once and stays |
| Trampoline builder `interceptor_routing_trampoline.c`, `arch-arm64/interceptor-routing-trampoline-arm64.c` | the entry's trampoline addresses | `build_all`, `prepare`, `build_for_*`, `active` | trampolines chain up; the jump back goes right behind the patch; no call is torn |
| Memory manager `memory_manager.c` | free blocks (slices), process layout | `allocate_code_slice`, `search_code_cave` | slices and caves overlap nothing that is used, caves are in reach |
| Code patching `backend-posix/memory-helper-posix.c`, `backend-darwin/memory-helper-darwin.c` | one copied page | `patch_code` | nothing but the patch changes, the page stays executable |
| Relocator `arch-arm64/relocator-arm64.c`, with reader, writer, decoder | input position, `io_indexs`, output | `relocate_write`, `double_write`, the `rewrite_*` of each class | the code does elsewhere what it did in place |
| Closure bridge `closure_bridge.c`, `arch-arm64/closure-bridge-arm64.c`, two templates | tables of slots, permissions | `AllocateClosureBridge`, `InitializeClosureBridgeInfo`; save and restore of registers | a closure calls its own handler with its own data; registers survive it |
| Interceptor routing `interceptor_routing.c` | the thread's link registers | `routing_begin`, `routing_end`, `routing_dynamic_binary_instrumentation` | each return goes to its caller; each `post_call` belongs to its `pre_call` |
| Thread stack `thread_support/` | per thread, a list of `call_stack_t` with a key/value store | push, pop, new, destroy, `kv_set`, `kv_get` | a `call_id` is live and private as long as a callback can use it |
| ARM32 backend `backend-arm/`, `arch-arm/` | `ARMHookEntryBackend`, closure tables, readers, writers | the `trampoline_*` functions, the relocators and writers for ARM and Thumb, the bridge and its handlers | the same as all of the above, with two instruction sets |
| Containers `std_kit/` | lists, maps, buffers | push, pop, put, get, remove | a map is a finite function, a list a sequence, a buffer holds what was put |

How they interact: the API calls the builder; the builder asks the closure bridge for slots, the memory manager for
slices and caves and the relocator for the moved prologue, and writes all of it with `patch_code`. The last patch, over the
target, publishes it: from then on any thread that branches to the target runs the transfer trampoline, the closure, the
bridge, the common handler, routing, and `on_invoke_trampoline`. The only state the two halves share is this code, the
closure page's permissions and `hook_entry_t`, which routing reads.

What makes this hard:

* **One list for everything a thread wraps.** A `call_stack_t` does not say which function or frame it is for;
  `routing_end` pops what is last and branches to the `ret_addr` in it. Recursion, tail calls and wrapped functions called
  by callbacks have to come out in the reverse order.
* **Installing under running threads.** No lock, no stopped threads: calls meet the target before, after and, with the
  long patch, in the middle of a change of four words.
* **Hooks on hooks.** The second hook of a target reads, relocates and overwrites the first one's patch.
* **Memory by guess.** Zero words are taken for unused; whole pages are copied out and back in.
* **Arithmetic on words.** Distances inside rewritten groups, unsigned fields, limits of a branch's range, offsets of
  saved registers; in Thumb code also where a literal comes to be aligned and which bits of six a distance is split into.

`PROJECT.json` lists each hazard at its line with the properties that watch it.

## Modules and their code

| module | models | how |
|---|---|---|
| `ThreadStack` | `thread_stack.c` | `call_stacks` is the thread-local list, `allocated` the heap blocks, `ret_addr` and `kv` their fields |
| `InterceptorRouting` (extends `ThreadStack`) | `interceptor_routing.c` as threads run it | `frames` is the native stack with each frame's `lr`, `ip` the frame that the program counter is in |
| `HookedCalls` | what hooking promises | activations that owe `post_call`s; no trampolines, no list |
| `InterceptorRoutingProofs` | | theorems: safety; that routing implements `HookedCalls` |
| `HookInstall` | `hookzz.c`, the builder, `active`, and threads calling the targets meanwhile | code as words, one installer, a program counter per thread |
| `HookInstallProofs`, `RelocatorArm64Proofs`, `CodeMemoryProofs`, `ClosureBridgeProofs`, `StdKitProofs`, `InterceptorArm32Proofs`, `ArmProcessorProofs` | | theorems about the module of that name |
| `Arm64Instructions` | `ARM64AssemblyCore.c`, `instruction.c`, `writer-arm64.c` | words of 32 bits, as two halves: fields read and set, instructions encoded, classes told apart |
| `RelocatorArm64` | `relocator-arm64.c`, `reader-arm64.c`, the patch and the transfer trampoline | relocates a prologue, then a processor runs patch and output |
| `CodeMemory` | `memory_manager.c`, `memory-helper-posix.c` | an address space of words; parts of hooks placed and patched into it |
| `ClosureBridge` | `closure_bridge.c`, `closure-bridge-arm64.c`, the templates, the common handler | tables and slots; registers and the words of `RegState` |
| `ArmInstructions` | `instructions.c`, `reader-arm.c`, `reader-thumb.c` of `arch-arm/` | halfwords, fields, the classes of ARM and Thumb instructions, reading one |
| `ArmWriter`, `ThumbWriter` | `writer-arm.c`, `writer-thumb.c` | what each `put_` writes, bit by bit |
| `ArmRelocator`, `ThumbRelocator` | `relocator-arm.c`, `relocator-thumb.c` | each `rewrite_`, the literals to repair, `relocate_writer` |
| `ArmProcessor` | (the architecture) | a processor for the instructions that occur, in both sets |
| `InterceptorArm32` | `backend-arm/` | builds a hook, patches, and runs a call of the target through all of it |
| `StdList`, `StdMap`, `StdBufferArray`, composed by `StdKit` | `std_kit/` | links, buckets and chains as they are in memory |
| `AbstractList`, `Dictionary` | what the containers promise | a sequence; a function of keys |
| `MC...` | | instances for TLC |

### InterceptorRouting and ThreadStack

Each handler is two actions, split at the user's callback, since the callback may itself call hooked functions:
`RoutingBegin` is `interceptor_routing_begin` with the push and the call of `pre_call`, `RoutingBeginNextHop` the rest
(`ret_addr` saved, `lr` diverted); likewise `RoutingEnd`/`RoutingEndNextHop` and `RoutingDBI`/`RoutingDBINextHop`. The program is free: from any
user code (functions, `replace_call`s, callbacks) it may call or tail-call any function or the original of a replaced one,
store under its `call_id`, or return. `Return` branches to whatever `lr` holds, and a branch to a return site that is not
the caller's leaves `ip` and `frames` apart. So nothing is assumed about the order of pops: if it were wrong,
`ReturnsToCaller` would fail. A block freed by `call_stack_destory` may be handed out again at once.

`HookedCalls` is the abstract specification. `AbstractCalls` maps the concrete state to it: the debts of a frame are the
call_stacks between its mark and the next frame's, and the hook of a debt is the one whose leave trampoline is found
by following `lr` and the chain of `ret_addr`s, that is, from what the machine would execute and not from the auxiliary
`entryOf`. TLC checks `ImplementsHookedCalls` (`Spec => Calls!Spec`).

### HookInstall

`installer` holds the API call in progress: the list of steps that `build_all` makes for the hook's type, and the words of
the patch not written yet. `BuildForEnter`, `_Leave`, `_DBI` take two actions, since the page of all closures is not
executable in between; `ClosureFault` is the thread that runs into it. `BuildForInvoke` reads the words that are at the
target, which may be another hook's patch, and relocates them. `PatchWord` makes the words of a patch visible in any order.
Threads call the targets at any time and execute words, trampolines and closures one step each; `sees`, `through`,
`ran` and `overlapped` only record what they did. Routing's own bookkeeping is reduced to `due`, the
`on_leave_trampoline`s a call has to come back through (that this is right is `InterceptorRouting`'s subject), and
the trampolines' addresses are distinct (which is `CodeMemory`'s). The binding of closures is `ClosureBridge`'s.

Stacking hooks on one target works in this code only for near jumps whose cave lies above the target (`Stackable`); see
below for the others. The run has a DBI hook and a replacement in either order, with a wrap on top of them.

### RelocatorArm64 and Arm64Instructions

Instructions are words, as `<<low half, high half>>` (TLC's integers are too short for 32 bits). `ReadAndRelocate` is one
turn of `build_for_invoke`'s loop, `PutJumpBack` the jump behind the patch, `DoubleWrite` the second pass of `double_write`
(which re-relocates nothing, because it resets the reader first). Then a thread calls the target: `Run` fetches, decodes and
executes word by word, first the patch and the transfer trampoline, then, when control has come to the handler, the output.
`getInstType` is the library's decoder, `Decode` the architecture's: they differ, and so do the unsigned `get_insn_sub` and
`SignedSub`. `OriginalEvents` and `OriginalExit` are defined from the program alone: the loads, calls, addresses (`adr`) and
pages (`adrp`) that refer to the pc, with the address each comes to in place, the other instructions as their words, and
the exit. A register that the library's words have not set holds the program's own value (`NULL`), which does not
depend on where the code is: `ldr`, `br` and `blr` through such a register do what their word says. Not compared are
`x17`, which the library's words lose, and the value of `lr` behind a moved `bl`, which is an address in the output.

`Relocatable` says of the constants what this relocator can move, as the theorems need it. A `Movable` program has two kinds of
instructions. `Anywhere`: those that do not refer to the pc, among them `ret`, and `ldr` from, `br` to and `blr` to a register
other than `x17`. `Rewritten`: `cbz`, `cbnz`, `b.cond`, `b`, `bl` and literal loads of 64 bits into a register other than 31,
over distances that are forward and out of the patch, to what is not where the output is put. So it has none of `adr`, `adrp`,
`tbz`, `tbnz`, `ldr Wt`, `ldrsw`, `prfm` and SIMD loads of a literal, backward distances, or branches within the patch. By `Layout`
addresses fit the low word of `put_address` and a cave is within reach of a branch and apart from the patch. TLC evaluates
it for the programs and caves of `relocator` (`MovableAssumption` in `MCRelocatorArm64`), and that the programs of
`OtherPrograms` and `BackwardPrograms` are not `Movable` (`UnmovableAssumption`). `relocator_backward` shows what becomes of the latter.

### CodeMemory

Words of four bytes; a word of a trampoline records which one it is of. `Parts` are the pieces of a hook in
`build_all`'s order; each is given an address (`allocate_code_slice` or `search_code_cave`) and written by `patch_code`, with
stores of the program between any two steps. On Linux these are `CopyPage`, `UnprotectPage`, `WritePage`, `ProtectPage`; on
Darwin `CopyPage` and `RemapPage`, which puts the copy in the place of the page. Darwin's layout also lists anonymous
memory and splits a region where pages were replaced. The layout is a set of blocks, which the search goes through in the order
of their addresses, as they are listed. The search reads memory through `Mapped`, its limits wrap like
`zz_addr_t`, and it may end the process as the code does: an empty window fails its assertion, no cave is dereferenced as
NULL, an unmapped word faults. `stored` is the memory as the program's own stores would have it, for `ProgramIntact`.

`BranchAssumption` relates the range of the search to the width of a branch: `bxxx_range` (`writer-arm64.c:38`) is 2^23 words,
`imm26` reaches 2^25 to either side, and both are far below the address space, so that limits wrap around it at most once.

### InterceptorArm32

A job is a hook (its target, type, patch, and whether the memory manager finds slices), one ARM instruction to be relocated,
or one call of a writer. For a hook, each `trampoline_*` function is an action that adds halfwords to `code`, in the order of
`BuildAll`; then a thread calls the target and `Execute` runs one instruction of `ArmProcessor` at a time: the patch, the
transfer trampoline, the closure, the instructions of `closure_bridge_template`, the relocated prologue. C code is one
action each (`context_begin_invocation`, `context_end_invocation`, the replacement, the rest of the function) and leaves
junk in the registers it may change. `OriginExit` runs the unpatched program on the same processor, and `Asked` says what a
writer's call asks for. `NDEBUG` says whether assertions are compiled in: the backend leans on their absence.

### ClosureBridge

`AllocateClosureBridge` picks the last table with a free slot or makes one, then a slot is bound in four steps. A thread
enters a closure that was handed out: `RunClosure` loads `x14` and `x15` from the slot's words, `SaveRegisters` stores
31 + 8 registers at the template's offsets, `HandlerBegin` reads `RegState` at the struct's offsets and rewrites its own
return address, `UserCode` is the routing function with a callback that may change any field, `HandlerEnd` restores
the return address, `RestoreRegisters` pops the registers pair by pair. Save, struct and restore are three layouts, each
written down from its own lines: `SaveOffset` from the fixed places of the `stp`s, `FieldOffset` from the fields of
`struct _RegState`, `RestoreOffset` from how far `sp` has moved at each `ldp`.

### StdList, StdMap, StdBufferArray

Each function is an action with every outcome of its allocations: `AddValueNoRoom` is a failed `realloc` in `map_resize`
(the nodes have been taken out and are put back), `AddValueNoNode` a failed `malloc` in `map_node_new`, which is not
tested. `StdList` has the `prev` and `next` of every node; `StdMap` has chains in the order in which `map_resize` leaves them. Each
returns what the code returns, and records the call: so `AbstractList` and `Dictionary` say which answer belongs to which
question. `Chained` and `Added` are the two halves of `map_resize`: the nodes taken out of the buckets, one after the other, and put
into the new ones. The containers share nothing, and `StdKit` drives one at a time (`kind`). `ThreadStack`, `CodeMemory` and
`ClosureBridge` take lists for sequences and `ThreadStack` takes the store for a value: that is what `ImplementsList` and
`ImplementsDictionary` justify.

## Runs

| run | instance and bounds | shows |
|---|---|---|
| `routing_nesting` | 1 thread, functions wrapped twice, replaced, instrumented; depth 3; 3 call_stacks. 58 268 states | every return goes to its caller, `post_call` gets its own `call_id`, the list is never popped empty; implements `HookedCalls`; calls come back |
| `routing_threads` | 2 threads, a wrapped and a plain function; 4 blocks. 28 203 states modulo symmetry | `call_id`s are live and private |
| `install` | 1 thread; wrap, replace and DBI on one function as far as they stack, a wrap on another, near jump switched at will. 64 976 states | hooks run newest first and none is skipped, originals run once, nothing half-built is reached, tearing only in the long patch, all ends |
| `install_origin` | a function being replaced | **violation** of `OriginCallable` |
| `relocator` | all prologues of 1 word, all of 4 words over 7 classes with a forward distance, pairs with a second one, the longest distances, `ldr`, `br`, `blr` and `ret` by a register; caves above and below; every outcome of conditions. 102 183 states | same loads, calls and exit; groups line up; no data executed |
| `relocator_backward` | distances below zero | **violation** of `SameEffect` |
| `memory` | two near hooks, one long and replaced, any order, either platform; program writes two words of its data. 6 840 states | no overlap, nothing undone, always executable, in reach |
| `memory_slices` | Darwin's layout, which lists anonymous memory | **violation** of `TrampolinesIntact` |
| `closures` | three closures, two slots per table. 4 417 states | own data, full tables, registers kept, faults only while binding |
| `std_kit` | a list of three nodes, a map of four keys, two of which always collide and all in small tables, a buffer that doubles twice; memory runs out at will. 3 998 states | they implement a sequence and a dictionary; links and buckets agree; no overrun |
| `hook_arm32` | every Thumb instruction the relocator rewrites, as a wrapped and as a replaced function, near and long; DBI; full closure table; refused slices and closures; 9 ARM instructions; all writer calls at three alignments. 11 945 states | relocated code, bridge, return and encodings do what they should, the call gets through |
| `thumb_unaligned` | a Thumb target at an odd halfword, assertions compiled in | **violation** of `AssertionsHold` |

Why the bounds are enough:

* *routing_nesting.* Depth 3 and three live call_stacks allow a wrapped function that tail-calls another, whose callback
  calls a third, and frames that owe several post_calls. What is deeper repeats: each frame's obligations concern its own
  segment of the list only, which is also why the theorems need no bound.
* *routing_threads.* Threads share the allocator alone. Two suffice for a block to pass from one to the other.
* *install.* Threads of the program share nothing but code that only the installer writes, so a second thread shows no
  state of one of them that a single thread does not reach (each property speaks of one thread). Three hooks on one
  function make a patch that is relocated twice; a second target makes an unrelated hook's binding overlap with calls.
* *relocator.* A patch is one or four words. Each class meets each other class at each place. Distances are taken at both
  ends of what leads forward out of a patch and stays in the branch's range.
* *memory.* Pages of 16 words: the slices of the three hooks fill one page and begin another, and the long patch ends exactly where its
  page does; a library with zeros lies just below the lower limit; the two caves are found in the same zeros, searched at
  different alignments; a single zero word before them is too short for a cave.
* *std_kit.* Three nodes have a first, a middle and a last one; four keys make the table grow from 0 to 1, 2 and 4 buckets
  with chains of two and more.
* *closures.* Three closures in tables of two slots are the boundary; more tables repeat it, as the theorems show.
* *hook_arm32.* A real closure page has 256 slots; `PageSlots` is 2, with 0, 1 or 2 in use before. The near slices are at
  the two ends of the range the manager is given, ±(2^24 - 16) bytes. Targets are at words, where the code means them to be; one
  set of hooks and calls is at an odd halfword. A prologue is what a patch covers, with fillers that have an effect, so that an
  instruction lost, repeated or torn shows in a register. `MAX_INSN_SIZE` (256) is the code's.

`CHECK_DEADLOCK FALSE` is set where the process may really stop: a thread that enters a closure while another one is bound
in the same page (`closures`), no cave (`memory_slices`), a null pointer in `map_remove_value` or `map_node_new` (`std_kit`), a thread that has left the hook (`hook_arm32`, `thumb_unaligned`). `routing_nesting` and `routing_threads` check deadlock; in `relocator` a
run that has left its code stutters by `Done`.

## What the code does wrong

Each of these is a run whose property quotes the repository and fails:

* `install_origin`: `ZzReplace` stores `*origin_call` after `active()`; a thread calling the function in between runs a
  `replace_call` that branches to null, although `src/README.md:102` calls through the pointer untested.
* `relocator_backward`: `get_insn_sub` yields the distance unsigned, so a relocated backward `b`, `bl`, `b.cond`, `cbz` or
  literal load refers to an address beyond the end of the branch's range.
* `memory_slices`: where the layout lists anonymous memory (Darwin), the unused rest of a slice page is taken for a cave
  and then handed out again as a slice, over the trampoline.
* `thumb_unaligned`: `trampoline_active` gives the writer the target's address, which the writer asserts to be a multiple of
  four, just where the lines around it provide for a target that is not.

Met while modelling, without a run because no document claims otherwise:

* `adr`, `adrp`, `tbz`, `tbnz` are copied unchanged and then refer to another address or page, although most 64-bit prologues
  that refer to data do it by `adrp`; the literal loads `ldr Wt`, `ldrsw` and `ldr Qt` are rewritten to a load of 64 bits into
  `Xt`. `OtherPrograms` in `MCRelocatorArm64` has one program of each (for `tbnz`, which is `tbz` with another bit, that of `tbz`):
  with `Programs <- OtherPrograms`, or any one of them, TLC finds `SameEffect` violated.
* Caves are searched for in pages of any permission, where `src/docs/HookFrameworkDesign.md:47` speaks of `rx-` pages: in
  a data page the zeros may be about to be used, and the page is left non-writable.
* `RegState` shows the bridge's address as `x15`, the register of the example at `src/README.md:25`.
* A branch from one relocated instruction to another leads onto the patch: `relocate_to` is never called.
* A patch or cave across the end of a page overruns the one-page copy (`CopyPage`, fault `overrun`).
* A block that ends where the search window begins fails an assertion; with no cave NULL is dereferenced after a
  check that only logs.
* A long patch under or over another hook of the same target makes `on_invoke_trampoline` run in a circle or lose `x17`.
* While a closure is bound, all closures of its table fault for other threads.
* `map_remove_value` dereferences null when it removes the last node of a chain, `map_node_new` when there is no memory, and
  `map_iter_next` returns nothing (its index starts as the largest unsigned number). Nothing calls the first and last.
* `x14`, `x15`, `x17`, the flags and `v16`-`v31` are not preserved, which matters to a DBI hook inside a function.

Of the ARM32 backend, which no document describes and which this branch's `CMakeLists.txt` does not build:

* ARM (not Thumb) functions cannot be hooked: the reader leaves `size` 0, so the loop over the prologue never advances and
  overruns its 256 `insnCTX`s (`fault = "overrun"`, in `hook_arm32`). The ARM relocator is checked by itself.
* ARM instructions that are not of a known class are dropped from the output; conditions of `add`, `ldr` and `adr` are
  dropped, and a conditional `bl` that is not taken still goes on without its link register.
* Thumb: `blx` to ARM loses the set it leads to in one form; `adr` at a misaligned address is off by 2; backward or far
  `b.w` and `bl` have their sign and upper bits from the wrong places; a branch within the patch fails an assertion
  (`relocated_insn`); `add` to `r7` or `pc` in its wide form has no rewrite.
* Writers: a store with a negative offset encodes the sign in the distance, `put_add_reg_imm` takes no high register, one
  encoding with a base of `pc` is emitted twice. Nothing of the backend uses these.
* A DBI hook's closure calls the handler of a wrapped function; with the long patch it jumps to `on_enter_trampoline`, which
  is null. A refused slice leaves a trampoline null, and the target is patched all the same. A closure that cannot be allocated is
  logged and then dereferenced (`NoClosure`, `fault = "null"`, in `hook_arm32`).
* `InteceptorBackendNew` tests a `status` it never set. The bridge reads its next hop from the word below `sp`, which a
  signal handler may overwrite, and saves neither the flags nor the floating-point registers.

## Not modelled

* The dynamic (island) closure bridge and GOT hooks: `dynamic-closure-bridge-darwin.c` returns NULL for everything, and no
  API function of the C build makes such a hook (`ZzWrapGOT` and `ZzReplaceGOT` are declared only).
* Code under `#if 0` or in an `#else` that is never compiled, among it the ARM32 `double_write`; functions no code calls:
  `relocate_to`, `put_str_reg_reg_offset` (ARM64), the debug `describe` functions.
* `srcxx/`, a C++ port that `CMakeLists.txt` does not build and that lacks headers it includes; the x86 stubs, whose bodies are
  empty; `mach_vm.h`, generated declarations.
* `fishhook` and `clear_cache` are third-party, logging is output, the parsing of `/proc/self/maps` and, outside ARM32's closure
  allocation, failing system calls (which are logged only) are I/O.

## Fairness

* `InterceptorRouting!FairSpec`: weak fairness of each thread's trampolines and handlers (straight-line code that the
  scheduler runs), and strong fairness of `Return` at each depth: functions and callbacks terminate. It has to be strong
  because a function that calls again and again is left and re-entered. `CallsReturn` rests on it, and with handlers
  that divert returns it is not a triviality: a debt paid with the wrong address would keep the thread circling.
* `HookInstall!FairSpec`: weak fairness of `Build` (the API call goes on) and of each thread's `Run`. Nothing
  makes the program call the API or a target.
* `RelocatorArm64!Spec`: weak fairness of the only process.
* `InterceptorArm32!Spec`: weak fairness of `CallerStep`, the steps of the thread that is in the hook. The installer is under
  none: `Finishes` speaks of calls once the hook is built.
* `CodeMemory`, `ClosureBridge` and `StdKit` are checked for safety only.

## Proofs

`InterceptorRoutingProofs` proves, for every set of threads, functions, hooks and callbacks, every `MaxDepth` and
`MaxLive`, from `HooksAssumption` and `BoundsAssumption` only:

| theorem | states |
|---|---|
| `TypeCorrect` | `Spec => []TypeOK` |
| `RoutingInvariant` | `Spec => []RoutingInv` |
| `ReturnsCorrect` | `Spec => []ReturnsToCaller` |
| `CallbacksPaired` | `Spec => []PostMatchesPre` |
| `PushesAndPopsMatch` | `Spec => []PushesMatchPops` |
| `CallIdsCorrect` | `Spec => []CallIdsLive` |

`ReturnsToCaller` is not inductive: whether the next return is right depends on the link registers and `ret_addr`s of all
frames below. The strengthening is `RoutingInv == TypeInv /\ IdsOK /\ ThreadsOK`:

* `TypeInv`: types, and what each kind of frame carries (`Callee`, `Stack`).
* `IdsOK`: no two call_stacks in use, on a list or popped by a `routing_end` in progress, of one thread or two, are the
  same block, and the allocated blocks are just these. It is needed so that a handler that writes or frees a block
  disturbs no other frame (`ThreadCarry`, `OtherThread`).
* `ThreadsOK`: for each frame the marks split the list into segments; within a segment the chain is unbroken: the last
  call_stack's hook is the one in the frame's `lr` (or the handler's), each call_stack's `ret_addr` leads to the hook of
  the one below it, and the lowest leads to the caller's site (`FrameOK`, `Returns`).

The step is proved action by action. Lemmas on one thread's values (`ThreadPush`, `ThreadPop`, `ThreadSetTop`,
`ThreadCallback`) say what a push, a pop or a change of the top frame does to `ThreadOK`; the actions cite them. That the four
safety properties follow from `RoutingInv` is immediate after that.

### The refinement

The same module proves `HookedCallsImplemented == Spec => ImplementsHookedCalls`: initial states map to initial
states and every step to a step of `HookedCalls` or to none. `AbstractCalls` finds the hook of a debt by following addresses;
by `RoutingInv` that is the hook in the auxiliary `entryOf` (`HookByEntry`), so the proof works on `CallsOf`, the same
mapping as a function of one thread's values. `CallsInv` adds to `RoutingInv` what a handler in progress needs (`HandlersOK`): a
frame that runs a leave trampoline has that trampoline's own address in `lr`, and a callback has the `call_id` of the handler
below it. What a push, a pop, a change of the top frame and a callback do to the debts are lemmas (`PushCalls`, `PopCalls`,
`TopCalls`, `CallbackCalls`), and each action of the concrete module cites one.

### Installation

`HookInstallProofs` proves `NoNullTrampoline == Spec => []TrampolinesBuilt` from `HooksAssumption` and `NullAssumption` (`NULL` is
no address). `TrampolinesBuilt` speaks of where a thread is; what is inductive is that every address a thread could be sent to
is there already. `Reach(a)` says so of one address: a slot, a transfer or an invoke trampoline of a hook that is `Built`
(its `invoke` is there, and for a wrapped function its `leave`). `InstallInv` has:

* `EntriesOK`, `SlotsOK`: what an entry and a transfer trampoline hold is null or the hook's own.
* `InstallerOK`: what is left to do is a tail of `BuildSteps`, and what came before is done. Here the order of `build_all`
  enters, through `StepsInOrder`: at `active()` everything the patch leads to has been built, and a transfer comes after what it
  goes to. This does not hold for the mutant `BuildSteps_TransferFirst`.
* `CodeOK`: each word over a target and each relocated one leads somewhere reachable, even where the words are from two patches.
* `ThreadsOK`: so do a thread's `x17`, the trampolines it has still to come back through, and where it is.

From the same assumptions and on top of `InstallInv` follow three more properties of the module:
`HooksRunInOrder` (`HooksInOrder`), `OriginalsRunOnce` (`OriginalRunsOnce`) and `TornOnlyByLongPatch`
(`TornOnlyWhenOverlapped`). Each speaks of a call at its end; what is kept at every step (`OrderInv`, `OrderKept`) says what a call
will still meet, and so what is in memory:

* `HooksOK`, `CurrentOK`: only the newest entry is not active yet; active ones are complete; on a target with several hooks all
  of them are near jumps whose caves are above it.
* `DestsOK`: the transfer trampoline of h leads to a closure, or the replace_call, of h itself, and so do the addresses in its entry.
* `InvokesOK`: `on_invoke_trampoline` of h has the function's own instructions if h is the first hook of its target, and
  otherwise a jump to the hook just before h (`Below`), which is then active. This is what `build_for_invoke` gets by relocating
  what it finds at the target, and what the mutant `BuildForInvoke_FirstPrologue` loses.
* `ShapesOK`: the words over a target are its own four; or a branch to the newest hook and the other three; or the long patch of
  its only hook; or, while that is written (`Halfway`), the old or the new word according to `installer.words`.
* `PathsOK`: the calls. A thread that comes to hook h (`ToMeet`) has gone through newer ones only, and any hook it began under
  and has not met yet is h or older; one that has come through h (`Passed`) has the older ones before it and, if h is the first,
  has run just the instructions before `th.i`. In the function's own words it is at the first, has passed all hooks
  (`AtOwn`), or has loaded the address of the long patch (`AtLong`).

Installer steps keep the paths because they take nothing away from an active hook (`Onward`, `OnwardPath`); a half-written patch
excuses only the calls that `BeginPatch` and `Call` mark `overlapped`, and those keep the order of the hooks all the same.

`InstallTypes` (`TypeOK`) is proved there too, since it needs both invariants: that an own word is one of the first four is
`ShapesOK`, that `i` is at most 5 in a trampoline is `InvokesOK`. `TypedInv` adds why the closures are at most two for each hook:
`NamedBy`, every slot is the one that a field of its hook's entry names, and `FieldsFree`, a field that is still to be bound is
null, as no step comes twice (`StepsOnce`). With `FiniteAssumption` the slots are then counted (`SlotsFew`).

### The ARM64 relocator

`RelocatorArm64Proofs` proves `RelocatorTypes` (`TypeOK`), `RelocatedSameEffect` (`SameEffect`) and `RelocatedGroupsSimulate`
(`GroupsSimulate`) from `RelocatorAssumption` and `Relocatable`: every program of any length whose instructions can be moved, in any
registers and over any distance, does, moved, what it did in place. The run has a few distances, registers and lengths; the
theorems have them all. The argument, from the bottom:

* *Words.* The top ten bits of a word (`K`) tell the classes apart: the architecture's (`DecodeClass`), the library's (`TypeClass`),
  and which of them move (`MovesClass`); `Refers` has those that refer to the pc. The writer's words decode as what they are meant to be (`LdrWord`, `BranchWord`, ...),
  and where a distance is not negative the library's unsigned field is the signed one (`Forward`).
* *Groups.* `relocate_write` makes of an instruction a group of words: itself, a jump, a load through a register, a test
  around a jump, or a call (`GroupIs`: `IsJump`, `IsLoad`, `IsTest`, `IsCall`). `Pos` and `Laid` say where in the output
  the groups are, and so what `io_indexs` must hold and what the processor fetches (`RunCode`, `StoredAddress`).
* *The run.* `RelocatedInv` is `InputInv` (the reader), `OutputInv` (the words put so far are the groups so far) and `CpuInv`. The
  last says that every register but `x17` holds what the program put there (`Own`), so that loads and branches by a register are
  those of the program, and where a call is: on its way through patch and transfer trampoline (`OnTheWay`, with the address that `x17` holds by
  then), at word j of group k (`InGroup`: what `x17` or `lr` holds there, and which events there have been, `AtWord`,
  `Midway`), or gone with the original's events and exit (`HasLeft`). `SameEffect` and `GroupsSimulate` speak only of the end
  and of the first words of groups; neither is inductive, since a jump in the middle of a group is right only with what the words
  before it loaded.

One lemma for each kind of group shows that its words lead from its first to the next group or out (`PlainGoes`, `JumpGoes`,
`LoadGoes`, `TestGoes`, `CallGoes`), and `PatchGoes` that the patch leads to the handler. The hypotheses are needed: without
them `relocator_backward` finds `SameEffect` violated.

### The ARM32 writers

`InterceptorArm32Proofs` proves `CallsMeanAlways == Spec => []CallsMean` from `CallsAssumption`: whatever the registers, the
distance, the value and the address, and whichever of its encodings a writer takes for them, a processor that runs what was put gets
where the call asks it to be, with the registers and stores it asks for. The run calls each writer a few times; the theorem has all
of `ThumbCall` and `ArmCall`. These are the calls whose arguments an encoding has room for, since the writers check none: a
distance beyond the bits it is given, or one that is not a multiple of what they count, comes out as another one, and no caller in
the repository asks for it. Left out are also what the architecture leaves unpredictable (write-back to the loaded register,
`pop` to `sp` in ARM code) and branches and jumps back into what was put, after which the call is not over. The argument:

* *Places.* What is put is a sequence of items (`Puts`), and at an address it is a memory with the halfwords where they belong
  (`CodeAt`), so that each proof below speaks of one or two halfwords at a `pc`.
* *One step.* `ArmProcessorProofs`: a halfword with such fields makes the processor do such a thing (`Thumb16`, `Thumb32`,
  `ARM32`, with no more said of the word than what is decoded). The fields of what a writer puts are sums of fields, so that they
  can be read back by arithmetic alone; the splitting of a wide branch's distance into six, two of them inverted by the sign, is put
  together again in one lemma, which the mutant `thumb_put_branch_imm_J` falsifies.
* *One call.* `Does` says that the machine is, in so many steps, out of what was put and as a given machine, but for stores that one
  knows nothing of (a literal that was pushed over); `Meets` that this is the machine the call asks for (`Asked`). There is one
  lemma for each case of a writer, `ThumbCallMeets` and `ArmCallMeets` for all of them.
* *The run.* `CallsMean` speaks of the end only. `CallInv` says that once a writer has put its call, its whole output is what is at
  the address, and that in at most six steps more (`Reach6`) the machine is out of it and as the call asks; a step takes one from
  six to five. TLC has checked it on the instance of `hook_arm32`.

### Memory, closures, containers

* `CodeMemoryProofs`, for both platforms, from `MemoryAssumption` and `BranchAssumption`:
  * `PatchesExecutable == Spec => []CodeExecutable`. It has to be joined with where patches may lie (`ExecInv`): the page that
    is unprotected and protected again is one of the address space, and the address being patched comes from a block, from a
    cave that was found, or from the target.
  * `TypeCorrect == Spec => []TypeOK`. `TypeInv` adds that a part fits in a page, what the copy holds, and which steps of
    `patch_code` belong to which platform, as Linux makes pages writable that Darwin never has.
  * `CavesReached == Spec => []CavesInReach`. The limits of the search are the limits of the branch (`FoundInReach`); where the
    lower one wraps around, it is above every address, and nothing is found.
* `CodeMemoryProofs`, of what is in memory: `TrampolinesStayIntact` (`TrampolinesIntact`) and `ProgramStaysIntact`
  (`ProgramIntact`) on both platforms, under what the code takes for granted of the program. `ZerosUnused`: the words of a
  target are not zero, lie in one page and belong to no other target, the program's stores go to words that are not zero at
  first, and no four zero words go across the end of a page, which `patch_code`'s copy of one page would cut off. `DataApart`,
  for `ProgramStaysIntact` only: the stores go to pages mapped `rw`, where no target is, and which hold no zeros where caves are
  looked for (behind a path on Linux, everywhere on Darwin); else a cave would be put into the data and its page would lose its
  write permission. TLC evaluates both for the programs of the runs (`ProgramAssumption` in `MCCodeMemory`).

  A third hypothesis, `[]SlicesFar`, is about the environment: `mmap` chooses where slices are, and where the layout has their
  pages, as Darwin's does, they are to be out of reach of the near hooks. It holds in every state of `memory`; `memory_slices` has
  pages for which it does not, and there `TrampolinesIntact` is false. On Linux no layout has them (`LinuxSlicesFar`), and
  `LinuxTrampolinesIntact` and `LinuxProgramIntact` are about every behaviour. `IntactInv` has:
  * `PagesInv`: pages that were mapped at first stay mapped, a block is one that was not, and no two blocks are the same page; a
    page mapped since is anonymous; what the layout lists was mapped, on Linux with a path (`Listed`).
  * `TodoInv`: the patch of the target comes last, so the target of a hook in progress is still its own.
  * `PatchesInv`: a word that is not zero at first is never zero; every patch, complete or in progress, lies in one page, apart
    from what the program writes, from targets still to be patched, and, in a block, below what is used of it (`Apart`); the copy of
    the page is the page with the patch, but for what was stored meanwhile (`CopyInv`).

  A slice is then above all others of its block, a cave is zero and so in no patch, and a target was its hook's own until now.
* `ClosureBridgeProofs`, from `ClosureAssumption` only: `TypeCorrect`, `TablesCorrect` (`TablesFillUp`), `DispatchCorrect`
  (`DispatchesOwnData`), `RegistersCorrect` (`RegistersKept`), `FaultsExplained` (the action property `FaultsOnlyWhileBinding`).
  `BindingInv` says which slots are bound to what, that a table's count is the number of its slots taken, and that the
  page is unprotected exactly while a closure is bound in it; a thread in a closure relies on its slot not being handed out
  again. `ThreadInv` says, place by place, where the value of each register is: in the register, in the words on the stack, or in
  the callback's hands. Save, struct and restore agree because their three layouts come to the same offsets (`Fields`).
* `StdKitProofs`, of the three containers as `StdKit` drives them; `KitTypes` is its `TypeOK`.
  * `BufferNotOverrun == Spec => []DoublingSuffices`, from `BufferAssumption`; `BufferInv` adds that the capacity is never 0, as
    doubling would then not help.
  * `ListLinked` (`LinksAgree`) and `ListImplemented` (`ImplementsList`), from `NodesAssumption` (the nodes are finitely many and
    `NULL` is none). `ListInv`: some sequence of nodes has each of them once, begins at the head, ends at the tail, and its
    neighbours are linked both ways. The sequence is what a walk along `next` finds, whatever its length, and what each
    operation does to `AbstractList`'s.
  * `MapInBuckets` (`NodesInBuckets`) and `MapImplemented` (`ImplementsDictionary`), from `HashAssumption` (finitely many keys,
    any hash function). `MapInv`: every node is in the bucket of its hash, no key is twice in a chain, and `nnodes` is their
    number. `ChainedIs`, `AddedIs` and `ResizeIs` say what `map_resize` keeps: the nodes, each in its new bucket; `PositionIs`
    what the search finds.

  Where these need induction over a length, it is by a least counterexample (`LeastNumber`, `UpTheNumbers`), a fact about sets of
  naturals that needs no operator for a parameter.

### Only model-checked

Liveness (`CallsReturn`, `CallsFinish`, `HooksInstalled`, `Finishes`, `RelocatedLeaves`: out of the prover's reach);
`SlicesFar`, which is a hypothesis, in the states of `memory`; `TypeOK`, `SameEffect`, `HandlersSeeRegisters` and `ReturnsToCaller` of `InterceptorArm32`. They are about whole hooks: a
hook's code comes from a dozen writer calls at addresses that depend on alignment and on what came before, and a call runs through
the program's own instructions, which the processor executes as a subset of the architecture. The theorem on the writers is the lower
half of such a proof. Every other invariant that a run checks is stated by a theorem.

## Assumptions and limits

* The theorems hold for all constants that satisfy the assumptions of their modules. Some take a hypothesis that says what the
  code takes for granted of its program or its environment, and TLC evaluates it for the instances of the runs: `Relocatable`
  for the ARM64 relocator, `ZerosUnused` and `DataApart` for memory, `SlicesFar` for memory on Darwin. `CallsAssumption` says which calls of the ARM32 writers the
  jobs of a run may have, and is evaluated with the module.
* The nodes a list ever has, the keys of a map and the calls of the API are finitely many (`NodesAssumption`, `HashAssumption`,
  `FiniteAssumption`).
* One API call at a time: the library has no lock and every use in the repository hooks from one thread.
* A function is hooked once in `InterceptorRouting`; several hooks on one function are `HookInstall`'s.
* Frames end by returning or tail-calling. `longjmp` or an exception past a wrapped frame breaks the code by design.
* A patched word becomes visible whole (aligned stores, cache maintenance done by `clear_cache`).
* No word of a trampoline is zero in `CodeMemory`.
* The program does not store into a page that is patched, caves included: `DataApart`, and the programs of `memory`, keep its data
  off such pages. Where they are not kept apart, a store between the copy of the page and its being written back is lost, or
  faults on a page left `r-x`. So `ProgramIntact` in `memory` says nothing of that race: the model has the steps for it (`Store` may
  come between any two of `patch_code`), and with zeros taken for a cave in a page of data TLC finds `ProgramIntact` violated.
* No region comes or goes while hooks are installed, except the library's own.
* `try_relocate` never shortens a prologue: the decoder it asks never yields the class it looks for.
* ARM32: the memory manager and the thread stack belong to an older core that is not in the repository; slices are at
  fixed addresses, apart from each other.

## Plan

Done: routing with its abstract specification, its proofs and the proof of the refinement; installation and the order it
builds in; the relocators of both instruction sets, ARM64's proved; memory on both platforms; closures; containers, with the
proofs that they are a sequence and a dictionary; the writers of ARM32's two instruction sets, with a proof for all their calls. What
is left:

1. ARM32: `SameEffect`, rewrite by rewrite, on top of the theorem about the writers: each `rewrite_` is two to four of their calls,
   and `Does` is made so that such runs can be put together.
2. Two threads in the API at once. No caller does it and nothing guards against it: the model would have to say what the
   shared lists become when two `realloc`s of one of them meet, which C leaves undefined.

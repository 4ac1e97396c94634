---- MODULE CodeMemory ----
(***************************************************************************)
(* Where the code that a hook needs is put: memory_manager.c (code slices, *)
(* code caves, the process layout) and patch_code of backend-posix or of   *)
(* backend-darwin, in the order in which build_all and active use them.    *)
(* The program runs at the same time and writes to its data.               *)
(*                                                                         *)
(* Addresses count words of 4 bytes.  One API call runs at a time, and the *)
(* closures, which have pages of their own, are left out.                  *)
(***************************************************************************)
EXTENDS Integers, SequencesExt, FiniteSetsExt

CONSTANTS
  PageSize, Pages,    \* the address space is Pages pages of PageSize words
  Regions,            \* what is mapped: sequence of [page, n, prot, path]
  Zeros,              \* the addresses that hold zero at first
  Hooks,              \* sequence of [target, near, replace]
  InvokeSize,         \* the words of an on_invoke_trampoline, by near
  BranchRange,        \* bxxx_range, in words
  ImmBits,            \* the width of the distance in a b instruction
  Backends,           \* the platforms: a subset of {"linux", "darwin"}
  StoreAddresses,     \* where the program writes
  NULL

TransferSize == 4
PatchSize(near) == IF near THEN 1 ELSE 4

Address == 0..Pages * PageSize - 1
PageOf(a) == a \div PageSize
Region == [page : 0..Pages - 1, n : 1..Pages, prot : {"rx", "r", "rw"}, path : BOOLEAN]

ASSUME MemoryAssumption ==
  /\ PageSize \in Nat \ {0} /\ Pages \in Nat \ {0}
  /\ PageSize >= TransferSize
  /\ Regions \in Seq(Region)
  /\ \A i \in DOMAIN Regions : Regions[i].page + Regions[i].n <= Pages
  /\ Zeros \subseteq Address
  /\ Hooks \in Seq([target : Address, near : BOOLEAN, replace : BOOLEAN])
  /\ InvokeSize \in [BOOLEAN -> 1..PageSize]
  /\ StoreAddresses \subseteq Address
  /\ Backends \subseteq {"linux", "darwin"}

\* bxxx_range is 2^23 words, imm26 has 2^25 to either side, the address space 2^62
ASSUME BranchAssumption ==
  /\ ImmBits \in Nat \ {0}
  /\ BranchRange \in TransferSize..2 * Pages * PageSize
  /\ BranchRange <= 2 ^ (ImmBits - 1)

ASSUME NullAssumption ==
  /\ NULL \notin DOMAIN Hooks
  /\ NULL \notin {"no cave", "assert", "unmapped", "overrun", "store"}

VARIABLES
  backend,            \* the platform
  mem,                \* the word at each address
  prot,               \* the permissions of each page, "none" if not mapped
  anonymous,          \* the pages allocate_page has mapped
  remapped,           \* the pages patch_code has replaced (Darwin)
  process_memory_layout,  \* the regions of the process, once they have been read
  free_memory_blocks,     \* the pages that slices are taken from
  pending,            \* the hooks not yet asked for
  hook,               \* the hook that an API call installs, or NULL
  todo,               \* the parts of it that are left, the next one first
  trampolines,        \* on_enter_transfer_trampoline and on_invoke_trampoline
  patch,              \* what patch_code writes: [dest, words], or NULL
  step,               \* where patch_code is
  copy_page,          \* its copy of the page
  fault,              \* NULL, or what stopped the process
  written,            \* auxiliary: the patches that are complete
  stored              \* auxiliary: the memory as the program alone would have it

managerVars == <<process_memory_layout, free_memory_blocks, anonymous, remapped>>
hookVars == <<pending, hook, todo, trampolines>>
patchVars == <<patch, step, copy_page, written>>
vars == <<backend, mem, prot, managerVars, hookVars, patchVars, fault, stored>>

(* ------------------------------------------------------------------------ *)
Zero == <<"zero", 0, 0>>
Code == <<"code", 0, 0>>
Data(v) == <<"data", v, 0>>

\* Word i of a part of hook h; no word of a trampoline or patch is zero
Words(h, part, size) == [i \in 1..size |-> <<part, h, i>>]

PagesOf(r) == r.page..r.page + r.n - 1
AddressesOf(p) == p * PageSize..(p + 1) * PageSize - 1
DataPages == UNION {PagesOf(Regions[i]) : i \in {j \in DOMAIN Regions : Regions[j].prot = "rw"}}
Mapped(a) == a \in Address /\ prot[PageOf(a)] # "none"

FreeMemoryBlock == [address : Address, total_size : {PageSize}, used_size : Nat]
MemoryBlock == [address : Address, size : 1..Pages * PageSize]

\* What allocate_code_slice and search_code_cave return, by the part it is for
CodeSlice == Address
CodeCave == Address

Part(kind, size) == [kind |-> kind, size |-> size]

\* The parts of a hook, in build_all's order
Parts(h) ==
  (IF h.near \/ h.replace THEN <<Part("transfer", TransferSize)>> ELSE << >>)
    \o <<Part("invoke", InvokeSize[h.near]), Part("patch", PatchSize(h.near))>>

BeginHook(h) ==
  /\ hook = NULL /\ fault = NULL
  /\ hook' = h
  /\ pending' = pending \ {h}
  /\ todo' = Parts(Hooks[h])
  /\ UNCHANGED <<mem, prot, managerVars, trampolines, patchVars, fault, stored>>

\* A part has its address: patch_to and patch_code
StartPatch(part, dest) ==
  /\ patch' = [dest |-> dest, words |-> Words(hook, part.kind, part.size)]
  /\ step' = "copy"
  /\ trampolines' = IF part.kind = "patch" THEN trampolines
                    ELSE [trampolines EXCEPT ![hook][part.kind] = dest]
  /\ todo' = Tail(todo)
  /\ UNCHANGED <<pending, hook, copy_page, written>>

Ready == hook # NULL /\ patch = NULL /\ fault = NULL
NextPart(kind) == Ready /\ todo # << >> /\ todo[1].kind = kind

(* ------------------------------------------------------------------------ *)
(* Code slices                                                                 *)

NeedsSlice ==
  \/ NextPart("invoke")
  \/ NextPart("transfer") /\ ~Hooks[hook].near

\* Mutant: the size is not added to what is used
FreeBlock_NotUsed(fmb, size) == fmb

FreeBlock(fmb, size) == [fmb EXCEPT !.used_size = @ + size]

\* Mutant: what is left is not compared with the size
HasRoom_Any(fmb, size) == fmb.total_size > fmb.used_size

HasRoom(fmb, size) == fmb.total_size - fmb.used_size > size

SliceFromBlock(size) ==
  \E i \in DOMAIN free_memory_blocks :
    LET fmb == free_memory_blocks[i]
    IN  /\ HasRoom(fmb, size)
        /\ \A j \in 1..i - 1 : ~HasRoom(free_memory_blocks[j], size)
        /\ StartPatch(todo[1], fmb.address + fmb.used_size)
        /\ free_memory_blocks' = [free_memory_blocks EXCEPT ![i] = FreeBlock(fmb, size)]
        /\ UNCHANGED <<prot, anonymous, remapped, process_memory_layout>>

\* One page, anywhere, executable from the start
allocate_page(p) ==
  /\ prot' = [prot EXCEPT ![p] = "rx"]
  /\ anonymous' = anonymous \cup {p}

SliceFromNewPage(size) ==
  /\ \A i \in DOMAIN free_memory_blocks : ~HasRoom(free_memory_blocks[i], size)
  /\ \E p \in {q \in 0..Pages - 1 : prot[q] = "none"} :
       /\ allocate_page(p)
       /\ LET fmb == [address |-> p * PageSize, total_size |-> PageSize, used_size |-> 0]
          IN  /\ free_memory_blocks' = Append(free_memory_blocks, FreeBlock(fmb, size))
              /\ StartPatch(todo[1], fmb.address)
  /\ UNCHANGED <<process_memory_layout, remapped>>

allocate_code_slice ==
  /\ NeedsSlice
  /\ SliceFromBlock(todo[1].size) \/ SliceFromNewPage(todo[1].size)
  /\ UNCHANGED <<mem, fault, stored>>

(* ------------------------------------------------------------------------ *)
(* Code caves                                                                  *)

Block(p, n) == [address |-> p * PageSize, size |-> n * PageSize]

\* /proc/self/maps is read as lines of 8 fields, the last of which is a path
LinuxLayout ==
  {Block(Regions[i].page, Regions[i].n) : i \in {j \in DOMAIN Regions : Regions[j].path}}

\* What is left of a region in which pages have been replaced
Rest(r) ==
  {p \in PagesOf(r) \X PagesOf(r) :
     /\ p[1] <= p[2] /\ p[1]..p[2] \cap remapped = {}
     /\ {p[1] - 1, p[2] + 1} \subseteq remapped \cup {r.page - 1, r.page + r.n}}

\* vm_region_recurse_64, whatever is behind the region
DarwinLayout ==
  {Block(p, 1) : p \in anonymous \cup remapped}
    \cup UNION {{Block(p[1], p[2] - p[1] + 1) : p \in Rest(Regions[i])} : i \in DOMAIN Regions}

Layout == IF backend = "darwin" THEN DarwinLayout ELSE LinuxLayout

\* The arithmetic of zz_addr_t
Wrap(a) == a % (4 * Pages * PageSize)

\* Mutant: no lower limit
LimitStart_None(target) == 0

LimitStart(target) == Wrap(target - BranchRange)

SearchStart(mb, target) == Max({mb.address, LimitStart(target)})
SearchEnd(mb, target) == Min({mb.address + mb.size, Wrap(target + BranchRange - TransferSize)})

\* Mutant: only the first word is compared
Unused_FirstWord(a) == mem[a] = Zero

\* No difference among the words that can be read
Unused(a) == \A i \in 0..TransferSize - 1 : Mapped(a + i) => mem[a + i] = Zero

Readable(a) == a \in Address /\ \A i \in 0..TransferSize - 1 : Mapped(a + i)

\* Where search_dummy_code_cave stops in a region, if it does: at zeros, or where memcmp
\* reads what is not mapped; it may read on after a difference, or not
StopsAt(mb, target, reads_on) ==
  {a \in SearchStart(mb, target)..SearchEnd(mb, target) - 1 :
     /\ (a - SearchStart(mb, target)) % TransferSize = 0
     /\ Unused(a) \/ (reads_on /\ ~Readable(a))}

\* A region that ends the search; the layout has them in the order of their addresses
Ends(mb, target, reads_on) ==
  \/ SearchStart(mb, target) = SearchEnd(mb, target)    \* assert(start < end) fails
  \/ SearchStart(mb, target) < SearchEnd(mb, target) /\ StopsAt(mb, target, reads_on) # {}

SearchFails(what) == fault' = what /\ UNCHANGED <<hookVars, patchVars>>

\* What becomes of the search in region mb, the first one that ends it
SearchIn(mb, target, reads_on) ==
  \/ SearchStart(mb, target) = SearchEnd(mb, target) /\ SearchFails("assert")
  \/ /\ SearchStart(mb, target) < SearchEnd(mb, target)
     /\ \E found \in StopsAt(mb, target, reads_on) :
          /\ \A a \in StopsAt(mb, target, reads_on) : found <= a
          /\ IF Readable(found) THEN StartPatch(todo[1], found) /\ UNCHANGED fault
             ELSE SearchFails("unmapped")

search_code_cave ==
  /\ NextPart("transfer") /\ Hooks[hook].near
  /\ process_memory_layout' =
       IF process_memory_layout = {} THEN Layout ELSE process_memory_layout
  /\ \E reads_on \in BOOLEAN :
       LET target == Hooks[hook].target
           ending == {mb \in process_memory_layout' : Ends(mb, target, reads_on)}
       IN  \/ ending = {} /\ SearchFails("no cave")
           \/ \E mb \in ending :
                /\ \A other \in ending : mb.address <= other.address
                /\ SearchIn(mb, target, reads_on)
  /\ UNCHANGED <<mem, prot, anonymous, remapped, free_memory_blocks, stored>>

active ==
  /\ NextPart("patch")
  /\ StartPatch(todo[1], Hooks[hook].target)
  /\ UNCHANGED <<mem, prot, managerVars, fault, stored>>

(* ------------------------------------------------------------------------ *)
(* patch_code: both copy the page and write into the copy; then backend-posix  *)
(* copies it back, backend-darwin puts it in the place of the page.            *)

DestPage == PageOf(patch.dest)
Patching(s) == patch # NULL /\ step = s /\ fault = NULL

\* The words that patch_code puts into its copy of the page: the copy ends where the
\* page does
Fits == {i \in 1..Len(patch.words) : PageOf(patch.dest + i - 1) = DestPage}

CopyPage ==
  /\ Patching("copy")
  /\ copy_page' = [a \in AddressesOf(DestPage) |->
                     IF a - patch.dest + 1 \in Fits THEN patch.words[a - patch.dest + 1]
                     ELSE mem[a]]
  /\ fault' \in IF Fits = 1..Len(patch.words) THEN {NULL} ELSE {NULL, "overrun"}
  /\ step' = IF backend = "darwin" THEN "remap" ELSE "unprotect"
  /\ UNCHANGED <<mem, prot, managerVars, hookVars, patch, written, stored>>

UnprotectPage ==
  /\ Patching("unprotect")
  /\ prot' = [prot EXCEPT ![DestPage] = "rwx"]
  /\ step' = "write"
  /\ UNCHANGED <<mem, managerVars, hookVars, patch, copy_page, written, fault, stored>>

CopiedBack == [a \in Address |-> IF PageOf(a) = DestPage THEN copy_page[a] ELSE mem[a]]

WritePage ==
  /\ Patching("write")
  /\ mem' = CopiedBack
  /\ step' = "protect"
  /\ UNCHANGED <<prot, managerVars, hookVars, patch, copy_page, written, fault, stored>>

PatchDone ==
  /\ patch' = NULL
  /\ copy_page' = << >>
  /\ written' = written \cup {patch}
  /\ hook' = IF todo = << >> THEN NULL ELSE hook
  /\ UNCHANGED <<pending, todo, trampolines>>

\* Mutant: readable and writable, as the copy
ProtectPage_RW ==
  /\ Patching("protect")
  /\ prot' = [prot EXCEPT ![DestPage] = "rw"]
  /\ step' = "done"
  /\ PatchDone
  /\ UNCHANGED <<mem, managerVars, fault, stored>>

ProtectPage ==
  /\ Patching("protect")
  /\ prot' = [prot EXCEPT ![DestPage] = "rx"]
  /\ step' = "done"
  /\ PatchDone
  /\ UNCHANGED <<mem, managerVars, fault, stored>>

\* mach_vm_remap: the copy, made executable, becomes the page at once
RemapPage ==
  /\ Patching("remap")
  /\ mem' = CopiedBack
  /\ prot' = [prot EXCEPT ![DestPage] = "rx"]
  /\ remapped' = remapped \cup {DestPage}
  /\ step' = "done"
  /\ PatchDone
  /\ UNCHANGED <<process_memory_layout, free_memory_blocks, anonymous, fault, stored>>

(* ------------------------------------------------------------------------ *)
(* The program                                                                 *)

Store(a, v) ==
  /\ fault = NULL
  /\ IF prot[PageOf(a)] \in {"rw", "rwx"}
     THEN /\ mem' = [mem EXCEPT ![a] = Data(v)]
          /\ stored' = [stored EXCEPT ![a] = Data(v)]
          /\ UNCHANGED fault
     ELSE fault' = "store" /\ UNCHANGED <<mem, stored>>
  /\ UNCHANGED <<prot, managerVars, hookVars, patchVars>>

(* ------------------------------------------------------------------------ *)
InitialProt(p) ==
  LET at == {i \in DOMAIN Regions : p \in PagesOf(Regions[i])}
  IN  IF at = {} THEN "none" ELSE Regions[Min(at)].prot

InitialMem(a) ==
  IF a \in Zeros \/ InitialProt(PageOf(a)) = "none" THEN Zero
  ELSE IF PageOf(a) \in DataPages THEN Data(0) ELSE Code

Init ==
  /\ backend \in Backends
  /\ mem = [a \in Address |-> InitialMem(a)]
  /\ prot = [p \in 0..Pages - 1 |-> InitialProt(p)]
  /\ anonymous = {} /\ remapped = {}
  /\ process_memory_layout = {} /\ free_memory_blocks = << >>
  /\ pending = DOMAIN Hooks
  /\ hook = NULL /\ todo = << >>
  /\ trampolines = [h \in DOMAIN Hooks |-> [transfer |-> NULL, invoke |-> NULL]]
  /\ patch = NULL /\ step = "done" /\ copy_page = << >>
  /\ fault = NULL
  /\ written = {}
  /\ stored = mem

Next ==
  /\ UNCHANGED backend
  /\ \/ \E h \in pending : BeginHook(h)
     \/ allocate_code_slice
     \/ search_code_cave
     \/ active
     \/ CopyPage \/ UnprotectPage \/ WritePage \/ ProtectPage
     \/ RemapPage
     \/ \E a \in StoreAddresses, v \in 1..2 : Store(a, v)

Spec == Init /\ [][Next]_vars

(* ------------------------------------------------------------------------ *)
(* Properties                                                                  *)

WordsAt(w) == w.dest..w.dest + Len(w.words) - 1
TargetWords(h) == Hooks[h].target..Hooks[h].target + PatchSize(Hooks[h].near) - 1

(***************************************************************************)
(* Of the program, for the theorems.  What it uses is not zero, as docs/   *)
(* HookFrameworkDesign.md:45 has it: the targets' code, which lies in one  *)
(* page and belongs to one hook, and what it writes to; and a run of zeros *)
(* that crosses the end of a page is shorter than a cave.                  *)
(***************************************************************************)
ZerosUnused ==
  /\ \A h \in DOMAIN Hooks :
       /\ TargetWords(h) \subseteq AddressesOf(PageOf(Hooks[h].target))
       /\ \A a \in TargetWords(h) : InitialMem(a) # Zero
  /\ \A g, h \in DOMAIN Hooks : g # h => TargetWords(g) \cap TargetWords(h) = {}
  /\ \A a \in StoreAddresses :
       InitialMem(a) # Zero /\ \A h \in DOMAIN Hooks : a \notin TargetWords(h)
  /\ \A a \in Address :
       InitialProt(PageOf(a)) = "none" \/ PageOf(a + TransferSize - 1) = PageOf(a)
         \/ \E b \in a..a + TransferSize - 1 : b \in Address /\ InitialMem(b) # Zero

\* Its data is in pages of its own, in which nothing is patched: they hold no target, and
\* no zeros where caves are looked for, which on Darwin is everywhere
DataApart ==
  /\ \A a \in StoreAddresses : InitialProt(PageOf(a)) = "rw"
  /\ \A h \in DOMAIN Hooks : InitialProt(PageOf(Hooks[h].target)) # "rw"
  /\ \A i \in DOMAIN Regions : Regions[i].path \/ "darwin" \in Backends =>
       \A p \in PagesOf(Regions[i]) : InitialProt(p) = "rw" => AddressesOf(p) \cap Zeros = {}

\* Darwin's layout has the pages of the slices too: they are out of reach of the near hooks
SlicesFar ==
  backend = "darwin" =>
    \A p \in anonymous, h \in {g \in DOMAIN Hooks : Hooks[g].near} :
      LET target == Hooks[h].target
      IN  \A a \in AddressesOf(p) :
            a < LimitStart(target) \/ a >= Wrap(target + BranchRange - TransferSize)

Word == {Zero, Code} \cup {Data(v) : v \in 0..2}
          \cup {<<part, h, i>> : part \in {"transfer", "invoke", "patch"},
                                 h \in DOMAIN Hooks, i \in 1..PageSize}

TypeOK ==
  /\ mem \in [Address -> Word]
  /\ prot \in [0..Pages - 1 -> {"none", "rx", "r", "rw", "rwx"}]
  /\ free_memory_blocks \in Seq(FreeMemoryBlock)
  /\ \A i \in DOMAIN free_memory_blocks :
       free_memory_blocks[i].used_size \in 1..free_memory_blocks[i].total_size
  /\ process_memory_layout \subseteq MemoryBlock
  /\ hook \in DOMAIN Hooks \cup {NULL}
  /\ \A h \in DOMAIN Hooks : trampolines[h] \in 
       [transfer : CodeSlice \cup CodeCave \cup {NULL}, invoke : CodeSlice \cup {NULL}]
  /\ step \in {"copy", "unprotect", "write", "protect", "remap", "done"}
  /\ backend = "darwin" => anonymous \cup remapped \subseteq {p \in 0..Pages - 1 : prot[p] = "rx"}
  /\ fault \in {NULL, "no cave", "assert", "unmapped", "overrun", "store"}

(***************************************************************************)
(* What patch_code has written stays as it is while other hooks are        *)
(* installed: no slice or cave overlaps another one or a patched target,   *)
(* and no page that is written back undoes it.  docs/HookFramework-        *)
(* Design.md:45 takes zero words to be used by no instruction.  About      *)
(* allocate_code_slice, search_code_cave and patch_code.                   *)
(***************************************************************************)
TrampolinesIntact ==
  \A w \in written : \A i \in 1..Len(w.words) : mem[w.dest + i - 1] = w.words[i]

PatchedWords == UNION {WordsAt(w) : w \in written}
BeingPatched == IF patch = NULL THEN {} ELSE WordsAt(patch)

(***************************************************************************)
(* The program keeps its code, but for the first instructions of the       *)
(* targets, and its data: what is patched was unused, and no store is      *)
(* undone by patch_code, which writes the whole page back.  About the      *)
(* search for zero words and patch_code.                                   *)
(***************************************************************************)
ProgramIntact ==
  /\ \A a \in Address :
       mem[a] # stored[a] =>
         /\ a \in PatchedWords \cup BeingPatched
         /\ stored[a] = Zero \/ \E h \in DOMAIN Hooks : a \in TargetWords(h)
  /\ fault # "store"

(***************************************************************************)
(* A page that holds a trampoline or a patch can be executed at any time,  *)
(* also while another patch is written to it.  About patch_code's calls of *)
(* set_page_permission.                                                    *)
(***************************************************************************)
CodeExecutable == \A w \in written : prot[PageOf(w.dest)] \in {"rx", "rwx"}

NearHooks == {h \in DOMAIN Hooks : Hooks[h].near /\ trampolines[h].transfer # NULL}

(***************************************************************************)
(* The b that active puts into the target of a near hook reaches the cave  *)
(* that was found for it.  About the limits of search_code_cave.           *)
(***************************************************************************)
CavesInReach ==
  \A h \in NearHooks :
    trampolines[h].transfer - Hooks[h].target \in -(2 ^ (ImmBits - 1))..2 ^ (ImmBits - 1) - 1
====

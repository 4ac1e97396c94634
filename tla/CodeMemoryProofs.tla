---- MODULE CodeMemoryProofs ----
(***************************************************************************)
(* Theorems of CodeMemory, for every address space, every regions and      *)
(* hooks, and both platforms.                                              *)
(***************************************************************************)
EXTENDS CodeMemory, WellFoundedInduction, TLAPS

APart == [kind : {"transfer", "invoke", "patch"}, size : Nat]

\* The parts of the hook in progress, the blocks' bounds and the address of the patch,
\* so that a patched page is one of the address space; and CodeExecutable itself
ExecInv ==
  /\ DOMAIN prot = 0..Pages - 1
  /\ pending \subseteq DOMAIN Hooks
  /\ hook # NULL => hook \in DOMAIN Hooks
  /\ todo \in Seq(APart)
  /\ free_memory_blocks \in Seq([address : {p * PageSize : p \in 0..Pages - 1},
                                 total_size : {PageSize}, used_size : Nat])
  /\ patch # NULL => patch.dest \in Address
  /\ CodeExecutable

LEMMA PageInSpace ==
  ASSUME NEW a \in Address
  PROVE  PageOf(a) \in 0..Pages - 1
<1>1. PageSize \in Nat \ {0} /\ Pages \in Nat \ {0}
  BY MemoryAssumption
<1>2. a \in Nat /\ a < Pages * PageSize
  BY <1>1 DEF Address
<1> DEFINE q == a \div PageSize
<1>3. q \in Nat /\ PageSize * q <= a
  BY <1>1, <1>2
<1>4. q < Pages
  <2> SUFFICES ASSUME q >= Pages PROVE FALSE
    BY <1>1, <1>3
  <2> HIDE DEF q
  <2>1. PageSize * q >= PageSize * Pages
    BY <1>1, <1>3
  <2>2. PageSize * Pages = Pages * PageSize
    BY <1>1
  <2> QED
    BY <2>1, <2>2, <1>1, <1>2, <1>3
<1> QED
  BY <1>1, <1>3, <1>4 DEF PageOf

LEMMA WordOfPage ==
  ASSUME NEW p \in 0..Pages - 1, NEW i \in 0..PageSize - 1
  PROVE  p * PageSize + i \in Address
<1>1. PageSize \in Nat \ {0} /\ Pages \in Nat \ {0} /\ p \in Nat /\ p + 1 <= Pages
  BY MemoryAssumption
<1>2. (p + 1) * PageSize <= Pages * PageSize
  BY <1>1
<1>3. (p + 1) * PageSize = p * PageSize + PageSize /\ p * PageSize \in Nat
  BY <1>1
<1> QED
  BY <1>1, <1>2, <1>3 DEF Address

LEMMA ElementOfSeq ==
  ASSUME NEW S, NEW s \in Seq(S), NEW i \in DOMAIN s
  PROVE  s[i] \in S
  OBVIOUS

LEMMA PartsTyped ==
  ASSUME NEW h \in DOMAIN Hooks
  PROVE  Parts(Hooks[h]) \in Seq(APart) /\ Hooks[h].target \in Address
<1>1. Hooks[h] \in [target : Address, near : BOOLEAN, replace : BOOLEAN]
  <2> DEFINE R == [target : Address, near : BOOLEAN, replace : BOOLEAN]
  <2>1. Hooks \in Seq(R)
    BY MemoryAssumption
  <2> HIDE DEF R
  <2>2. Hooks[h] \in R
    BY <2>1
  <2>3. QED
    BY <2>2 DEF R
<1>2. InvokeSize[Hooks[h].near] \in Nat
  BY <1>1, MemoryAssumption
<1> DEFINE transfer == Part("transfer", TransferSize)
           invoke == Part("invoke", InvokeSize[Hooks[h].near])
           last == Part("patch", PatchSize(Hooks[h].near))
<1>3. transfer \in APart /\ invoke \in APart /\ last \in APart
  <2>1. PatchSize(Hooks[h].near) \in Nat /\ TransferSize \in Nat
    BY DEF PatchSize, TransferSize
  <2>2. transfer \in APart
    BY <2>1 DEF APart, Part
  <2>3. invoke \in APart
    BY <1>2 DEF APart, Part
  <2>4. last \in APart
    BY <2>1 DEF APart, Part
  <2>5. QED
    BY <2>2, <2>3, <2>4
<1> HIDE DEF transfer, invoke, last
<1>4. <<transfer>> \in Seq(APart) /\ << >> \in Seq(APart) /\ <<invoke, last>> \in Seq(APart)
  BY <1>3
<1>5. Parts(Hooks[h]) = (IF Hooks[h].near \/ Hooks[h].replace THEN <<transfer>> ELSE << >>)
                          \o <<invoke, last>>
  BY DEF Parts, transfer, invoke, last
<1> QED
  BY <1>1, <1>4, <1>5

LEMMA StartPatchTyped ==
  ASSUME ExecInv, NEW part, NEW dest \in Address, hook # NULL, todo # << >>,
         StartPatch(part, dest)
  PROVE  /\ pending' = pending /\ hook' = hook /\ written' = written
         /\ todo' \in Seq(APart)
         /\ patch'.dest \in Address
<1>1. todo' \in Seq(APart)
  BY DEF StartPatch, ExecInv
<1> QED
  BY <1>1 DEF StartPatch

LEMMA ExecInvInit == Init => ExecInv
  BY DEF Init, ExecInv, CodeExecutable

(* ------------------------------------------------------------------------ *)
(* A step that changes permissions changes them to executable ones, of one page *)

LEMMA ProtKept ==
  ASSUME ExecInv, NEW p, NEW v \in {"rx", "rwx"},
         prot' = [prot EXCEPT ![p] = v], written' = written
  PROVE  DOMAIN prot' = 0..Pages - 1 /\ CodeExecutable'
<1>1. DOMAIN prot' = DOMAIN prot
  OBVIOUS
<1>2. ASSUME NEW w \in written PROVE prot'[PageOf(w.dest)] \in {"rx", "rwx"}
  <2>1. prot[PageOf(w.dest)] \in {"rx", "rwx"}
    BY <1>2 DEF ExecInv, CodeExecutable
  <2>2. PageOf(w.dest) \in DOMAIN prot \/ PageOf(w.dest) \notin DOMAIN prot
    OBVIOUS
  <2> QED
    BY <2>1
<1> QED
  BY <1>1, <1>2 DEF ExecInv, CodeExecutable

LEMMA SliceStep ==
  ASSUME ExecInv, allocate_code_slice
  PROVE  ExecInv'
<1> DEFINE fmbs == free_memory_blocks
           PageStarts == {p * PageSize : p \in 0..Pages - 1}
           FMB == [address : PageStarts, total_size : {PageSize}, used_size : Nat]
           size == todo[1].size
<1>1. /\ hook # NULL /\ hook \in DOMAIN Hooks /\ todo # << >>
      /\ size \in Nat /\ fmbs \in Seq(FMB)
  <2>1. hook # NULL /\ hook \in DOMAIN Hooks /\ todo # << >> /\ todo \in Seq(APart)
    BY DEF allocate_code_slice, NeedsSlice, NextPart, Ready, ExecInv
  <2>2. todo[1] \in APart
    BY <2>1, ElementOfSeq
  <2>3. QED
    BY <2>1, <2>2 DEF APart, ExecInv
<1>2. PageSize \in Nat \ {0} /\ Pages \in Nat \ {0}
  BY MemoryAssumption
<1> HIDE DEF size
<1>3. CASE SliceFromBlock(size)
  <2>1. PICK i \in DOMAIN fmbs :
          /\ HasRoom(fmbs[i], size)
          /\ StartPatch(todo[1], fmbs[i].address + fmbs[i].used_size)
          /\ fmbs' = [fmbs EXCEPT ![i] = FreeBlock(fmbs[i], size)]
          /\ UNCHANGED prot
    BY <1>3 DEF SliceFromBlock
  <2>2. fmbs[i] \in FMB
    <3> HIDE DEF fmbs, FMB
    <3>1. QED
      BY <1>1
  <2>3. PICK p \in 0..Pages - 1 : fmbs[i].address = p * PageSize
    BY <2>2
  <2>4. fmbs[i].used_size \in 0..PageSize - 1
    BY <1>1, <1>2, <2>1, <2>2 DEF HasRoom
  <2>5. fmbs[i].address + fmbs[i].used_size \in Address
    BY <2>3, <2>4, WordOfPage
  <2>6. FreeBlock(fmbs[i], size) \in FMB
    <3> DEFINE block == fmbs[i]
    <3>1. block \in FMB
      BY <2>2
    <3> HIDE DEF block
    <3>2. size \in Nat /\ block.used_size \in Nat
      BY <1>1, <3>1
    <3> DEFINE sum == block.used_size + size
    <3>3. sum \in Nat
      BY <3>2
    <3> HIDE DEF sum
    <3>4. [block EXCEPT !.used_size = sum] \in FMB
      BY <3>1, <3>3
    <3>5. FreeBlock(block, size) \in FMB
      BY <3>4 DEF FreeBlock, sum
    <3>6. QED
      BY <3>5 DEF block
  <2>7. fmbs' \in Seq(FMB)
    BY <1>1, <2>1, <2>6
  <2>8. /\ pending' = pending /\ hook' = hook /\ written' = written
        /\ todo' \in Seq(APart) /\ patch'.dest \in Address
    BY <1>1, <2>1, <2>5, StartPatchTyped
  <2>9. CodeExecutable'
    BY <2>1, <2>8 DEF ExecInv, CodeExecutable
  <2>10. QED
    BY <2>1, <2>7, <2>8, <2>9 DEF ExecInv
<1>4. CASE SliceFromNewPage(size)
  <2> DEFINE fmb(p) == [address |-> p * PageSize, total_size |-> PageSize, used_size |-> 0]
  <2>1. PICK p \in 0..Pages - 1 :
          /\ prot' = [prot EXCEPT ![p] = "rx"]
          /\ fmbs' = Append(fmbs, FreeBlock(fmb(p), size))
          /\ StartPatch(todo[1], fmb(p).address)
    BY <1>4 DEF SliceFromNewPage, allocate_page
  <2>2. fmb(p).address \in Address
    <3>1. 0 \in 0..PageSize - 1
      BY <1>2
    <3>2. p * PageSize + 0 \in Address
      BY <3>1, WordOfPage
    <3>3. QED
      BY <1>2, <3>2
  <2>3. FreeBlock(fmb(p), size) \in FMB
    BY <1>1 DEF FreeBlock
  <2>4. fmbs' \in Seq(FMB)
    BY <1>1, <2>1, <2>3
  <2>5. /\ pending' = pending /\ hook' = hook /\ written' = written
        /\ todo' \in Seq(APart) /\ patch'.dest \in Address
    BY <1>1, <2>1, <2>2, StartPatchTyped
  <2>6. DOMAIN prot' = 0..Pages - 1 /\ CodeExecutable'
    BY <2>1, <2>5, ProtKept
  <2>7. QED
    BY <2>4, <2>5, <2>6 DEF ExecInv
<1>5. QED
  BY <1>3, <1>4 DEF allocate_code_slice, size

LEMMA CaveStep ==
  ASSUME ExecInv, search_code_cave
  PROVE  ExecInv'
<1>1. hook # NULL /\ todo # << >>
  BY DEF search_code_cave, NextPart, Ready
<1>2. UNCHANGED <<prot, free_memory_blocks>>
  BY DEF search_code_cave
<1>3. ASSUME NEW what, SearchFails(what) PROVE ExecInv'
  BY <1>2, <1>3 DEF SearchFails, ExecInv, CodeExecutable, hookVars, patchVars
<1>4. ASSUME NEW mb, NEW target, NEW reads_on, SearchIn(mb, target, reads_on) PROVE ExecInv'
  <2>1. CASE \E found : Readable(found) /\ StartPatch(todo[1], found)
    <3>1. PICK found \in Address : StartPatch(todo[1], found)
      BY <2>1 DEF Readable
    <3>2. /\ pending' = pending /\ hook' = hook /\ written' = written
          /\ todo' \in Seq(APart) /\ patch'.dest \in Address
      BY <1>1, <3>1, StartPatchTyped
    <3>3. QED
      BY <1>2, <3>2 DEF ExecInv, CodeExecutable
  <2>2. QED
    BY <1>3, <1>4, <2>1 DEF SearchIn
<1>5. QED
  BY <1>3, <1>4 DEF search_code_cave

LEMMA ActiveStep ==
  ASSUME ExecInv, active
  PROVE  ExecInv'
<1>1. hook # NULL /\ todo # << >> /\ Hooks[hook].target \in Address
  BY PartsTyped DEF active, NextPart, Ready, ExecInv
<1>2. /\ pending' = pending /\ hook' = hook /\ written' = written
      /\ todo' \in Seq(APart) /\ patch'.dest \in Address
  BY <1>1, StartPatchTyped DEF active
<1>3. QED
  BY <1>2 DEF active, managerVars, ExecInv, CodeExecutable

(* ------------------------------------------------------------------------ *)
(* The last step of patch_code: the patch is written, its page executable       *)

LEMMA DoneStep ==
  ASSUME ExecInv, patch # NULL, prot' = [prot EXCEPT ![DestPage] = "rx"], PatchDone,
         UNCHANGED free_memory_blocks
  PROVE  ExecInv'
<1>1. DestPage \in DOMAIN prot
  BY PageInSpace DEF ExecInv, DestPage
<1>2. ASSUME NEW w \in written' PROVE prot'[PageOf(w.dest)] \in {"rx", "rwx"}
  <2>1. CASE w = patch
    BY <1>1, <2>1 DEF DestPage
  <2>2. CASE w \in written
    <3>1. prot[PageOf(w.dest)] \in {"rx", "rwx"}
      BY <2>2 DEF ExecInv, CodeExecutable
    <3>2. QED
      BY <3>1
  <2>3. QED
    BY <1>2, <2>1, <2>2 DEF PatchDone
<1>3. patch' = NULL /\ pending' = pending /\ todo' = todo /\ hook' \in {NULL, hook}
  BY DEF PatchDone
<1>4. QED
  BY <1>2, <1>3 DEF ExecInv, CodeExecutable

LEMMA ExecInvStep == ExecInv /\ [Next]_vars => ExecInv'
<1> SUFFICES ASSUME ExecInv, [Next]_vars PROVE ExecInv'
  OBVIOUS
<1>1. ASSUME NEW h \in pending, BeginHook(h) PROVE ExecInv'
  <2>1. h \in DOMAIN Hooks
    BY <1>1 DEF ExecInv
  <2>2. todo' \in Seq(APart)
    BY <1>1, <2>1, PartsTyped DEF BeginHook
  <2>3. QED
    BY <1>1, <2>1, <2>2 DEF BeginHook, managerVars, patchVars, ExecInv, CodeExecutable
<1>2. CASE allocate_code_slice
  BY <1>2, SliceStep
<1>3. CASE search_code_cave
  BY <1>3, CaveStep
<1>4. CASE active
  BY <1>4, ActiveStep
<1>5. CASE CopyPage
  BY <1>5 DEF CopyPage, managerVars, hookVars, ExecInv, CodeExecutable
<1>6. CASE UnprotectPage
  <2>1. UNCHANGED <<pending, hook, todo, free_memory_blocks, patch, written>>
    BY <1>6 DEF UnprotectPage, managerVars, hookVars
  <2>2. DOMAIN prot' = 0..Pages - 1 /\ CodeExecutable'
    BY <1>6, <2>1, ProtKept DEF UnprotectPage
  <2>3. QED
    BY <2>1, <2>2 DEF ExecInv
<1>7. CASE WritePage
  BY <1>7 DEF WritePage, managerVars, hookVars, ExecInv, CodeExecutable
<1>8. CASE ProtectPage
  BY <1>8, DoneStep DEF ProtectPage, Patching, managerVars
<1>9. CASE RemapPage
  BY <1>9, DoneStep DEF RemapPage, Patching
<1>10. ASSUME NEW a \in StoreAddresses, NEW v \in 1..2, Store(a, v) PROVE ExecInv'
  BY <1>10 DEF Store, managerVars, hookVars, patchVars, ExecInv, CodeExecutable
<1>11. CASE UNCHANGED vars
  BY <1>11 DEF vars, managerVars, hookVars, patchVars, ExecInv, CodeExecutable
<1>12. QED
  BY <1>1, <1>2, <1>3, <1>4, <1>5, <1>6, <1>7, <1>8, <1>9, <1>10, <1>11 DEF Next

(***************************************************************************)
(* On either platform, for all regions and hooks, and whatever the caves   *)
(* that are found and the pages that are allocated: what patch_code has    *)
(* written can be executed from then on, also while its page is patched    *)
(* again (allocate_page, set_page_permission, mach_vm_remap).              *)
(***************************************************************************)
THEOREM PatchesExecutable == Spec => []CodeExecutable
<1>1. ExecInv => CodeExecutable
  BY DEF ExecInv
<1>2. QED
  BY ExecInvInit, ExecInvStep, <1>1, PTL DEF Spec

(* ------------------------------------------------------------------------ *)
(* Types.  A part fits in a page, so its words are words of the model; on Linux a  *)
(* page is copied back, on Darwin it is replaced.                                  *)

SizedPart == [kind : {"transfer", "invoke", "patch"}, size : 1..PageSize]
Trampoline == [transfer : Address \cup {NULL}, invoke : Address \cup {NULL}]

TypeInv ==
  /\ TypeOK
  /\ backend \in {"linux", "darwin"}
  /\ anonymous \cup remapped \subseteq 0..Pages - 1
  /\ todo \in Seq(SizedPart)
  /\ trampolines \in [DOMAIN Hooks -> Trampoline]
  /\ patch # NULL =>
       /\ patch.words \in Seq(Word)
       /\ step # "copy" => copy_page \in [AddressesOf(DestPage) -> Word]
       /\ step \in {"unprotect", "write", "protect"} => backend = "linux"
       /\ step = "remap" => backend = "darwin"

LEMMA LeastNumber ==
  ASSUME NEW T \in SUBSET Nat, T # {}
  PROVE  \E n \in T : \A m \in T : n <= m
<1> DEFINE R == OpToRel(<, Nat)
<1>1. IsWellFoundedOn(R, Nat)
  BY NatLessThanWellFounded
<1>2. \A x, y \in Nat : x < y => <<x, y>> \in R
  BY DEF OpToRel
<1> HIDE DEF R
<1>3. PICK n \in T : \A m \in T : ~ (<<m, n>> \in R)
  BY <1>1, WFMin
<1>4. ASSUME NEW m \in T PROVE n <= m
  <2>1. m \in Nat /\ n \in Nat
    OBVIOUS
  <2>2. ~(m < n)
    <3>1. SUFFICES ASSUME m < n PROVE FALSE
      OBVIOUS
    <3>2. <<m, n>> \in R
      BY <1>2, <2>1, <3>1
    <3>3. QED
      BY <1>3, <3>2
  <2>3. QED
    BY <2>1, <2>2
<1>5. QED
  BY <1>4

LEMMA MinIs ==
  ASSUME NEW T \in SUBSET Nat, T # {}
  PROVE  Min(T) \in T /\ \A m \in T : Min(T) <= m
  BY LeastNumber DEF Min

LEMMA SpaceIs ==
  /\ PageSize \in Nat \ {0} /\ Pages \in Nat \ {0} /\ PageSize >= TransferSize
  /\ Pages * PageSize \in Nat \ {0}
  BY MemoryAssumption

LEMMA AddressInPage ==
  ASSUME NEW a \in Address
  PROVE  a \in AddressesOf(PageOf(a))
<1>1. PageSize \in Nat \ {0} /\ a \in Nat
  BY SpaceIs DEF Address
<1> DEFINE q == a \div PageSize
<1>2. q \in Nat /\ q * PageSize <= a /\ a < q * PageSize + PageSize
  BY <1>1
<1>3. (q + 1) * PageSize = q * PageSize + PageSize /\ q * PageSize \in Nat
  BY <1>1, <1>2
<1>4. QED
  BY <1>1, <1>2, <1>3 DEF AddressesOf, PageOf

LEMMA PageInAddress ==
  ASSUME NEW p \in 0..Pages - 1, NEW a \in AddressesOf(p)
  PROVE  a \in Address
<1>1. PageSize \in Nat \ {0} /\ p \in Nat
  BY SpaceIs
<1>2. p * PageSize \in Nat /\ (p + 1) * PageSize = p * PageSize + PageSize
  BY <1>1
<1>3. a \in Nat /\ a >= p * PageSize /\ a < p * PageSize + PageSize
  BY <1>1, <1>2 DEF AddressesOf
<1> DEFINE i == a - p * PageSize
<1>4. i \in 0..PageSize - 1 /\ p * PageSize + i = a
  BY <1>1, <1>2, <1>3
<1> HIDE DEF i
<1>5. QED
  BY <1>4, WordOfPage

\* A block of pages that lies in the address space
LEMMA BlockTyped ==
  ASSUME NEW p \in 0..Pages - 1, NEW n \in 1..Pages
  PROVE  Block(p, n) \in MemoryBlock
<1>1. PageSize \in Nat \ {0} /\ Pages \in Nat \ {0} /\ n \in Nat /\ p \in Nat
  BY SpaceIs
<1>2. p * PageSize + 0 \in Address
  <2>1. 0 \in 0..PageSize - 1
    BY <1>1
  <2>2. QED
    BY <2>1, WordOfPage
<1>3. n * PageSize <= Pages * PageSize /\ n * PageSize >= 1 /\ n * PageSize \in Nat
  BY <1>1
<1>4. p * PageSize \in Address /\ n * PageSize \in 1..Pages * PageSize
  BY <1>1, <1>2, <1>3
<1>5. QED
  BY <1>4 DEF Block, MemoryBlock

LEMMA RegionIs ==
  ASSUME NEW i \in DOMAIN Regions
  PROVE  /\ Regions[i] \in Region
         /\ Regions[i].page \in 0..Pages - 1 /\ Regions[i].n \in 1..Pages
         /\ Regions[i].prot \in {"rx", "r", "rw"}
         /\ PagesOf(Regions[i]) \subseteq 0..Pages - 1
<1>1. Regions[i] \in Region
  BY MemoryAssumption, ElementOfSeq
<1>2. /\ Regions[i].page \in 0..Pages - 1 /\ Regions[i].n \in 1..Pages
      /\ Regions[i].prot \in {"rx", "r", "rw"}
  BY <1>1 DEF Region
<1>3. Regions[i].page + Regions[i].n <= Pages
  BY MemoryAssumption
<1>4. PagesOf(Regions[i]) \subseteq 0..Pages - 1
  BY <1>2, <1>3, SpaceIs DEF PagesOf
<1>5. QED
  BY <1>1, <1>2, <1>4

LEMMA LayoutTyped ==
  ASSUME TypeInv
  PROVE  Layout \subseteq MemoryBlock
<1>1. LinuxLayout \subseteq MemoryBlock
  BY RegionIs, BlockTyped DEF LinuxLayout
<1>2. DarwinLayout \subseteq MemoryBlock
  <2>1. ASSUME NEW p \in anonymous \cup remapped PROVE Block(p, 1) \in MemoryBlock
    BY <2>1, SpaceIs, BlockTyped DEF TypeInv
  <2>2. ASSUME NEW i \in DOMAIN Regions, NEW p \in Rest(Regions[i])
        PROVE  Block(p[1], p[2] - p[1] + 1) \in MemoryBlock
    <3>1. p[1] \in PagesOf(Regions[i]) /\ p[2] \in PagesOf(Regions[i]) /\ p[1] <= p[2]
      BY DEF Rest
    <3>2. p[1] \in 0..Pages - 1 /\ p[2] \in 0..Pages - 1
      BY <3>1, RegionIs
    <3>3. p[2] - p[1] + 1 \in 1..Pages
      BY <3>1, <3>2, SpaceIs
    <3>4. QED
      BY <3>2, <3>3, BlockTyped
  <2>3. QED
    BY <2>1, <2>2 DEF DarwinLayout
<1>3. QED
  BY <1>1, <1>2 DEF Layout

LEMMA WordsTyped ==
  ASSUME NEW h \in DOMAIN Hooks, NEW part \in SizedPart
  PROVE  Words(h, part.kind, part.size) \in Seq(Word)
<1>1. part.size \in 1..PageSize /\ part.kind \in {"transfer", "invoke", "patch"}
  BY DEF SizedPart
<1>2. part.size \in Nat /\ \A i \in 1..part.size : i \in 1..PageSize
  BY <1>1, SpaceIs
<1>3. \A i \in 1..part.size : <<part.kind, h, i>> \in Word
  BY <1>1, <1>2 DEF Word
<1>4. QED
  BY <1>2, <1>3 DEF Words

LEMMA PartsSized ==
  ASSUME NEW h \in DOMAIN Hooks
  PROVE  Parts(Hooks[h]) \in Seq(SizedPart)
<1>1. Hooks[h].near \in BOOLEAN
  <2> DEFINE R == [target : Address, near : BOOLEAN, replace : BOOLEAN]
  <2>1. Hooks \in Seq(R)
    BY MemoryAssumption
  <2> HIDE DEF R
  <2>2. Hooks[h] \in R
    BY <2>1
  <2>3. QED
    BY <2>2 DEF R
<1> DEFINE transfer == Part("transfer", TransferSize)
           invoke == Part("invoke", InvokeSize[Hooks[h].near])
           last == Part("patch", PatchSize(Hooks[h].near))
<1>2. transfer \in SizedPart
  BY SpaceIs DEF SizedPart, Part, TransferSize
<1>3. invoke \in SizedPart
  BY <1>1, MemoryAssumption DEF SizedPart, Part
<1>4. last \in SizedPart
  BY SpaceIs DEF SizedPart, Part, PatchSize, TransferSize
<1> HIDE DEF transfer, invoke, last
<1>5. <<transfer>> \in Seq(SizedPart) /\ << >> \in Seq(SizedPart)
      /\ <<invoke, last>> \in Seq(SizedPart)
  BY <1>2, <1>3, <1>4
<1>6. Parts(Hooks[h]) = (IF Hooks[h].near \/ Hooks[h].replace THEN <<transfer>> ELSE << >>)
                          \o <<invoke, last>>
  BY DEF Parts, transfer, invoke, last
<1>7. QED
  BY <1>5, <1>6

LEMMA TypeInvInit == Init => TypeInv
<1> SUFFICES ASSUME Init PROVE TypeInv
  OBVIOUS
<1>1. ASSUME NEW p PROVE InitialProt(p) \in {"none", "rx", "r", "rw"}
  <2> DEFINE at == {i \in DOMAIN Regions : p \in PagesOf(Regions[i])}
  <2>1. CASE at = {}
    BY <2>1 DEF InitialProt
  <2>2. CASE at # {}
    <3>1. at \subseteq Nat
      BY MemoryAssumption
    <3>2. Min(at) \in at
      <4> HIDE DEF at
      <4>1. QED
        BY <2>2, <3>1, MinIs
    <3>3. Regions[Min(at)].prot \in {"rx", "r", "rw"}
      BY <3>2, RegionIs
    <3>4. QED
      BY <2>2, <3>3 DEF InitialProt
  <2>3. QED
    BY <2>1, <2>2
<1>2. \A a : InitialMem(a) \in Word
  BY DEF InitialMem, Word
<1>3. mem \in [Address -> Word]
  BY <1>2 DEF Init
<1>4. prot \in [0..Pages - 1 -> {"none", "rx", "r", "rw", "rwx"}]
  BY <1>1 DEF Init
<1>5. trampolines \in [DOMAIN Hooks -> Trampoline]
  BY DEF Init, Trampoline
<1>6. TypeOK
  <2>1. free_memory_blocks = << >> /\ process_memory_layout = {} /\ hook = NULL
        /\ step = "done" /\ fault = NULL /\ anonymous \cup remapped = {}
    BY DEF Init
  <2>2. free_memory_blocks \in Seq(FreeMemoryBlock)
    BY <2>1
  <2>3. QED
    BY <1>3, <1>4, <1>5, <2>1, <2>2 DEF TypeOK, CodeSlice, CodeCave, Trampoline
<1>7. QED
  BY <1>5, <1>6, MemoryAssumption DEF Init, TypeInv

\* The part that comes next gets its address
LEMMA StartPatchTypes ==
  ASSUME ExecInv, TypeInv, NEW dest \in Address, hook # NULL, todo # << >>,
         StartPatch(todo[1], dest)
  PROVE  /\ todo' \in Seq(SizedPart)
         /\ patch'.words \in Seq(Word)
         /\ trampolines' \in [DOMAIN Hooks -> Trampoline]
         /\ step' = "copy" /\ hook' \in DOMAIN Hooks
<1>1. todo \in Seq(SizedPart) /\ hook \in DOMAIN Hooks
  BY DEF TypeInv, ExecInv
<1>2. todo' \in Seq(SizedPart)
  BY <1>1 DEF StartPatch
<1>3. PICK part \in SizedPart : part = todo[1]
  BY <1>1
<1>4. patch'.words \in Seq(Word)
  BY <1>1, <1>3, WordsTyped DEF StartPatch
<1>5. trampolines' \in [DOMAIN Hooks -> Trampoline]
  <2>1. trampolines \in [DOMAIN Hooks -> Trampoline]
    BY DEF TypeInv
  <2>2. part.kind \in {"transfer", "invoke", "patch"}
    BY DEF SizedPart
  <2>3. \A t \in Trampoline : /\ [t EXCEPT !.transfer = dest] \in Trampoline
                              /\ [t EXCEPT !.invoke = dest] \in Trampoline
    BY DEF Trampoline
  <2>4. CASE part.kind = "transfer"
    <3>1. trampolines' = [trampolines EXCEPT ![hook].transfer = dest]
      BY <1>3, <2>4 DEF StartPatch
    <3>2. QED
      BY <1>1, <2>1, <2>3, <3>1
  <2>5. CASE part.kind = "invoke"
    <3>1. trampolines' = [trampolines EXCEPT ![hook].invoke = dest]
      BY <1>3, <2>5 DEF StartPatch
    <3>2. QED
      BY <1>1, <2>1, <2>3, <3>1
  <2>6. CASE part.kind = "patch"
    BY <1>3, <2>1, <2>6 DEF StartPatch
  <2>7. QED
    BY <2>2, <2>4, <2>5, <2>6
<1>6. QED
  BY <1>1, <1>2, <1>4, <1>5 DEF StartPatch

\* What patch_code does not depend on
LEMMA StartPatchKeeps ==
  ASSUME ExecInv, TypeInv, NEW dest \in Address, hook # NULL, todo # << >>,
         StartPatch(todo[1], dest), UNCHANGED <<backend, mem>>,
         prot' \in [0..Pages - 1 -> {"none", "rx", "r", "rw", "rwx"}],
         anonymous' \cup remapped' \subseteq 0..Pages - 1,
         backend = "darwin" =>
           anonymous' \cup remapped' \subseteq {p \in 0..Pages - 1 : prot'[p] = "rx"},
         free_memory_blocks' \in Seq(FreeMemoryBlock),
         \A i \in DOMAIN free_memory_blocks' :
           free_memory_blocks'[i].used_size \in 1..free_memory_blocks'[i].total_size,
         process_memory_layout' \subseteq MemoryBlock,
         fault' \in {NULL, "no cave", "assert", "unmapped", "overrun", "store"}
  PROVE  TypeInv'
<1>1. /\ todo' \in Seq(SizedPart)
      /\ patch'.words \in Seq(Word)
      /\ trampolines' \in [DOMAIN Hooks -> Trampoline]
      /\ step' = "copy" /\ hook' \in DOMAIN Hooks
  BY StartPatchTypes
<1>2. TypeOK'
  BY <1>1 DEF TypeInv, TypeOK, Trampoline, CodeSlice, CodeCave
<1>3. QED
  BY <1>1, <1>2 DEF TypeInv

LEMMA SeqUpdate ==
  ASSUME NEW S, NEW s \in Seq(S), NEW i \in DOMAIN s, NEW e \in S
  PROVE  [s EXCEPT ![i] = e] \in Seq(S)
  OBVIOUS

LEMMA SeqAppend ==
  ASSUME NEW S, NEW s \in Seq(S), NEW e \in S
  PROVE  Append(s, e) \in Seq(S)
  OBVIOUS

\* A block of which a slice has been taken
UsedBlock == {fmb \in FreeMemoryBlock : fmb.used_size \in 1..fmb.total_size}

LEMMA UsedBlocks ==
  ASSUME NEW s
  PROVE  s \in Seq(UsedBlock) <=>
           /\ s \in Seq(FreeMemoryBlock)
           /\ \A i \in DOMAIN s : s[i].used_size \in 1..s[i].total_size
<1>1. ASSUME s \in Seq(UsedBlock)
      PROVE  /\ s \in Seq(FreeMemoryBlock)
             /\ \A i \in DOMAIN s : s[i].used_size \in 1..s[i].total_size
  <2>1. \A i \in DOMAIN s : s[i] \in UsedBlock
    BY <1>1, ElementOfSeq
  <2>2. \A i \in DOMAIN s : /\ s[i] \in FreeMemoryBlock
                            /\ s[i].used_size \in 1..s[i].total_size
    BY <2>1 DEF UsedBlock
  <2>3. s = [i \in 1..Len(s) |-> s[i]] /\ Len(s) \in Nat /\ DOMAIN s = 1..Len(s)
    BY <1>1
  <2>4. QED
    BY <2>2, <2>3
<1>2. ASSUME s \in Seq(FreeMemoryBlock),
             \A i \in DOMAIN s : s[i].used_size \in 1..s[i].total_size
      PROVE  s \in Seq(UsedBlock)
  <2>1. \A i \in DOMAIN s : s[i] \in FreeMemoryBlock
    BY <1>2, ElementOfSeq
  <2>2. \A i \in DOMAIN s : s[i] \in UsedBlock
    BY <1>2, <2>1 DEF UsedBlock
  <2>3. s = [i \in 1..Len(s) |-> s[i]] /\ Len(s) \in Nat /\ DOMAIN s = 1..Len(s)
    BY <1>2
  <2>4. QED
    BY <2>2, <2>3
<1>3. QED
  BY <1>1, <1>2

LEMMA SliceTypes ==
  ASSUME ExecInv, TypeInv, allocate_code_slice, UNCHANGED backend
  PROVE  TypeInv'
<1> DEFINE fmbs == free_memory_blocks
           size == todo[1].size
<1>1. /\ hook # NULL /\ todo # << >> /\ size \in 1..PageSize
      /\ PageSize \in Nat \ {0}
  <2>1. hook # NULL /\ todo # << >>
    BY DEF allocate_code_slice, NeedsSlice, NextPart, Ready
  <2>2. todo[1] \in SizedPart
    BY <2>1 DEF TypeInv
  <2>3. QED
    BY <2>1, <2>2, SpaceIs DEF SizedPart
<1>2. UNCHANGED <<mem, fault, process_memory_layout, remapped>>
  BY DEF allocate_code_slice, SliceFromBlock, SliceFromNewPage
<1>3. /\ fmbs \in Seq(FreeMemoryBlock)
      /\ \A i \in DOMAIN fmbs : fmbs[i].used_size \in 1..fmbs[i].total_size
      /\ fmbs \in Seq(UsedBlock)
      /\ process_memory_layout \subseteq MemoryBlock
      /\ fault \in {NULL, "no cave", "assert", "unmapped", "overrun", "store"}
      /\ prot \in [0..Pages - 1 -> {"none", "rx", "r", "rw", "rwx"}]
      /\ anonymous \cup remapped \subseteq 0..Pages - 1
      /\ backend = "darwin" =>
           anonymous \cup remapped \subseteq {p \in 0..Pages - 1 : prot[p] = "rx"}
  BY UsedBlocks DEF TypeInv, TypeOK
<1> HIDE DEF size
<1>4. CASE SliceFromBlock(size)
  <2>1. PICK i \in DOMAIN fmbs :
          /\ HasRoom(fmbs[i], size)
          /\ StartPatch(todo[1], fmbs[i].address + fmbs[i].used_size)
          /\ fmbs' = [fmbs EXCEPT ![i] = FreeBlock(fmbs[i], size)]
          /\ UNCHANGED <<prot, anonymous>>
    BY <1>4 DEF SliceFromBlock
  <2>2. PICK block \in UsedBlock : block = fmbs[i]
    <3>1. free_memory_blocks \in Seq(UsedBlock)
      BY <1>3
    <3>2. free_memory_blocks[i] \in UsedBlock
      BY <3>1, ElementOfSeq
    <3>3. QED
      BY <3>2
  <2>3. /\ block.used_size \in 1..PageSize /\ block.total_size = PageSize
        /\ block.used_size + size < PageSize
    <3>1. HasRoom(block, size)
      BY <2>1, <2>2
    <3>2. block.total_size = PageSize /\ block.used_size \in 1..block.total_size
      BY DEF UsedBlock, FreeMemoryBlock
    <3>3. QED
      BY <1>1, <3>1, <3>2 DEF HasRoom
  <2>4. PICK filled \in UsedBlock : filled = FreeBlock(block, size)
    <3>1. PICK sum : sum = block.used_size + size
      OBVIOUS
    <3>2. sum \in Nat /\ sum \in 1..PageSize
      BY <1>1, <2>3, <3>1
    <3>3. [block EXCEPT !.used_size = sum] \in FreeMemoryBlock
      BY <3>2 DEF FreeMemoryBlock, UsedBlock
    <3>4. /\ [block EXCEPT !.used_size = sum].used_size = sum
          /\ [block EXCEPT !.used_size = sum].total_size = PageSize
      BY <2>3 DEF FreeMemoryBlock, UsedBlock
    <3>5. [block EXCEPT !.used_size = sum] \in UsedBlock
      BY <3>2, <3>3, <3>4 DEF UsedBlock
    <3>6. QED
      BY <3>1, <3>5 DEF FreeBlock
  <2>5. fmbs' = [fmbs EXCEPT ![i] = filled]
    BY <2>1, <2>2, <2>4
  <2>6. /\ fmbs' \in Seq(FreeMemoryBlock)
        /\ \A j \in DOMAIN fmbs' : fmbs'[j].used_size \in 1..fmbs'[j].total_size
    <3>1. [fmbs EXCEPT ![i] = filled] \in Seq(UsedBlock)
      BY <1>3, SeqUpdate
    <3>2. QED
      BY <2>5, <3>1, UsedBlocks
  <2>7. fmbs[i].address + fmbs[i].used_size \in Address
    <3>1. PICK p \in 0..Pages - 1 : block.address = p * PageSize
      <4> DEFINE S == [address : {p * PageSize : p \in 0..Pages - 1},
                       total_size : {PageSize}, used_size : Nat]
      <4>1. fmbs \in Seq(S)
        BY DEF ExecInv
      <4> HIDE DEF S
      <4>2. block \in S
        BY <2>2, <4>1, ElementOfSeq
      <4>3. QED
        BY <4>2 DEF S
    <3>2. block.used_size \in 0..PageSize - 1
      BY <1>1, <2>3
    <3>3. QED
      BY <2>2, <3>1, <3>2, WordOfPage
  <2>8. QED
    BY <1>1, <1>2, <1>3, <2>1, <2>6, <2>7, StartPatchKeeps
<1>5. CASE SliceFromNewPage(size)
  <2> DEFINE fmb(p) == [address |-> p * PageSize, total_size |-> PageSize, used_size |-> 0]
  <2>1. PICK p \in 0..Pages - 1 :
          /\ prot' = [prot EXCEPT ![p] = "rx"]
          /\ anonymous' = anonymous \cup {p}
          /\ fmbs' = Append(fmbs, FreeBlock(fmb(p), size))
          /\ StartPatch(todo[1], fmb(p).address)
    BY <1>5 DEF SliceFromNewPage, allocate_page
  <2>2. p * PageSize \in Address
    <3>1. p * PageSize + 0 \in Address
      <4>1. 0 \in 0..PageSize - 1
        BY <1>1
      <4>2. QED
        BY <4>1, WordOfPage
    <3>2. QED
      BY <1>1, <3>1
  <2>3. PICK filled \in UsedBlock : filled = FreeBlock(fmb(p), size)
    <3>1. FreeBlock(fmb(p), size) =
            [address |-> p * PageSize, total_size |-> PageSize, used_size |-> size]
      BY <1>1 DEF FreeBlock
    <3>2. QED
      BY <1>1, <2>2, <3>1 DEF FreeMemoryBlock, UsedBlock
  <2>4. /\ fmbs' \in Seq(FreeMemoryBlock)
        /\ \A j \in DOMAIN fmbs' : fmbs'[j].used_size \in 1..fmbs'[j].total_size
    <3>1. fmbs' = Append(fmbs, filled)
      BY <2>1, <2>3
    <3>2. Append(fmbs, filled) \in Seq(UsedBlock)
      <4>1. free_memory_blocks \in Seq(UsedBlock)
        BY <1>3
      <4>2. QED
        BY <4>1, SeqAppend
    <3>3. QED
      BY <3>1, <3>2, UsedBlocks
  <2>5. /\ prot' \in [0..Pages - 1 -> {"none", "rx", "r", "rw", "rwx"}]
        /\ anonymous' \cup remapped' \subseteq 0..Pages - 1
        /\ backend = "darwin" =>
             anonymous' \cup remapped' \subseteq {q \in 0..Pages - 1 : prot'[q] = "rx"}
    BY <1>2, <1>3, <2>1
  <2>6. QED
    BY <1>1, <1>2, <1>3, <2>1, <2>2, <2>4, <2>5, StartPatchKeeps
<1>6. QED
  BY <1>4, <1>5 DEF allocate_code_slice, size

Faults == {NULL, "no cave", "assert", "unmapped", "overrun", "store"}

LEMMA CaveTypes ==
  ASSUME ExecInv, TypeInv, search_code_cave, UNCHANGED backend
  PROVE  TypeInv'
<1>1. /\ hook # NULL /\ todo # << >>
      /\ UNCHANGED <<mem, prot, anonymous, remapped, free_memory_blocks>>
  BY DEF search_code_cave, NextPart, Ready
<1>2. process_memory_layout' \subseteq MemoryBlock
  BY LayoutTyped DEF search_code_cave, TypeInv, TypeOK
<1>3. ASSUME NEW found \in Address, StartPatch(todo[1], found), UNCHANGED fault
      PROVE  TypeInv'
  BY <1>1, <1>2, <1>3, StartPatchKeeps DEF TypeInv, TypeOK
<1>4. ASSUME NEW what \in {"no cave", "assert", "unmapped"}, SearchFails(what) PROVE TypeInv'
  <2>1. UNCHANGED <<hook, todo, trampolines, patch, step, copy_page>> /\ fault' \in Faults
    BY <1>4 DEF SearchFails, hookVars, patchVars, Faults
  <2>2. TypeOK'
    BY <1>1, <1>2, <2>1 DEF TypeInv, TypeOK, Faults
  <2>3. DestPage' = DestPage
    BY <2>1 DEF DestPage
  <2>4. QED
    BY <1>1, <2>1, <2>2, <2>3 DEF TypeInv
<1>5. ASSUME NEW mb, NEW target, NEW reads_on, SearchIn(mb, target, reads_on) PROVE TypeInv'
  <2>1. CASE \E found : Readable(found) /\ StartPatch(todo[1], found) /\ UNCHANGED fault
    BY <2>1, <1>3 DEF Readable
  <2>2. CASE SearchFails("assert") \/ SearchFails("unmapped")
    BY <2>2, <1>4
  <2>3. QED
    BY <1>5, <2>1, <2>2 DEF SearchIn
<1>6. QED
  BY <1>4, <1>5 DEF search_code_cave

LEMMA CopyTypes ==
  ASSUME ExecInv, TypeInv, CopyPage, UNCHANGED backend
  PROVE  TypeInv'
<1>1. /\ patch # NULL
      /\ UNCHANGED <<mem, prot, process_memory_layout, free_memory_blocks, anonymous, remapped,
                     hook, todo, trampolines, patch>>
      /\ step' = IF backend = "darwin" THEN "remap" ELSE "unprotect"
      /\ fault' \in Faults
  BY DEF CopyPage, Patching, managerVars, hookVars, Faults
<1>2. DestPage \in 0..Pages - 1 /\ DestPage' = DestPage
  BY <1>1, PageInSpace DEF ExecInv, DestPage
<1>3. patch.words \in Seq(Word) /\ mem \in [Address -> Word]
  BY <1>1 DEF TypeInv, TypeOK
<1>4. \A i \in Fits : patch.words[i] \in Word
  BY <1>3 DEF Fits
<1>5. \A a \in AddressesOf(DestPage) : mem[a] \in Word
  BY <1>2, <1>3, PageInAddress
<1>6. copy_page' \in [AddressesOf(DestPage) -> Word]
  BY <1>4, <1>5 DEF CopyPage
<1>7. TypeOK'
  BY <1>1 DEF TypeInv, TypeOK, Faults
<1>8. QED
  BY <1>1, <1>2, <1>3, <1>6, <1>7 DEF TypeInv

LEMMA CopiedBackTyped ==
  ASSUME TypeInv, patch # NULL, step # "copy"
  PROVE  CopiedBack \in [Address -> Word]
<1>1. copy_page \in [AddressesOf(DestPage) -> Word] /\ mem \in [Address -> Word]
  BY DEF TypeInv, TypeOK
<1>2. ASSUME NEW a \in Address, PageOf(a) = DestPage PROVE copy_page[a] \in Word
  BY <1>1, <1>2, AddressInPage
<1>3. QED
  BY <1>1, <1>2 DEF CopiedBack

LEMMA DoneTypes ==
  ASSUME ExecInv, TypeInv, patch # NULL, step # "copy", PatchDone, step' = "done",
         prot' = [prot EXCEPT ![DestPage] = "rx"],
         UNCHANGED <<backend, fault, process_memory_layout, free_memory_blocks, anonymous>>,
         mem' \in [Address -> Word],
         remapped' \in {remapped, remapped \cup {DestPage}}
  PROVE  TypeInv'
<1>1. /\ patch' = NULL /\ hook' \in {NULL, hook}
      /\ UNCHANGED <<todo, trampolines>>
  BY DEF PatchDone
<1>2. DestPage \in 0..Pages - 1
  BY PageInSpace DEF ExecInv, DestPage
<1>3. /\ prot \in [0..Pages - 1 -> {"none", "rx", "r", "rw", "rwx"}]
      /\ anonymous \cup remapped \subseteq 0..Pages - 1
      /\ backend = "darwin" =>
           anonymous \cup remapped \subseteq {p \in 0..Pages - 1 : prot[p] = "rx"}
  BY DEF TypeInv, TypeOK
<1>4. /\ prot' \in [0..Pages - 1 -> {"none", "rx", "r", "rw", "rwx"}]
      /\ anonymous' \cup remapped' \subseteq 0..Pages - 1
      /\ backend' = "darwin" =>
           anonymous' \cup remapped' \subseteq {p \in 0..Pages - 1 : prot'[p] = "rx"}
  BY <1>2, <1>3
<1>5. TypeOK'
  BY <1>1, <1>4 DEF TypeInv, TypeOK
<1>6. QED
  BY <1>1, <1>4, <1>5 DEF TypeInv

LEMMA TypeInvStep == ExecInv /\ TypeInv /\ [Next]_vars => TypeInv'
<1> SUFFICES ASSUME ExecInv, TypeInv, [Next]_vars PROVE TypeInv'
  OBVIOUS
<1>1. ASSUME NEW h \in pending, BeginHook(h), UNCHANGED backend PROVE TypeInv'
  <2>1. h \in DOMAIN Hooks
    BY <1>1 DEF ExecInv
  <2>2. todo' \in Seq(SizedPart) /\ hook' = h
    BY <1>1, <2>1, PartsSized DEF BeginHook
  <2>3. UNCHANGED <<mem, prot, process_memory_layout, free_memory_blocks, anonymous, remapped,
                    trampolines, patch, step, copy_page, fault>>
    BY <1>1 DEF BeginHook, managerVars, patchVars
  <2>4. TypeOK'
    BY <1>1, <2>1, <2>2, <2>3 DEF TypeInv, TypeOK
  <2>5. DestPage' = DestPage
    BY <2>3 DEF DestPage
  <2>6. QED
    BY <1>1, <2>2, <2>3, <2>4, <2>5 DEF TypeInv
<1>2. CASE allocate_code_slice /\ UNCHANGED backend
  BY <1>2, SliceTypes
<1>3. CASE search_code_cave /\ UNCHANGED backend
  BY <1>3, CaveTypes
<1>4. CASE active /\ UNCHANGED backend
  <2>1. hook # NULL /\ todo # << >> /\ Hooks[hook].target \in Address
    BY <1>4, PartsTyped DEF active, NextPart, Ready, ExecInv
  <2>2. /\ StartPatch(todo[1], Hooks[hook].target)
        /\ UNCHANGED <<mem, prot, process_memory_layout, free_memory_blocks, anonymous, remapped,
                       fault>>
    BY <1>4 DEF active, managerVars
  <2>3. QED
    BY <1>4, <2>1, <2>2, StartPatchKeeps DEF TypeInv, TypeOK
<1>5. CASE CopyPage /\ UNCHANGED backend
  BY <1>5, CopyTypes
<1>6. CASE UnprotectPage /\ UNCHANGED backend
  <2>1. /\ UNCHANGED <<mem, process_memory_layout, free_memory_blocks, anonymous, remapped,
                       hook, todo, trampolines, patch, copy_page, fault>>
        /\ patch # NULL /\ step = "unprotect" /\ step' = "write"
        /\ prot' = [prot EXCEPT ![DestPage] = "rwx"]
    BY <1>6 DEF UnprotectPage, Patching, managerVars, hookVars
  <2>2. backend = "linux" /\ DestPage' = DestPage
    BY <2>1 DEF TypeInv, DestPage
  <2>3. TypeOK'
    BY <1>6, <2>1, <2>2 DEF TypeInv, TypeOK
  <2>4. QED
    BY <1>6, <2>1, <2>2, <2>3 DEF TypeInv
<1>7. CASE WritePage /\ UNCHANGED backend
  <2>1. /\ UNCHANGED <<prot, process_memory_layout, free_memory_blocks, anonymous, remapped,
                       hook, todo, trampolines, patch, copy_page, fault>>
        /\ patch # NULL /\ step = "write" /\ step' = "protect"
        /\ mem' = CopiedBack
    BY <1>7 DEF WritePage, Patching, managerVars, hookVars
  <2>2. mem' \in [Address -> Word] /\ DestPage' = DestPage
    BY <2>1, CopiedBackTyped DEF DestPage
  <2>3. TypeOK'
    BY <1>7, <2>1, <2>2 DEF TypeInv, TypeOK
  <2>4. QED
    BY <1>7, <2>1, <2>2, <2>3 DEF TypeInv
<1>8. CASE ProtectPage /\ UNCHANGED backend
  <2>1. mem \in [Address -> Word]
    BY DEF TypeInv, TypeOK
  <2>2. QED
    BY <1>8, <2>1, DoneTypes DEF ProtectPage, Patching, managerVars
<1>9. CASE RemapPage /\ UNCHANGED backend
  BY <1>9, CopiedBackTyped, DoneTypes DEF RemapPage, Patching
<1>10. ASSUME NEW a \in StoreAddresses, NEW v \in 1..2, Store(a, v), UNCHANGED backend
       PROVE  TypeInv'
  <2>1. /\ UNCHANGED <<prot, process_memory_layout, free_memory_blocks, anonymous, remapped,
                       hook, todo, trampolines, patch, step, copy_page>>
        /\ mem' \in {mem, [mem EXCEPT ![a] = Data(v)]}
        /\ fault' \in Faults
    BY <1>10 DEF Store, managerVars, hookVars, patchVars, Faults
  <2>2. Data(v) \in Word
    BY DEF Word
  <2>3. mem' \in [Address -> Word]
    BY <2>1, <2>2 DEF TypeInv, TypeOK
  <2>4. DestPage' = DestPage
    BY <2>1 DEF DestPage
  <2>5. TypeOK'
    BY <1>10, <2>1, <2>3 DEF TypeInv, TypeOK, Faults
  <2>6. QED
    BY <1>10, <2>1, <2>4, <2>5 DEF TypeInv
<1>11. CASE UNCHANGED vars
  <2>1. UNCHANGED <<backend, mem, prot, process_memory_layout, free_memory_blocks, anonymous,
                    remapped, hook, todo, trampolines, patch, step, copy_page, fault>>
    BY <1>11 DEF vars, managerVars, hookVars, patchVars
  <2>2. DestPage' = DestPage
    BY <2>1 DEF DestPage
  <2>3. TypeOK'
    BY <2>1 DEF TypeInv, TypeOK
  <2>4. QED
    BY <2>1, <2>2, <2>3 DEF TypeInv
<1>12. QED
  BY <1>1, <1>2, <1>3, <1>4, <1>5, <1>6, <1>7, <1>8, <1>9, <1>10, <1>11 DEF Next

(***************************************************************************)
(* Every variable keeps its type: every word that patch_code copies, and   *)
(* every word it copies back, is one of the address space, a code slice    *)
(* lies in its page, and what the process layout names is mapped or was.   *)
(***************************************************************************)
THEOREM TypeCorrect == Spec => []TypeOK
<1>1. TypeInv => TypeOK
  BY DEF TypeInv
<1>2. QED
  BY ExecInvInit, ExecInvStep, TypeInvInit, TypeInvStep, <1>1, PTL DEF Spec

(* ------------------------------------------------------------------------ *)
(* Caves.  The limits of the search are those of the branch; where the lower limit *)
(* wraps around, no address is left to be searched.                               *)

LEMMA MaxOfTwo ==
  ASSUME NEW a \in Int, NEW b \in Int
  PROVE  Max({a, b}) \in Int /\ Max({a, b}) >= b
<1>1. \E x \in {a, b} : \A y \in {a, b} : x >= y
  OBVIOUS
<1>2. Max({a, b}) \in {a, b} /\ \A y \in {a, b} : Max({a, b}) >= y
  BY <1>1 DEF Max
<1>3. QED
  BY <1>2

LEMMA MinOfTwo ==
  ASSUME NEW a \in Int, NEW b \in Int
  PROVE  Min({a, b}) \in Int /\ Min({a, b}) <= b
<1>1. \E x \in {a, b} : \A y \in {a, b} : x <= y
  OBVIOUS
<1>2. Min({a, b}) \in {a, b} /\ \A y \in {a, b} : Min({a, b}) <= y
  BY <1>1 DEF Min
<1>3. QED
  BY <1>2

LEMMA FoundInReach ==
  ASSUME NEW mb \in MemoryBlock, NEW target \in Address, NEW reads_on,
         NEW found \in StopsAt(mb, target, reads_on), Readable(found)
  PROVE  found - target \in -(2 ^ (ImmBits - 1))..2 ^ (ImmBits - 1) - 1
<1> DEFINE words == Pages * PageSize
<1>1. words \in Nat \ {0} /\ BranchRange \in 4..2 * words
  <2>1. BranchRange \in TransferSize..2 * Pages * PageSize
    BY BranchAssumption
  <2>2. 2 * Pages * PageSize = 2 * words
    BY SpaceIs
  <2>3. QED
    BY <2>1, <2>2, SpaceIs DEF TransferSize
<1>2. target \in Nat /\ target < words /\ found \in Nat /\ found < words
  BY SpaceIs DEF Address, Readable
<1>3. 4 * Pages * PageSize = 4 * words
  BY SpaceIs
<1>4. mb.address \in Int /\ mb.size \in Int
  BY SpaceIs DEF MemoryBlock, Address
<1> HIDE DEF words
<1>5. /\ SearchStart(mb, target) \in Int /\ Wrap(target - BranchRange) \in Int
      /\ SearchStart(mb, target) >= Wrap(target - BranchRange)
  <2>1. Wrap(target - BranchRange) \in Int
    BY <1>1, <1>2, <1>3 DEF Wrap
  <2>2. QED
    BY <1>4, <2>1, MaxOfTwo DEF SearchStart, LimitStart
<1>6. /\ SearchEnd(mb, target) \in Int /\ Wrap(target + BranchRange - TransferSize) \in Int
      /\ SearchEnd(mb, target) <= Wrap(target + BranchRange - TransferSize)
  <2>1. Wrap(target + BranchRange - TransferSize) \in Int
    BY <1>1, <1>2, <1>3 DEF Wrap, TransferSize
  <2>2. mb.address + mb.size \in Int
    BY <1>4
  <2>3. QED
    BY <2>1, <2>2, MinOfTwo DEF SearchEnd
<1>7. found \in SearchStart(mb, target)..SearchEnd(mb, target) - 1
  BY DEF StopsAt
<1>8. found >= Wrap(target - BranchRange)
  BY <1>2, <1>5, <1>7
<1>9. found < Wrap(target + BranchRange - TransferSize)
  BY <1>2, <1>6, <1>7
<1>10. found < target + BranchRange
  <2>1. target + BranchRange - 4 \in 0..4 * words - 1
    BY <1>1, <1>2
  <2>2. Wrap(target + BranchRange - TransferSize) = target + BranchRange - 4
    BY <1>1, <1>2, <1>3, <2>1 DEF Wrap, TransferSize
  <2>3. QED
    BY <1>1, <1>2, <1>9, <2>2
<1>11. found >= target - BranchRange
  <2>1. CASE target >= BranchRange
    <3>1. Wrap(target - BranchRange) = target - BranchRange
      BY <1>1, <1>2, <1>3, <2>1 DEF Wrap
    <3>2. QED
      BY <1>8, <3>1
  <2>2. CASE target < BranchRange
    BY <1>1, <1>2, <2>2
  <2>3. QED
    BY <1>1, <1>2, <2>1, <2>2
<1>12. QED
  BY <1>1, <1>2, <1>10, <1>11, BranchAssumption

\* The address a near hook's transfer trampoline gets
LEMMA StartPatchReach ==
  ASSUME TypeInv, CavesInReach, NEW dest, hook \in DOMAIN Hooks, StartPatch(todo[1], dest),
         todo[1].kind = "transfer" /\ Hooks[hook].near =>
           dest - Hooks[hook].target \in -(2 ^ (ImmBits - 1))..2 ^ (ImmBits - 1) - 1
  PROVE  CavesInReach'
<1> SUFFICES ASSUME NEW h \in DOMAIN Hooks, Hooks[h].near, trampolines'[h].transfer # NULL
             PROVE  trampolines'[h].transfer - Hooks[h].target
                      \in -(2 ^ (ImmBits - 1))..2 ^ (ImmBits - 1) - 1
  BY DEF CavesInReach, NearHooks
<1>1. trampolines \in [DOMAIN Hooks -> Trampoline]
  BY DEF TypeInv
<1>2. PICK kind : kind = todo[1].kind
  OBVIOUS
<1>3. CASE trampolines'[h].transfer = trampolines[h].transfer
  BY <1>3 DEF CavesInReach, NearHooks
<1>4. CASE h = hook /\ kind = "transfer"
  <2>1. trampolines' = [trampolines EXCEPT ![hook].transfer = dest]
    BY <1>2, <1>4 DEF StartPatch
  <2>2. trampolines[hook] \in Trampoline
    BY <1>1
  <2>3. trampolines'[h].transfer = dest
    BY <1>1, <1>4, <2>1, <2>2 DEF Trampoline
  <2>4. QED
    BY <1>2, <1>4, <2>3
<1>5. CASE h # hook
  <2>1. trampolines'[h] = trampolines[h]
    BY <1>1, <1>5 DEF StartPatch
  <2>2. QED
    BY <1>3, <2>1
<1>6. CASE h = hook /\ kind # "transfer"
  <2>1. trampolines[hook] \in Trampoline
    BY <1>1
  <2>2. [trampolines[hook] EXCEPT ![kind] = dest].transfer = trampolines[hook].transfer
    BY <1>6, <2>1 DEF Trampoline
  <2>3. trampolines' = trampolines \/ trampolines' = [trampolines EXCEPT ![hook][kind] = dest]
    BY <1>2 DEF StartPatch
  <2>4. trampolines'[h].transfer = trampolines[h].transfer
    BY <1>1, <1>6, <2>2, <2>3
  <2>5. QED
    BY <1>3, <2>4
<1>7. QED
  BY <1>4, <1>5, <1>6

LEMMA ReachStep == ExecInv /\ TypeInv /\ CavesInReach /\ [Next]_vars => CavesInReach'
<1> SUFFICES ASSUME ExecInv, TypeInv, CavesInReach, [Next]_vars PROVE CavesInReach'
  OBVIOUS
<1>1. CASE UNCHANGED trampolines
  BY <1>1 DEF CavesInReach, NearHooks
<1>2. CASE allocate_code_slice
  <2>1. hook \in DOMAIN Hooks /\ (todo[1].kind = "transfer" => ~Hooks[hook].near)
    BY <1>2 DEF allocate_code_slice, NeedsSlice, NextPart, Ready, ExecInv
  <2>2. PICK dest : StartPatch(todo[1], dest)
    BY <1>2 DEF allocate_code_slice, SliceFromBlock, SliceFromNewPage
  <2>3. QED
    BY <2>1, <2>2, StartPatchReach
<1>3. CASE search_code_cave
  <2>1. hook \in DOMAIN Hooks /\ Hooks[hook].target \in Address
    BY <1>3, PartsTyped DEF search_code_cave, NextPart, Ready, ExecInv
  <2>2. process_memory_layout' \subseteq MemoryBlock
    BY <1>3, LayoutTyped DEF search_code_cave, TypeInv, TypeOK
  <2>3. ASSUME NEW what, SearchFails(what) PROVE CavesInReach'
    BY <1>1, <2>3 DEF SearchFails, hookVars
  <2>4. ASSUME NEW mb \in MemoryBlock, NEW reads_on,
               SearchIn(mb, Hooks[hook].target, reads_on)
        PROVE  CavesInReach'
    <3>1. CASE \E found \in StopsAt(mb, Hooks[hook].target, reads_on) :
                 Readable(found) /\ StartPatch(todo[1], found)
      BY <2>1, <3>1, FoundInReach, StartPatchReach
    <3>2. QED
      BY <2>3, <2>4, <3>1 DEF SearchIn
  <2>5. QED
    BY <1>3, <2>2, <2>3, <2>4 DEF search_code_cave
<1>4. CASE active
  <2>1. hook \in DOMAIN Hooks /\ todo[1].kind = "patch"
    BY <1>4 DEF active, NextPart, Ready, ExecInv
  <2>2. QED
    BY <1>4, <2>1, StartPatchReach DEF active
<1>5. ASSUME NEW h \in pending, BeginHook(h) PROVE UNCHANGED trampolines
  BY <1>5 DEF BeginHook
<1>6. ASSUME NEW a \in StoreAddresses, NEW v \in 1..2, Store(a, v) PROVE UNCHANGED trampolines
  BY <1>6 DEF Store, hookVars
<1>7. CopyPage \/ UnprotectPage \/ WritePage \/ ProtectPage \/ RemapPage \/ UNCHANGED vars
        => UNCHANGED trampolines
  BY DEF CopyPage, UnprotectPage, WritePage, ProtectPage, RemapPage, PatchDone, hookVars, vars
<1>8. QED
  BY <1>1, <1>2, <1>3, <1>4, <1>5, <1>6, <1>7 DEF Next

(***************************************************************************)
(* In every address space, wherever the target is: the b to the cave found *)
(* for a near hook has a distance that fits in its bits, also where a      *)
(* limit of search_code_cave wraps around.                                 *)
(***************************************************************************)
THEOREM CavesReached == Spec => []CavesInReach
<1>1. Init => CavesInReach
  BY DEF Init, CavesInReach, NearHooks
<1>2. QED
  BY ExecInvInit, ExecInvStep, TypeInvInit, TypeInvStep, ReachStep, <1>1, PTL DEF Spec

(* ------------------------------------------------------------------------ *)
(***************************************************************************)
(* What is written stays as it is, as long as what the program uses is not *)
(* zero: on Linux, where the layout names files only, and on Darwin if the *)
(* pages of the slices, which the layout names too, are out of reach.      *)
(***************************************************************************)

\* What the layout lists is mapped; on Linux it lists what has a path
FilePage(p) == \E i \in DOMAIN Regions : Regions[i].path /\ p \in PagesOf(Regions[i])
Listed(mb) ==
  \A a \in Address : mb.address <= a /\ a < mb.address + mb.size =>
    prot[PageOf(a)] # "none" /\ (backend = "linux" => FilePage(PageOf(a)))

\* Pages that were mapped stay mapped, and a block is a page that was not, of no other block
PagesInv ==
  /\ backend \in Backends
  /\ \A p \in 0..Pages - 1 : InitialProt(p) # "none" => prot[p] # "none"
  /\ \A i \in DOMAIN free_memory_blocks :
       /\ prot[PageOf(free_memory_blocks[i].address)] # "none"
       /\ InitialProt(PageOf(free_memory_blocks[i].address)) = "none"
  /\ \A i, j \in DOMAIN free_memory_blocks :
       free_memory_blocks[i].address = free_memory_blocks[j].address => i = j
  /\ \A p \in 0..Pages - 1 : prot[p] # "none" /\ InitialProt(p) = "none" => p \in anonymous
  /\ \A mb \in process_memory_layout : Listed(mb)

\* The hooks whose targets are as they were
Awaited == pending \cup (IF todo = << >> THEN {} ELSE {hook})

\* The patch of the target comes last
TodoInv ==
  /\ hook \notin pending
  /\ todo # << >> => hook # NULL
  /\ \A i \in DOMAIN todo :
       /\ todo[i].kind = "patch" => i = Len(todo) /\ todo[i].size = PatchSize(Hooks[hook].near)
       /\ todo[i].kind = "transfer" => todo[i].size = TransferSize

\* A patch lies in a page, in words that nothing else uses
InBlock(w) ==
  \E i \in DOMAIN free_memory_blocks :
    LET fmb == free_memory_blocks[i]
    IN  PageOf(fmb.address) = PageOf(w.dest) /\ w.dest + Len(w.words) <= fmb.address + fmb.used_size

Apart(w) ==
  /\ \A i \in DOMAIN w.words : w.words[i] # Zero
  /\ WordsAt(w) \subseteq AddressesOf(PageOf(w.dest))
  /\ WordsAt(w) \cap StoreAddresses = {}
  /\ \A h \in Awaited : WordsAt(w) \cap TargetWords(h) = {}
  /\ InitialProt(PageOf(w.dest)) = "none" => InBlock(w)

Intact(w) == \A i \in 1..Len(w.words) : mem[w.dest + i - 1] = w.words[i]

\* The copy of the page is the page with the patch, but for what the program writes meanwhile
CopyInv ==
  patch # NULL /\ step # "copy" =>
    \A a \in AddressesOf(DestPage) :
      /\ InitialMem(a) # Zero => copy_page[a] # Zero
      /\ a \in WordsAt(patch) => copy_page[a] = patch.words[a - patch.dest + 1]
      /\ a \notin WordsAt(patch) \cup StoreAddresses => copy_page[a] = mem[a]

PatchesInv ==
  /\ \A a \in Address : InitialMem(a) # Zero => mem[a] # Zero
  /\ \A w \in written : Apart(w) /\ Intact(w)
  /\ patch # NULL => Apart(patch) /\ \A w \in written : WordsAt(w) \cap WordsAt(patch) = {}
  /\ CopyInv
  /\ patch # NULL /\ step = "protect" => Intact(patch)

(* ------------------------------------------------------------------------ *)
(* Pages and their addresses                                                       *)

LEMMA PageIs ==
  ASSUME NEW p \in Int, NEW a \in AddressesOf(p)
  PROVE  a \in Int /\ PageOf(a) = p
<1>1. PageSize \in Nat \ {0}
  BY SpaceIs
<1>2. p * PageSize \in Int /\ (p + 1) * PageSize = p * PageSize + PageSize
  BY <1>1
<1>3. a \in Int /\ a >= p * PageSize /\ a < p * PageSize + PageSize
  BY <1>1, <1>2 DEF AddressesOf
<1>4. PICK q : q = a \div PageSize
  OBVIOUS
<1>5. q \in Int /\ q * PageSize \in Int /\ q * PageSize <= a /\ a < q * PageSize + PageSize
  BY <1>1, <1>3, <1>4
<1>6. q * PageSize = PageSize * q /\ p * PageSize = PageSize * p
  BY <1>1, <1>5
<1>7. ~(p < q)
  <2>1. SUFFICES ASSUME p + 1 <= q PROVE FALSE
    BY <1>5
  <2>2. (p + 1) * PageSize <= q * PageSize
    BY <1>1, <1>5, <2>1
  <2>3. QED
    BY <1>1, <1>2, <1>3, <1>5, <2>2
<1>8. ~(q < p)
  <2>1. SUFFICES ASSUME q + 1 <= p PROVE FALSE
    BY <1>5
  <2>2. (q + 1) * PageSize <= p * PageSize
    BY <1>1, <1>5, <2>1
  <2>3. (q + 1) * PageSize = q * PageSize + PageSize
    BY <1>1, <1>5
  <2>4. QED
    BY <1>1, <1>2, <1>3, <1>5, <2>2, <2>3
<1>9. QED
  BY <1>3, <1>4, <1>5, <1>7, <1>8 DEF PageOf

LEMMA PageStart ==
  ASSUME NEW p \in Int
  PROVE  p * PageSize \in AddressesOf(p) /\ PageOf(p * PageSize) = p
<1>1. p * PageSize \in AddressesOf(p)
  <2>1. PageSize \in Nat \ {0}
    BY SpaceIs
  <2>2. p * PageSize \in Int /\ (p + 1) * PageSize = p * PageSize + PageSize
    BY <2>1
  <2>3. QED
    BY <2>1, <2>2 DEF AddressesOf
<1>2. QED
  BY <1>1, PageIs

\* What lies between two words of a page is in the page
LEMMA PageConvex ==
  ASSUME NEW p \in Int, NEW a \in AddressesOf(p), NEW b \in AddressesOf(p)
  PROVE  a..b \subseteq AddressesOf(p)
<1>1. PageSize \in Nat \ {0}
  BY SpaceIs
<1>2. p * PageSize \in Int /\ (p + 1) * PageSize \in Int
  BY <1>1
<1>3. QED
  BY <1>2 DEF AddressesOf

\* A page of a region is mapped at first
LEMMA RegionMapped ==
  ASSUME NEW i \in DOMAIN Regions, NEW p \in PagesOf(Regions[i])
  PROVE  InitialProt(p) # "none"
<1> DEFINE at == {j \in DOMAIN Regions : p \in PagesOf(Regions[j])}
<1>1. at # {} /\ at \subseteq DOMAIN Regions
  OBVIOUS
<1>2. at \subseteq Nat
  BY MemoryAssumption
<1>3. InitialProt(p) = Regions[Min(at)].prot
  BY <1>1 DEF InitialProt
<1> HIDE DEF at
<1>4. Min(at) \in DOMAIN Regions
  BY <1>1, <1>2, MinIs
<1>5. QED
  BY <1>3, <1>4, RegionIs

LEMMA NotZeroMapped ==
  ASSUME NEW a, InitialMem(a) # Zero
  PROVE  InitialProt(PageOf(a)) # "none"
  BY DEF InitialMem

\* Nothing that the program uses is in a page that is not mapped at first
LEMMA UnmappedFree ==
  ASSUME ZerosUnused, NEW p \in Int, InitialProt(p) = "none", NEW a \in AddressesOf(p)
  PROVE  a \notin StoreAddresses /\ \A h \in DOMAIN Hooks : a \notin TargetWords(h)
<1>1. PageOf(a) = p
  BY PageIs
<1>2. InitialMem(a) = Zero
  BY <1>1, NotZeroMapped
<1>3. QED
  BY <1>2 DEF ZerosUnused

(* ------------------------------------------------------------------------ *)
(* The pages of the blocks                                                         *)

LEMMA BlockAddress ==
  ASSUME ExecInv, NEW i \in DOMAIN free_memory_blocks
  PROVE  \E p \in 0..Pages - 1 : /\ free_memory_blocks[i].address = p * PageSize
                                 /\ PageOf(free_memory_blocks[i].address) = p
<1> DEFINE S == [address : {p * PageSize : p \in 0..Pages - 1},
                 total_size : {PageSize}, used_size : Nat]
<1>1. free_memory_blocks \in Seq(S)
  BY DEF ExecInv
<1>2. free_memory_blocks[i] \in S
  <2> HIDE DEF S
  <2>1. QED
    BY <1>1, ElementOfSeq
<1>3. PICK p \in 0..Pages - 1 : free_memory_blocks[i].address = p * PageSize
  BY <1>2
<1>4. QED
  BY <1>3, PageStart

LEMMA PagesInvInit == Init => PagesInv
<1> SUFFICES ASSUME Init PROVE PagesInv
  OBVIOUS
<1>1. backend \in Backends /\ free_memory_blocks = << >> /\ process_memory_layout = {}
      /\ prot = [p \in 0..Pages - 1 |-> InitialProt(p)]
  BY DEF Init
<1>2. QED
  BY <1>1 DEF PagesInv

\* What is listed stays mapped
LEMMA ListedKept ==
  ASSUME UNCHANGED backend, \A p \in 0..Pages - 1 : prot[p] # "none" => prot'[p] # "none",
         NEW mb, Listed(mb)
  PROVE  Listed(mb)'
  BY PageInSpace DEF Listed

\* Slices from a block, and pages that stay mapped
LEMMA PagesKept ==
  ASSUME PagesInv, ExecInv, UNCHANGED backend, anonymous' = anonymous,
         \A mb \in process_memory_layout' : Listed(mb),
         \A p \in 0..Pages - 1 : prot[p] = "none" <=> prot'[p] = "none",
         DOMAIN free_memory_blocks' = DOMAIN free_memory_blocks,
         \A i \in DOMAIN free_memory_blocks :
           free_memory_blocks'[i].address = free_memory_blocks[i].address
  PROVE  PagesInv'
<1>1. ASSUME NEW i \in DOMAIN free_memory_blocks'
      PROVE  /\ prot'[PageOf(free_memory_blocks'[i].address)] # "none"
             /\ InitialProt(PageOf(free_memory_blocks'[i].address)) = "none"
  <2>1. PICK p \in 0..Pages - 1 : PageOf(free_memory_blocks[i].address) = p
    BY BlockAddress
  <2>2. QED
    BY <2>1 DEF PagesInv
<1>2. \A mb \in process_memory_layout' : Listed(mb)'
  BY ListedKept
<1>3. QED
  BY <1>1, <1>2 DEF PagesInv

\* The pages of the addresses in a block of pages
LEMMA BlockPages ==
  ASSUME NEW first \in Nat, NEW n \in Nat, NEW a \in Address,
         Block(first, n).address <= a, a < Block(first, n).address + Block(first, n).size
  PROVE  PageOf(a) \in 0..Pages - 1 /\ PageOf(a) \in first..first + n - 1
<1>1. PageSize \in Nat \ {0} /\ a \in Int
  BY SpaceIs DEF Address
<1>2. a >= first * PageSize /\ a < first * PageSize + n * PageSize
  BY DEF Block
<1>3. PICK p \in 0..Pages - 1 : p = PageOf(a)
  BY PageInSpace
<1>4. p \in Nat
  BY <1>3, SpaceIs
<1>5. p * PageSize <= a /\ a < p * PageSize + PageSize
  <2>1. a \in AddressesOf(p)
    BY <1>3, AddressInPage
  <2>2. p * PageSize \in Int /\ (p + 1) * PageSize = p * PageSize + PageSize
    BY <1>1, <1>4
  <2>3. QED
    BY <1>1, <2>1, <2>2 DEF AddressesOf
<1>6. first <= p
  <2>1. SUFFICES ASSUME p + 1 <= first PROVE FALSE
    BY <1>4
  <2>2. (p + 1) * PageSize <= first * PageSize
    BY <1>1, <1>4, <2>1
  <2>3. (p + 1) * PageSize = p * PageSize + PageSize
        /\ p * PageSize \in Int /\ first * PageSize \in Int
    BY <1>1, <1>4
  <2>4. QED
    BY <1>1, <1>2, <1>5, <2>2, <2>3
<1>7. p < first + n
  <2>1. SUFFICES ASSUME first + n <= p PROVE FALSE
    BY <1>4
  <2>2. (first + n) * PageSize <= p * PageSize
    BY <1>1, <1>4, <2>1
  <2>3. (first + n) * PageSize = first * PageSize + n * PageSize
        /\ p * PageSize \in Int /\ first * PageSize \in Int /\ n * PageSize \in Int
    BY <1>1, <1>4
  <2>4. QED
    BY <1>1, <1>2, <1>5, <2>2, <2>3
<1>8. QED
  BY <1>3, <1>4, <1>6, <1>7

\* All that the layout lists when it is read
LEMMA LayoutListed ==
  ASSUME TypeInv, PagesInv
  PROVE  \A mb \in Layout : Listed(mb)
<1>1. ASSUME backend = "linux", NEW mb \in LinuxLayout PROVE Listed(mb)
  <2>1. PICK i \in DOMAIN Regions : Regions[i].path /\ mb = Block(Regions[i].page, Regions[i].n)
    BY <1>1 DEF LinuxLayout
  <2>2. Regions[i].page \in Nat /\ Regions[i].n \in Nat
    BY RegionIs, SpaceIs
  <2>3. ASSUME NEW a \in Address, mb.address <= a, a < mb.address + mb.size
        PROVE  PageOf(a) \in 0..Pages - 1 /\ PageOf(a) \in PagesOf(Regions[i])
    BY <2>1, <2>2, <2>3, BlockPages DEF PagesOf
  <2>4. ASSUME NEW a \in Address, mb.address <= a, a < mb.address + mb.size
        PROVE  prot[PageOf(a)] # "none" /\ FilePage(PageOf(a))
    <3>1. PICK p \in 0..Pages - 1 : p = PageOf(a) /\ p \in PagesOf(Regions[i])
      BY <2>3, <2>4
    <3>2. prot[p] # "none"
      BY <3>1, RegionMapped DEF PagesInv
    <3>3. QED
      BY <2>1, <3>1, <3>2 DEF FilePage
  <2>5. QED
    BY <2>4 DEF Listed
<1>2. ASSUME backend = "darwin", NEW mb \in DarwinLayout PROVE Listed(mb)
  <2>1. \A p \in anonymous \cup remapped : prot[p] # "none" /\ p \in 0..Pages - 1
    BY <1>2 DEF TypeInv, TypeOK
  <2>2. backend # "linux"
    BY <1>2
  <2>3. CASE \E p \in anonymous \cup remapped : mb = Block(p, 1)
    <3>1. PICK p \in anonymous \cup remapped : mb = Block(p, 1)
      BY <2>3
    <3>2. p \in 0..Pages - 1 /\ p \in Nat /\ prot[p] # "none"
      BY <2>1, SpaceIs
    <3>3. ASSUME NEW a \in Address, mb.address <= a, a < mb.address + mb.size
          PROVE  PageOf(a) = p
      <4>1. PageOf(a) \in 0..Pages - 1 /\ PageOf(a) \in p..p + 1 - 1
        BY <3>1, <3>2, <3>3, BlockPages
      <4>2. QED
        BY <3>2, <4>1
    <3>4. QED
      BY <2>2, <3>2, <3>3 DEF Listed
  <2>4. CASE \E i \in DOMAIN Regions : \E p \in Rest(Regions[i]) :
               mb = Block(p[1], p[2] - p[1] + 1)
    <3>1. PICK i \in DOMAIN Regions : \E p \in Rest(Regions[i]) :
                 mb = Block(p[1], p[2] - p[1] + 1)
      BY <2>4
    <3>2. PICK first \in PagesOf(Regions[i]), last \in PagesOf(Regions[i]) :
            first <= last /\ mb = Block(first, last - first + 1)
      BY <3>1 DEF Rest
    <3>3. /\ PagesOf(Regions[i]) \subseteq 0..Pages - 1
          /\ Regions[i].page \in Nat /\ Regions[i].n \in Nat
      BY RegionIs, SpaceIs
    <3>4. first \in Nat /\ last \in Nat /\ last - first + 1 \in Nat
      BY <3>2, <3>3, SpaceIs
    <3>5. ASSUME NEW a \in Address, mb.address <= a, a < mb.address + mb.size
          PROVE  prot[PageOf(a)] # "none"
      <4>1. PICK p \in 0..Pages - 1 : p = PageOf(a) /\ p \in first..first + (last - first + 1) - 1
        BY <3>2, <3>4, <3>5, BlockPages
      <4>2. p \in PagesOf(Regions[i])
        BY <3>2, <3>3, <3>4, <4>1 DEF PagesOf
      <4>3. QED
        BY <4>1, <4>2, RegionMapped DEF PagesInv
    <3>6. QED
      BY <2>2, <3>5 DEF Listed
  <2>5. QED
    BY <1>2, <2>3, <2>4 DEF DarwinLayout
<1>3. QED
  BY <1>1, <1>2 DEF Layout, TypeInv

\* What is being patched is mapped
LEMMA PatchMapped ==
  ASSUME ExecInv, PagesInv, PatchesInv, patch # NULL
  PROVE  DestPage \in 0..Pages - 1 /\ prot[DestPage] # "none"
<1>1. PICK p \in 0..Pages - 1 : p = DestPage
  BY PageInSpace DEF ExecInv, DestPage
<1>2. CASE InitialProt(p) # "none"
  BY <1>1, <1>2 DEF PagesInv
<1>3. CASE InitialProt(p) = "none"
  BY <1>1, <1>3 DEF PatchesInv, Apart, InBlock, PagesInv, DestPage
<1>4. QED
  BY <1>1, <1>2, <1>3

LEMMA PagesInvStep ==
  ASSUME ExecInv, TypeInv, PagesInv, PatchesInv, [Next]_vars
  PROVE  PagesInv'
<1> DEFINE fmbs == free_memory_blocks
<1>1. UNCHANGED backend
  BY DEF Next, vars
<1>2. ASSUME UNCHANGED <<free_memory_blocks, process_memory_layout, anonymous>>,
             prot' = prot \/ (prot[DestPage] # "none" /\ prot' = [prot EXCEPT ![DestPage] = "rx"])
               \/ (prot[DestPage] # "none" /\ prot' = [prot EXCEPT ![DestPage] = "rwx"])
      PROVE  PagesInv'
  <2>1. \A p \in 0..Pages - 1 : prot[p] = "none" <=> prot'[p] = "none"
    BY <1>2 DEF ExecInv
  <2>2. \A mb \in process_memory_layout' : Listed(mb)
    BY <1>2 DEF PagesInv
  <2>3. QED
    BY <1>1, <1>2, <2>1, <2>2, PagesKept
<1>3. CASE allocate_code_slice
  <2>1. process_memory_layout' = process_memory_layout
    BY <1>3 DEF allocate_code_slice, SliceFromBlock, SliceFromNewPage
  <2>2. CASE SliceFromBlock(todo[1].size)
    <3>1. PICK i \in DOMAIN fmbs : fmbs' = [fmbs EXCEPT ![i] = FreeBlock(fmbs[i], todo[1].size)]
      BY <2>2 DEF SliceFromBlock
    <3>2. prot' = prot /\ anonymous' = anonymous /\ DOMAIN fmbs' = DOMAIN fmbs
      BY <2>2, <3>1 DEF SliceFromBlock
    <3>3. FreeBlock(fmbs[i], todo[1].size).address = fmbs[i].address
      <4> DEFINE S == [address : {p * PageSize : p \in 0..Pages - 1},
                       total_size : {PageSize}, used_size : Nat]
      <4>1. fmbs \in Seq(S)
        BY DEF ExecInv
      <4>2. PICK block : block = fmbs[i]
        OBVIOUS
      <4>3. block \in S
        <5> HIDE DEF S
        <5>1. QED
          BY <4>1, <4>2, ElementOfSeq
      <4>4. FreeBlock(block, todo[1].size).address = block.address
        BY <4>3 DEF FreeBlock
      <4>5. QED
        BY <4>2, <4>4
    <3>4. \A j \in DOMAIN fmbs : fmbs'[j].address = fmbs[j].address
      BY <3>1, <3>3
    <3>5. \A mb \in process_memory_layout' : Listed(mb)
      BY <2>1 DEF PagesInv
    <3>6. QED
      BY <1>1, <3>2, <3>4, <3>5, PagesKept
  <2>3. CASE SliceFromNewPage(todo[1].size)
    <3> DEFINE fmb(p) == [address |-> p * PageSize, total_size |-> PageSize, used_size |-> 0]
    <3>1. PICK p \in 0..Pages - 1 :
            /\ prot[p] = "none"
            /\ prot' = [prot EXCEPT ![p] = "rx"] /\ anonymous' = anonymous \cup {p}
            /\ fmbs' = Append(fmbs, FreeBlock(fmb(p), todo[1].size))
      BY <2>3 DEF SliceFromNewPage, allocate_page
    <3>2. PICK new : new = FreeBlock(fmb(p), todo[1].size)
      OBVIOUS
    <3>3. new.address = p * PageSize /\ PageOf(new.address) = p
      BY <3>2, PageStart DEF FreeBlock
    <3>4. /\ DOMAIN fmbs = 1..Len(fmbs) /\ Len(fmbs) \in Nat
          /\ DOMAIN fmbs' = 1..Len(fmbs) + 1
          /\ fmbs'[Len(fmbs) + 1] = new
          /\ \A i \in DOMAIN fmbs : fmbs'[i] = fmbs[i]
      <4>1. fmbs \in Seq([address : {q * PageSize : q \in 0..Pages - 1},
                          total_size : {PageSize}, used_size : Nat])
        BY DEF ExecInv
      <4>2. fmbs' = Append(fmbs, new)
        BY <3>1, <3>2
      <4>3. QED
        BY <4>1, <4>2
    <3>5. \A q \in 0..Pages - 1 : prot[q] # "none" => prot'[q] # "none"
      BY <3>1 DEF ExecInv
    <3>6. prot'[p] # "none" /\ InitialProt(p) = "none"
      BY <3>1 DEF ExecInv, PagesInv
    <3>7. ASSUME NEW i \in DOMAIN fmbs
          PROVE  /\ fmbs'[i].address # new.address
                 /\ prot'[PageOf(fmbs'[i].address)] # "none"
                 /\ InitialProt(PageOf(fmbs'[i].address)) = "none"
      <4>1. PICK q \in 0..Pages - 1 : PageOf(fmbs[i].address) = q
        BY BlockAddress
      <4>2. prot[q] # "none" /\ InitialProt(q) = "none"
        BY <4>1 DEF PagesInv
      <4>3. q # p
        BY <3>1, <4>2
      <4>4. QED
        BY <3>3, <3>4, <3>5, <4>1, <4>2, <4>3
    <3>8. ASSUME NEW i \in DOMAIN fmbs', NEW j \in DOMAIN fmbs',
                 fmbs'[i].address = fmbs'[j].address
          PROVE  i = j
      BY <3>4, <3>7, <3>8 DEF PagesInv
    <3>9. ASSUME NEW i \in DOMAIN fmbs'
          PROVE  /\ prot'[PageOf(fmbs'[i].address)] # "none"
                 /\ InitialProt(PageOf(fmbs'[i].address)) = "none"
      BY <3>3, <3>4, <3>6, <3>7
    <3>10. \A mb \in process_memory_layout' : Listed(mb)'
      BY <1>1, <2>1, <3>5, ListedKept DEF PagesInv
    <3>11. \A q \in 0..Pages - 1 : prot'[q] # "none" /\ InitialProt(q) = "none" => q \in anonymous'
      BY <3>1 DEF PagesInv, ExecInv
    <3>12. QED
      BY <1>1, <3>5, <3>8, <3>9, <3>10, <3>11 DEF PagesInv
  <2>4. QED
    BY <1>3, <2>2, <2>3 DEF allocate_code_slice
<1>4. CASE search_code_cave
  <2>1. /\ \A mb \in process_memory_layout' : Listed(mb)
        /\ UNCHANGED <<prot, anonymous, free_memory_blocks>>
    BY <1>4, LayoutListed DEF search_code_cave, PagesInv
  <2>2. QED
    BY <1>1, <2>1, PagesKept
<1>5. ASSUME NEW h \in pending, BeginHook(h) PROVE PagesInv'
  BY <1>2, <1>5 DEF BeginHook, managerVars
<1>6. ASSUME NEW a \in StoreAddresses, NEW v \in 1..2, Store(a, v) PROVE PagesInv'
  BY <1>2, <1>6 DEF Store, managerVars
<1>7. CASE active \/ CopyPage \/ WritePage \/ UNCHANGED vars
  BY <1>2, <1>7 DEF active, CopyPage, WritePage, vars, managerVars
<1>8. CASE UnprotectPage \/ ProtectPage \/ RemapPage
  <2>1. patch # NULL /\ UNCHANGED <<free_memory_blocks, process_memory_layout, anonymous>>
    BY <1>8 DEF UnprotectPage, ProtectPage, RemapPage, Patching, managerVars
  <2>2. prot' = [prot EXCEPT ![DestPage] = "rx"] \/ prot' = [prot EXCEPT ![DestPage] = "rwx"]
    BY <1>8 DEF UnprotectPage, ProtectPage, RemapPage
  <2>3. QED
    BY <1>2, <2>1, <2>2, PatchMapped
<1>9. QED
  BY <1>3, <1>4, <1>5, <1>6, <1>7, <1>8 DEF Next

(* ------------------------------------------------------------------------ *)
(* The parts of a hook that are left                                               *)

LEMMA TodoInvInit == Init => TodoInv
<1> SUFFICES ASSUME Init PROVE TodoInv
  OBVIOUS
<1>1. pending = DOMAIN Hooks /\ hook = NULL /\ todo = << >> /\ DOMAIN todo = {}
  BY DEF Init
<1>2. QED
  BY <1>1, NullAssumption DEF TodoInv

LEMMA TodoOfParts ==
  ASSUME NEW h \in DOMAIN Hooks
  PROVE  /\ Parts(Hooks[h]) # << >>
         /\ \A i \in DOMAIN Parts(Hooks[h]) :
              /\ Parts(Hooks[h])[i].kind = "patch" =>
                   /\ i = Len(Parts(Hooks[h]))
                   /\ Parts(Hooks[h])[i].size = PatchSize(Hooks[h].near)
              /\ Parts(Hooks[h])[i].kind = "transfer" =>
                   Parts(Hooks[h])[i].size = TransferSize
<1> DEFINE transfer == Part("transfer", TransferSize)
           invoke == Part("invoke", InvokeSize[Hooks[h].near])
           last == Part("patch", PatchSize(Hooks[h].near))
<1>1. /\ transfer.kind = "transfer" /\ transfer.size = TransferSize
      /\ invoke.kind = "invoke"
      /\ last.kind = "patch" /\ last.size = PatchSize(Hooks[h].near)
  BY DEF Part
<1>2. \/ Parts(Hooks[h]) = <<transfer>> \o <<invoke, last>>
      \/ Parts(Hooks[h]) = << >> \o <<invoke, last>>
  BY DEF Parts
<1> HIDE DEF transfer, invoke, last
<1>3. \/ Parts(Hooks[h]) = <<transfer, invoke, last>>
      \/ Parts(Hooks[h]) = <<invoke, last>>
  BY <1>2
<1>4. PICK parts : parts = Parts(Hooks[h])
  OBVIOUS
<1>5. CASE parts = <<transfer, invoke, last>>
  BY <1>1, <1>4, <1>5
<1>6. CASE parts = <<invoke, last>>
  BY <1>1, <1>4, <1>6
<1>7. QED
  BY <1>3, <1>4, <1>5, <1>6

LEMMA TailIs ==
  ASSUME NEW S, NEW s \in Seq(S), s # << >>
  PROVE  /\ Tail(s) \in Seq(S) /\ Len(s) \in Nat \ {0} /\ Len(Tail(s)) = Len(s) - 1
         /\ DOMAIN s = 1..Len(s) /\ DOMAIN Tail(s) = 1..Len(s) - 1
         /\ \A i \in DOMAIN Tail(s) : i + 1 \in DOMAIN s /\ Tail(s)[i] = s[i + 1]
  OBVIOUS

LEMMA TodoTaken ==
  ASSUME TypeInv, TodoInv, todo # << >>, UNCHANGED <<pending, hook>>, todo' = Tail(todo)
  PROVE  TodoInv'
<1>1. /\ todo' \in Seq(SizedPart) /\ Len(todo) \in Nat \ {0} /\ Len(todo') = Len(todo) - 1
      /\ DOMAIN todo' = 1..Len(todo) - 1
      /\ \A i \in DOMAIN todo' : i + 1 \in DOMAIN todo /\ todo'[i] = todo[i + 1]
  BY TailIs DEF TypeInv
<1>2. ASSUME NEW i \in DOMAIN todo'
      PROVE  /\ todo'[i].kind = "patch" =>
                  /\ i = Len(todo')
                  /\ todo'[i].size = PatchSize(Hooks[hook].near)
             /\ todo'[i].kind = "transfer" => todo'[i].size = TransferSize
  BY <1>1 DEF TodoInv
<1>3. QED
  BY <1>2 DEF TodoInv

LEMMA TodoInvStep == ExecInv /\ TypeInv /\ TodoInv /\ [Next]_vars => TodoInv'
<1> SUFFICES ASSUME ExecInv, TypeInv, TodoInv, [Next]_vars PROVE TodoInv'
  OBVIOUS
<1>1. CASE UNCHANGED <<pending, hook, todo>>
  BY <1>1 DEF TodoInv
<1>2. ASSUME NEW part, NEW dest, StartPatch(part, dest), todo # << >> PROVE TodoInv'
  BY <1>2, TodoTaken DEF StartPatch
<1>3. ASSUME NEW h \in pending, BeginHook(h) PROVE TodoInv'
  <2>1. h \in DOMAIN Hooks /\ h # NULL
    BY <1>3, NullAssumption DEF ExecInv
  <2>2. hook' = h /\ pending' = pending \ {h} /\ todo' = Parts(Hooks[h])
    BY <1>3 DEF BeginHook
  <2>3. QED
    BY <2>1, <2>2, TodoOfParts DEF TodoInv
<1>4. CASE allocate_code_slice
  BY <1>2, <1>4 DEF allocate_code_slice, NeedsSlice, NextPart, SliceFromBlock, SliceFromNewPage
<1>5. CASE search_code_cave
  <2>1. ASSUME NEW what, SearchFails(what) PROVE TodoInv'
    BY <1>1, <2>1 DEF SearchFails, hookVars
  <2>2. ASSUME NEW mb, NEW target, NEW reads_on, SearchIn(mb, target, reads_on) PROVE TodoInv'
    BY <1>2, <1>5, <2>1, <2>2 DEF SearchIn, search_code_cave, NextPart
  <2>3. QED
    BY <1>5, <2>1, <2>2 DEF search_code_cave
<1>6. CASE active
  BY <1>2, <1>6 DEF active, NextPart
<1>7. ASSUME PatchDone PROVE TodoInv'
  <2>1. UNCHANGED <<pending, todo>> /\ hook' = IF todo = << >> THEN NULL ELSE hook
    BY <1>7 DEF PatchDone
  <2>2. NULL \notin pending
    BY NullAssumption DEF ExecInv
  <2>3. CASE todo = << >>
    BY <2>1, <2>2, <2>3 DEF TodoInv
  <2>4. CASE todo # << >>
    BY <1>1, <2>1, <2>4
  <2>5. QED
    BY <2>3, <2>4
<1>8. CASE ProtectPage \/ RemapPage
  BY <1>7, <1>8 DEF ProtectPage, RemapPage
<1>9. CASE CopyPage \/ UnprotectPage \/ WritePage \/ UNCHANGED vars
  BY <1>1, <1>9 DEF CopyPage, UnprotectPage, WritePage, vars, hookVars
<1>10. ASSUME NEW a \in StoreAddresses, NEW v \in 1..2, Store(a, v) PROVE TodoInv'
  BY <1>1, <1>10 DEF Store, hookVars
<1>11. QED
  BY <1>3, <1>4, <1>5, <1>6, <1>8, <1>9, <1>10 DEF Next

(* ------------------------------------------------------------------------ *)
(* Patches                                                                         *)

\* The words of a patch, by their numbers and by their addresses
LEMMA WordIs ==
  ASSUME NEW w, w.dest \in Int, NEW S, w.words \in Seq(S)
  PROVE  /\ DOMAIN w.words = 1..Len(w.words) /\ Len(w.words) \in Nat
         /\ \A a \in WordsAt(w) : /\ a \in Int /\ a - w.dest + 1 \in 1..Len(w.words)
                                  /\ w.dest + (a - w.dest + 1) - 1 = a
         /\ \A i \in 1..Len(w.words) : /\ w.dest + i - 1 \in WordsAt(w)
                                       /\ w.dest + i - 1 - w.dest + 1 = i
<1>1. PICK n, d : n = Len(w.words) /\ d = w.dest
  OBVIOUS
<1>2. n \in Nat /\ d \in Int /\ DOMAIN w.words = 1..n
  BY <1>1
<1>3. WordsAt(w) = d..d + n - 1
  BY <1>1 DEF WordsAt
<1>4. \A a \in d..d + n - 1 : a \in Int /\ a - d + 1 \in 1..n /\ d + (a - d + 1) - 1 = a
  BY <1>2
<1>5. \A i \in 1..n : d + i - 1 \in d..d + n - 1 /\ d + i - 1 - d + 1 = i
  BY <1>2
<1>6. QED
  BY <1>1, <1>2, <1>3, <1>4, <1>5

\* What a patch is apart from, it stays apart from
LEMMA ApartKept ==
  ASSUME NEW w, Apart(w), Awaited' \subseteq Awaited, InBlock(w) => InBlock(w)'
  PROVE  Apart(w)'
  BY DEF Apart

LEMMA InBlockKept ==
  ASSUME NEW w, UNCHANGED free_memory_blocks
  PROVE  InBlock(w) => InBlock(w)'
  BY DEF InBlock

\* The types of what is written
WrittenInv ==
  /\ \A w \in written : w.dest \in Address /\ w.words \in Seq(Word)
  /\ patch # NULL => patch.dest \in Address /\ patch.words \in Seq(Word)

LEMMA WrittenInvInit == Init => WrittenInv
  BY DEF Init, WrittenInv

LEMMA WrittenInvStep ==
  ASSUME ExecInv, TypeInv, ExecInv', TypeInv', WrittenInv, [Next]_vars
  PROVE  WrittenInv'
<1>1. patch' # NULL => patch'.dest \in Address /\ patch'.words \in Seq(Word)
  BY DEF ExecInv, TypeInv
<1>2. written' = written \/ (patch # NULL /\ written' = written \cup {patch})
  BY DEF Next, vars, BeginHook, allocate_code_slice, SliceFromBlock, SliceFromNewPage,
    search_code_cave, SearchIn, SearchFails, StartPatch, active, CopyPage, UnprotectPage,
    WritePage, ProtectPage, RemapPage, Patching, PatchDone, Store, patchVars
<1>3. QED
  BY <1>1, <1>2 DEF WrittenInv

(* ------------------------------------------------------------------------ *)
(* Where the next patch goes, no other one is                                      *)

LEMMA StartApart ==
  ASSUME ExecInv, TypeInv, WrittenInv, TodoInv, PatchesInv,
         hook # NULL, todo # << >>, NEW dest \in Address, NEW size, size = todo[1].size,
         StartPatch(todo[1], dest), UNCHANGED mem,
         dest..dest + size - 1 \subseteq AddressesOf(PageOf(dest)),
         \A w \in written : WordsAt(w) \cap dest..dest + size - 1 = {},
         dest..dest + size - 1 \cap StoreAddresses = {},
         \A h \in Awaited' : dest..dest + size - 1 \cap TargetWords(h) = {},
         InitialProt(PageOf(dest)) = "none" =>
           \A w : w.dest = dest /\ Len(w.words) = size => InBlock(w)',
         \A w \in written : InBlock(w) => InBlock(w)'
  PROVE  PatchesInv'
<1>1. PICK part \in SizedPart : part = todo[1]
  BY ElementOfSeq DEF TypeInv
<1>2. part.kind \in {"transfer", "invoke", "patch"} /\ size \in Nat /\ size = part.size
  BY <1>1, SpaceIs DEF SizedPart
<1>3. PICK new : new = [dest |-> dest, words |-> Words(hook, part.kind, size)]
  OBVIOUS
<1>4. /\ patch' = new /\ step' = "copy" /\ written' = written
      /\ pending' = pending /\ hook' = hook /\ todo' = Tail(todo)
  BY <1>1, <1>2, <1>3 DEF StartPatch
<1>5. new.dest = dest /\ new.words = [i \in 1..size |-> <<part.kind, hook, i>>]
  BY <1>3 DEF Words
<1>6. Len(new.words) = size /\ DOMAIN new.words = 1..size
  BY <1>2, <1>5
<1>7. WordsAt(new) = dest..dest + size - 1
  BY <1>5, <1>6 DEF WordsAt
<1>8. \A i \in DOMAIN new.words : new.words[i] # Zero
  BY <1>2, <1>5, <1>6 DEF Zero
<1>9. Apart(new)'
  <2>1. InitialProt(PageOf(new.dest)) = "none" => InBlock(new)'
    BY <1>5, <1>6
  <2>2. QED
    BY <1>5, <1>7, <1>8, <2>1 DEF Apart
<1>10. Awaited' \subseteq Awaited
  BY <1>4 DEF Awaited
<1>11. \A w \in written : Apart(w)' /\ Intact(w)'
  <2>1. \A w \in written : Apart(w) /\ Intact(w)
    BY DEF PatchesInv
  <2>2. \A w \in written : Apart(w)'
    BY <1>10, <2>1, ApartKept
  <2>3. \A w \in written : Intact(w)'
    BY <2>1 DEF Intact
  <2>4. QED
    BY <2>2, <2>3
<1>12. Apart(patch)' /\ \A w \in written : WordsAt(w) \cap WordsAt(new) = {}
  BY <1>4, <1>7, <1>9
<1>13. CopyInv'
  BY <1>4 DEF CopyInv
<1>14. QED
  BY <1>4, <1>11, <1>12, <1>13 DEF PatchesInv

\* In a page that is not mapped at first, what is not in a block's used words is free
LEMMA StartSlice ==
  ASSUME ZerosUnused, ExecInv, TypeInv, WrittenInv, TodoInv, PatchesInv,
         hook # NULL, todo # << >>, NEW p \in 0..Pages - 1, InitialProt(p) = "none",
         NEW dest \in AddressesOf(p), NEW size, size = todo[1].size,
         StartPatch(todo[1], dest), UNCHANGED mem,
         dest + size - 1 \in AddressesOf(p),
         \A w \in written : PageOf(w.dest) = p => w.dest + Len(w.words) <= dest,
         \A w : w.dest = dest /\ Len(w.words) = size => InBlock(w)',
         \A w \in written : InBlock(w) => InBlock(w)'
  PROVE  PatchesInv'
<1>1. /\ dest \in Address /\ dest \in Int /\ PageOf(dest) = p
      /\ dest..dest + size - 1 \subseteq AddressesOf(p)
  BY PageInAddress, PageIs, PageConvex
<1>2. ASSUME NEW w \in written, NEW a \in WordsAt(w), a \in dest..dest + size - 1 PROVE FALSE
  <2>1. a \in AddressesOf(p) /\ a \in Int /\ PageOf(a) = p
    BY <1>1, <1>2, PageIs
  <2>2. w.dest \in Address /\ w.words \in Seq(Word)
    BY DEF WrittenInv
  <2>3. w.dest \in Int /\ PageOf(w.dest) \in Int /\ Len(w.words) \in Nat
    BY <2>2, SpaceIs, PageInSpace DEF Address
  <2>4. a \in AddressesOf(PageOf(w.dest))
    BY DEF PatchesInv, Apart
  <2>5. PageOf(w.dest) = p
    BY <2>1, <2>3, <2>4, PageIs
  <2>6. w.dest + Len(w.words) <= dest
    BY <2>5
  <2>7. a < w.dest + Len(w.words)
    BY <2>1, <2>3 DEF WordsAt
  <2>8. QED
    BY <1>1, <1>2, <2>1, <2>3, <2>6, <2>7
<1>3. \A a \in dest..dest + size - 1 :
        a \notin StoreAddresses /\ \A h \in DOMAIN Hooks : a \notin TargetWords(h)
  BY <1>1, UnmappedFree
<1>4. Awaited' \subseteq DOMAIN Hooks
  BY DEF Awaited, StartPatch, ExecInv
<1>5. QED
  BY <1>1, <1>2, <1>3, <1>4, StartApart

LEMMA SliceIntact ==
  ASSUME ZerosUnused, ExecInv, TypeInv, WrittenInv, TodoInv, PagesInv, PatchesInv,
         allocate_code_slice
  PROVE  PatchesInv'
<1> DEFINE fmbs == free_memory_blocks
<1>1. hook # NULL /\ todo # << >> /\ UNCHANGED mem
  BY DEF allocate_code_slice, NeedsSlice, NextPart, Ready
<1>2. PICK size : size = todo[1].size
  OBVIOUS
<1>3. size \in 1..PageSize /\ PageSize \in Nat \ {0}
  <2>1. todo[1] \in SizedPart
    BY <1>1, ElementOfSeq DEF TypeInv
  <2>2. QED
    BY <1>2, <2>1, SpaceIs DEF SizedPart
<1>4. \A i \in DOMAIN fmbs : fmbs[i] \in UsedBlock
  <2>1. free_memory_blocks \in Seq(UsedBlock)
    BY UsedBlocks DEF TypeInv, TypeOK
  <2>2. QED
    BY <2>1, ElementOfSeq
<1>5. CASE SliceFromBlock(size)
  <2>1. PICK i \in DOMAIN fmbs :
          /\ HasRoom(fmbs[i], size)
          /\ StartPatch(todo[1], fmbs[i].address + fmbs[i].used_size)
          /\ fmbs' = [fmbs EXCEPT ![i] = FreeBlock(fmbs[i], size)]
    BY <1>5 DEF SliceFromBlock
  <2>2. PICK p \in 0..Pages - 1 : fmbs[i].address = p * PageSize /\ PageOf(fmbs[i].address) = p
    BY BlockAddress
  <2>3. InitialProt(p) = "none"
    BY <2>2 DEF PagesInv
  <2>4. PICK block \in UsedBlock : block = fmbs[i]
    BY <1>4
  <2>5. PICK used : used = block.used_size
    OBVIOUS
  <2>6. used \in Nat /\ used >= 1 /\ used + size < PageSize
    <3>1. block.total_size = PageSize /\ block.used_size \in 1..block.total_size
      BY DEF UsedBlock, FreeMemoryBlock
    <3>2. HasRoom(block, size)
      BY <2>1, <2>4
    <3>3. QED
      BY <1>3, <2>5, <3>1, <3>2 DEF HasRoom
  <2>7. PICK filled : filled = FreeBlock(block, size)
    OBVIOUS
  <2>8. filled.address = block.address /\ filled.used_size = used + size
    BY <2>5, <2>7 DEF FreeBlock, UsedBlock, FreeMemoryBlock
  <2>9. DOMAIN fmbs' = DOMAIN fmbs /\ fmbs'[i] = filled
        /\ \A j \in DOMAIN fmbs : j # i => fmbs'[j] = fmbs[j]
    BY <2>1, <2>4, <2>7
  <2>10. PICK dest : dest = p * PageSize + used
    OBVIOUS
  <2>11. dest \in AddressesOf(p) /\ dest \in Int /\ dest + size - 1 \in AddressesOf(p)
    <3>1. p * PageSize \in Int /\ (p + 1) * PageSize = p * PageSize + PageSize
      BY <1>3
    <3>2. QED
      BY <1>3, <2>6, <2>10, <3>1 DEF AddressesOf
  <2>12. StartPatch(todo[1], dest)
    BY <2>1, <2>2, <2>4, <2>5, <2>10
  <2>13. ASSUME NEW w \in written, PageOf(w.dest) = p PROVE w.dest + Len(w.words) <= dest
    <3>1. InBlock(w)
      BY <2>3, <2>13 DEF PatchesInv, Apart
    <3>2. PICK j \in DOMAIN fmbs : /\ PageOf(fmbs[j].address) = p
                                   /\ w.dest + Len(w.words) <= fmbs[j].address + fmbs[j].used_size
      BY <2>13, <3>1 DEF InBlock
    <3>3. fmbs[j].address = fmbs[i].address
      BY <2>2, <3>2, BlockAddress
    <3>4. j = i
      BY <3>3 DEF PagesInv
    <3>5. QED
      BY <2>2, <2>4, <2>5, <2>10, <3>2, <3>4
  <2>14. ASSUME NEW w, w.dest = dest, Len(w.words) = size PROVE InBlock(w)'
    <3>1. PageOf(fmbs'[i].address) = PageOf(w.dest)
      BY <2>2, <2>4, <2>8, <2>9, <2>11, <2>14, PageIs
    <3>2. w.dest + Len(w.words) <= fmbs'[i].address + fmbs'[i].used_size
      <4>1. fmbs'[i].address = p * PageSize /\ fmbs'[i].used_size = used + size
        BY <2>2, <2>4, <2>8, <2>9
      <4>2. p * PageSize \in Int
        BY <1>3
      <4>3. QED
        BY <1>3, <2>6, <2>10, <2>14, <4>1, <4>2
    <3>3. QED
      BY <2>9, <3>1, <3>2 DEF InBlock
  <2>15. ASSUME NEW w \in written, InBlock(w) PROVE InBlock(w)'
    <3>1. PICK j \in DOMAIN fmbs :
            /\ PageOf(fmbs[j].address) = PageOf(w.dest)
            /\ w.dest + Len(w.words) <= fmbs[j].address + fmbs[j].used_size
      BY <2>15 DEF InBlock
    <3>2. CASE j # i
      BY <2>9, <3>1, <3>2 DEF InBlock
    <3>3. CASE j = i
      <4>1. PICK e : e = w.dest + Len(w.words)
        OBVIOUS
      <4>2. e <= p * PageSize + used
        BY <2>2, <2>4, <2>5, <3>1, <3>3, <4>1
      <4>3. e <= p * PageSize + (used + size)
        <5>1. p * PageSize \in Int
          BY <1>3
        <5>2. w.dest \in Address /\ w.words \in Seq(Word)
          BY DEF WrittenInv
        <5>3. e \in Int
          BY <4>1, <5>2, SpaceIs DEF Address
        <5>4. QED
          BY <1>3, <2>6, <4>2, <5>1, <5>3
      <4>4. QED
        BY <2>2, <2>4, <2>8, <2>9, <3>1, <3>3, <4>1, <4>3 DEF InBlock
    <3>4. QED
      BY <3>2, <3>3
  <2>16. QED
    BY <1>1, <1>2, <2>3, <2>11, <2>12, <2>13, <2>14, <2>15, StartSlice
<1>6. CASE SliceFromNewPage(size)
  <2> DEFINE fmb(p) == [address |-> p * PageSize, total_size |-> PageSize, used_size |-> 0]
  <2>1. PICK p \in 0..Pages - 1 :
          /\ prot[p] = "none"
          /\ fmbs' = Append(fmbs, FreeBlock(fmb(p), size))
          /\ StartPatch(todo[1], fmb(p).address)
    BY <1>6 DEF SliceFromNewPage, allocate_page
  <2>2. InitialProt(p) = "none"
    BY <2>1 DEF PagesInv
  <2>3. PICK dest : dest = p * PageSize
    OBVIOUS
  <2>4. dest \in AddressesOf(p) /\ PageOf(dest) = p /\ dest \in Int
        /\ dest + size - 1 \in AddressesOf(p)
    <3>1. p * PageSize \in Int /\ (p + 1) * PageSize = p * PageSize + PageSize
      BY <1>3
    <3>2. QED
      BY <1>3, <2>3, <3>1, PageStart DEF AddressesOf
  <2>5. PICK new : new = FreeBlock(fmb(p), size)
    OBVIOUS
  <2>6. new.address = dest /\ new.used_size = size
    BY <1>3, <2>3, <2>5 DEF FreeBlock
  <2>7. /\ \A j \in DOMAIN fmbs : j \in DOMAIN fmbs' /\ fmbs'[j] = fmbs[j]
        /\ Len(fmbs) + 1 \in DOMAIN fmbs' /\ fmbs'[Len(fmbs) + 1] = new
    <3>1. free_memory_blocks \in Seq(FreeMemoryBlock)
      BY DEF TypeInv, TypeOK
    <3>2. free_memory_blocks' = Append(free_memory_blocks, new)
      BY <2>1, <2>5
    <3>3. QED
      BY <3>1, <3>2
  <2>8. ASSUME NEW w \in written, PageOf(w.dest) = p PROVE FALSE
    <3>1. InBlock(w)
      BY <2>2, <2>8 DEF PatchesInv, Apart
    <3>2. PICK j \in DOMAIN fmbs : PageOf(fmbs[j].address) = p
      BY <2>8, <3>1 DEF InBlock
    <3>3. QED
      BY <2>1, <3>2 DEF PagesInv
  <2>9. ASSUME NEW w, w.dest = dest, Len(w.words) = size PROVE InBlock(w)'
    <3>1. w.dest + Len(w.words) <= new.address + new.used_size
      BY <1>3, <2>4, <2>6, <2>9
    <3>2. QED
      BY <2>6, <2>7, <2>9, <3>1 DEF InBlock
  <2>10. ASSUME NEW w \in written, InBlock(w) PROVE InBlock(w)'
    BY <2>7, <2>10 DEF InBlock
  <2>11. StartPatch(todo[1], dest)
    BY <2>1, <2>3
  <2>12. QED
    BY <1>1, <1>2, <2>2, <2>4, <2>8, <2>9, <2>10, <2>11, StartSlice
<1>7. QED
  BY <1>2, <1>5, <1>6 DEF allocate_code_slice

\* A cave lies in a page that was mapped at first; on Linux in one that has a path
LEMMA CavePage ==
  ASSUME TypeInv, PagesInv, SlicesFar, NEW mb \in MemoryBlock, Listed(mb),
         NEW h \in DOMAIN Hooks, Hooks[h].near, Hooks[h].target \in Address, NEW reads_on,
         NEW found \in StopsAt(mb, Hooks[h].target, reads_on), found \in Address
  PROVE  /\ InitialProt(PageOf(found)) # "none"
         /\ backend = "linux" => FilePage(PageOf(found))
<1>1. PICK target \in Address : target = Hooks[h].target
  OBVIOUS
<1>2. PICK first, last, limit :
        first = mb.address /\ last = mb.address + mb.size
          /\ limit = Wrap(target + BranchRange - TransferSize)
  OBVIOUS
<1>3. first \in Int /\ last \in Int /\ found \in Int
  BY <1>2, SpaceIs DEF MemoryBlock, Address
<1>4. LimitStart(target) \in Int /\ limit \in Int
  <2>1. BranchRange \in Int /\ target \in Int /\ 4 * Pages * PageSize \in Nat \ {0}
    <3>1. 2 * Pages * PageSize \in Int /\ 4 * Pages * PageSize \in Nat \ {0}
      BY SpaceIs
    <3>2. QED
      BY <3>1, SpaceIs, BranchAssumption DEF Address, TransferSize
  <2>2. QED
    BY <1>2, <2>1 DEF LimitStart, Wrap, TransferSize
<1>5. /\ SearchStart(mb, target) \in Int /\ SearchStart(mb, target) >= first
      /\ SearchStart(mb, target) >= LimitStart(target)
  <2>1. PICK low : low = LimitStart(target)
    OBVIOUS
  <2>2. SearchStart(mb, target) = Max({first, low}) /\ {first, low} = {low, first}
    BY <1>2, <2>1 DEF SearchStart
  <2>3. /\ Max({low, first}) \in Int /\ Max({low, first}) >= first
        /\ Max({first, low}) \in Int /\ Max({first, low}) >= low
    BY <1>3, <1>4, <2>1, MaxOfTwo
  <2>4. QED
    BY <2>1, <2>2, <2>3
<1>6. /\ SearchEnd(mb, target) \in Int /\ SearchEnd(mb, target) <= last
      /\ SearchEnd(mb, target) <= limit
  <2>1. SearchEnd(mb, target) = Min({last, limit}) /\ {last, limit} = {limit, last}
    BY <1>2 DEF SearchEnd
  <2>2. /\ Min({limit, last}) \in Int /\ Min({limit, last}) <= last
        /\ Min({last, limit}) \in Int /\ Min({last, limit}) <= limit
    BY <1>3, <1>4, MinOfTwo
  <2>3. QED
    BY <2>1, <2>2
<1>7. found >= SearchStart(mb, target) /\ found < SearchEnd(mb, target)
  BY <1>1, <1>3, <1>5, <1>6 DEF StopsAt
<1>8. found >= first /\ found < last /\ found >= LimitStart(target) /\ found < limit
  BY <1>3, <1>4, <1>5, <1>6, <1>7
<1>9. PICK p \in 0..Pages - 1 : p = PageOf(found)
  BY PageInSpace
<1>10. prot[p] # "none" /\ (backend = "linux" => FilePage(p))
  BY <1>2, <1>8, <1>9 DEF Listed
<1>11. ASSUME backend = "linux" PROVE InitialProt(p) # "none"
  BY <1>10, <1>11, RegionMapped DEF FilePage
<1>12. ASSUME backend = "darwin" PROVE InitialProt(p) # "none"
  <2>1. SUFFICES ASSUME InitialProt(p) = "none" PROVE FALSE
    OBVIOUS
  <2>2. p \in anonymous /\ found \in AddressesOf(p)
    BY <1>9, <1>10, <2>1, AddressInPage DEF PagesInv
  <2>3. found < LimitStart(target) \/ found >= limit
    BY <1>1, <1>2, <1>12, <2>2 DEF SlicesFar
  <2>4. QED
    BY <1>3, <1>4, <1>8, <2>3
<1>13. QED
  BY <1>9, <1>10, <1>11, <1>12 DEF TypeInv

LEMMA CaveIntact ==
  ASSUME ZerosUnused, SlicesFar, ExecInv, TypeInv, WrittenInv, TodoInv, PagesInv, PatchesInv,
         UNCHANGED <<mem, free_memory_blocks>>, NextPart("transfer"), Hooks[hook].near,
         NEW mb \in MemoryBlock, Listed(mb), NEW reads_on,
         NEW found \in StopsAt(mb, Hooks[hook].target, reads_on), Readable(found),
         StartPatch(todo[1], found)
  PROVE  PatchesInv'
<1>1. hook # NULL /\ todo # << >> /\ hook \in DOMAIN Hooks
  BY DEF NextPart, Ready, ExecInv
<1>2. todo[1].size = 4 /\ TransferSize = 4
  <2>1. 1 \in DOMAIN todo
    BY <1>1, TailIs DEF TypeInv
  <2>2. QED
    BY <2>1 DEF TodoInv, NextPart, TransferSize
<1>3. /\ found \in Address /\ found \in Int
      /\ \A i \in 0..3 : found + i \in Address /\ mem[found + i] = Zero
  <2>1. Unused(found)
    BY DEF StopsAt
  <2>2. QED
    BY <1>2, <2>1, SpaceIs DEF Unused, Readable, Mapped, Address
<1>4. \A a \in found..found + 3 : a \in Address /\ mem[a] = Zero /\ InitialMem(a) = Zero
  <2>1. ASSUME NEW a \in found..found + 3 PROVE a \in Address /\ mem[a] = Zero
    <3>1. a - found \in 0..3 /\ found + (a - found) = a
      BY <1>3
    <3>2. QED
      BY <1>3, <3>1
  <2>2. QED
    BY <2>1 DEF PatchesInv
<1>5. InitialProt(PageOf(found)) # "none"
  <2>1. Hooks[hook].target \in Address
    BY <1>1, PartsTyped
  <2>2. QED
    BY <1>1, <1>3, <2>1, CavePage
<1>6. found..found + 3 \subseteq AddressesOf(PageOf(found))
  <2>1. PageOf(found + 3) = PageOf(found)
    <3>1. found + TransferSize - 1 = found + 3
      BY <1>2, <1>3
    <3>2. \/ PageOf(found + 3) = PageOf(found)
          \/ \E b \in found..found + 3 : b \in Address /\ InitialMem(b) # Zero
      BY <1>3, <1>5, <3>1 DEF ZerosUnused
    <3>3. QED
      BY <1>4, <3>2
  <2>2. PICK p \in 0..Pages - 1 : p = PageOf(found)
    BY <1>3, PageInSpace
  <2>3. found + 3 \in Address
    BY <1>3
  <2>4. found \in AddressesOf(p) /\ found + 3 \in AddressesOf(p)
    BY <1>3, <2>1, <2>2, <2>3, AddressInPage
  <2>5. QED
    BY <2>2, <2>4, PageConvex
<1>7. ASSUME NEW w \in written, NEW a \in WordsAt(w), a \in found..found + 3 PROVE FALSE
  <2>1. w.dest \in Int /\ w.words \in Seq(Word)
    BY SpaceIs DEF WrittenInv, Address
  <2>2. PICK i : i = a - w.dest + 1
    OBVIOUS
  <2>3. i \in 1..Len(w.words) /\ w.dest + i - 1 = a /\ i \in DOMAIN w.words
    BY <2>1, <2>2, WordIs
  <2>4. mem[a] = w.words[i] /\ w.words[i] # Zero
    BY <2>3 DEF PatchesInv, Apart, Intact
  <2>5. QED
    BY <1>4, <1>7, <2>4
<1>8. \A a \in found..found + 3 :
        a \notin StoreAddresses /\ \A h \in DOMAIN Hooks : a \notin TargetWords(h)
  BY <1>4 DEF ZerosUnused
<1>9. Awaited' \subseteq DOMAIN Hooks
  BY <1>1 DEF Awaited, StartPatch, ExecInv
<1>10. \A w \in written : InBlock(w) => InBlock(w)'
  BY InBlockKept
<1>11. found + 4 - 1 = found + 3
  BY <1>3
<1>12. QED
  BY <1>1, <1>2, <1>3, <1>5, <1>6, <1>7, <1>8, <1>9, <1>10, <1>11, StartApart

LEMMA ActiveIntact ==
  ASSUME ZerosUnused, ExecInv, TypeInv, WrittenInv, TodoInv, PagesInv, PatchesInv, active
  PROVE  PatchesInv'
<1>1. /\ hook # NULL /\ todo # << >> /\ hook \in DOMAIN Hooks /\ todo[1].kind = "patch"
      /\ StartPatch(todo[1], Hooks[hook].target) /\ UNCHANGED <<mem, free_memory_blocks>>
  BY DEF active, NextPart, Ready, ExecInv, managerVars
<1>2. todo[1].size = PatchSize(Hooks[hook].near) /\ todo' = << >>
  <2>1. Len(todo) \in Nat \ {0} /\ DOMAIN todo = 1..Len(todo)
    BY <1>1, TailIs DEF TypeInv
  <2>2. 1 = Len(todo) /\ todo[1].size = PatchSize(Hooks[hook].near)
    BY <1>1, <2>1 DEF TodoInv
  <2>3. Tail(todo) = << >>
    <3>1. todo \in Seq(SizedPart)
      BY DEF TypeInv
    <3>2. Tail(todo) \in Seq(SizedPart) /\ Len(Tail(todo)) = Len(todo) - 1
      BY <1>1, <3>1, TailIs
    <3>3. Len(Tail(todo)) \notin Nat \ {0}
      BY <2>1, <2>2, <3>2
    <3>4. QED
      BY <3>2, <3>3, TailIs
  <2>4. QED
    BY <1>1, <2>2, <2>3 DEF StartPatch
<1>3. PICK dest \in Address : dest = Hooks[hook].target
  BY <1>1, PartsTyped
<1>4. PICK size : size = todo[1].size
  OBVIOUS
<1>5. dest..dest + size - 1 = TargetWords(hook) /\ dest \in TargetWords(hook)
  BY <1>2, <1>3, <1>4, SpaceIs DEF TargetWords, PatchSize, Address
<1>6. TargetWords(hook) \subseteq AddressesOf(PageOf(dest))
  BY <1>1, <1>3 DEF ZerosUnused
<1>7. TargetWords(hook) \cap StoreAddresses = {}
  BY <1>1 DEF ZerosUnused
<1>8. \A w \in written : WordsAt(w) \cap TargetWords(hook) = {}
  BY <1>1 DEF PatchesInv, Apart, Awaited
<1>9. Awaited' = pending
  BY <1>1, <1>2 DEF Awaited, StartPatch
<1>10. \A h \in Awaited' : TargetWords(hook) \cap TargetWords(h) = {}
  BY <1>1, <1>9 DEF TodoInv, ExecInv, ZerosUnused
<1>11. InitialProt(PageOf(dest)) # "none"
  BY <1>1, <1>5, NotZeroMapped DEF ZerosUnused
<1>12. \A w \in written : InBlock(w) => InBlock(w)'
  BY <1>1, InBlockKept
<1>13. StartPatch(todo[1], dest)
  BY <1>1, <1>3
<1>14. QED
  BY <1>1, <1>4, <1>5, <1>6, <1>7, <1>8, <1>10, <1>11, <1>12, <1>13, StartApart

(* ------------------------------------------------------------------------ *)
(* patch_code                                                                      *)

LEMMA PatchesKept ==
  ASSUME PatchesInv, UNCHANGED <<mem, written, patch, step, copy_page, free_memory_blocks>>,
         Awaited' \subseteq Awaited
  PROVE  PatchesInv'
<1>1. ASSUME NEW w, Apart(w) PROVE Apart(w)'
  BY <1>1, InBlockKept, ApartKept
<1>2. ASSUME NEW w, Intact(w) PROVE Intact(w)'
  BY <1>2 DEF Intact
<1>3. PICK p : p = patch
  OBVIOUS
<1>4. patch # NULL => Apart(patch)'
  <2>1. patch # NULL => Apart(p)
    BY <1>3 DEF PatchesInv
  <2>2. patch # NULL => Apart(p)'
    BY <1>1, <2>1
  <2>3. QED
    BY <1>3, <2>2
<1>5. CopyInv'
  BY DEF PatchesInv, CopyInv, DestPage
<1>6. patch # NULL /\ step = "protect" => Intact(patch)'
  BY DEF PatchesInv, Intact
<1>7. QED
  BY <1>1, <1>2, <1>4, <1>5, <1>6 DEF PatchesInv

\* The steps of patch_code before the last one
LEMMA CopyKeepsApart ==
  ASSUME PatchesInv, UNCHANGED <<written, patch, free_memory_blocks, pending, hook, todo>>,
         CopyInv', \A a \in Address : InitialMem(a) # Zero => mem'[a] # Zero,
         \A w \in written : Intact(w)',
         patch # NULL /\ step' = "protect" => Intact(patch)'
  PROVE  PatchesInv'
<1>1. Awaited' = Awaited
  BY DEF Awaited
<1>2. ASSUME NEW w, Apart(w) PROVE Apart(w)'
  BY <1>1, <1>2, InBlockKept, ApartKept
<1>3. PICK p : p = patch
  OBVIOUS
<1>4. patch # NULL => Apart(patch)'
  <2>1. patch # NULL => Apart(p)
    BY <1>3 DEF PatchesInv
  <2>2. patch # NULL => Apart(p)'
    BY <1>2, <2>1
  <2>3. QED
    BY <1>3, <2>2
<1>5. QED
  BY <1>2, <1>4 DEF PatchesInv

LEMMA CopyIntact ==
  ASSUME ExecInv, WrittenInv, PatchesInv, CopyPage
  PROVE  PatchesInv'
<1>1. /\ patch # NULL /\ step = "copy" /\ step' \in {"remap", "unprotect"}
      /\ UNCHANGED <<mem, written, patch, free_memory_blocks, pending, hook, todo>>
  BY DEF CopyPage, Patching, managerVars, hookVars
<1>2. patch.dest \in Int /\ patch.words \in Seq(Word) /\ DestPage \in 0..Pages - 1
  BY <1>1, SpaceIs, PageInSpace DEF WrittenInv, Address, DestPage
<1>3. PICK d, words, p : d = patch.dest /\ words = patch.words /\ p = DestPage
  OBVIOUS
<1>4. /\ d \in Int /\ words \in Seq(Word) /\ Len(words) \in Nat /\ p = PageOf(d)
      /\ DOMAIN words = 1..Len(words)
  BY <1>2, <1>3 DEF DestPage
<1>5. WordsAt(patch) = d..d + Len(words) - 1
  BY <1>3 DEF WordsAt
<1>6. /\ d..d + Len(words) - 1 \subseteq AddressesOf(p)
      /\ \A i \in DOMAIN words : words[i] # Zero
  BY <1>1, <1>3, <1>4, <1>5 DEF PatchesInv, Apart
<1>7. Fits = 1..Len(words)
  <2>1. ASSUME NEW i \in 1..Len(words) PROVE PageOf(d + i - 1) = p
    <3>1. d + i - 1 \in d..d + Len(words) - 1
      BY <1>4
    <3>2. d + i - 1 \in AddressesOf(p)
      BY <1>6, <3>1
    <3>3. QED
      BY <1>2, <1>3, <3>2, PageIs
  <2>2. QED
    BY <1>3, <2>1 DEF Fits
<1>8. copy_page' = [a \in AddressesOf(p) |->
                      IF a - d + 1 \in 1..Len(words) THEN words[a - d + 1] ELSE mem[a]]
  BY <1>3, <1>7 DEF CopyPage
<1>9. ASSUME NEW a \in AddressesOf(p)
      PROVE  /\ InitialMem(a) # Zero => copy_page'[a] # Zero
             /\ a \in d..d + Len(words) - 1 => copy_page'[a] = words[a - d + 1]
             /\ a \notin d..d + Len(words) - 1 => copy_page'[a] = mem[a]
  <2>1. a \in Int /\ a \in Address
    BY <1>2, <1>3, PageIs, PageInAddress
  <2>2. a \in d..d + Len(words) - 1 <=> a - d + 1 \in 1..Len(words)
    BY <1>4, <2>1
  <2>3. InitialMem(a) # Zero => mem[a] # Zero
    BY <2>1 DEF PatchesInv
  <2>4. CASE a - d + 1 \in 1..Len(words)
    BY <1>4, <1>6, <1>8, <2>2, <2>4
  <2>5. CASE a - d + 1 \notin 1..Len(words)
    BY <1>8, <2>2, <2>3, <2>5
  <2>6. QED
    BY <2>4, <2>5
<1>10. CopyInv'
  <2>1. DestPage' = p /\ WordsAt(patch)' = d..d + Len(words) - 1
        /\ patch'.dest = d /\ patch'.words = words
    BY <1>1, <1>3, <1>5 DEF DestPage, WordsAt
  <2>2. ASSUME NEW a \in AddressesOf(DestPage)'
        PROVE  /\ InitialMem(a) # Zero => copy_page'[a] # Zero
               /\ a \in WordsAt(patch)' => copy_page'[a] = patch'.words[a - patch'.dest + 1]
               /\ a \notin WordsAt(patch)' \cup StoreAddresses => copy_page'[a] = mem'[a]
    <3>1. a \in AddressesOf(p)
      BY <2>1, <2>2
    <3>2. QED
      BY <1>1, <1>9, <2>1, <3>1
  <2>3. QED
    BY <2>2 DEF CopyInv
<1>11. \A w \in written : Intact(w)'
  BY <1>1 DEF PatchesInv, Intact
<1>12. \A a \in Address : InitialMem(a) # Zero => mem'[a] # Zero
  BY <1>1 DEF PatchesInv
<1>13. QED
  BY <1>1, <1>10, <1>11, <1>12, CopyKeepsApart

\* The page, as it was copied, with the patch
LEMMA CopiedIntact ==
  ASSUME ExecInv, WrittenInv, PatchesInv, patch # NULL, step # "copy", mem' = CopiedBack
  PROVE  /\ \A a \in Address : InitialMem(a) # Zero => mem'[a] # Zero
         /\ \A w \in written : \A i \in 1..Len(w.words) : mem'[w.dest + i - 1] = w.words[i]
         /\ \A i \in 1..Len(patch.words) : mem'[patch.dest + i - 1] = patch.words[i]
<1>1. PICK d, words, page : d = patch.dest /\ words = patch.words /\ page = DestPage
  OBVIOUS
<1>2. d \in Address /\ words \in Seq(Word) /\ page \in 0..Pages - 1 /\ page = PageOf(d)
  BY <1>1, PageInSpace DEF WrittenInv, DestPage
<1>3. ASSUME NEW a \in AddressesOf(page)
      PROVE  /\ a \in Address /\ mem'[a] = copy_page[a]
             /\ InitialMem(a) # Zero => copy_page[a] # Zero
             /\ a \in WordsAt(patch) => copy_page[a] = words[a - d + 1]
             /\ a \notin WordsAt(patch) \cup StoreAddresses => copy_page[a] = mem[a]
  <2>1. a \in Address /\ PageOf(a) = page
    BY <1>2, PageInAddress, PageIs
  <2>2. mem'[a] = copy_page[a]
    BY <1>1, <2>1 DEF CopiedBack
  <2>3. QED
    BY <1>1, <2>1, <2>2 DEF PatchesInv, CopyInv
<1>4. ASSUME NEW a \in Address, a \notin AddressesOf(page)
      PROVE  mem'[a] = mem[a]
  <2>1. PageOf(a) # page
    BY <1>4, AddressInPage
  <2>2. QED
    BY <1>1, <2>1 DEF CopiedBack
<1>5. \A a \in Address : InitialMem(a) # Zero => mem'[a] # Zero
  BY <1>3, <1>4 DEF PatchesInv
<1>6. ASSUME NEW w \in written, NEW i \in 1..Len(w.words)
      PROVE  mem'[w.dest + i - 1] = w.words[i]
  <2>1. w.dest \in Int /\ w.words \in Seq(Word) /\ PageOf(w.dest) \in 0..Pages - 1
    BY SpaceIs, PageInSpace DEF WrittenInv, Address
  <2>2. PICK a : a = w.dest + i - 1
    OBVIOUS
  <2>3. a \in WordsAt(w) /\ mem[a] = w.words[i]
    BY <2>1, <2>2, WordIs DEF PatchesInv, Intact
  <2>4. a \in Address
    BY <2>1, <2>3, PageInAddress DEF PatchesInv, Apart
  <2>5. a \notin WordsAt(patch) \cup StoreAddresses
    BY <2>3 DEF PatchesInv, Apart
  <2>6. mem'[a] = mem[a]
    BY <1>3, <1>4, <2>4, <2>5
  <2>7. QED
    BY <2>2, <2>3, <2>6
<1>7. ASSUME NEW i \in 1..Len(words) PROVE mem'[d + i - 1] = words[i]
  <2>1. PICK a : a = d + i - 1
    OBVIOUS
  <2>2. d \in Int /\ Len(words) \in Nat
    BY <1>2, SpaceIs DEF Address
  <2>3. a \in d..d + Len(words) - 1 /\ a - d + 1 = i
    BY <2>1, <2>2
  <2>4. a \in WordsAt(patch)
    BY <1>1, <2>3 DEF WordsAt
  <2>5. a \in AddressesOf(page)
    BY <1>1, <2>4 DEF PatchesInv, Apart, DestPage
  <2>6. mem'[a] = words[a - d + 1]
    BY <1>3, <2>4, <2>5
  <2>7. QED
    BY <2>1, <2>3, <2>6
<1>8. QED
  BY <1>1, <1>5, <1>6, <1>7

LEMMA WriteIntact ==
  ASSUME ExecInv, WrittenInv, PatchesInv, WritePage
  PROVE  PatchesInv'
<1>1. /\ patch # NULL /\ step = "write" /\ step' = "protect"
      /\ mem' = CopiedBack
      /\ UNCHANGED <<written, patch, copy_page, free_memory_blocks, pending, hook, todo>>
  BY DEF WritePage, Patching, managerVars, hookVars
<1>2. PICK page \in 0..Pages - 1 : page = DestPage
  BY <1>1, PageInSpace DEF WrittenInv, DestPage
<1>3. ASSUME NEW a \in AddressesOf(page) PROVE mem'[a] = copy_page[a]
  BY <1>1, <1>2, PageInAddress, PageIs DEF CopiedBack
<1>4. CopyInv'
  <2>1. DestPage' = DestPage /\ WordsAt(patch)' = WordsAt(patch)
    BY <1>1 DEF DestPage, WordsAt
  <2>2. QED
    BY <1>1, <1>2, <1>3, <2>1 DEF PatchesInv, CopyInv
<1>5. /\ \A a \in Address : InitialMem(a) # Zero => mem'[a] # Zero
      /\ \A w \in written : Intact(w)'
      /\ Intact(patch)'
  BY <1>1, CopiedIntact DEF Intact
<1>6. QED
  BY <1>1, <1>4, <1>5, CopyKeepsApart

LEMMA ProtectIntact ==
  ASSUME ExecInv, PatchesInv, TodoInv, ProtectPage
  PROVE  PatchesInv'
<1>1. /\ patch # NULL /\ step = "protect" /\ patch' = NULL
      /\ written' = written \cup {patch}
      /\ UNCHANGED <<mem, free_memory_blocks, pending, todo>>
      /\ hook' = IF todo = << >> THEN NULL ELSE hook
  BY DEF ProtectPage, Patching, PatchDone, managerVars
<1>2. Awaited' = Awaited
  BY <1>1 DEF Awaited
<1>3. ASSUME NEW w \in written' PROVE Apart(w)' /\ Intact(w)'
  <2>1. Apart(w) /\ Intact(w)
    BY <1>1, <1>3 DEF PatchesInv
  <2>2. Apart(w)'
    BY <1>1, <1>2, <2>1, InBlockKept, ApartKept
  <2>3. QED
    BY <1>1, <2>1, <2>2 DEF Intact
<1>4. QED
  BY <1>1, <1>3 DEF PatchesInv, CopyInv

LEMMA RemapIntact ==
  ASSUME ExecInv, WrittenInv, PatchesInv, TodoInv, RemapPage
  PROVE  PatchesInv'
<1>1. /\ patch # NULL /\ step = "remap" /\ mem' = CopiedBack /\ patch' = NULL
      /\ written' = written \cup {patch}
      /\ UNCHANGED <<free_memory_blocks, pending, todo>>
      /\ hook' = IF todo = << >> THEN NULL ELSE hook
  BY DEF RemapPage, Patching, PatchDone
<1>2. Awaited' = Awaited
  BY <1>1 DEF Awaited
<1>3. ASSUME NEW w \in written' PROVE Apart(w)' /\ Intact(w)'
  <2>1. Apart(w)
    BY <1>1, <1>3 DEF PatchesInv
  <2>2. Apart(w)'
    BY <1>1, <1>2, <2>1, InBlockKept, ApartKept
  <2>3. \A i \in 1..Len(w.words) : mem'[w.dest + i - 1] = w.words[i]
    BY <1>1, <1>3, CopiedIntact
  <2>4. QED
    BY <2>2, <2>3 DEF Intact
<1>4. \A a \in Address : InitialMem(a) # Zero => mem'[a] # Zero
  BY <1>1, CopiedIntact
<1>5. QED
  BY <1>1, <1>3, <1>4 DEF PatchesInv, CopyInv

LEMMA StoreIntact ==
  ASSUME TypeInv, WrittenInv, PatchesInv, NEW a \in StoreAddresses, NEW v \in 1..2, Store(a, v)
  PROVE  PatchesInv'
<1>1. /\ UNCHANGED <<written, patch, step, copy_page, free_memory_blocks, pending, hook, todo>>
      /\ mem' = mem \/ mem' = [mem EXCEPT ![a] = Data(v)]
  BY DEF Store, managerVars, hookVars, patchVars
<1>2. mem \in [Address -> Word] /\ \A b \in Address : b # a => mem'[b] = mem[b]
  BY <1>1 DEF TypeInv, TypeOK
<1>3. \A b \in Address : InitialMem(b) # Zero => mem'[b] # Zero
  <2>1. Data(v) # Zero
    BY DEF Data, Zero
  <2>2. QED
    BY <1>1, <1>2, <2>1 DEF PatchesInv
<1>4. CopyInv'
  <2>1. DestPage' = DestPage /\ WordsAt(patch)' = WordsAt(patch)
    BY <1>1 DEF DestPage, WordsAt
  <2>2. patch # NULL => AddressesOf(DestPage) \subseteq Address
    BY PageInSpace, PageInAddress DEF WrittenInv, DestPage
  <2>3. QED
    BY <1>1, <1>2, <2>1, <2>2 DEF PatchesInv, CopyInv
<1>5. ASSUME NEW w, Apart(w), Intact(w), w.dest \in Address, w.words \in Seq(Word)
      PROVE  Intact(w)'
  <2>1. ASSUME NEW i \in 1..Len(w.words) PROVE mem'[w.dest + i - 1] = w.words[i]
    <3>1. w.dest + i - 1 \in WordsAt(w)
      BY <1>5, WordIs, SpaceIs DEF Address
    <3>2. w.dest + i - 1 # a /\ w.dest + i - 1 \in Address
      BY <1>5, <3>1, PageInSpace, PageInAddress DEF Apart
    <3>3. QED
      BY <1>2, <1>5, <3>2 DEF Intact
  <2>2. QED
    BY <2>1 DEF Intact
<1>6. \A w \in written : Intact(w)'
  BY <1>5 DEF PatchesInv, WrittenInv
<1>7. patch # NULL /\ step' = "protect" => Intact(patch)'
  <2>1. PICK p : p = patch
    OBVIOUS
  <2>2. patch # NULL /\ step = "protect" => Intact(p)'
    BY <1>5, <2>1 DEF PatchesInv, WrittenInv
  <2>3. QED
    BY <1>1, <2>1, <2>2 DEF Intact
<1>8. QED
  BY <1>1, <1>3, <1>4, <1>6, <1>7, CopyKeepsApart

LEMMA PatchesInvInit == Init => PatchesInv
  BY DEF Init, PatchesInv, CopyInv

LEMMA PatchesInvStep ==
  ASSUME ZerosUnused, SlicesFar, ExecInv, TypeInv, TypeInv', WrittenInv, TodoInv, PagesInv,
         PatchesInv, [Next]_vars
  PROVE  PatchesInv'
<1>1. ASSUME UNCHANGED <<mem, written, patch, step, copy_page, free_memory_blocks, pending,
                         hook, todo>>
      PROVE  PatchesInv'
  BY <1>1, PatchesKept DEF Awaited
<1>2. ASSUME NEW h \in pending, BeginHook(h) PROVE PatchesInv'
  <2>1. UNCHANGED <<mem, written, patch, step, copy_page, free_memory_blocks>>
    BY <1>2 DEF BeginHook, managerVars, patchVars
  <2>2. todo = << >> /\ hook' = h /\ pending' = pending \ {h}
    BY <1>2 DEF BeginHook, TodoInv
  <2>3. Awaited' \subseteq Awaited
    BY <1>2, <2>2 DEF Awaited
  <2>4. QED
    BY <2>1, <2>3, PatchesKept
<1>3. CASE allocate_code_slice
  BY <1>3, SliceIntact
<1>4. CASE search_code_cave
  <2>1. NextPart("transfer") /\ Hooks[hook].near /\ UNCHANGED <<mem, free_memory_blocks>>
    BY <1>4 DEF search_code_cave
  <2>2. \A mb \in process_memory_layout' : mb \in MemoryBlock /\ Listed(mb)
    BY <1>4, LayoutListed DEF search_code_cave, PagesInv, TypeInv, TypeOK
  <2>3. ASSUME NEW what, SearchFails(what) PROVE PatchesInv'
    BY <1>1, <2>1, <2>3 DEF SearchFails, hookVars, patchVars
  <2>4. ASSUME NEW mb \in MemoryBlock, Listed(mb), NEW reads_on,
               SearchIn(mb, Hooks[hook].target, reads_on)
        PROVE  PatchesInv'
    <3>1. CASE \E found \in StopsAt(mb, Hooks[hook].target, reads_on) :
                 Readable(found) /\ StartPatch(todo[1], found)
      BY <2>1, <2>4, <3>1, CaveIntact
    <3>2. QED
      BY <2>3, <2>4, <3>1 DEF SearchIn
  <2>5. QED
    BY <1>4, <2>2, <2>3, <2>4 DEF search_code_cave
<1>5. CASE active
  BY <1>5, ActiveIntact
<1>6. CASE CopyPage
  BY <1>6, CopyIntact
<1>7. CASE UnprotectPage
  <2>1. /\ UNCHANGED <<mem, written, patch, copy_page, free_memory_blocks, pending, hook, todo>>
        /\ step = "unprotect" /\ step' = "write"
    BY <1>7 DEF UnprotectPage, Patching, managerVars, hookVars
  <2>2. CopyInv'
    BY <2>1 DEF PatchesInv, CopyInv, DestPage, WordsAt
  <2>3. \A w \in written : Intact(w)'
    BY <2>1 DEF PatchesInv, Intact
  <2>4. \A a \in Address : InitialMem(a) # Zero => mem'[a] # Zero
    BY <2>1 DEF PatchesInv
  <2>5. QED
    BY <2>1, <2>2, <2>3, <2>4, CopyKeepsApart
<1>8. CASE WritePage
  BY <1>8, WriteIntact
<1>9. CASE ProtectPage
  BY <1>9, ProtectIntact
<1>10. CASE RemapPage
  BY <1>10, RemapIntact
<1>11. ASSUME NEW a \in StoreAddresses, NEW v \in 1..2, Store(a, v) PROVE PatchesInv'
  BY <1>11, StoreIntact
<1>12. CASE UNCHANGED vars
  BY <1>1, <1>12 DEF vars, managerVars, hookVars, patchVars
<1>13. QED
  BY <1>2, <1>3, <1>4, <1>5, <1>6, <1>7, <1>8, <1>9, <1>10, <1>11, <1>12 DEF Next

IntactInv == ExecInv /\ TypeInv /\ WrittenInv /\ TodoInv /\ PagesInv /\ PatchesInv

LEMMA IntactInvInit == Init => IntactInv
  BY ExecInvInit, TypeInvInit, WrittenInvInit, TodoInvInit, PagesInvInit, PatchesInvInit
    DEF IntactInv

LEMMA IntactInvStep ==
  ASSUME ZerosUnused, SlicesFar, IntactInv, [Next]_vars
  PROVE  IntactInv'
<1>1. ExecInv' /\ TypeInv'
  BY ExecInvStep, TypeInvStep DEF IntactInv
<1>2. WrittenInv' /\ TodoInv' /\ PagesInv' /\ PatchesInv'
  BY <1>1, WrittenInvStep, TodoInvStep, PagesInvStep, PatchesInvStep DEF IntactInv
<1>3. QED
  BY <1>1, <1>2 DEF IntactInv

\* On Linux no layout lists the pages of the slices
LEMMA LinuxSlicesFar == Backends = {"linux"} /\ Spec => []SlicesFar
<1>1. Backends = {"linux"} /\ Init => backend = "linux"
  BY DEF Init
<1>2. backend = "linux" /\ [Next]_vars => (backend = "linux")'
  BY DEF Next, vars
<1>3. backend = "linux" => SlicesFar
  BY DEF SlicesFar
<1>4. QED
  BY <1>1, <1>2, <1>3, PTL DEF Spec

(***************************************************************************)
(* On either platform, in any address space in which what the program uses *)
(* is not zero: whatever slices and caves the hooks get, and whatever the  *)
(* program writes meanwhile, what patch_code has written stays as it is,   *)
(* as long as slices are out of reach of the near hooks where the layout   *)
(* lists their pages.  Where they are not, the run memory_slices shows a   *)
(* cave in a page that a slice is taken from later.                        *)
(***************************************************************************)
THEOREM TrampolinesStayIntact ==
  ASSUME ZerosUnused
  PROVE  Spec /\ []SlicesFar => []TrampolinesIntact
<1>1. Init => IntactInv
  BY IntactInvInit
<1>2. SlicesFar /\ IntactInv /\ [Next]_vars => IntactInv'
  BY IntactInvStep
<1>3. IntactInv => TrampolinesIntact
  BY DEF IntactInv, PatchesInv, Intact, TrampolinesIntact
<1>4. QED
  BY <1>1, <1>2, <1>3, PTL DEF Spec

(***************************************************************************)
(* On Linux that is all that is needed of the slices.                      *)
(***************************************************************************)
THEOREM LinuxTrampolinesIntact ==
  ASSUME ZerosUnused, Backends = {"linux"}
  PROVE  Spec => []TrampolinesIntact
  BY LinuxSlicesFar, TrampolinesStayIntact, PTL

(* ------------------------------------------------------------------------ *)
(* The program                                                                     *)

\* What may be patched
Patchable(a) == stored[a] = Zero \/ \E h \in DOMAIN Hooks : a \in TargetWords(h)

ProgramInv ==
  /\ DOMAIN stored = Address
  /\ \A p \in 0..Pages - 1 : InitialProt(p) = "rw" => prot[p] = "rw"
  /\ \A a \in Address : stored[a] # InitialMem(a) => a \in StoreAddresses
  /\ \A a \in Address :
       mem[a] # stored[a] => a \in PatchedWords \cup BeingPatched /\ Patchable(a)
  /\ patch # NULL => InitialProt(DestPage) # "rw" /\ \A a \in WordsAt(patch) : Patchable(a)
  /\ fault # "store"

LEMMA ProgramInvInit == Init => ProgramInv
<1> SUFFICES ASSUME Init PROVE ProgramInv
  OBVIOUS
<1>1. /\ mem = [a \in Address |-> InitialMem(a)] /\ stored = mem
      /\ prot = [p \in 0..Pages - 1 |-> InitialProt(p)]
      /\ patch = NULL /\ fault = NULL
  BY DEF Init
<1>2. NULL # "store"
  BY NullAssumption
<1>3. QED
  BY <1>1, <1>2 DEF ProgramInv

\* Words that are zero at first and that the program does not write to
LEMMA ZeroStays ==
  ASSUME ProgramInv, ZerosUnused, NEW a \in Address, InitialMem(a) = Zero
  PROVE  stored[a] = Zero
  BY DEF ProgramInv, ZerosUnused

LEMMA StartProgram ==
  ASSUME ProgramInv, PatchesInv', ExecInv', patch = NULL,
         UNCHANGED <<mem, stored, written>>, fault' # "store",
         \A p \in 0..Pages - 1 : InitialProt(p) = "rw" => prot'[p] = "rw",
         InitialProt(PageOf(patch'.dest)) # "rw",
         \A a \in Address : a \in WordsAt(patch') => Patchable(a)
  PROVE  ProgramInv'
<1>1. patch' # NULL => \A a \in WordsAt(patch') : Patchable(a)'
  <2>1. SUFFICES ASSUME patch' # NULL PROVE \A a \in WordsAt(patch') : Patchable(a)'
    OBVIOUS
  <2>2. PICK p \in 0..Pages - 1 : p = PageOf(patch'.dest)
    BY <2>1, PageInSpace DEF ExecInv
  <2>3. WordsAt(patch') \subseteq AddressesOf(p)
    BY <2>1, <2>2 DEF PatchesInv, Apart, WordsAt
  <2>4. WordsAt(patch') \subseteq Address
    BY <2>3, PageInAddress
  <2>5. QED
    BY <2>4 DEF Patchable
<1>2. \A a \in Address : mem[a] # stored[a] => a \in PatchedWords /\ Patchable(a)
  BY DEF ProgramInv, BeingPatched
<1>3. \A a \in Address : mem'[a] # stored'[a] => a \in PatchedWords' /\ Patchable(a)'
  BY <1>2 DEF PatchedWords, Patchable
<1>4. WordsAt(patch)' = WordsAt(patch') /\ DestPage' = PageOf(patch'.dest)
  BY DEF WordsAt, DestPage
<1>5. QED
  BY <1>1, <1>3, <1>4 DEF ProgramInv

\* A slice is in a page that is not mapped at first
LEMMA SlicePlace ==
  ASSUME ExecInv, TypeInv, PagesInv, allocate_code_slice
  PROVE  \E p \in 0..Pages - 1 : InitialProt(p) = "none" /\ patch'.dest \in AddressesOf(p)
<1> DEFINE fmbs == free_memory_blocks
<1>1. PICK size : size = todo[1].size
  OBVIOUS
<1>2. size \in Nat /\ PageSize \in Nat \ {0}
  <2>1. todo # << >> /\ todo \in Seq(SizedPart)
    BY DEF allocate_code_slice, NeedsSlice, NextPart, TypeInv
  <2>2. todo[1] \in SizedPart
    BY <2>1, ElementOfSeq
  <2>3. QED
    BY <1>1, <2>2, SpaceIs DEF SizedPart
<1>3. CASE SliceFromBlock(size)
  <2>1. PICK i \in DOMAIN fmbs :
          /\ HasRoom(fmbs[i], size)
          /\ StartPatch(todo[1], fmbs[i].address + fmbs[i].used_size)
    BY <1>3 DEF SliceFromBlock
  <2>2. PICK p \in 0..Pages - 1 : fmbs[i].address = p * PageSize /\ PageOf(fmbs[i].address) = p
    BY BlockAddress
  <2>3. PICK block \in UsedBlock : block = fmbs[i]
    <3>1. free_memory_blocks \in Seq(UsedBlock)
      BY UsedBlocks DEF TypeInv, TypeOK
    <3>2. QED
      BY <3>1, ElementOfSeq
  <2>4. PICK used : used = block.used_size
    OBVIOUS
  <2>5. used \in Nat /\ used < PageSize
    <3>1. block.total_size = PageSize /\ block.used_size \in 1..block.total_size
      BY DEF UsedBlock, FreeMemoryBlock
    <3>2. HasRoom(block, size)
      BY <2>1, <2>3
    <3>3. QED
      BY <1>2, <2>4, <3>1, <3>2 DEF HasRoom
  <2>6. p * PageSize + used \in AddressesOf(p)
    <3>1. p * PageSize \in Int /\ (p + 1) * PageSize = p * PageSize + PageSize
      BY <1>2
    <3>2. QED
      BY <1>2, <2>5, <3>1 DEF AddressesOf
  <2>7. patch'.dest = p * PageSize + used
    BY <2>1, <2>2, <2>3, <2>4 DEF StartPatch
  <2>8. QED
    BY <2>2, <2>6, <2>7 DEF PagesInv
<1>4. CASE SliceFromNewPage(size)
  <2>1. PICK p \in 0..Pages - 1 : prot[p] = "none" /\ StartPatch(todo[1], p * PageSize)
    BY <1>4 DEF SliceFromNewPage
  <2>2. patch'.dest = p * PageSize
    BY <2>1 DEF StartPatch
  <2>3. QED
    BY <2>1, <2>2, PageStart DEF PagesInv
<1>5. QED
  BY <1>1, <1>3, <1>4 DEF allocate_code_slice

LEMMA SliceProgram ==
  ASSUME ZerosUnused, ExecInv, TypeInv, PagesInv, ProgramInv, ExecInv', PatchesInv',
         allocate_code_slice
  PROVE  ProgramInv'
<1>1. patch = NULL /\ UNCHANGED <<mem, stored, fault, written>>
  BY DEF allocate_code_slice, NeedsSlice, NextPart, Ready, SliceFromBlock, SliceFromNewPage,
    StartPatch
<1>2. \A p \in 0..Pages - 1 : InitialProt(p) = "rw" => prot'[p] = "rw"
  <2>1. ASSUME NEW p \in 0..Pages - 1, prot[p] = "none", prot' = [prot EXCEPT ![p] = "rx"]
        PROVE  \A q \in 0..Pages - 1 : InitialProt(q) = "rw" => prot'[q] = "rw"
    BY <2>1 DEF ProgramInv
  <2>2. CASE prot' = prot
    BY <2>2 DEF ProgramInv
  <2>3. \/ prot' = prot
        \/ \E p \in 0..Pages - 1 : prot[p] = "none" /\ prot' = [prot EXCEPT ![p] = "rx"]
    BY DEF allocate_code_slice, SliceFromBlock, SliceFromNewPage, allocate_page
  <2>4. QED
    BY <2>1, <2>2, <2>3
<1>3. PICK p \in 0..Pages - 1 : InitialProt(p) = "none" /\ patch'.dest \in AddressesOf(p)
  BY SlicePlace
<1>4. PageOf(patch'.dest) = p
  BY <1>3, PageIs
<1>5. patch' # NULL => WordsAt(patch') \subseteq AddressesOf(p)
  BY <1>4 DEF PatchesInv, Apart, WordsAt
<1>6. CASE patch' = NULL
  BY <1>1, <1>2, <1>6 DEF ProgramInv, BeingPatched, PatchedWords, Patchable
<1>7. CASE patch' # NULL
  <2>1. ASSUME NEW a \in Address, a \in WordsAt(patch') PROVE Patchable(a)
    <3>1. PageOf(a) = p
      BY <1>5, <1>7, <2>1, PageIs
    <3>2. InitialMem(a) = Zero
      BY <1>3, <3>1 DEF InitialMem
    <3>3. QED
      BY <3>2, ZeroStays DEF Patchable
  <2>2. fault' # "store" /\ InitialProt(PageOf(patch'.dest)) # "rw"
    BY <1>1, <1>3, <1>4 DEF ProgramInv
  <2>3. QED
    BY <1>1, <1>2, <2>1, <2>2, StartProgram
<1>8. QED
  BY <1>6, <1>7

LEMMA CaveProgram ==
  ASSUME ZerosUnused, DataApart, SlicesFar, ExecInv, TypeInv, PagesInv, TodoInv, PatchesInv,
         ProgramInv, ExecInv', PatchesInv', UNCHANGED <<mem, prot, stored, fault>>,
         NextPart("transfer"), Hooks[hook].near,
         NEW mb \in MemoryBlock, Listed(mb), NEW reads_on,
         NEW found \in StopsAt(mb, Hooks[hook].target, reads_on), Readable(found),
         StartPatch(todo[1], found)
  PROVE  ProgramInv'
<1>1. found \in Address /\ found \in Int
  BY SpaceIs DEF Readable, Address
<1>2. \A i \in 0..3 : found + i \in Address => stored[found + i] = Zero
  <2>1. \A i \in 0..3 : found + i \in Address /\ mem[found + i] = Zero
    BY <1>1, SpaceIs DEF StopsAt, Unused, Readable, Mapped, TransferSize
  <2>2. \A i \in 0..3 : found + i \in Address /\ InitialMem(found + i) = Zero
    BY <2>1 DEF PatchesInv
  <2>3. QED
    BY <2>2, ZeroStays
<1>3. InitialProt(PageOf(found)) # "rw"
  <2>1. SUFFICES ASSUME InitialProt(PageOf(found)) = "rw" PROVE FALSE
    OBVIOUS
  <2>2. PICK i \in DOMAIN Regions : /\ Regions[i].path \/ "darwin" \in Backends
                                    /\ PageOf(found) \in PagesOf(Regions[i])
    <3>1. hook \in DOMAIN Hooks /\ Hooks[hook].target \in Address
      BY PartsTyped DEF NextPart, Ready, ExecInv
    <3>2. backend = "linux" => FilePage(PageOf(found))
      BY <1>1, <3>1, CavePage
    <3>3. \E i \in DOMAIN Regions : PageOf(found) \in PagesOf(Regions[i])
      BY <2>1 DEF InitialProt
    <3>4. backend = "linux" \/ "darwin" \in Backends
      BY DEF TypeInv, PagesInv
    <3>5. QED
      BY <3>2, <3>3, <3>4 DEF FilePage
  <2>3. found \notin Zeros
    BY <1>1, <2>1, <2>2, AddressInPage DEF DataApart
  <2>4. InitialMem(found) # Zero
    BY <2>1, <2>3 DEF InitialMem, Zero, Data, Code
  <2>5. mem[found] # Zero
    BY <1>1, <2>4 DEF PatchesInv
  <2>6. mem[found + 0] = Zero
    BY <1>1, SpaceIs DEF StopsAt, Unused, Readable, Mapped, TransferSize
  <2>7. QED
    BY <1>1, <2>5, <2>6
<1>4. /\ patch = NULL /\ written' = written /\ fault' # "store"
      /\ patch'.dest = found /\ patch'.words = Words(hook, todo[1].kind, todo[1].size)
  BY DEF NextPart, Ready, StartPatch, ProgramInv
<1>5. WordsAt(patch') = found..found + 3
  <2>1. todo # << >> /\ todo \in Seq(SizedPart)
    BY DEF NextPart, TypeInv
  <2>2. 1 \in DOMAIN todo
    BY <2>1, TailIs
  <2>3. todo[1].size = 4
    BY <2>2 DEF TodoInv, NextPart, TransferSize
  <2>4. Len(patch'.words) = 4
    BY <1>4, <2>3 DEF Words
  <2>5. QED
    BY <1>1, <1>4, <2>4 DEF WordsAt
<1>6. ASSUME NEW a \in Address, a \in WordsAt(patch') PROVE Patchable(a)
  <2>1. a - found \in 0..3 /\ found + (a - found) = a
    BY <1>1, <1>5, <1>6
  <2>2. QED
    BY <1>2, <1>6, <2>1 DEF Patchable
<1>7. \A p \in 0..Pages - 1 : InitialProt(p) = "rw" => prot'[p] = "rw"
  BY DEF ProgramInv
<1>8. QED
  BY <1>3, <1>4, <1>6, <1>7, StartProgram

LEMMA ActiveProgram ==
  ASSUME DataApart, ExecInv, TypeInv, TodoInv, ProgramInv, ExecInv', PatchesInv', active
  PROVE  ProgramInv'
<1>1. /\ patch = NULL /\ hook \in DOMAIN Hooks /\ todo # << >> /\ todo[1].kind = "patch"
      /\ UNCHANGED <<mem, prot, stored, fault, written>>
      /\ patch'.dest = Hooks[hook].target
      /\ patch'.words = Words(hook, todo[1].kind, todo[1].size)
  BY DEF active, NextPart, Ready, StartPatch, ExecInv
<1>2. todo[1].size = PatchSize(Hooks[hook].near)
  <2>1. todo \in Seq(SizedPart)
    BY DEF TypeInv
  <2>2. 1 \in DOMAIN todo
    BY <1>1, <2>1, TailIs
  <2>3. QED
    BY <1>1, <2>2 DEF TodoInv
<1>3. WordsAt(patch') = TargetWords(hook)
  <2>1. Len(patch'.words) = PatchSize(Hooks[hook].near)
    BY <1>1, <1>2 DEF Words, PatchSize
  <2>2. QED
    BY <1>1, <2>1 DEF WordsAt, TargetWords
<1>4. \A a \in Address : a \in WordsAt(patch') => Patchable(a)
  BY <1>1, <1>3 DEF Patchable
<1>5. InitialProt(PageOf(patch'.dest)) # "rw"
  BY <1>1 DEF DataApart
<1>6. /\ \A p \in 0..Pages - 1 : InitialProt(p) = "rw" => prot'[p] = "rw"
      /\ fault' # "store"
  BY <1>1 DEF ProgramInv
<1>7. QED
  BY <1>1, <1>4, <1>5, <1>6, StartProgram

\* The page that is copied back
LEMMA CopiedProgram ==
  ASSUME DataApart, PatchesInv, ProgramInv, patch # NULL, step # "copy", mem' = CopiedBack,
         UNCHANGED stored, NEW a \in Address, mem'[a] # stored'[a]
  PROVE  a \in PatchedWords \cup BeingPatched /\ Patchable(a)
<1>1. CASE PageOf(a) # DestPage
  <2>1. mem'[a] = mem[a]
    BY <1>1 DEF CopiedBack
  <2>2. QED
    BY <2>1 DEF ProgramInv
<1>2. CASE PageOf(a) = DestPage /\ a \in WordsAt(patch)
  BY <1>2 DEF ProgramInv, BeingPatched, WordsAt
<1>3. CASE PageOf(a) = DestPage /\ a \notin WordsAt(patch)
  <2>1. a \notin StoreAddresses
    BY <1>3 DEF DataApart, ProgramInv
  <2>2. a \in AddressesOf(DestPage)
    BY <1>3, AddressInPage
  <2>3. copy_page[a] = mem[a]
    BY <1>3, <2>1, <2>2 DEF PatchesInv, CopyInv
  <2>4. mem'[a] = mem[a]
    BY <1>3, <2>3 DEF CopiedBack
  <2>5. QED
    BY <2>4 DEF ProgramInv
<1>4. QED
  BY <1>1, <1>2, <1>3

LEMMA WriteProgram ==
  ASSUME DataApart, ExecInv, WrittenInv, PatchesInv, ProgramInv, WritePage
  PROVE  ProgramInv'
<1>1. /\ patch # NULL /\ step = "write" /\ mem' = CopiedBack
      /\ UNCHANGED <<prot, stored, written, patch, fault>>
  BY DEF WritePage, Patching, managerVars, hookVars
<1>2. ASSUME NEW a \in Address, mem'[a] # stored'[a]
      PROVE  a \in PatchedWords \cup BeingPatched /\ Patchable(a)
  BY <1>1, <1>2, CopiedProgram
<1>3. /\ PatchedWords' = PatchedWords /\ BeingPatched' = BeingPatched /\ DestPage' = DestPage
      /\ WordsAt(patch)' = WordsAt(patch) /\ \A a : Patchable(a)' = Patchable(a)
  BY <1>1 DEF PatchedWords, BeingPatched, DestPage, WordsAt, Patchable
<1>4. QED
  BY <1>1, <1>2, <1>3 DEF ProgramInv

LEMMA ProtectProgram ==
  ASSUME ExecInv, WrittenInv, ProgramInv, ProtectPage
  PROVE  ProgramInv'
<1>1. /\ patch # NULL /\ patch' = NULL /\ written' = written \cup {patch}
      /\ prot' = [prot EXCEPT ![DestPage] = "rx"]
      /\ UNCHANGED <<mem, stored, fault>>
  BY DEF ProtectPage, Patching, PatchDone, managerVars
<1>2. PatchedWords' = PatchedWords \cup BeingPatched
  BY <1>1 DEF PatchedWords, BeingPatched
<1>3. \A p \in 0..Pages - 1 : InitialProt(p) = "rw" => prot'[p] = "rw"
  BY <1>1 DEF ProgramInv
<1>4. \A a : Patchable(a)' = Patchable(a)
  BY <1>1 DEF Patchable
<1>5. QED
  BY <1>1, <1>2, <1>3, <1>4 DEF ProgramInv

LEMMA RemapProgram ==
  ASSUME DataApart, ExecInv, WrittenInv, PatchesInv, ProgramInv, RemapPage
  PROVE  ProgramInv'
<1>1. /\ patch # NULL /\ step = "remap" /\ mem' = CopiedBack /\ patch' = NULL
      /\ written' = written \cup {patch} /\ prot' = [prot EXCEPT ![DestPage] = "rx"]
      /\ UNCHANGED <<stored, fault>>
  BY DEF RemapPage, Patching, PatchDone
<1>2. ASSUME NEW a \in Address, mem'[a] # stored'[a]
      PROVE  a \in PatchedWords \cup BeingPatched /\ Patchable(a)
  BY <1>1, <1>2, CopiedProgram
<1>3. PatchedWords' = PatchedWords \cup BeingPatched
  BY <1>1 DEF PatchedWords, BeingPatched
<1>4. \A p \in 0..Pages - 1 : InitialProt(p) = "rw" => prot'[p] = "rw"
  BY <1>1 DEF ProgramInv
<1>5. \A a : Patchable(a)' = Patchable(a)
  BY <1>1 DEF Patchable
<1>6. QED
  BY <1>1, <1>2, <1>3, <1>4, <1>5 DEF ProgramInv

LEMMA StoreProgram ==
  ASSUME DataApart, TypeInv, WrittenInv, PatchesInv, ProgramInv,
         NEW a \in StoreAddresses, NEW v \in 1..2, Store(a, v)
  PROVE  ProgramInv'
<1>1. a \in Address /\ PageOf(a) \in 0..Pages - 1
  BY MemoryAssumption, PageInSpace
<1>2. prot[PageOf(a)] = "rw"
  BY <1>1 DEF DataApart, ProgramInv
<1>3. /\ mem' = [mem EXCEPT ![a] = Data(v)] /\ stored' = [stored EXCEPT ![a] = Data(v)]
      /\ UNCHANGED <<prot, fault, written, patch>>
  BY <1>2 DEF Store, patchVars
<1>4. /\ DOMAIN mem = Address /\ DOMAIN stored = Address
  BY DEF TypeInv, TypeOK, ProgramInv
<1>5. /\ mem'[a] = stored'[a] /\ DOMAIN stored' = Address
      /\ \A b \in Address : b # a => mem'[b] = mem[b] /\ stored'[b] = stored[b]
  BY <1>1, <1>3, <1>4
<1>6. /\ PatchedWords' = PatchedWords /\ BeingPatched' = BeingPatched /\ DestPage' = DestPage
      /\ WordsAt(patch)' = WordsAt(patch)
  BY <1>3 DEF PatchedWords, BeingPatched, DestPage, WordsAt
<1>7. \A b \in Address : b # a /\ Patchable(b) => Patchable(b)'
  BY <1>5 DEF Patchable
<1>8. patch # NULL => \A b \in WordsAt(patch) : b \in Address /\ b # a
  <2>1. patch # NULL => DestPage \in 0..Pages - 1
    BY PageInSpace DEF WrittenInv, DestPage
  <2>2. patch # NULL => WordsAt(patch) \subseteq AddressesOf(DestPage)
    BY DEF PatchesInv, Apart, DestPage
  <2>3. patch # NULL => a \notin WordsAt(patch)
    BY DEF PatchesInv, Apart
  <2>4. QED
    BY <2>1, <2>2, <2>3, PageInAddress
<1>9. \A b \in Address :
        mem'[b] # stored'[b] => b \in PatchedWords \cup BeingPatched /\ Patchable(b)'
  BY <1>5, <1>7 DEF ProgramInv
<1>10. \A b \in Address : stored'[b] # InitialMem(b) => b \in StoreAddresses
  BY <1>5 DEF ProgramInv
<1>11. QED
  BY <1>3, <1>5, <1>6, <1>7, <1>8, <1>9, <1>10 DEF ProgramInv

LEMMA ProgramInvStep ==
  ASSUME ZerosUnused, DataApart, SlicesFar, IntactInv, IntactInv', ProgramInv, [Next]_vars
  PROVE  ProgramInv'
<1> USE DEF IntactInv
<1>1. ASSUME UNCHANGED <<mem, stored, written, patch>>, fault' # "store",
             prot' = prot \/ (patch # NULL /\ prot' = [prot EXCEPT ![DestPage] = "rwx"])
      PROVE  ProgramInv'
  <2>1. /\ PatchedWords' = PatchedWords /\ BeingPatched' = BeingPatched /\ DestPage' = DestPage
        /\ WordsAt(patch)' = WordsAt(patch) /\ \A a : Patchable(a)' = Patchable(a)
    BY <1>1 DEF PatchedWords, BeingPatched, DestPage, WordsAt, Patchable
  <2>2. \A p \in 0..Pages - 1 : InitialProt(p) = "rw" => prot'[p] = "rw"
    <3>1. CASE prot' = prot
      BY <3>1 DEF ProgramInv
    <3>2. CASE patch # NULL /\ prot' = [prot EXCEPT ![DestPage] = "rwx"]
      <4>1. PICK d : d = DestPage
        OBVIOUS
      <4>2. InitialProt(d) # "rw"
        BY <3>2, <4>1 DEF ProgramInv
      <4>3. QED
        BY <3>2, <4>1, <4>2 DEF ProgramInv
    <3>3. QED
      BY <1>1, <3>1, <3>2
  <2>3. QED
    BY <1>1, <2>1, <2>2 DEF ProgramInv
<1>2. ASSUME NEW h \in pending, BeginHook(h) PROVE ProgramInv'
  BY <1>1, <1>2 DEF BeginHook, patchVars, ProgramInv
<1>3. CASE allocate_code_slice
  BY <1>3, SliceProgram
<1>4. CASE search_code_cave
  <2>1. NextPart("transfer") /\ Hooks[hook].near /\ UNCHANGED <<mem, prot, stored>>
    BY <1>4 DEF search_code_cave
  <2>2. \A mb \in process_memory_layout' : mb \in MemoryBlock /\ Listed(mb)
    BY <1>4, LayoutListed DEF search_code_cave, PagesInv, TypeInv, TypeOK
  <2>3. ASSUME NEW what \in {"no cave", "assert", "unmapped"}, SearchFails(what) PROVE ProgramInv'
    BY <1>1, <2>1, <2>3 DEF SearchFails, patchVars
  <2>4. ASSUME NEW mb \in MemoryBlock, Listed(mb), NEW reads_on,
               SearchIn(mb, Hooks[hook].target, reads_on)
        PROVE  ProgramInv'
    <3>1. CASE \E found \in StopsAt(mb, Hooks[hook].target, reads_on) :
                 Readable(found) /\ StartPatch(todo[1], found) /\ UNCHANGED fault
      BY <2>1, <2>4, <3>1, CaveProgram
    <3>2. QED
      BY <2>3, <2>4, <3>1 DEF SearchIn
  <2>5. QED
    BY <1>4, <2>2, <2>3, <2>4 DEF search_code_cave
<1>5. CASE active
  BY <1>5, ActiveProgram
<1>6. CASE CopyPage
  <2>1. fault' \in {NULL, "overrun"} /\ UNCHANGED <<mem, stored, prot, written, patch>>
    BY <1>6 DEF CopyPage, managerVars, hookVars
  <2>2. fault' # "store"
    BY <2>1, NullAssumption
  <2>3. QED
    BY <1>1, <2>1, <2>2
<1>7. CASE UnprotectPage
  BY <1>1, <1>7 DEF UnprotectPage, Patching, managerVars, hookVars, ProgramInv
<1>8. CASE WritePage
  BY <1>8, WriteProgram
<1>9. CASE ProtectPage
  BY <1>9, ProtectProgram
<1>10. CASE RemapPage
  BY <1>10, RemapProgram
<1>11. ASSUME NEW a \in StoreAddresses, NEW v \in 1..2, Store(a, v) PROVE ProgramInv'
  BY <1>11, StoreProgram
<1>12. CASE UNCHANGED vars
  BY <1>1, <1>12 DEF vars, patchVars, ProgramInv
<1>13. QED
  BY <1>2, <1>3, <1>4, <1>5, <1>6, <1>7, <1>8, <1>9, <1>10, <1>11, <1>12 DEF Next

(***************************************************************************)
(* On either platform, where what the program uses is not zero and its     *)
(* data is apart from its code, and on Darwin the slices from the near     *)
(* hooks: a word that is not as the program left it is one of a patch, and *)
(* it was zero or belongs to a target; so no store is undone by the page   *)
(* that patch_code puts back, and none faults.                             *)
(***************************************************************************)
THEOREM ProgramStaysIntact ==
  ASSUME ZerosUnused, DataApart
  PROVE  Spec /\ []SlicesFar => []ProgramIntact
<1>1. Init => IntactInv /\ ProgramInv
  BY IntactInvInit, ProgramInvInit
<1>2. SlicesFar /\ IntactInv /\ ProgramInv /\ [Next]_vars => IntactInv' /\ ProgramInv'
  BY IntactInvStep, ProgramInvStep
<1>3. IntactInv /\ ProgramInv => ProgramIntact
  <2>1. SUFFICES ASSUME ProgramInv PROVE ProgramIntact
    OBVIOUS
  <2>2. QED
    BY <2>1 DEF ProgramInv, Patchable, ProgramIntact
<1>4. QED
  BY <1>1, <1>2, <1>3, PTL DEF Spec

(***************************************************************************)
(* On Linux, wherever the slices are.                                      *)
(***************************************************************************)
THEOREM LinuxProgramIntact ==
  ASSUME ZerosUnused, DataApart, Backends = {"linux"}
  PROVE  Spec => []ProgramIntact
  BY LinuxSlicesFar, ProgramStaysIntact, PTL
====

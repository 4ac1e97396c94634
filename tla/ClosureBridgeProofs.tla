---- MODULE ClosureBridgeProofs ----
(***************************************************************************)
(* Theorems of ClosureBridge, for every number of closures and of slots in *)
(* a table, and every set of threads.                                      *)
(***************************************************************************)
EXTENDS ClosureBridge, SequenceTheorems, FiniteSetTheorems, FunctionTheorems, TLAPS

Table == ClosureBridgeTrampolineTable
tables == trampoline_tables
USE DEF Table, tables

(* ------------------------------------------------------------------------ *)
(* Tables, slots and the closure being bound                                   *)

\* All tables but the last are full, and a table's two counts are about the same slots
TablesOK ==
  /\ tables \in Seq(Table)
  /\ Len(tables) <= Len(bridge_infos) + (IF binding = NULL THEN 0 ELSE 1)
  /\ \A i \in 1..Len(tables) :
       /\ tables[i].used_count + tables[i].free_count = SlotsPerTable
       /\ i < Len(tables) => tables[i].free_count = 0

\* A closure that was handed out has its own slot, which is bound to it
InfosOK ==
  /\ bridge_infos \in Seq(ClosureBridgeInfo)
  /\ Len(bridge_infos) <= Closures
  /\ \A c \in 1..Len(bridge_infos) :
       LET info == bridge_infos[c]
       IN  /\ info.table \in 1..Len(tables)
           /\ info.slot < tables[info.table].used_count
           /\ tables[info.table].slots[info.slot] = [data |-> c, code |-> "bridge"]

\* The closure being bound has the slot that was counted last
BindingOK ==
  binding # NULL =>
    /\ Len(bridge_infos) < Closures
    /\ binding.info = Len(bridge_infos) + 1
    /\ binding.table \in 1..Len(tables)
    /\ binding.slot \in 0..SlotsPerTable - 1
    /\ tables[binding.table].used_count = binding.slot + 1
    /\ \A c \in 1..Len(bridge_infos) :
         ~(bridge_infos[c].table = binding.table /\ bridge_infos[c].slot = binding.slot)
    /\ step \in {"unprotect", "data", "code", "protect"}
    /\ step \in {"code", "protect"} =>
         tables[binding.table].slots[binding.slot].data = binding.info
    /\ step = "protect" => tables[binding.table].slots[binding.slot].code = "bridge"

\* What is not executable is so because of the closure being bound
ProtOK ==
  /\ step \in {"unprotect", "data", "code", "protect", "done"}
  /\ \A i \in 1..Len(tables) :
       tables[i].prot # "rx" => binding # NULL /\ binding.table = i

\* Every slot that was counted was handed out, or is being bound
TakenOK ==
  \A i \in 1..Len(tables) : \A s \in 0..tables[i].used_count - 1 :
    \/ \E c \in 1..Len(bridge_infos) : bridge_infos[c].table = i /\ bridge_infos[c].slot = s
    \/ binding # NULL /\ binding.table = i /\ binding.slot = s

BindingInv == TablesOK /\ InfosOK /\ BindingOK /\ ProtOK /\ TakenOK

\* A field of a table, or of one of its slots, changes: the others are as they were
LEMMA ChangeTable ==
  ASSUME TablesOK, NEW i \in 1..Len(tables), NEW new \in Table,
         tables' = [tables EXCEPT ![i] = new]
  PROVE  /\ tables' \in Seq(Table) /\ Len(tables') = Len(tables)
         /\ \A j \in 1..Len(tables) : tables'[j] = IF j = i THEN new ELSE tables[j]
  BY ExceptSeq DEF TablesOK

LEMMA InfoCount ==
  ASSUME InfosOK
  PROVE  Len(bridge_infos) \in Nat /\ DOMAIN bridge_infos = 1..Len(bridge_infos)
  BY LenProperties DEF InfosOK

LEMMA TableCount ==
  ASSUME TablesOK
  PROVE  /\ Len(tables) \in Nat /\ DOMAIN tables = 1..Len(tables)
         /\ \A i \in 1..Len(tables) : tables[i] \in Table
  BY LenProperties, ElementOfSeq DEF TablesOK

\* The loop over the tables, which does not stop at the first one, finds the last or none
LEMMA TableForLast ==
  ASSUME NEW ts \in Seq(Table), \A i \in 1..Len(ts) : i < Len(ts) => ts[i].free_count = 0
  PROVE  TableFor(ts) = IF ts # << >> /\ ts[Len(ts)].free_count > 0 THEN Len(ts) ELSE 0
<1> DEFINE free == {i \in DOMAIN ts : ts[i].free_count > 0}
<1>1. /\ Len(ts) \in Nat /\ DOMAIN ts = 1..Len(ts)
      /\ ts # << >> => Len(ts) \in 1..Len(ts)
  BY LenProperties, EmptySeq
<1>2. \A i \in free : i = Len(ts)
  BY <1>1
<1>3. CASE ts # << >> /\ ts[Len(ts)].free_count > 0
  <2>1. free = {Len(ts)}
    BY <1>1, <1>2, <1>3
  <2>2. Max({Len(ts)}) = Len(ts)
    BY <1>1 DEF Max
  <2>3. QED
    BY <1>3, <2>1, <2>2 DEF TableFor
<1>4. CASE ~(ts # << >> /\ ts[Len(ts)].free_count > 0)
  <2>1. free = {}
    <3>1. CASE ts = << >>
      BY <3>1, <1>1, EmptySeq
    <3>2. CASE ts # << >>
      BY <3>2, <1>1, <1>2, <1>4
    <3>3. QED
      BY <3>1, <3>2
  <2>2. QED
    BY <1>4, <2>1 DEF TableFor
<1>5. QED
  BY <1>3, <1>4

(* ------------------------------------------------------------------------ *)
(* The steps that bind a closure                                               *)

LEMMA BindingInvInit == Init => BindingInv
<1> SUFFICES ASSUME Init PROVE BindingInv
  OBVIOUS
<1>1. tables = << >> /\ bridge_infos = << >> /\ binding = NULL /\ step = "done"
  BY DEF Init
<1>2. /\ << >> \in Seq(Table) /\ << >> \in Seq(ClosureBridgeInfo)
      /\ Len(<< >>) = 0
  BY EmptySeq
<1>3. QED
  BY <1>1, <1>2, ClosureAssumption
     DEF BindingInv, TablesOK, InfosOK, BindingOK, ProtOK, TakenOK

\* NewTable is a table, and a slot taken of a table leaves one
LEMMA NewTableType == NewTable \in Table /\ NewTable.free_count = SlotsPerTable
  BY ClosureAssumption DEF NewTable, ClosureBridgeTrampolineTable, Unbound

LEMMA TakeSlotType ==
  ASSUME NEW t \in Table, t.used_count + t.free_count = SlotsPerTable, t.free_count > 0
  PROVE  /\ TakeSlot(t) \in Table
         /\ TakeSlot(t).used_count = t.used_count + 1
         /\ TakeSlot(t).free_count = t.free_count - 1
         /\ TakeSlot(t).slots = t.slots /\ TakeSlot(t).prot = t.prot
<1>1. /\ TakeSlot(t) = [t EXCEPT !.used_count = t.used_count + 1,
                                 !.free_count = t.free_count - 1]
      /\ t.used_count + 1 \in 0..SlotsPerTable /\ t.free_count - 1 \in 0..SlotsPerTable
  BY ClosureAssumption DEF TakeSlot, ClosureBridgeTrampolineTable
<1> DEFINE u == t.used_count + 1
           f == t.free_count - 1
<1>2. u \in 0..SlotsPerTable /\ f \in 0..SlotsPerTable
  BY <1>1
<1> HIDE DEF u, f
<1>3. /\ [t EXCEPT !.used_count = u, !.free_count = f] \in Table
      /\ [t EXCEPT !.used_count = u, !.free_count = f].used_count = u
      /\ [t EXCEPT !.used_count = u, !.free_count = f].free_count = f
      /\ [t EXCEPT !.used_count = u, !.free_count = f].slots = t.slots
      /\ [t EXCEPT !.used_count = u, !.free_count = f].prot = t.prot
  BY <1>2 DEF ClosureBridgeTrampolineTable
<1>4. QED
  BY <1>1, <1>3 DEF u, f

LEMMA AllocateStep ==
  ASSUME BindingInv, AllocateClosureBridge
  PROVE  BindingInv'
<1> DEFINE n == Len(bridge_infos)
           ts == IF TableFor(tables) = 0 THEN Append(tables, NewTable) ELSE tables
           t == TableFor(ts)
<1>1. /\ TablesOK /\ InfosOK /\ ProtOK /\ TakenOK
      /\ binding = NULL /\ n < Closures /\ bridge_infos' = bridge_infos
      /\ step' = "unprotect"
  BY DEF AllocateClosureBridge, BindingInv
<1>2. /\ binding' = [info |-> n + 1, table |-> t, slot |-> SlotOf(ts[t])]
      /\ tables' = [ts EXCEPT ![t] = TakeSlot(ts[t])]
  BY DEF AllocateClosureBridge
<1>3. n \in Nat /\ Len(tables) \in Nat
  BY <1>1, InfoCount, TableCount
<1>4. \* The table that is taken is the last one, which has room
      /\ ts \in Seq(Table) /\ Len(ts) \in Nat /\ ts # << >> /\ t = Len(ts)
      /\ Len(tables) <= Len(ts) /\ Len(ts) <= n + 1
      /\ \A i \in 1..Len(tables) : ts[i] = tables[i]
      /\ ts[t].free_count > 0
      /\ Len(ts) > Len(tables) => Len(ts) = Len(tables) + 1 /\ ts[Len(ts)] = NewTable
      /\ \A i \in 1..Len(ts) :
           /\ ts[i].used_count + ts[i].free_count = SlotsPerTable
           /\ i < Len(ts) => ts[i].free_count = 0
  <2>1. TableFor(tables) =
          IF tables # << >> /\ tables[Len(tables)].free_count > 0 THEN Len(tables) ELSE 0
    BY <1>1, TableForLast DEF TablesOK
  <2>2. tables # << >> => Len(tables) \in 1..Len(tables)
    BY <1>1, EmptySeq DEF TablesOK
  <2>3. Len(tables) <= n
    BY <1>1 DEF TablesOK
  <2>4. CASE tables # << >> /\ tables[Len(tables)].free_count > 0
    <3>1. ts = tables /\ t = Len(ts)
      BY <1>3, <2>1, <2>2, <2>4
    <3>2. QED
      BY <1>1, <1>3, <2>2, <2>3, <2>4, <3>1 DEF TablesOK
  <2>5. CASE ~(tables # << >> /\ tables[Len(tables)].free_count > 0)
    <3>1. ts = Append(tables, NewTable)
      BY <2>1, <2>5
    <3>2. /\ ts \in Seq(Table) /\ Len(ts) = Len(tables) + 1 /\ ts # << >>
          /\ \A i \in 1..Len(tables) : ts[i] = tables[i]
          /\ ts[Len(ts)] = NewTable
      BY <1>1, <1>3, <3>1, NewTableType DEF TablesOK
    <3>3. \A i \in 1..Len(ts) :
            /\ ts[i].used_count + ts[i].free_count = SlotsPerTable
            /\ i < Len(ts) => ts[i].free_count = 0
      <4>1. TAKE i \in 1..Len(ts)
      <4>2. CASE i = Len(ts)
        BY <4>2, <3>2, ClosureAssumption DEF NewTable
      <4>3. CASE i # Len(ts)
        <5>1. i \in 1..Len(tables) /\ ts[i] = tables[i]
          BY <1>3, <3>2, <4>3
        <5>2. i < Len(tables) => tables[i].free_count = 0
          BY <5>1, <1>1 DEF TablesOK
        <5>3. i = Len(tables) => tables[i].free_count = 0
          <6>1. ASSUME i = Len(tables) PROVE ~(tables[i].free_count > 0)
            BY <6>1, <5>1, <2>2, <2>5, <1>3, EmptySeq
          <6>2. i = Len(tables) => tables[i].free_count \in Nat
            BY <5>1, <1>1, TableCount DEF ClosureBridgeTrampolineTable
          <6>3. QED
            BY <6>1, <6>2
        <5>4. tables[i].used_count + tables[i].free_count = SlotsPerTable
          BY <5>1, <1>1 DEF TablesOK
        <5>5. QED
          BY <1>3, <5>1, <5>2, <5>3, <5>4
      <4>4. QED
        BY <4>2, <4>3
    <3>4. ts[Len(ts)].free_count > 0
      BY <3>2, NewTableType, ClosureAssumption
    <3>5. t = Len(ts)
      BY <3>2, <3>3, <3>4, TableForLast
    <3>6. QED
      BY <1>3, <2>3, <3>2, <3>3, <3>4, <3>5
  <2>6. QED
    BY <2>4, <2>5
<1> HIDE DEF t, ts
<1>5. t \in 1..Len(ts) /\ ts[t] \in Table
  BY <1>4, EmptySeq, ElementOfSeq
<1>6. /\ TakeSlot(ts[t]) \in Table
      /\ TakeSlot(ts[t]).used_count = ts[t].used_count + 1
      /\ TakeSlot(ts[t]).free_count = ts[t].free_count - 1
      /\ TakeSlot(ts[t]).slots = ts[t].slots /\ TakeSlot(ts[t]).prot = ts[t].prot
  BY <1>4, <1>5, TakeSlotType
<1>7. /\ tables' \in Seq(Table) /\ Len(tables') = Len(ts)
      /\ \A i \in 1..Len(ts) : tables'[i] = IF i = t THEN TakeSlot(ts[t]) ELSE ts[i]
  BY <1>2, <1>4, <1>5, <1>6, ExceptSeq
<1>8. \* Where a table was before, only its counts change
      \A i \in 1..Len(tables) :
           /\ i \in 1..Len(tables')
           /\ tables'[i].slots = tables[i].slots /\ tables'[i].prot = tables[i].prot
           /\ tables'[i].used_count = tables[i].used_count + (IF i = t THEN 1 ELSE 0)
           /\ tables[i] \in Table
  <2>1. TAKE i \in 1..Len(tables)
  <2>2. i \in 1..Len(ts) /\ ts[i] = tables[i] /\ tables[i] \in Table
    BY <1>1, <1>3, <1>4, TableCount
  <2>3. tables[i].used_count \in Nat
    BY <2>2, ClosureAssumption DEF ClosureBridgeTrampolineTable
  <2>4. QED
    BY <1>6, <1>7, <2>2, <2>3
<1>9. \A i \in 1..Len(tables') : i \notin 1..Len(tables) =>
        /\ i = t /\ tables'[i].prot = "rx" /\ ts[i].used_count = 0
  BY <1>3, <1>4, <1>6, <1>7 DEF NewTable
<1>10. ts[t].used_count \in 0..SlotsPerTable - 1 /\ ts[t].free_count \in Nat
  BY <1>4, <1>5, ClosureAssumption DEF ClosureBridgeTrampolineTable
<1>11. binding' # NULL => /\ binding'.info = n + 1 /\ binding'.table = t
                          /\ binding'.slot = ts[t].used_count
  BY <1>2 DEF SlotOf
<1>12. TablesOK'
  <2>1. \A i \in 1..Len(tables') :
          /\ tables'[i].used_count + tables'[i].free_count = SlotsPerTable
          /\ i < Len(tables') => tables'[i].free_count = 0
    <3>1. TAKE i \in 1..Len(tables')
    <3>2. i \in 1..Len(ts) /\ t \in 1..Len(ts) /\ t = Len(ts) /\ ts[i] \in Table
      BY <1>4, <1>5, <1>7, ElementOfSeq
    <3>3. CASE i = t
      <4>1. /\ tables'[i].used_count = ts[t].used_count + 1
            /\ tables'[i].free_count = ts[t].free_count - 1
        BY <1>6, <1>7, <3>2, <3>3
      <4>2. ts[t].used_count + ts[t].free_count = SlotsPerTable /\ ~(i < Len(tables'))
        BY <1>4, <1>7, <3>2, <3>3
      <4>3. QED
        BY <1>10, <4>1, <4>2, ClosureAssumption
    <3>4. CASE i # t
      BY <1>4, <1>7, <3>2, <3>4
    <3>5. QED
      BY <3>3, <3>4
  <2>2. Len(tables') <= Len(bridge_infos') + (IF binding' = NULL THEN 0 ELSE 1)
    <3>1. binding' # NULL
      BY <1>2, <1>3, <1>4, <1>10, ClosureAssumption DEF SlotOf
    <3>2. QED
      BY <1>1, <1>3, <1>4, <1>7, <3>1
  <2>3. QED
    BY <1>7, <2>1, <2>2 DEF TablesOK
<1>13. InfosOK'
  <2>1. ASSUME NEW c \in 1..Len(bridge_infos)
        PROVE  LET info == bridge_infos[c]
               IN  /\ info.table \in 1..Len(tables')
                   /\ info.slot < tables'[info.table].used_count
                   /\ tables'[info.table].slots[info.slot] = [data |-> c, code |-> "bridge"]
    <3>1. bridge_infos[c] \in ClosureBridgeInfo /\ bridge_infos[c].table \in 1..Len(tables)
      BY <1>1, <2>1, ElementOfSeq DEF InfosOK
    <3>2. bridge_infos[c].slot \in Int
      BY <3>1, ClosureAssumption DEF ClosureBridgeInfo
    <3>3. tables[bridge_infos[c].table].used_count \in Nat
      BY <3>1, <1>8, ClosureAssumption DEF ClosureBridgeTrampolineTable
    <3>4. /\ bridge_infos[c].slot < tables[bridge_infos[c].table].used_count
          /\ tables[bridge_infos[c].table].slots[bridge_infos[c].slot] =
               [data |-> c, code |-> "bridge"]
      BY <1>1, <2>1 DEF InfosOK
    <3> DEFINE i == bridge_infos[c].table
               slot == bridge_infos[c].slot
    <3>5. /\ i \in 1..Len(tables) /\ slot \in Int
          /\ tables[i].used_count \in Nat /\ slot < tables[i].used_count
          /\ tables[i].slots[slot] = [data |-> c, code |-> "bridge"]
      BY <3>1, <3>2, <3>3, <3>4
    <3> HIDE DEF i, slot
    <3>6. /\ i \in 1..Len(tables') /\ tables'[i].slots = tables[i].slots
          /\ tables'[i].used_count = tables[i].used_count + (IF i = t THEN 1 ELSE 0)
      BY <1>8, <3>5
    <3>7. slot < tables'[i].used_count
      BY <3>5, <3>6
    <3>8. tables'[i].slots[slot] = [data |-> c, code |-> "bridge"]
      BY <3>5, <3>6
    <3>9. QED
      BY <3>6, <3>7, <3>8 DEF i, slot
  <2>2. QED
    BY <1>1, <2>1 DEF InfosOK
<1>14. BindingOK'
  <2>1. ASSUME NEW c \in 1..Len(bridge_infos), bridge_infos[c].table = t
        PROVE  bridge_infos[c].slot # ts[t].used_count
    <3>1. t \in 1..Len(tables) /\ bridge_infos[c].slot < tables[t].used_count
      BY <1>1, <2>1 DEF InfosOK
    <3>2. ts[t] = tables[t] /\ bridge_infos[c] \in ClosureBridgeInfo
      BY <1>1, <1>4, <2>1, <3>1, ElementOfSeq DEF InfosOK
    <3>3. QED
      BY <3>1, <3>2, <1>10, ClosureAssumption DEF ClosureBridgeInfo
  <2>2. QED
    BY <1>1, <1>5, <1>6, <1>7, <1>10, <1>11, <2>1 DEF BindingOK
<1>15. ProtOK'
  BY <1>1, <1>8, <1>9 DEF ProtOK
<1>16. TakenOK'
  <2>1. ASSUME NEW i \in 1..Len(tables'), NEW s \in 0..tables'[i].used_count - 1
        PROVE  \/ \E c \in 1..Len(bridge_infos) :
                    bridge_infos[c].table = i /\ bridge_infos[c].slot = s
               \/ binding' # NULL /\ binding'.table = i /\ binding'.slot = s
    <3>1. binding' # NULL
      BY <1>2, <1>3, <1>4, <1>10, ClosureAssumption DEF SlotOf
    <3>2. CASE i = t /\ s = ts[t].used_count
      BY <1>11, <3>1, <3>2
    <3>3. CASE ~(i = t /\ s = ts[t].used_count)
      <4>1. i \in 1..Len(ts) /\ s \in 0..ts[i].used_count - 1
        <5>1. CASE i = t
          BY <1>5, <1>6, <1>7, <1>10, <2>1, <3>3, <5>1
        <5>2. CASE i # t
          BY <1>7, <2>1, <5>2
        <5>3. QED
          BY <5>1, <5>2
      <4>2. i \in 1..Len(tables)
        BY <1>7, <1>9, <4>1
      <4>3. ts[i] = tables[i]
        BY <1>4, <4>2
      <4>4. QED
        BY <1>1, <4>1, <4>2, <4>3 DEF TakenOK
    <3>4. QED
      BY <3>2, <3>3
  <2>2. QED
    BY <1>1, <2>1 DEF TakenOK
<1>17. QED
  BY <1>12, <1>13, <1>14, <1>15, <1>16 DEF BindingInv

\* A step of InitializeClosureBridgeInfo: the table of the closure being bound changes,
\* but not its counts
LEMMA SameCounts ==
  ASSUME BindingInv, binding # NULL, NEW new \in Table,
         new.used_count = tables[binding.table].used_count,
         new.free_count = tables[binding.table].free_count,
         tables' = [tables EXCEPT ![binding.table] = new],
         bridge_infos' = bridge_infos, binding' = binding
  PROVE  /\ TablesOK' /\ TakenOK'
         /\ Len(tables') = Len(tables)
         /\ \A i \in 1..Len(tables) :
              tables'[i] = IF i = binding.table THEN new ELSE tables[i]
<1>1. binding.table \in 1..Len(tables) /\ TablesOK
  BY DEF BindingInv, BindingOK
<1>2. /\ tables' \in Seq(Table) /\ Len(tables') = Len(tables)
      /\ \A j \in 1..Len(tables) : tables'[j] = IF j = binding.table THEN new ELSE tables[j]
  BY <1>1, ChangeTable
<1>3. QED
  BY <1>1, <1>2 DEF BindingInv, TablesOK, TakenOK

LEMMA UnprotectStep ==
  ASSUME BindingInv, UnprotectTable
  PROVE  BindingInv'
<1> DEFINE b == binding.table
           new == [tables[b] EXCEPT !.prot = "rw"]
<1>1. /\ binding # NULL /\ b \in 1..Len(tables) /\ step = "unprotect"
      /\ tables[b] \in Table
      /\ bridge_infos' = bridge_infos /\ binding' = binding /\ step' = "data"
  BY TableCount DEF UnprotectTable, Binding, BindingInv, BindingOK
<1>2. /\ new \in Table /\ new.slots = tables[b].slots
      /\ new.used_count = tables[b].used_count /\ new.free_count = tables[b].free_count
  BY <1>1 DEF ClosureBridgeTrampolineTable
<1>3. tables' = [tables EXCEPT ![b] = new]
  BY DEF UnprotectTable
<1> HIDE DEF new
<1>4. /\ TablesOK' /\ TakenOK' /\ Len(tables') = Len(tables)
      /\ \A i \in 1..Len(tables) : tables'[i] = IF i = b THEN new ELSE tables[i]
  BY <1>1, <1>2, <1>3, SameCounts
<1>5. /\ \A i \in 1..Len(tables) : tables'[i].slots = tables[i].slots
      /\ \A i \in 1..Len(tables) : tables'[i].used_count = tables[i].used_count
  BY <1>2, <1>4
<1>6. InfosOK'
  BY <1>1, <1>4, <1>5 DEF BindingInv, InfosOK
<1>7. BindingOK'
  BY <1>1, <1>4, <1>5 DEF BindingInv, BindingOK
<1>8. ProtOK'
  BY <1>1, <1>2, <1>4 DEF BindingInv, ProtOK
<1>9. QED
  BY <1>4, <1>6, <1>7, <1>8 DEF BindingInv

\* A word of the slot is written: the slots of other closures are other ones
LEMMA BindWord ==
  ASSUME BindingInv, binding # NULL, NEW word,
         word \in [data : 1..Closures \cup {NULL}, code : {"bridge", NULL}],
         tables' = [tables EXCEPT ![binding.table].slots[binding.slot] = word],
         bridge_infos' = bridge_infos, binding' = binding
  PROVE  /\ TablesOK' /\ InfosOK' /\ TakenOK'
         /\ Len(tables') = Len(tables)
         /\ tables'[binding.table].slots[binding.slot] = word
         /\ tables'[binding.table].used_count = tables[binding.table].used_count
         /\ \A i \in 1..Len(tables) : tables'[i].prot = tables[i].prot
<1> DEFINE b == binding.table
           new == [tables[b] EXCEPT !.slots = [@ EXCEPT ![binding.slot] = word]]
<1>1. /\ b \in 1..Len(tables) /\ tables[b] \in Table
      /\ binding.slot \in 0..SlotsPerTable - 1 /\ InfosOK
  BY TableCount DEF BindingInv, BindingOK
<1>2. /\ new \in Table
      /\ new.slots = [tables[b].slots EXCEPT ![binding.slot] = word]
      /\ new.used_count = tables[b].used_count /\ new.free_count = tables[b].free_count
      /\ new.prot = tables[b].prot
  BY <1>1 DEF ClosureBridgeTrampolineTable
<1>3. tables' = [tables EXCEPT ![b] = new]
  OBVIOUS
<1>4. tables[b].slots \in [0..SlotsPerTable - 1 ->
                            [data : 1..Closures \cup {NULL}, code : {"bridge", NULL}]]
  BY <1>1 DEF ClosureBridgeTrampolineTable
<1> HIDE DEF new
<1>5. /\ TablesOK' /\ TakenOK' /\ Len(tables') = Len(tables)
      /\ \A i \in 1..Len(tables) : tables'[i] = IF i = b THEN new ELSE tables[i]
  BY <1>1, <1>2, <1>3, SameCounts
<1>6. InfosOK'
  <2>1. ASSUME NEW c \in 1..Len(bridge_infos)
        PROVE  LET info == bridge_infos[c]
               IN  /\ info.table \in 1..Len(tables')
                   /\ info.slot < tables'[info.table].used_count
                   /\ tables'[info.table].slots[info.slot] = [data |-> c, code |-> "bridge"]
    <3>1. /\ bridge_infos[c].table \in 1..Len(tables)
          /\ ~(bridge_infos[c].table = b /\ bridge_infos[c].slot = binding.slot)
          /\ bridge_infos[c] \in ClosureBridgeInfo
      BY <1>1, <2>1, ElementOfSeq DEF InfosOK, BindingInv, BindingOK
    <3>2. bridge_infos[c].slot \in 0..SlotsPerTable - 1
      BY <3>1 DEF ClosureBridgeInfo
    <3>3. QED
      BY <1>1, <1>2, <1>4, <1>5, <2>1, <3>1, <3>2 DEF InfosOK
  <2>2. QED
    BY <1>1, <2>1 DEF InfosOK
<1>7. new.slots[binding.slot] = word
  BY <1>1, <1>2, <1>4
<1>8. QED
  BY <1>1, <1>2, <1>5, <1>6, <1>7

LEMMA BindDataStep ==
  ASSUME BindingInv, BindData
  PROVE  BindingInv'
<1> DEFINE slot == tables[binding.table].slots[binding.slot]
           word == [slot EXCEPT !.data = binding.info]
<1>1. /\ binding # NULL /\ binding.info \in 1..Closures
      /\ bridge_infos' = bridge_infos /\ binding' = binding /\ step' = "code"
  <2>1. Len(bridge_infos) \in Nat
    BY InfoCount DEF BindingInv
  <2>2. QED
    BY <2>1, ClosureAssumption DEF BindData, Binding, BindingInv, BindingOK
<1>2. slot \in [data : 1..Closures \cup {NULL}, code : {"bridge", NULL}]
  BY <1>1, TableCount DEF BindingInv, BindingOK, ClosureBridgeTrampolineTable
<1>3. /\ word \in [data : 1..Closures \cup {NULL}, code : {"bridge", NULL}]
      /\ word.data = binding.info
  BY <1>1, <1>2
<1>4. tables' = [tables EXCEPT ![binding.table].slots[binding.slot] = word]
  BY DEF BindData
<1> HIDE DEF word
<1>5. /\ TablesOK' /\ InfosOK' /\ TakenOK' /\ Len(tables') = Len(tables)
      /\ tables'[binding.table].slots[binding.slot] = word
      /\ tables'[binding.table].used_count = tables[binding.table].used_count
      /\ \A i \in 1..Len(tables) : tables'[i].prot = tables[i].prot
  BY <1>1, <1>3, <1>4, BindWord
<1>6. BindingOK' /\ ProtOK'
  BY <1>1, <1>3, <1>5 DEF BindingInv, BindingOK, ProtOK
<1>7. QED
  BY <1>5, <1>6 DEF BindingInv

LEMMA BindCodeStep ==
  ASSUME BindingInv, BindCode
  PROVE  BindingInv'
<1> DEFINE slot == tables[binding.table].slots[binding.slot]
           word == [slot EXCEPT !.code = "bridge"]
<1>1. /\ binding # NULL /\ step = "code"
      /\ bridge_infos' = bridge_infos /\ binding' = binding /\ step' = "protect"
  BY DEF BindCode, Binding
<1>2. slot \in [data : 1..Closures \cup {NULL}, code : {"bridge", NULL}]
  BY <1>1, TableCount DEF BindingInv, BindingOK, ClosureBridgeTrampolineTable
<1>3. /\ word \in [data : 1..Closures \cup {NULL}, code : {"bridge", NULL}]
      /\ word.data = slot.data /\ word.code = "bridge"
  BY <1>2
<1>4. tables' = [tables EXCEPT ![binding.table].slots[binding.slot] = word]
  BY DEF BindCode
<1>5. slot.data = binding.info
  BY <1>1 DEF BindingInv, BindingOK
<1> HIDE DEF word, slot
<1>6. /\ TablesOK' /\ InfosOK' /\ TakenOK' /\ Len(tables') = Len(tables)
      /\ tables'[binding.table].slots[binding.slot] = word
      /\ tables'[binding.table].used_count = tables[binding.table].used_count
      /\ \A i \in 1..Len(tables) : tables'[i].prot = tables[i].prot
  BY <1>1, <1>3, <1>4, BindWord
<1>7. BindingOK' /\ ProtOK'
  BY <1>1, <1>3, <1>5, <1>6 DEF BindingInv, BindingOK, ProtOK
<1>8. QED
  BY <1>6, <1>7 DEF BindingInv

LEMMA ProtectStep ==
  ASSUME BindingInv, ProtectTable
  PROVE  BindingInv'
<1> DEFINE b == binding.table
           n == Len(bridge_infos)
           new == [tables[b] EXCEPT !.prot = "rx"]
           info == [table |-> b, slot |-> binding.slot]
<1>1. /\ binding # NULL /\ b \in 1..Len(tables) /\ step = "protect"
      /\ tables[b] \in Table /\ binding.slot \in 0..SlotsPerTable - 1
      /\ binding.info = n + 1 /\ n \in Nat /\ n < Closures
      /\ Len(tables) \in Nat /\ Len(tables) <= n + 1
      /\ tables[b].used_count = binding.slot + 1
      /\ tables[b].slots[binding.slot].data = n + 1
      /\ tables[b].slots[binding.slot].code = "bridge"
      /\ bridge_infos' = Append(bridge_infos, info) /\ binding' = NULL /\ step' = "done"
  <2>1. binding # NULL /\ step = "protect"
    BY DEF ProtectTable, Binding
  <2>2. QED
    BY <2>1, TableCount, InfoCount DEF ProtectTable, BindingInv, BindingOK, TablesOK
<1>2. /\ new \in Table /\ new.slots = tables[b].slots /\ new.prot = "rx"
      /\ new.used_count = tables[b].used_count /\ new.free_count = tables[b].free_count
  BY <1>1 DEF ClosureBridgeTrampolineTable
<1>3. tables' = [tables EXCEPT ![b] = new]
  BY DEF ProtectTable
<1> HIDE DEF new
<1>4. /\ tables' \in Seq(Table) /\ Len(tables') = Len(tables)
      /\ \A i \in 1..Len(tables) : tables'[i] = IF i = b THEN new ELSE tables[i]
  BY <1>1, <1>2, <1>3, ChangeTable DEF BindingInv
<1>5. info \in ClosureBridgeInfo /\ info.table = b /\ info.slot = binding.slot
  BY <1>1, ClosureAssumption DEF ClosureBridgeInfo
<1> HIDE DEF info
<1>6. /\ bridge_infos' \in Seq(ClosureBridgeInfo) /\ Len(bridge_infos') = n + 1
      /\ \A c \in 1..n : bridge_infos'[c] = bridge_infos[c]
      /\ bridge_infos'[n + 1] = info
  BY <1>1, <1>5 DEF BindingInv, InfosOK
<1>7. TablesOK'
  BY <1>1, <1>2, <1>4, <1>6 DEF BindingInv, TablesOK
<1>8. InfosOK'
  <2>1. tables[b].slots[binding.slot] = [data |-> n + 1, code |-> "bridge"]
    <3>1. tables[b].slots[binding.slot] \in
            [data : 1..Closures \cup {NULL}, code : {"bridge", NULL}]
      BY <1>1 DEF ClosureBridgeTrampolineTable
    <3>2. QED
      BY <1>1, <3>1
  <2>2. ASSUME NEW c \in 1..n + 1
        PROVE  LET i == bridge_infos'[c]
               IN  /\ i.table \in 1..Len(tables')
                   /\ i.slot < tables'[i.table].used_count
                   /\ tables'[i.table].slots[i.slot] = [data |-> c, code |-> "bridge"]
    <3>1. CASE c = n + 1
      BY <1>1, <1>2, <1>4, <1>5, <1>6, <2>1, <3>1
    <3>2. CASE c # n + 1
      <4>1. c \in 1..n
        BY <1>1, <2>2, <3>2
      <4>2. /\ bridge_infos'[c] = bridge_infos[c]
            /\ bridge_infos[c].table \in 1..Len(tables)
            /\ bridge_infos[c].slot < tables[bridge_infos[c].table].used_count
            /\ tables[bridge_infos[c].table].slots[bridge_infos[c].slot] =
                 [data |-> c, code |-> "bridge"]
        BY <1>6, <4>1 DEF BindingInv, InfosOK
      <4>3. \A i \in 1..Len(tables) : /\ tables'[i].slots = tables[i].slots
                                      /\ tables'[i].used_count = tables[i].used_count
        BY <1>2, <1>4
      <4>4. QED
        BY <1>4, <4>2, <4>3
    <3>3. QED
      BY <3>1, <3>2
  <2>3. Len(bridge_infos') = n + 1 /\ n + 1 <= Closures
    BY <1>1, <1>6, ClosureAssumption
  <2>4. /\ bridge_infos' \in Seq(ClosureBridgeInfo)
        /\ Len(bridge_infos') <= Closures
    BY <1>6, <2>3
  <2>5. \A c \in 1..Len(bridge_infos') :
          LET i == bridge_infos'[c]
          IN  /\ i.table \in 1..Len(tables')
              /\ i.slot < tables'[i.table].used_count
              /\ tables'[i.table].slots[i.slot] = [data |-> c, code |-> "bridge"]
    BY <2>2, <2>3
  <2>6. QED
    BY <2>4, <2>5, Zenon DEF InfosOK
<1>9. BindingOK' /\ ProtOK'
  BY <1>1, <1>2, <1>4 DEF BindingOK, BindingInv, ProtOK
<1>10. TakenOK'
  <2>1. ASSUME NEW i \in 1..Len(tables), NEW s \in 0..tables[i].used_count - 1
        PROVE  \E c \in 1..n + 1 : bridge_infos'[c].table = i /\ bridge_infos'[c].slot = s
    <3>1. CASE binding.table = i /\ binding.slot = s
      BY <1>1, <1>5, <1>6, <3>1
    <3>2. CASE ~(binding.table = i /\ binding.slot = s)
      <4>1. PICK c \in 1..n : bridge_infos[c].table = i /\ bridge_infos[c].slot = s
        BY <2>1, <3>2 DEF BindingInv, TakenOK
      <4>2. QED
        BY <1>1, <1>6, <4>1
    <3>3. QED
      BY <3>1, <3>2
  <2>2. QED
    BY <1>2, <1>4, <1>6, <2>1 DEF TakenOK
<1>11. QED
  BY <1>7, <1>8, <1>9, <1>10 DEF BindingInv

LEMMA BindingInvStep == BindingInv /\ [Next]_vars => BindingInv'
<1> SUFFICES ASSUME BindingInv, [Next]_vars PROVE BindingInv'
  OBVIOUS
<1>1. CASE UNCHANGED tableVars
  BY <1>1 DEF tableVars, BindingInv, TablesOK, InfosOK, BindingOK, ProtOK, TakenOK
<1>2. CASE AllocateClosureBridge
  BY <1>2, AllocateStep
<1>3. CASE UnprotectTable
  BY <1>3, UnprotectStep
<1>4. CASE BindData
  BY <1>4, BindDataStep
<1>5. CASE BindCode
  BY <1>5, BindCodeStep
<1>6. CASE ProtectTable
  BY <1>6, ProtectStep
<1>7. QED
  BY <1>1, <1>2, <1>3, <1>4, <1>5, <1>6
     DEF Next, vars, EnterClosure, RunClosure, SaveRegisters, HandlerBegin, UserCode,
         HandlerEnd, RestoreRegisters, LeaveClosure

(* ------------------------------------------------------------------------ *)
(* Type correctness, and the tables                                            *)

Place == {"program", "closure", "save", "handler", "user_code", "handler_end", "restore",
          "hop", "lost", "fault"}

PlacesOK == pc \in [Threads -> Place] /\ closure \in [Threads -> 0..Closures]

LEMMA PlacesStep == InfosOK /\ PlacesOK /\ [Next]_vars => PlacesOK'
<1> SUFFICES ASSUME InfosOK, PlacesOK, [Next]_vars PROVE PlacesOK'
  OBVIOUS
<1>1. CASE UNCHANGED <<pc, closure>>
  BY <1>1 DEF PlacesOK
<1>2. ASSUME NEW t \in Threads, NEW c \in 1..Closures, EnterClosure(t, c)
      PROVE  PlacesOK'
  BY <1>2, ClosureAssumption DEF EnterClosure, Goto, PlacesOK, Place
<1>3. ASSUME NEW t \in Threads, RunClosure(t) PROVE PlacesOK'
  BY <1>3 DEF RunClosure, Goto, PlacesOK, Place
<1>4. ASSUME NEW t \in Threads, SaveRegisters(t) PROVE PlacesOK'
  BY <1>4 DEF SaveRegisters, Goto, PlacesOK, Place
<1>5. ASSUME NEW t \in Threads, HandlerBegin(t) PROVE PlacesOK'
  BY <1>5 DEF HandlerBegin, Goto, PlacesOK, Place
<1>6. ASSUME NEW t \in Threads, UserCode(t) PROVE PlacesOK'
  BY <1>6 DEF UserCode, Goto, PlacesOK, Place
<1>7. ASSUME NEW t \in Threads, HandlerEnd(t) PROVE PlacesOK'
  BY <1>7 DEF HandlerEnd, Goto, PlacesOK, Place
<1>8. ASSUME NEW t \in Threads, RestoreRegisters(t) PROVE PlacesOK'
  BY <1>8 DEF RestoreRegisters, Goto, PlacesOK, Place
<1>9. ASSUME NEW t \in Threads, LeaveClosure(t) PROVE PlacesOK'
  BY <1>9, ClosureAssumption DEF LeaveClosure, Goto, PlacesOK, Place
<1>10. QED
  BY <1>1, <1>2, <1>3, <1>4, <1>5, <1>6, <1>7, <1>8, <1>9
     DEF Next, vars, threadVars, AllocateClosureBridge, UnprotectTable, BindData, BindCode,
         ProtectTable

(***************************************************************************)
(* Tables, slots, places and closures are always of their kinds: the last  *)
(* slot is never passed, and there are never more tables than closures     *)
(* (AllocateClosureBridge, InitializeClosureBridgeInfo).                   *)
(***************************************************************************)
THEOREM TypeCorrect == Spec => []TypeOK
<1>1. Init => BindingInv /\ PlacesOK
  BY BindingInvInit, ClosureAssumption DEF Init, PlacesOK, Place
<1>2. BindingInv /\ PlacesOK /\ [Next]_vars => (BindingInv /\ PlacesOK)'
  BY BindingInvStep, PlacesStep DEF BindingInv
<1>3. BindingInv /\ PlacesOK => TypeOK
  BY TableCount DEF BindingInv, TablesOK, InfosOK, BindingOK, ProtOK, PlacesOK, Place, TypeOK
<1>4. QED
  BY <1>1, <1>2, <1>3, PTL DEF Spec

\* The slots of a table that were handed out, or are being bound, are the first ones
LEMMA SlotsTaken ==
  ASSUME BindingInv, NEW i \in 1..Len(tables)
  PROVE  /\ \A b \in Bound : b.table = i => b.slot \in 0..tables[i].used_count - 1
         /\ \A s \in 0..tables[i].used_count - 1 : \E b \in Bound : b.table = i /\ b.slot = s
         /\ \A b, c \in Bound : b.table = c.table /\ b.slot = c.slot => b = c
<1>1. /\ TablesOK /\ InfosOK /\ TakenOK
      /\ DOMAIN bridge_infos = 1..Len(bridge_infos)
  BY InfoCount DEF BindingInv
<1>2. \A c \in 1..Len(bridge_infos) : bridge_infos[c] \in ClosureBridgeInfo
  BY <1>1, ElementOfSeq DEF InfosOK
<1>3. tables[i].used_count \in 0..SlotsPerTable
  BY <1>1, TableCount DEF ClosureBridgeTrampolineTable
<1>4. ASSUME NEW b \in Bound
      PROVE  b = [table |-> b.table, slot |-> b.slot]
  <2>1. CASE \E c \in 1..Len(bridge_infos) : b = bridge_infos[c]
    BY <1>2, <2>1 DEF ClosureBridgeInfo
  <2>2. CASE b = [table |-> binding.table, slot |-> binding.slot]
    BY <2>2
  <2>3. QED
    BY <1>1, <1>4, <2>1, <2>2 DEF Bound
<1>5. ASSUME NEW b \in Bound, b.table = i
      PROVE  b.slot \in 0..tables[i].used_count - 1
  <2>1. CASE \E c \in 1..Len(bridge_infos) : b = bridge_infos[c]
    <3>1. PICK c \in 1..Len(bridge_infos) : b = bridge_infos[c]
      BY <2>1
    <3>2. b.slot < tables[i].used_count /\ b \in ClosureBridgeInfo
      BY <1>1, <1>2, <1>5, <3>1 DEF InfosOK
    <3>3. QED
      BY <1>3, <3>2, ClosureAssumption DEF ClosureBridgeInfo
  <2>2. CASE binding # NULL /\ b = [table |-> binding.table, slot |-> binding.slot]
    BY <1>3, <1>5, <2>2, ClosureAssumption DEF BindingInv, BindingOK
  <2>3. QED
    BY <1>1, <1>5, <2>1, <2>2 DEF Bound
<1>6. ASSUME NEW s \in 0..tables[i].used_count - 1
      PROVE  \E b \in Bound : b.table = i /\ b.slot = s
  <2>1. CASE \E c \in 1..Len(bridge_infos) :
               bridge_infos[c].table = i /\ bridge_infos[c].slot = s
    BY <1>1, <2>1 DEF Bound
  <2>2. CASE binding # NULL /\ binding.table = i /\ binding.slot = s
    <3> DEFINE b == [table |-> binding.table, slot |-> binding.slot]
    <3>1. b \in Bound
      BY <2>2 DEF Bound
    <3>2. b.table = i /\ b.slot = s
      BY <2>2
    <3>3. QED
      BY <3>1, <3>2
  <2>3. QED
    BY <1>1, <1>6, <2>1, <2>2 DEF TakenOK
<1>7. \A b, c \in Bound : b.table = c.table /\ b.slot = c.slot => b = c
  BY <1>4
<1>8. QED
  BY <1>5, <1>6, <1>7

LEMMA CountOfSlots ==
  ASSUME BindingInv, NEW i \in 1..Len(tables)
  PROVE  tables[i].used_count = Cardinality({b \in Bound : b.table = i})
<1> DEFINE n == tables[i].used_count
           taken == {b \in Bound : b.table = i}
           f == [b \in taken |-> b.slot]
<1>1. n \in Nat
  BY TableCount, ClosureAssumption DEF BindingInv, ClosureBridgeTrampolineTable
<1>2. f \in Bijection(taken, 0..n - 1)
  <2>1. f \in [taken -> 0..n - 1]
    BY SlotsTaken
  <2>2. \A b, c \in taken : f[b] = f[c] => b = c
    BY SlotsTaken
  <2>3. \A s \in 0..n - 1 : \E b \in taken : f[b] = s
    BY SlotsTaken
  <2>4. QED
    BY <2>1, <2>2, <2>3, Fun_IsBij
<1>3. IsFiniteSet(0..n - 1) /\ Cardinality(0..n - 1) = n
  <2>1. \A m \in Nat : IsFiniteSet(0..m - 1) /\ Cardinality(0..m - 1) = m
    <3> TAKE m \in Nat
    <3>1. /\ IsFiniteSet(0..m - 1)
          /\ Cardinality(0..m - 1) = IF 0 > m - 1 THEN 0 ELSE (m - 1) - 0 + 1
      BY FS_Interval
    <3>2. QED
      BY <3>1
  <2>2. QED
    BY <1>1, <2>1
<1>4. ExistsBijection(0..n - 1, taken)
  BY <1>2, Fun_ExistsBijSymmetric DEF ExistsBijection
<1>5. QED
  BY <1>3, <1>4, FS_Bijection

(***************************************************************************)
(* However many closures are asked for, each table's used_count is the     *)
(* number of its slots that were handed out, and a new table is begun when *)
(* the ones before are full (AllocateClosureBridge).                       *)
(***************************************************************************)
THEOREM TablesCorrect == Spec => []TablesFillUp
<1>1. BindingInv => TablesFillUp
  <2> SUFFICES ASSUME BindingInv PROVE TablesFillUp
    OBVIOUS
  <2>1. DOMAIN tables = 1..Len(tables)
    BY TableCount DEF BindingInv
  <2>2. QED
    BY <2>1, CountOfSlots DEF BindingInv, TablesOK, TablesFillUp
<1>2. QED
  BY <1>1, BindingInvInit, BindingInvStep, PTL DEF Spec

(* ------------------------------------------------------------------------ *)
(* What a thread in a closure has in its registers and on its stack            *)

\* Offsets of RegState, of which every saved register has its own
Offsets == {SaveOffset(r) : r \in Saved}

\* v8-v15, which a C function gives back as they were
Callee == {Q(i) : i \in 8..15}

InHandler == {"handler", "user_code", "handler_end"}

\* What routing left in RegState is the callback's, but for the two fields it sets
LeftByRouting(t) ==
  /\ \A r \in Saved \ {X(15), LR} : stack[t][SaveOffset(r)] = wrote[t][SaveOffset(r)]
  /\ stack[t][SaveOffset(X(15))] = Val("next_hop", closure[t])
  /\ stack[t][SaveOffset(LR)] \in {wrote[t][SaveOffset(LR)], Val("on_leave", closure[t])}

\* The info of the closure goes from its slot to x14, to x1 and to the handler
DispatchOK(t) ==
  /\ pc[t] # "program" => closure[t] \in 1..Len(bridge_infos)
  /\ pc[t] = "save" => regs[t][X(14)] = Val("info", closure[t])
  /\ pc[t] = "handler" => regs[t][X(1)] = Val("info", closure[t])
  /\ pc[t] \in {"program", "closure", "save", "handler"} => got[t] = NULL
  /\ got[t] # NULL => got[t] = Val("info", closure[t])

\* The program's registers go to RegState, and what is left there comes back
RegistersOK(t) ==
  /\ pc[t] # "lost"
  /\ pc[t] = "closure" => \A r \in Register \ Scratch : regs[t][r] = Program(r)
  /\ pc[t] = "save" => \A r \in Register \ Scratch : regs[t][r] = Program(r)
  /\ pc[t] = "handler" => regs[t][LR] = BridgeReturn
  /\ pc[t] \in InHandler \ {"handler_end"} =>
       \A r \in Saved \ Scratch : stack[t][SaveOffset(r)] = Program(r)
  /\ pc[t] \in InHandler => stack[t] = [o \in Offsets |-> stack[t][o]]
  /\ pc[t] \in InHandler \ {"handler"} => none_symbol[t] = BridgeReturn
  /\ pc[t] \in InHandler \cup {"restore", "hop"} => \A r \in Callee : regs[t][r] = Program(r)
  /\ pc[t] \in {"handler_end", "restore"} => LeftByRouting(t)
  /\ pc[t] = "hop" =>
       /\ \A r \in Saved \ {X(15), LR} : regs[t][r] = wrote[t][SaveOffset(r)]
       /\ regs[t][X(15)] = Val("next_hop", closure[t])
       /\ regs[t][LR] \in {wrote[t][SaveOffset(LR)], Val("on_leave", closure[t])}

ThreadOK(t) == DispatchOK(t) /\ RegistersOK(t)

\* Every thread has registers, a stack and the rest
ShapeOK ==
  /\ regs = [t \in Threads |-> [r \in Register |-> regs[t][r]]]
  /\ stack = [t \in Threads |-> stack[t]]
  /\ return_slot = [t \in Threads |-> return_slot[t]]
  /\ none_symbol = [t \in Threads |-> none_symbol[t]]
  /\ got = [t \in Threads |-> got[t]]
  /\ wrote = [t \in Threads |-> wrote[t]]

ThreadInv == PlacesOK /\ ShapeOK /\ \A t \in Threads : ThreadOK(t)

LEMMA Names ==
  /\ Saved \subseteq Register /\ Callee \subseteq Register
  /\ Scratch \subseteq Saved /\ LR \in Saved \ Scratch /\ X(1) \in Saved \ Scratch
  /\ Callee \cap (Saved \cup Scratch) = {}
  /\ X(14) # X(15) /\ X(1) # LR /\ X(15) # LR /\ X(1) # X(14)
  BY DEF Saved, Register, Callee, Scratch, LR, X, Q

\* closure_bridge_template saves to and restores from the offsets of struct _RegState
LEMMA Fields ==
  /\ \A r \in Saved : FieldOffset(r) = SaveOffset(r)
  /\ \A r \in Saved : RestoreOffset(r) = SaveOffset(r)
  /\ \A r, q \in Saved : SaveOffset(r) = SaveOffset(q) => r = q
<1>1. \A i \in 0..30 : /\ SaveOffset(X(i)) = i + 1
                       /\ FieldOffset(X(i)) = i + 1
  BY DEF SaveOffset, FieldOffset, X
<1>2. \A i \in 0..7 : /\ SaveOffset(Q(i)) = 32 + 2 * i
                      /\ FieldOffset(Q(i)) = 32 + 2 * i
  BY DEF SaveOffset, FieldOffset, Q, X
<1>3. \A i \in 0..30 : RestoreOffset(X(i)) = i + 1
  <2>1. \A i \in 1..30 : 2 * ((i - 1) \div 2) + ((i - 1) % 2) = i - 1
    BY SMTT(30)
  <2>2. \A i \in 1..30 : RestoreOffset(X(i)) = 2 + 2 * ((i - 1) \div 2) + ((i - 1) % 2)
    BY DEF RestoreOffset, XPop, X
  <2>3. RestoreOffset(X(0)) = 1
    BY DEF RestoreOffset, X
  <2>4. ASSUME NEW i \in 1..30
        PROVE  RestoreOffset(X(i)) = i + 1
    <3> DEFINE pair == (i - 1) \div 2
               rank == (i - 1) % 2
    <3>1. pair \in Int /\ rank \in Int
      OBVIOUS
    <3>2. 2 * pair + rank = i - 1 /\ RestoreOffset(X(i)) = 2 + 2 * pair + rank
      BY <2>1, <2>2
    <3> HIDE DEF pair, rank, X
    <3>3. QED
      BY <3>1, <3>2
  <2> HIDE DEF X
  <2>5. QED
    BY <2>3, <2>4
<1>4. \A i \in 0..7 : RestoreOffset(Q(i)) = 32 + 2 * i
  <2>1. \A i \in 0..7 : 2 * (i \div 2) + (i % 2) = i
    BY SMTT(30)
  <2>2. \A i \in 0..7 : RestoreOffset(Q(i)) = 32 + 4 * (i \div 2) + 2 * (i % 2)
    BY DEF RestoreOffset, QPop, XPop, Q, X
  <2>3. ASSUME NEW i \in 0..7
        PROVE  RestoreOffset(Q(i)) = 32 + 2 * i
    <3> DEFINE pair == i \div 2
               rank == i % 2
    <3>1. pair \in Int /\ rank \in Int
      OBVIOUS
    <3>2. 2 * pair + rank = i /\ RestoreOffset(Q(i)) = 32 + 4 * pair + 2 * rank
      BY <2>1, <2>2
    <3> HIDE DEF pair, rank, Q
    <3>3. QED
      BY <3>1, <3>2
  <2>4. QED
    BY <2>3
<1>5. \A r \in Saved : (\E i \in 0..30 : r = X(i)) \/ (\E i \in 0..7 : r = Q(i))
  BY DEF Saved
<1> HIDE DEF X, Q
<1>6. \A r \in Saved : FieldOffset(r) = SaveOffset(r)
  BY <1>1, <1>2, <1>5
<1>7. ASSUME NEW r \in Saved, NEW q \in Saved, SaveOffset(r) = SaveOffset(q)
      PROVE  r = q
  <2>1. CASE \E i \in 0..30 : r = X(i)
    BY <1>1, <1>2, <1>5, <1>7, <2>1
  <2>2. CASE \E i \in 0..7 : r = Q(i)
    BY <1>1, <1>2, <1>5, <1>7, <2>2
  <2>3. QED
    BY <1>5, <2>1, <2>2
<1>8. \A r \in Saved : RestoreOffset(r) = SaveOffset(r)
  BY <1>1, <1>2, <1>5, <1>3, <1>4
<1>9. QED
  BY <1>6, <1>7, <1>8

\* A thread is as it was when a step is not its own
LEMMA OtherThread ==
  ASSUME NEW u \in Threads, ThreadOK(u),
         pc'[u] = pc[u], closure'[u] = closure[u], regs'[u] = regs[u], stack'[u] = stack[u],
         none_symbol'[u] = none_symbol[u], got'[u] = got[u], wrote'[u] = wrote[u],
         1..Len(bridge_infos) \subseteq 1..Len(bridge_infos')
  PROVE  ThreadOK(u)'
<1>1. DispatchOK(u)'
  BY DEF ThreadOK, DispatchOK
<1>2. RegistersOK(u)'
  BY DEF ThreadOK, RegistersOK, LeftByRouting
<1>3. QED
  BY <1>1, <1>2 DEF ThreadOK

\* What the step of a thread leaves alone
OthersKept(t) ==
  \A u \in Threads \ {t} :
    /\ pc'[u] = pc[u] /\ closure'[u] = closure[u] /\ regs'[u] = regs[u]
    /\ stack'[u] = stack[u] /\ none_symbol'[u] = none_symbol[u]
    /\ got'[u] = got[u] /\ wrote'[u] = wrote[u]

LEMMA EnterStep ==
  ASSUME ThreadInv, InfosOK, NEW t \in Threads, NEW c \in 1..Closures, EnterClosure(t, c)
  PROVE  ThreadOK(t)' /\ OthersKept(t) /\ ShapeOK'
<1>1. /\ pc'[t] = "closure" /\ closure'[t] = c /\ got'[t] = got[t]
      /\ regs'[t] = [r \in Register |-> IF r = X(17) THEN Val("closure", c) ELSE Program(r)]
      /\ bridge_infos' = bridge_infos /\ c \in 1..Len(bridge_infos)
  <2>1. X(17) \in Register
    BY DEF X, Register
  <2>2. regs'[t] = [[r \in Register |-> Program(r)] EXCEPT ![X(17)] = Val("closure", c)]
    BY DEF EnterClosure, ThreadInv, ShapeOK
  <2>3. regs'[t] = [r \in Register |-> IF r = X(17) THEN Val("closure", c) ELSE Program(r)]
    BY <2>1, <2>2
  <2>4. pc'[t] = "closure" /\ closure'[t] = c /\ got'[t] = got[t]
    BY DEF EnterClosure, Goto, ThreadInv, PlacesOK
  <2>5. bridge_infos' = bridge_infos /\ c \in 1..Len(bridge_infos)
    BY InfoCount DEF EnterClosure, tableVars
  <2>6. QED
    BY <2>3, <2>4, <2>5
<1>2. DispatchOK(t)'
  BY <1>1 DEF EnterClosure, At, ThreadInv, ThreadOK, DispatchOK
<1>3. RegistersOK(t)'
  BY <1>1 DEF RegistersOK, InHandler, Scratch
<1>4. OthersKept(t)
  BY DEF EnterClosure, Goto, ThreadInv, PlacesOK, ShapeOK, OthersKept
<1>5. ShapeOK'
  BY <1>1 DEF EnterClosure, ThreadInv, ShapeOK
<1>6. QED
  BY <1>2, <1>3, <1>4, <1>5 DEF ThreadOK

LEMMA RunStep ==
  ASSUME ThreadInv, InfosOK, NEW t \in Threads, RunClosure(t)
  PROVE  ThreadOK(t)' /\ OthersKept(t) /\ ShapeOK'
<1> DEFINE info == bridge_infos[closure[t]]
           table == trampoline_tables[info.table]
           slot == table.slots[info.slot]
<1>1. pc[t] = "closure" /\ ThreadOK(t) /\ closure[t] \in 1..Len(bridge_infos)
  BY DEF RunClosure, At, ThreadInv, ThreadOK, DispatchOK
<1>2. slot = [data |-> closure[t], code |-> "bridge"]
  BY <1>1 DEF InfosOK
<1>3. UNCHANGED <<closure, got, bridge_infos, stack, none_symbol, return_slot, wrote>>
  BY DEF RunClosure, tableVars
<1>4. CASE table.prot # "rx" \/ slot.code = NULL
  <2>1. pc' = [pc EXCEPT ![t] = "fault"] /\ regs' = regs
    BY <1>4 DEF RunClosure, Goto
  <2>2. pc'[t] = "fault"
    BY <2>1 DEF ThreadInv, PlacesOK
  <2>3. DispatchOK(t)' /\ RegistersOK(t)'
    BY <1>1, <1>3, <2>2 DEF ThreadOK, DispatchOK, RegistersOK, InHandler
  <2>4. OthersKept(t) /\ ShapeOK'
    BY <1>3, <2>1 DEF ThreadInv, PlacesOK, ShapeOK, OthersKept
  <2>5. QED
    BY <2>3, <2>4 DEF ThreadOK
<1>5. CASE ~(table.prot # "rx" \/ slot.code = NULL)
  <2>1. /\ pc' = [pc EXCEPT ![t] = "save"]
        /\ regs' = [regs EXCEPT ![t][X(14)] = Val("info", slot.data),
                                ![t][X(15)] = Val(slot.code, 0)]
    BY <1>5 DEF RunClosure, Goto
  <2>2. /\ pc'[t] = "save" /\ slot.data = closure[t]
        /\ regs'[t] = [r \in Register |->
             IF r = X(15) THEN Val(slot.code, 0)
             ELSE IF r = X(14) THEN Val("info", slot.data) ELSE regs[t][r]]
    <3> HIDE DEF slot
    <3>1. X(14) \in Register /\ X(15) \in Register /\ X(14) # X(15)
      BY Names DEF Scratch
    <3>2. pc'[t] = "save" /\ slot.data = closure[t]
      BY <1>2, <2>1 DEF ThreadInv, PlacesOK
    <3> HIDE DEF X, Val, Register
    <3>3. QED
      BY <2>1, <3>1, <3>2 DEF ThreadInv, ShapeOK
  <2> HIDE DEF slot, table, info
  <2>3. regs'[t][X(14)] = Val("info", closure[t])
    BY <2>2, Names DEF Scratch
  <2>4. \A r \in Register \ Scratch : regs'[t][r] = Program(r)
    BY <1>1, <2>2, Names DEF ThreadOK, RegistersOK, Scratch
  <2>5. DispatchOK(t)' /\ RegistersOK(t)'
    BY <1>1, <1>3, <2>2, <2>3, <2>4 DEF ThreadOK, DispatchOK, RegistersOK, InHandler
  <2>6. OthersKept(t)
    BY <1>3, <2>1 DEF ThreadInv, PlacesOK, ShapeOK, OthersKept
  <2>7. ShapeOK'
    BY <1>3, <2>1, <2>2 DEF ThreadInv, ShapeOK
  <2>8. QED
    BY <2>5, <2>6, <2>7 DEF ThreadOK
<1>6. QED
  BY <1>4, <1>5

LEMMA SaveStep ==
  ASSUME ThreadInv, NEW t \in Threads, SaveRegisters(t)
  PROVE  ThreadOK(t)' /\ OthersKept(t) /\ ShapeOK'
<1>1. pc[t] = "save" /\ ThreadOK(t) /\ closure[t] \in 1..Len(bridge_infos)
  BY DEF SaveRegisters, At, ThreadInv, ThreadOK, DispatchOK
<1>2. /\ pc' = [pc EXCEPT ![t] = "handler"]
      /\ UNCHANGED <<closure, got, bridge_infos, none_symbol, return_slot, wrote>>
  BY DEF SaveRegisters, Goto, tableVars
<1>3. pc'[t] = "handler"
  BY <1>2 DEF ThreadInv, PlacesOK
<1>4. regs'[t] = [r \in Register |-> IF r = LR THEN BridgeReturn
                                     ELSE IF r = X(1) THEN regs[t][X(14)] ELSE regs[t][r]]
  <2>1. LR \in Register /\ X(1) \in Register /\ X(1) # LR
    BY Names
  <2>2. regs' = [regs EXCEPT ![t][X(1)] = regs[t][X(14)], ![t][LR] = BridgeReturn]
    BY DEF SaveRegisters
  <2> HIDE DEF X, LR, BridgeReturn, Register
  <2>3. QED
    BY <2>1, <2>2 DEF ThreadInv, ShapeOK
<1>5. /\ stack'[t] = [o \in Offsets |-> stack'[t][o]]
      /\ \A r \in Saved : stack'[t][SaveOffset(r)] = regs[t][r]
  <2>1. stack'[t] = [o \in Offsets |-> regs[t][CHOOSE r \in Saved : SaveOffset(r) = o]]
    BY DEF SaveRegisters, ThreadInv, ShapeOK, Offsets
  <2>2. ASSUME NEW r \in Saved
        PROVE  (CHOOSE q \in Saved : SaveOffset(q) = SaveOffset(r)) = r
    BY Fields
  <2>3. \A r \in Saved : SaveOffset(r) \in Offsets
    BY DEF Offsets
  <2> HIDE DEF Offsets, Saved, SaveOffset
  <2>4. QED
    BY <2>1, <2>2, <2>3
<1> HIDE DEF X, Q, LR
<1>6. regs'[t][X(1)] = Val("info", closure[t])
  BY <1>1, <1>4, Names DEF ThreadOK, DispatchOK
<1>7. regs'[t][LR] = BridgeReturn
  BY <1>4, Names
<1>8. \A r \in Callee : regs'[t][r] = Program(r)
  BY <1>1, <1>4, Names DEF ThreadOK, RegistersOK
<1>9. \A r \in Saved \ Scratch : stack'[t][SaveOffset(r)] = Program(r)
  BY <1>1, <1>5, Names DEF ThreadOK, RegistersOK
<1>10. DispatchOK(t)'
  BY <1>1, <1>2, <1>3, <1>6 DEF ThreadOK, DispatchOK
<1>11. RegistersOK(t)'
  BY <1>3, <1>5, <1>7, <1>8, <1>9 DEF RegistersOK, InHandler
<1>12. OthersKept(t)
  BY <1>2 DEF SaveRegisters, ThreadInv, PlacesOK, ShapeOK, OthersKept
<1>13. ShapeOK'
  BY <1>2, <1>4 DEF SaveRegisters, ThreadInv, ShapeOK
<1>14. QED
  BY <1>10, <1>11, <1>12, <1>13 DEF ThreadOK

LEMMA HandlerBeginStep ==
  ASSUME ThreadInv, NEW t \in Threads, HandlerBegin(t)
  PROVE  ThreadOK(t)' /\ OthersKept(t) /\ ShapeOK'
<1>1. pc[t] = "handler" /\ ThreadOK(t)
  BY DEF HandlerBegin, At, ThreadInv
<1>2. /\ pc'[t] = "user_code" /\ got'[t] = regs[t][X(1)] /\ none_symbol'[t] = regs[t][LR]
      /\ UNCHANGED <<closure, regs, stack, wrote, bridge_infos>>
  BY DEF HandlerBegin, Goto, tableVars, ThreadInv, PlacesOK, ShapeOK
<1>3. DispatchOK(t)'
  BY <1>1, <1>2 DEF ThreadOK, DispatchOK
<1>4. RegistersOK(t)'
  BY <1>1, <1>2 DEF ThreadOK, RegistersOK, InHandler
<1>5. OthersKept(t)
  BY DEF HandlerBegin, Goto, ThreadInv, PlacesOK, ShapeOK, OthersKept
<1>6. ShapeOK'
  BY DEF HandlerBegin, ThreadInv, ShapeOK
<1>7. QED
  BY <1>3, <1>4, <1>5, <1>6 DEF ThreadOK

LEMMA UserCodeStep ==
  ASSUME ThreadInv, NEW t \in Threads, UserCode(t)
  PROVE  ThreadOK(t)' /\ OthersKept(t) /\ ShapeOK'
<1> DEFINE hop(left) == [left EXCEPT ![FieldOffset(X(15))] = Val("next_hop", closure[t])]
<1>1. pc[t] = "user_code" /\ ThreadOK(t) /\ stack[t] = [o \in Offsets |-> stack[t][o]]
  BY DEF UserCode, At, ThreadInv, ThreadOK, RegistersOK, InHandler
<1>2. /\ pc'[t] = "handler_end"
      /\ regs'[t] = [r \in Register |-> IF r \in Clobbered THEN Junk ELSE regs[t][r]]
      /\ UNCHANGED <<closure, none_symbol, return_slot, got, bridge_infos>>
  <2>1. regs'[t] = [r \in Register |-> IF r \in Clobbered THEN Junk ELSE regs[t][r]]
    BY DEF UserCode, ThreadInv, ShapeOK
  <2>2. pc'[t] = "handler_end"
    BY DEF UserCode, Goto, ThreadInv, PlacesOK
  <2>3. QED
    BY <2>1, <2>2 DEF UserCode, tableVars
<1>3. PICK left \in {stack[t]} \cup {[stack[t] EXCEPT ![FieldOffset(r)] = Val("callback", 0)] : r \in Saved},
           begin \in BOOLEAN :
        /\ wrote' = [wrote EXCEPT ![t] = left]
        /\ stack' = [stack EXCEPT ![t] =
             IF begin THEN [hop(left) EXCEPT ![FieldOffset(LR)] = Val("on_leave", closure[t])]
             ELSE hop(left)]
  BY DEF UserCode
<1>4. left = [o \in Offsets |-> left[o]]
  BY <1>1, <1>3
<1>5. /\ wrote'[t] = left
      /\ stack'[t] = IF begin THEN [hop(left) EXCEPT ![FieldOffset(LR)] = Val("on_leave", closure[t])]
                     ELSE hop(left)
  BY <1>3 DEF ThreadInv, ShapeOK
<1>6. LeftByRouting(t)' /\ stack'[t] = [o \in Offsets |-> stack'[t][o]]
  <2>1. /\ X(15) \in Saved /\ LR \in Saved /\ X(15) # LR
        /\ \A r \in Saved : SaveOffset(r) \in Offsets
    BY Names DEF Scratch, Offsets
  <2>2. FieldOffset(X(15)) = SaveOffset(X(15)) /\ FieldOffset(LR) = SaveOffset(LR)
    BY <2>1, Fields
  <2>3. /\ \A r \in Saved : SaveOffset(r) = SaveOffset(X(15)) => r = X(15)
        /\ \A r \in Saved : SaveOffset(r) = SaveOffset(LR) => r = LR
    BY <2>1, Fields
  <2> HIDE DEF X, LR, Offsets, Saved, SaveOffset, FieldOffset, Val
  <2>4. hop(left) = [o \in Offsets |-> IF o = SaveOffset(X(15)) THEN Val("next_hop", closure[t])
                                       ELSE left[o]]
    BY <1>4, <2>1, <2>2
  <2>5. stack'[t] = [o \in Offsets |->
          IF begin /\ o = SaveOffset(LR) THEN Val("on_leave", closure[t])
          ELSE IF o = SaveOffset(X(15)) THEN Val("next_hop", closure[t]) ELSE left[o]]
    <3>1. CASE begin
      <4> DEFINE hopped == hop(left)
                 V == Val("on_leave", closure[t])
      <4>1. hopped = [o \in Offsets |-> IF o = SaveOffset(X(15)) THEN Val("next_hop", closure[t])
                                        ELSE left[o]]
        BY <2>4
      <4>2. stack'[t] = [hopped EXCEPT ![SaveOffset(LR)] = V]
        BY <1>5, <2>2, <3>1
      <4> HIDE DEF hopped, V, hop
      <4>3. stack'[t] = [o \in Offsets |-> IF o = SaveOffset(LR) THEN V ELSE hopped[o]]
        BY <2>1, <4>1, <4>2
      <4>4. QED
        BY <3>1, <4>1, <4>3 DEF V
    <3>2. CASE ~begin
      BY <1>5, <2>1, <2>2, <2>4, <3>2
    <3>3. QED
      BY <3>1, <3>2
  <2>6. \A r \in Saved \ {X(15), LR} : stack'[t][SaveOffset(r)] = wrote'[t][SaveOffset(r)]
    BY <1>5, <2>1, <2>3, <2>5
  <2>7. stack'[t][SaveOffset(X(15))] = Val("next_hop", closure[t])
    BY <2>1, <2>3, <2>5
  <2>8. stack'[t][SaveOffset(LR)] \in {wrote'[t][SaveOffset(LR)], Val("on_leave", closure[t])}
    BY <1>5, <2>1, <2>3, <2>5
  <2>9. closure'[t] = closure[t]
    BY <1>2
  <2>10. stack'[t] = [o \in Offsets |-> stack'[t][o]]
    BY <2>5
  <2>11. QED
    BY <2>6, <2>7, <2>8, <2>9, <2>10 DEF LeftByRouting
<1>7. \A r \in Callee : regs'[t][r] = Program(r)
  <2>1. \A r \in Callee : r \in Register /\ r \notin Clobbered
    BY DEF Callee, Clobbered, Register, LR, Flags, X, Q
  <2>2. \A r \in Callee : regs[t][r] = Program(r)
    BY <1>1 DEF ThreadOK, RegistersOK, InHandler
  <2>3. QED
    BY <1>2, <2>1, <2>2
<1>8. DispatchOK(t)'
  BY <1>1, <1>2 DEF ThreadOK, DispatchOK
<1>9. RegistersOK(t)'
  BY <1>1, <1>2, <1>6, <1>7 DEF ThreadOK, RegistersOK, InHandler
<1>10. OthersKept(t)
  BY <1>2, <1>3 DEF UserCode, Goto, ThreadInv, PlacesOK, ShapeOK, OthersKept
<1>11. ShapeOK'
  <2>1. regs' = [u \in Threads |-> IF u = t THEN regs'[t] ELSE regs[u]]
    BY DEF UserCode, ThreadInv, ShapeOK
  <2>2. ASSUME NEW u \in Threads
        PROVE  regs'[u] = [r \in Register |-> regs'[u][r]]
    <3>1. CASE u = t
      BY <1>2, <3>1
    <3>2. CASE u # t
      BY <2>1, <3>2 DEF ThreadInv, ShapeOK
    <3>3. QED
      BY <3>1, <3>2
  <2>3. regs' = [u \in Threads |-> [r \in Register |-> regs'[u][r]]]
    BY <2>1, <2>2
  <2>4. QED
    BY <1>2, <1>3, <2>3 DEF UserCode, ThreadInv, ShapeOK
<1>12. QED
  BY <1>8, <1>9, <1>10, <1>11 DEF ThreadOK

LEMMA HandlerEndStep ==
  ASSUME ThreadInv, NEW t \in Threads, HandlerEnd(t)
  PROVE  ThreadOK(t)' /\ OthersKept(t) /\ ShapeOK'
<1>1. pc[t] = "handler_end" /\ ThreadOK(t)
  BY DEF HandlerEnd, At, ThreadInv
<1>2. /\ pc'[t] = "restore"
      /\ UNCHANGED <<closure, regs, stack, none_symbol, got, wrote, bridge_infos>>
  BY <1>1 DEF HandlerEnd, Goto, tableVars, ThreadInv, PlacesOK, ShapeOK, ThreadOK, RegistersOK,
              InHandler
<1>3. DispatchOK(t)'
  BY <1>1, <1>2 DEF ThreadOK, DispatchOK
<1>4. RegistersOK(t)'
  BY <1>1, <1>2 DEF ThreadOK, RegistersOK, InHandler, LeftByRouting
<1>5. OthersKept(t)
  BY DEF HandlerEnd, Goto, ThreadInv, PlacesOK, ShapeOK, OthersKept
<1>6. ShapeOK'
  BY DEF HandlerEnd, ThreadInv, ShapeOK
<1>7. QED
  BY <1>3, <1>4, <1>5, <1>6 DEF ThreadOK

LEMMA RestoreStep ==
  ASSUME ThreadInv, NEW t \in Threads, RestoreRegisters(t)
  PROVE  ThreadOK(t)' /\ OthersKept(t) /\ ShapeOK'
<1>1. pc[t] = "restore" /\ ThreadOK(t)
  BY DEF RestoreRegisters, At, ThreadInv
<1>2. /\ pc'[t] = "hop"
      /\ regs'[t] = [r \in Register |-> IF r \in Saved THEN stack[t][SaveOffset(r)] ELSE regs[t][r]]
      /\ UNCHANGED <<closure, stack, none_symbol, got, wrote, bridge_infos>>
  <2>1. regs'[t] = [r \in Register |-> IF r \in Saved THEN stack[t][SaveOffset(r)] ELSE regs[t][r]]
    <3>1. \A r \in Saved : RestoreOffset(r) = SaveOffset(r)
      BY Fields
    <3>2. regs'[t] = [r \in Register |-> IF r \in Saved THEN stack[t][RestoreOffset(r)] ELSE regs[t][r]]
      BY DEF RestoreRegisters, ThreadInv, ShapeOK
    <3> HIDE DEF Saved, Register, RestoreOffset, SaveOffset
    <3>3. QED
      BY <3>1, <3>2
  <2>2. pc'[t] = "hop"
    BY DEF RestoreRegisters, Goto, ThreadInv, PlacesOK
  <2>3. QED
    BY <2>1, <2>2 DEF RestoreRegisters, tableVars
<1>3. LeftByRouting(t) /\ \A r \in Callee : regs[t][r] = Program(r)
  BY <1>1 DEF ThreadOK, RegistersOK
<1>4. DispatchOK(t)'
  BY <1>1, <1>2 DEF ThreadOK, DispatchOK
<1>5. RegistersOK(t)'
  <2> HIDE DEF X, Q, LR
  <2>1. \A r \in Saved : regs'[t][r] = stack[t][SaveOffset(r)]
    BY <1>2, Names
  <2>2. \A r \in Callee : regs'[t][r] = Program(r)
    BY <1>2, <1>3, Names
  <2>3. X(15) \in Saved /\ LR \in Saved
    BY Names DEF Scratch
  <2>4. QED
    BY <1>2, <1>3, <2>1, <2>2, <2>3 DEF RegistersOK, InHandler, LeftByRouting
<1>6. OthersKept(t)
  BY DEF RestoreRegisters, Goto, ThreadInv, PlacesOK, ShapeOK, OthersKept
<1>7. ShapeOK'
  <2>1. regs' = [u \in Threads |-> IF u = t THEN regs'[t] ELSE regs[u]]
    BY DEF RestoreRegisters, ThreadInv, ShapeOK
  <2>2. ASSUME NEW u \in Threads
        PROVE  regs'[u] = [r \in Register |-> regs'[u][r]]
    <3>1. CASE u = t
      BY <1>2, <3>1
    <3>2. CASE u # t
      BY <2>1, <3>2 DEF ThreadInv, ShapeOK
    <3>3. QED
      BY <3>1, <3>2
  <2>3. regs' = [u \in Threads |-> [r \in Register |-> regs'[u][r]]]
    BY <2>1, <2>2
  <2>4. QED
    BY <1>2, <2>3 DEF RestoreRegisters, ThreadInv, ShapeOK
<1>8. QED
  BY <1>4, <1>5, <1>6, <1>7 DEF ThreadOK

LEMMA LeaveStep ==
  ASSUME ThreadInv, NEW t \in Threads, LeaveClosure(t)
  PROVE  ThreadOK(t)' /\ OthersKept(t) /\ ShapeOK'
<1>1. pc'[t] = "program" /\ got'[t] = NULL
  BY DEF LeaveClosure, Goto, ThreadInv, PlacesOK, ShapeOK
<1>2. DispatchOK(t)' /\ RegistersOK(t)'
  BY <1>1 DEF DispatchOK, RegistersOK, InHandler
<1>3. OthersKept(t)
  BY DEF LeaveClosure, Goto, ThreadInv, PlacesOK, ShapeOK, OthersKept
<1>4. ShapeOK'
  BY DEF LeaveClosure, ThreadInv, ShapeOK
<1>5. QED
  BY <1>2, <1>3, <1>4 DEF ThreadOK

LEMMA ThreadInvInit == Init => ThreadInv
<1> SUFFICES ASSUME Init PROVE ThreadInv
  OBVIOUS
<1>1. \A t \in Threads : /\ pc[t] = "program" /\ got[t] = NULL
                         /\ regs[t] = [r \in Register |-> Program(r)]
  BY DEF Init
<1>2. \A t \in Threads : ThreadOK(t)
  BY <1>1 DEF ThreadOK, DispatchOK, RegistersOK, InHandler
<1>3. ShapeOK
  BY <1>1 DEF Init, ShapeOK
<1>4. PlacesOK
  BY ClosureAssumption DEF Init, PlacesOK, Place
<1>5. QED
  BY <1>2, <1>3, <1>4 DEF ThreadInv

LEMMA ThreadInvStep == BindingInv /\ ThreadInv /\ [Next]_vars => ThreadInv'
<1> SUFFICES ASSUME BindingInv, ThreadInv, [Next]_vars PROVE ThreadInv'
  OBVIOUS
<1>1. InfosOK /\ PlacesOK'
  BY PlacesStep DEF BindingInv, ThreadInv
<1>2. 1..Len(bridge_infos) \subseteq 1..Len(bridge_infos')
  <2>1. Len(bridge_infos) \in Nat
    BY <1>1, InfoCount
  <2>2. CASE bridge_infos' = bridge_infos
    BY <2>2
  <2>3. CASE ProtectTable
    <3>1. bridge_infos' = Append(bridge_infos, [table |-> binding.table, slot |-> binding.slot])
      BY <2>3 DEF ProtectTable
    <3>2. Len(bridge_infos') = Len(bridge_infos) + 1
      <4>1. BindingOK /\ binding # NULL
        BY <2>3 DEF BindingInv, ProtectTable, Binding
      <4>2. binding.table \in 1..Closures /\ binding.slot \in 0..SlotsPerTable - 1
        BY <1>1, <2>1, <4>1, TableCount, ClosureAssumption DEF BindingOK, BindingInv, TablesOK
      <4>3. [table |-> binding.table, slot |-> binding.slot] \in ClosureBridgeInfo
        BY <4>2 DEF ClosureBridgeInfo
      <4>4. QED
        BY <1>1, <3>1, <4>3, AppendProperties DEF InfosOK
    <3>3. QED
      BY <2>1, <3>2
  <2>4. QED
    BY <2>2, <2>3
       DEF Next, vars, tableVars, AllocateClosureBridge, UnprotectTable, BindData, BindCode,
           EnterClosure, RunClosure, SaveRegisters, HandlerBegin, UserCode, HandlerEnd,
           RestoreRegisters, LeaveClosure
<1>3. CASE UNCHANGED threadVars
  <2>1. \A t \in Threads : ThreadOK(t)'
    BY <1>2, <1>3, OtherThread DEF threadVars, ThreadInv
  <2>2. ShapeOK'
    BY <1>3 DEF threadVars, ThreadInv, ShapeOK
  <2>3. QED
    BY <1>1, <2>1, <2>2 DEF ThreadInv
<1>4. ASSUME NEW t \in Threads, ThreadOK(t)', OthersKept(t), ShapeOK'
      PROVE  ThreadInv'
  <2>1. \A u \in Threads \ {t} : ThreadOK(u)'
    BY <1>2, <1>4, OtherThread DEF OthersKept, ThreadInv
  <2>2. QED
    BY <1>1, <1>4, <2>1 DEF ThreadInv
<1>5. ASSUME NEW t \in Threads,
             \/ \E c \in 1..Closures : EnterClosure(t, c)
             \/ RunClosure(t) \/ SaveRegisters(t) \/ HandlerBegin(t) \/ UserCode(t)
             \/ HandlerEnd(t) \/ RestoreRegisters(t) \/ LeaveClosure(t)
      PROVE  ThreadInv'
  BY <1>1, <1>4, <1>5, EnterStep, RunStep, SaveStep, HandlerBeginStep, UserCodeStep,
     HandlerEndStep, RestoreStep, LeaveStep
<1>6. QED
  BY <1>3, <1>5
     DEF Next, vars, AllocateClosureBridge, UnprotectTable, BindData, BindCode, ProtectTable

(***************************************************************************)
(* However many closures are bound, before or while a thread runs through  *)
(* its own, a handler is given the data of the closure that was entered    *)
(* (InitializeClosureBridgeInfo, closure_bridge_trampoline_template).      *)
(***************************************************************************)
THEOREM DispatchCorrect == Spec => []DispatchesOwnData
<1>1. Init => BindingInv /\ ThreadInv
  BY BindingInvInit, ThreadInvInit
<1>2. BindingInv /\ ThreadInv /\ [Next]_vars => (BindingInv /\ ThreadInv)'
  BY BindingInvStep, ThreadInvStep
<1>3. BindingInv /\ ThreadInv => DispatchesOwnData
  BY DEF ThreadInv, ThreadOK, DispatchOK, DispatchesOwnData
<1>4. QED
  BY <1>1, <1>2, <1>3, PTL DEF Spec

(***************************************************************************)
(* A callback sees the program's registers at the fields of RegState, and  *)
(* what it leaves there is in the registers at the next hop, whatever the  *)
(* other threads do (closure_bridge_template, struct _RegState).           *)
(***************************************************************************)
THEOREM RegistersCorrect == Spec => []RegistersKept
<1>1. Init => BindingInv /\ ThreadInv
  BY BindingInvInit, ThreadInvInit
<1>2. BindingInv /\ ThreadInv /\ [Next]_vars => (BindingInv /\ ThreadInv)'
  BY BindingInvStep, ThreadInvStep
<1>3. BindingInv /\ ThreadInv => RegistersKept
  <2> SUFFICES ASSUME ThreadInv, NEW t \in Threads
               PROVE  /\ pc[t] # "lost"
                      /\ pc[t] = "user_code" =>
                           \A r \in Saved \ Scratch : stack[t][FieldOffset(r)] = Program(r)
                      /\ pc[t] = "hop" =>
                           /\ \A r \in Saved \ {X(15), LR} : regs[t][r] = wrote[t][FieldOffset(r)]
                           /\ regs[t][X(15)] = Val("next_hop", closure[t])
                           /\ regs[t][LR] \in {wrote[t][FieldOffset(LR)], Val("on_leave", closure[t])}
                           /\ \A i \in 8..15 : regs[t][Q(i)] = Program(Q(i))
    BY DEF RegistersKept
  <2>1. RegistersOK(t)
    BY DEF ThreadInv, ThreadOK
  <2>2. LR \in Saved /\ \A r \in Saved : FieldOffset(r) = SaveOffset(r)
    BY Names, Fields
  <2>3. \A i \in 8..15 : Q(i) \in Callee
    BY DEF Callee
  <2> HIDE DEF X, Q, LR, Saved, Callee, Val, SaveOffset, FieldOffset
  <2>4. QED
    BY <2>1, <2>2, <2>3 DEF RegistersOK, InHandler
<1>4. QED
  BY <1>1, <1>2, <1>3, PTL DEF Spec

(***************************************************************************)
(* The only thing that can stop a closure from being executed is that      *)
(* another one is being bound in its table (set_page_permission in         *)
(* InitializeClosureBridgeInfo).                                           *)
(***************************************************************************)
THEOREM FaultsExplained == Spec => FaultsOnlyWhileBinding
<1>1. Init => BindingInv /\ ThreadInv
  BY BindingInvInit, ThreadInvInit
<1>2. BindingInv /\ ThreadInv /\ [Next]_vars => (BindingInv /\ ThreadInv)'
  BY BindingInvStep, ThreadInvStep
<1>3. ASSUME BindingInv, ThreadInv, [Next]_vars, NEW t \in Threads,
             pc[t] # "fault", pc'[t] = "fault"
      PROVE  binding # NULL /\ binding.table = bridge_infos[closure[t]].table
  <2>1. RunClosure(t)
    <3>1. pc \in [Threads -> Place]
      BY <1>3 DEF ThreadInv, PlacesOK
    <3>2. PICK u \in Threads :
             \/ \E c \in 1..Closures : EnterClosure(u, c)
             \/ RunClosure(u) \/ SaveRegisters(u) \/ HandlerBegin(u) \/ UserCode(u)
             \/ HandlerEnd(u) \/ RestoreRegisters(u) \/ LeaveClosure(u)
      BY <1>3 DEF Next, vars, threadVars, AllocateClosureBridge, UnprotectTable, BindData,
                  BindCode, ProtectTable
    <3>3. CASE RunClosure(u)
      <4>1. pc' = [pc EXCEPT ![u] = "fault"] \/ pc' = [pc EXCEPT ![u] = "save"]
        BY <3>3 DEF RunClosure, Goto
      <4>2. u = t
        BY <1>3, <3>1, <4>1
      <4>3. QED
        BY <3>3, <4>2
    <3>4. CASE ~RunClosure(u)
      <4>1. \E p \in Place \ {"fault"} : pc' = [pc EXCEPT ![u] = p]
        BY <3>2, <3>4 DEF EnterClosure, SaveRegisters, HandlerBegin, UserCode, HandlerEnd,
                          RestoreRegisters, LeaveClosure, Goto, Place
      <4>2. pc'[t] # "fault"
        BY <1>3, <3>1, <4>1
      <4>3. QED
        BY <1>3, <4>2
    <3>5. QED
      BY <3>3, <3>4
  <2>2. closure[t] \in 1..Len(bridge_infos)
    BY <1>3, <2>1 DEF RunClosure, At, ThreadInv, ThreadOK, DispatchOK
  <2>3. LET info == bridge_infos[closure[t]]
        IN  /\ info.table \in 1..Len(tables)
            /\ tables[info.table].slots[info.slot].code = "bridge"
    <3> DEFINE info == bridge_infos[closure[t]]
    <3>1. /\ info.table \in 1..Len(tables)
          /\ tables[info.table].slots[info.slot] = [data |-> closure[t], code |-> "bridge"]
      BY <1>3, <2>2 DEF BindingInv, InfosOK
    <3>2. QED
      BY <3>1
  <2>4. trampoline_tables[bridge_infos[closure[t]].table].prot # "rx"
    <3>1. pc'[t] # "save"
      BY <1>3
    <3>2. QED
      BY <2>1, <2>3, <3>1, <1>3, ClosureAssumption
         DEF RunClosure, Goto, ThreadInv, PlacesOK
  <2>5. QED
    BY <1>3, <2>3, <2>4 DEF BindingInv, ProtOK
<1>4. BindingInv /\ ThreadInv /\ [Next]_vars =>
        [\A t \in Threads :
           pc[t] # "fault" /\ pc'[t] = "fault" =>
             binding # NULL /\ binding.table = bridge_infos[closure[t]].table]_vars
  BY <1>3
<1>5. QED
  BY <1>1, <1>2, <1>4, PTL DEF Spec, FaultsOnlyWhileBinding
====

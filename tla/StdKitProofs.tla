---- MODULE StdKitProofs ----
(***************************************************************************)
(* Theorems of StdKit, for every capacity of the buffer, every number of   *)
(* nodes, and every set of keys and hash function: the buffer of the       *)
(* reader and the writer is not overrun, the list is a sequence and the    *)
(* map a dictionary to their users.                                        *)
(***************************************************************************)
EXTENDS StdKit, TLAPS, FiniteSetTheorems, NaturalsInduction, WellFoundedInduction

(* ------------------------------------------------------------------------ *)
(* The buffer                                                                   *)

\* With the kinds of the three numbers, DoublingSuffices is kept by every step
BufferInv ==
  /\ size \in Nat /\ capacity \in Nat \ {0}
  /\ DoublingSuffices

LEMMA BufferInvInit == BufferInit => BufferInv
  BY BufferAssumption DEF BufferInit, BufferInv, DoublingSuffices

LEMMA BufferInvStep == BufferInv /\ BufferNext => BufferInv'
<1> SUFFICES ASSUME BufferInv, BufferNext PROVE BufferInv'
  OBVIOUS
<1>1. ASSUME NEW v \in Values, buffer_array_put(v) PROVE BufferInv'
  <2>1. size' = size + 1 /\ overrun' = (overrun \/ size' > capacity')
    BY <1>1 DEF buffer_array_put, Store
  <2>2. CASE TooSmall(1)
    <3>1. capacity' = 2 * capacity
      BY <1>1, <2>2 DEF buffer_array_put
    <3>2. /\ size' \in Nat /\ capacity' \in Nat \ {0}
          /\ size' <= capacity' /\ ~(size' > capacity')
      BY <2>1, <3>1 DEF BufferInv, DoublingSuffices
    <3>3. QED
      BY <2>1, <3>2, Zenon DEF BufferInv, DoublingSuffices
  <2>3. CASE ~TooSmall(1)
    <3>1. capacity' = capacity
      BY <1>1, <2>3 DEF buffer_array_put
    <3>2. /\ size' \in Nat /\ capacity' \in Nat \ {0}
          /\ size' <= capacity' /\ ~(size' > capacity')
      BY <2>1, <2>3, <3>1 DEF BufferInv, TooSmall
    <3>3. QED
      BY <2>1, <3>2, Zenon DEF BufferInv, DoublingSuffices
  <2>4. QED
    BY <2>2, <2>3
<1>2. CASE PutNoRoom
  BY <1>2 DEF PutNoRoom, bufferVars, BufferInv, DoublingSuffices
<1>3. CASE buffer_array_clear
  BY <1>3 DEF buffer_array_clear, BufferInv, DoublingSuffices
<1>4. QED
  BY <1>1, <1>2, <1>3 DEF BufferNext

(***************************************************************************)
(* However many instructions are put, and however small the buffer is at   *)
(* first, one doubling is room enough for the next one (buffer_array_put). *)
(***************************************************************************)
THEOREM BufferNotOverrun == Spec => []DoublingSuffices
<1>1. Init => BufferInv
  BY BufferInvInit DEF Init
<1>2. BufferInv /\ [Next]_vars => BufferInv'
  <2> SUFFICES ASSUME BufferInv, [Next]_vars PROVE BufferInv'
    OBVIOUS
  <2>1. CASE BufferNext
    BY <2>1, BufferInvStep
  <2>2. CASE UNCHANGED bufferVars
    BY <2>2 DEF bufferVars, BufferInv, DoublingSuffices
  <2>3. QED
    BY <2>1, <2>2 DEF Next, vars
<1>3. BufferInv => DoublingSuffices
  BY DEF BufferInv
<1>4. QED
  BY <1>1, <1>2, <1>3, PTL DEF Spec

(* ------------------------------------------------------------------------ *)
(* The list                                                                     *)

LEMMA LeastNumber ==
  ASSUME NEW T \in SUBSET Nat, T # {}
  PROVE  \E n \in T : \A m \in T : n <= m
<1> DEFINE R == OpToRel(<, Nat)
<1>1. IsWellFoundedOn(R, Nat)
  BY NatLessThanWellFounded
<1>2. \A x, y \in Nat : x < y => <<x, y>> \in R
  BY DEF OpToRel
<1> HIDE DEF R
<1>3. PICK n \in T : \A m \in T : ~ (<<m, n>> \in R)
  BY <1>1, WFMin
<1>4. ASSUME NEW m \in T PROVE n <= m
  <2>1. m \in Nat /\ n \in Nat
    OBVIOUS
  <2>2. ~(m < n)
    <3>1. SUFFICES ASSUME m < n PROVE FALSE
      OBVIOUS
    <3>2. <<m, n>> \in R
      BY <1>2, <2>1, <3>1
    <3>3. QED
      BY <1>3, <3>2
  <2>3. QED
    BY <2>1, <2>2
<1>5. QED
  BY <1>4

\* The nodes of s are linked in its order, and the list knows its ends and its length
Linked(s) ==
  \A i \in 1..Len(s) :
    /\ node[s[i]].next = IF i = Len(s) THEN NULL ELSE s[i + 1]
    /\ node[s[i]].prev = IF i = 1 THEN NULL ELSE s[i - 1]
    /\ node[s[i]].val \in Values

Lists(s) ==
  /\ s \in Seq(Nodes)
  /\ \A i, j \in 1..Len(s) : s[i] = s[j] => i = j
  /\ head = IF Len(s) = 0 THEN NULL ELSE s[1]
  /\ tail = IF Len(s) = 0 THEN NULL ELSE s[Len(s)]
  /\ len = Len(s)
  /\ allocated = {s[i] : i \in 1..Len(s)}
  /\ Linked(s)

ListInv ==
  /\ node \in [Nodes -> list_node_t]
  /\ \E s \in Seq(Nodes) : Lists(s)

LEMMA UpTo ==
  ASSUME NEW n \in Nat
  PROVE  Cardinality(1..n) = n
<1>1. Cardinality(1..n) = IF 1 > n THEN 0 ELSE n - 1 + 1
  BY FS_Interval
<1>2. QED
  BY <1>1

LEMMA ChainFits ==
  ASSUME NEW s \in Seq(Nodes), \A i, j \in 1..Len(s) : s[i] = s[j] => i = j
  PROVE  Cardinality(Nodes) \in Nat /\ Len(s) <= Cardinality(Nodes)
<1>1. Cardinality(Nodes) \in Nat
  BY NodesAssumption, FS_CardinalityType
<1>2. s \in Injection(1..Len(s), Nodes)
  BY DEF Injection, IsInjective
<1>3. Cardinality(1..Len(s)) <= Cardinality(Nodes)
  BY <1>2, FS_Injection, NodesAssumption
<1>4. Cardinality(1..Len(s)) = Len(s)
  BY UpTo, Len(s) \in Nat
<1>5. QED
  BY <1>1, <1>3, <1>4

\* What an iterator that starts at the first of s returns, if each node of s is linked to
\* the next one
LEMMA WalkAlong ==
  ASSUME NEW s \in Seq(Nodes), \A i, j \in 1..Len(s) : s[i] = s[j] => i = j,
         NEW direction,
         From(direction) = IF Len(s) = 0 THEN NULL ELSE s[1],
         \A i \in 1..Len(s) :
           node[s[i]][direction] = IF i = Len(s) THEN NULL ELSE s[i + 1]
  PROVE  Walk(direction) = s
<1> DEFINE N == Cardinality(Nodes) + 1
           Follow(at, i) == IF i = 1 THEN From(direction)
                            ELSE IF at[i - 1] = NULL THEN NULL ELSE node[at[i - 1]][direction]
           Is(at) == at = [i \in 1..N |-> Follow(at, i)]
           w == [i \in 1..N |-> IF i <= Len(s) THEN s[i] ELSE NULL]
           at == CHOOSE f : Is(f)
<1>1. N \in Nat /\ Len(s) < N /\ Len(s) \in Nat
  BY ChainFits
<1>2. \A i \in 1..Len(s) : s[i] \in Nodes /\ s[i] # NULL
  BY NodesAssumption
<1>3. Is(w)
  <2>1. ASSUME NEW i \in 1..N PROVE w[i] = Follow(w, i)
    <3>1. CASE i = 1
      BY <3>1, <1>1
    <3>2. CASE i # 1 /\ i - 1 <= Len(s)
      <4>1. w[i - 1] = s[i - 1] /\ w[i - 1] # NULL /\ i - 1 \in 1..Len(s)
        BY <3>2, <1>1, <1>2
      <4>2. QED
        BY <4>1, <3>2, <1>1
    <3>3. CASE i # 1 /\ i - 1 > Len(s)
      <4>1. w[i - 1] = NULL
        BY <3>3, <1>1
      <4>2. QED
        BY <4>1, <3>3, <1>1
    <3>4. QED
      BY <3>1, <3>2, <3>3, <1>1
  <2>2. QED
    BY <2>1
<1>4. Is(at)
  BY <1>3
<1>5. at = w
  <2> HIDE DEF w, at
  <2>1. /\ DOMAIN w = 1..N /\ \A i \in 1..N : w[i] = Follow(w, i)
        /\ DOMAIN at = 1..N /\ \A i \in 1..N : at[i] = Follow(at, i)
        /\ at = [i \in 1..N |-> at[i]] /\ w = [i \in 1..N |-> w[i]]
    BY <1>3, <1>4
  <2>2. ASSUME NEW i \in 1..N, \A j \in 1..N : j < i => at[j] = w[j] PROVE at[i] = w[i]
    <3>1. i # 1 => i - 1 \in 1..N /\ i - 1 < i
      BY <1>1
    <3>2. Follow(at, i) = Follow(w, i)
      BY <2>2, <3>1
    <3>3. QED
      BY <2>1, <3>2
  <2>5. \A i \in 1..N : (\A j \in 1..N : j < i => at[j] = w[j]) => at[i] = w[i]
    BY <2>2
  <2>6. N \in Nat
    BY <1>1
  <2> HIDE DEF Is, Follow, N
  <2>3. \A i \in 1..N : at[i] = w[i]
    <3> DEFINE T == {i \in 1..N : at[i] # w[i]}
    <3>1. SUFFICES ASSUME T # {} PROVE FALSE
      OBVIOUS
    <3>2. T \in SUBSET Nat
      BY <2>6
    <3>3. PICK n \in T : \A m \in T : n <= m
      <4> HIDE DEF T
      <4>1. QED
        BY <3>1, <3>2, LeastNumber
    <3>4. \A j \in 1..N : j < n => at[j] = w[j]
      BY <3>3, <2>6
    <3>5. QED
      BY <3>3, <3>4, <2>5
  <2>4. QED
    BY <2>1, <2>3
<1>6. Walk(direction) = SubSeq(at, 1, Cardinality({i \in DOMAIN at : at[i] # NULL}))
  BY DEF Walk
<1>7. {i \in DOMAIN w : w[i] # NULL} = 1..Len(s)
  BY <1>1, <1>2
<1>8. Cardinality(1..Len(s)) = Len(s)
  BY UpTo, <1>1
<1>9. SubSeq(w, 1, Len(s)) = s
  <2>1. w \in Seq(Nodes \cup {NULL}) /\ Len(w) = N
    BY <1>1, <1>2
  <2>2. \A i \in 1..Len(s) : w[i] = s[i]
    BY <1>1
  <2> HIDE DEF w, N
  <2>3. SubSeq(w, 1, Len(s)) = [i \in 1..Len(s) |-> w[i]]
    BY <2>1, <1>1
  <2>4. QED
    BY <2>2, <2>3
<1> HIDE DEF w, at
<1>10. QED
  BY <1>5, <1>6, <1>7, <1>8, <1>9

LEMMA Reversed ==
  ASSUME NEW S, NEW s \in Seq(S)
  PROVE  /\ Reverse(s) \in Seq(S) /\ Len(Reverse(s)) = Len(s)
         /\ \A i \in 1..Len(s) : Reverse(s)[i] = s[Len(s) - i + 1]
  BY DEF Reverse

LEMMA WalksAre ==
  ASSUME NEW s \in Seq(Nodes), Lists(s)
  PROVE  /\ Walk("next") = s /\ Walk("prev") = Reverse(s)
         /\ Elements = [i \in 1..Len(s) |-> [node |-> s[i], val |-> node[s[i]].val]]
<1>1. Len(s) \in Nat
  OBVIOUS
<1>2. Walk("next") = s
  <2>1. From("next") = IF Len(s) = 0 THEN NULL ELSE s[1]
    BY DEF From, Lists
  <2>2. \A i \in 1..Len(s) :
          node[s[i]]["next"] = IF i = Len(s) THEN NULL ELSE s[i + 1]
    BY DEF Lists, Linked
  <2>3. \A i, j \in 1..Len(s) : s[i] = s[j] => i = j
    BY DEF Lists
  <2>4. QED
    BY <2>1, <2>2, <2>3, WalkAlong
<1>3. Walk("prev") = Reverse(s)
  <2> DEFINE r == Reverse(s)
  <2>1. /\ r \in Seq(Nodes) /\ Len(r) = Len(s)
        /\ \A i \in 1..Len(s) : r[i] = s[Len(s) - i + 1]
    BY Reversed
  <2> HIDE DEF r
  <2>2. From("prev") = IF Len(r) = 0 THEN NULL ELSE r[1]
    BY <1>1, <2>1 DEF From, Lists
  <2>3. ASSUME NEW i \in 1..Len(r)
        PROVE  node[r[i]]["prev"] = IF i = Len(r) THEN NULL ELSE r[i + 1]
    <3>1. Len(s) - i + 1 \in 1..Len(s)
      BY <1>1, <2>1
    <3>2. node[s[Len(s) - i + 1]].prev = IF Len(s) - i + 1 = 1 THEN NULL ELSE s[Len(s) - i + 1 - 1]
      BY <3>1 DEF Lists, Linked
    <3>3. i # Len(r) => r[i + 1] = s[Len(s) - i + 1 - 1]
      <4>1. i # Len(r) => i + 1 \in 1..Len(s)
        BY <1>1, <2>1
      <4>2. Len(s) - (i + 1) + 1 = Len(s) - i + 1 - 1
        BY <1>1, <2>1
      <4>3. QED
        BY <2>1, <4>1, <4>2
    <3>4. QED
      BY <1>1, <2>1, <3>2, <3>3
  <2>4. ASSUME NEW i \in 1..Len(r), NEW j \in 1..Len(r), r[i] = r[j] PROVE i = j
    <3>1. Len(s) - i + 1 \in 1..Len(s) /\ Len(s) - j + 1 \in 1..Len(s)
      BY <1>1, <2>1
    <3>2. Len(s) - i + 1 = Len(s) - j + 1
      BY <2>1, <2>4, <3>1 DEF Lists
    <3>3. QED
      BY <3>2, <1>1, <2>1
  <2>5. Walk("prev") = r
    BY <2>1, <2>2, <2>3, <2>4, WalkAlong
  <2>6. QED
    BY <2>5 DEF r
<1>4. DOMAIN s = 1..Len(s)
  OBVIOUS
<1>5. QED
  BY <1>2, <1>3, <1>4 DEF Elements

LEMMA ListIs ==
  \A s \in Seq(Nodes) : Lists(s) =>
    /\ Walk("next") = s /\ Walk("prev") = Reverse(s)
    /\ Elements = [i \in 1..Len(s) |-> [node |-> s[i], val |-> node[s[i]].val]]
  BY WalksAre

LEMMA ListIsNext ==
  (\A s \in Seq(Nodes) : Lists(s) =>
     /\ Walk("next") = s /\ Walk("prev") = Reverse(s)
     /\ Elements = [i \in 1..Len(s) |-> [node |-> s[i], val |-> node[s[i]].val]])'
  BY ListIs, PTL

LEMMA ChainAgrees ==
  ListInv => LinksAgree
<1> SUFFICES ASSUME ListInv PROVE LinksAgree
  OBVIOUS
<1>1. PICK s \in Seq(Nodes) : Lists(s)
  BY DEF ListInv
<1>2. Walk("next") = s /\ Walk("prev") = Reverse(s)
  BY <1>1, ListIs
<1>3. len = Len(s) /\ allocated = {s[i] : i \in 1..Len(s)} /\ DOMAIN s = 1..Len(s)
  BY <1>1 DEF Lists
<1>4. QED
  BY <1>2, <1>3 DEF LinksAgree, ToSet

Entry == [node : Nodes, val : Values]

\* A list that is a chain before and after a call is a sequence before and after it
LEMMA ElementsAre ==
  ASSUME NEW s \in Seq(Nodes), Lists(s), NEW t \in Seq(Nodes), Lists(t)'
  PROVE  /\ Elements \in Seq(Entry) /\ Len(Elements) = Len(s)
         /\ \A i \in 1..Len(s) : Elements[i] = [node |-> s[i], val |-> node[s[i]].val]
         /\ Elements' \in Seq(Entry) /\ Len(Elements') = Len(t)
         /\ \A i \in 1..Len(t) : Elements'[i] = [node |-> t[i], val |-> node'[t[i]].val]
<1>1. /\ Elements = [i \in 1..Len(s) |-> [node |-> s[i], val |-> node[s[i]].val]]
      /\ Elements' = [i \in 1..Len(t) |-> [node |-> t[i], val |-> node'[t[i]].val]]
  BY ListIs, ListIsNext
<1>2. /\ \A i \in 1..Len(s) : s[i] \in Nodes /\ node[s[i]].val \in Values
      /\ \A i \in 1..Len(t) : t[i] \in Nodes /\ node'[t[i]].val \in Values
      /\ Len(s) \in Nat /\ Len(t) \in Nat
  BY DEF Lists, Linked
<1> DEFINE e == Elements
           f == Elements'
<1>3. \A i \in 1..Len(s) : [node |-> s[i], val |-> node[s[i]].val] \in Entry
  BY <1>2 DEF Entry
<1>4. \A i \in 1..Len(t) : [node |-> t[i], val |-> node'[t[i]].val] \in Entry
  BY <1>2 DEF Entry
<1>5. /\ e = [i \in 1..Len(s) |-> [node |-> s[i], val |-> node[s[i]].val]]
      /\ f = [i \in 1..Len(t) |-> [node |-> t[i], val |-> node'[t[i]].val]]
  BY <1>1
<1> HIDE DEF e, f
<1>6. /\ e \in Seq(Entry) /\ Len(e) = Len(s)
      /\ \A i \in 1..Len(s) : e[i] = [node |-> s[i], val |-> node[s[i]].val]
  BY <1>2, <1>3, <1>5
<1>7. /\ f \in Seq(Entry) /\ Len(f) = Len(t)
      /\ \A i \in 1..Len(t) : f[i] = [node |-> t[i], val |-> node'[t[i]].val]
  BY <1>2, <1>4, <1>5
<1>8. QED
  BY <1>6, <1>7 DEF e, f

LEMMA SequencesEqual ==
  ASSUME NEW S, NEW s \in Seq(S), NEW t \in Seq(S), Len(s) = Len(t),
         \A i \in 1..Len(s) : s[i] = t[i]
  PROVE  s = t
  OBVIOUS

LEMMA Prefixed ==
  ASSUME NEW S, NEW s \in Seq(S), NEW x \in S
  PROVE  /\ <<x>> \o s \in Seq(S) /\ Len(<<x>> \o s) = Len(s) + 1
         /\ (<<x>> \o s)[1] = x
         /\ \A i \in 1..Len(s) : (<<x>> \o s)[i + 1] = s[i]
  OBVIOUS

LEMMA Appended ==
  ASSUME NEW S, NEW s \in Seq(S), NEW x \in S
  PROVE  /\ Append(s, x) \in Seq(S) /\ Len(Append(s, x)) = Len(s) + 1
         /\ Append(s, x)[Len(s) + 1] = x
         /\ \A i \in 1..Len(s) : Append(s, x)[i] = s[i]
  OBVIOUS

LEMMA NodeIs ==
  ASSUME NEW p \in Nodes \cup {NULL}, NEW q \in Nodes \cup {NULL}, NEW v \in Values \cup {NULL}
  PROVE  /\ Node(p, q, v) \in list_node_t
         /\ Node(p, q, v).prev = p /\ Node(p, q, v).next = q /\ Node(p, q, v).val = v
  BY DEF Node, list_node_t

LEMMA RPush ==
  ASSUME ListInv, NEW n \in Nodes \ allocated, NEW v \in Values, list_rpush(n, v)
  PROVE  ListInv' /\ AbstractOf!PushLast(n, v)
<1>1. PICK s \in Seq(Nodes) : Lists(s)
  BY DEF ListInv
<1> DEFINE t == Append(s, n)
<1>2. /\ Len(s) \in Nat /\ len = Len(s) /\ allocated = {s[i] : i \in 1..Len(s)}
      /\ n \in Nodes /\ \A i \in 1..Len(s) : s[i] \in Nodes /\ s[i] # n /\ s[i] # NULL
      /\ \A i, j \in 1..Len(s) : s[i] = s[j] => i = j
      /\ tail = (IF Len(s) = 0 THEN NULL ELSE s[Len(s)])
      /\ head = (IF Len(s) = 0 THEN NULL ELSE s[1])
  BY <1>1, NodesAssumption DEF Lists
<1>3. node \in [Nodes -> list_node_t]
  BY DEF ListInv
<1> DEFINE made == Node(tail, NULL, v)
<1>13. made \in list_node_t /\ made.prev = tail /\ made.next = NULL /\ made.val = v
  <2>1. tail \in Nodes \cup {NULL}
    <3>1. Len(s) # 0 => Len(s) \in 1..Len(s)
      BY <1>2
    <3>2. QED
      BY <1>2, <3>1
  <2>2. v \in Values \cup {NULL} /\ NULL \in Nodes \cup {NULL}
    OBVIOUS
  <2>3. QED
    BY <2>1, <2>2 DEF Node, list_node_t
<1>4. /\ node' \in [Nodes -> list_node_t]
      /\ node'[n] = Node(tail, NULL, v)
      /\ \A i \in 1..Len(s) :
           node'[s[i]] = [node[s[i]] EXCEPT !.next = IF i = Len(s) THEN n ELSE @]
  <2>1. Node(tail, NULL, v) \in list_node_t
    BY <1>13
  <2>2. CASE len > 0
    <3>1. node' = [node EXCEPT ![n] = Node(tail, NULL, v), ![tail].next = n]
      BY <2>2 DEF list_rpush
    <3>2. tail \in Nodes /\ tail # n /\ tail = s[Len(s)] /\ Len(s) \in 1..Len(s)
      BY <1>2, <2>2
    <3>3. [node[tail] EXCEPT !.next = n] \in list_node_t
      BY <1>3, <3>2 DEF list_node_t
    <3>4. /\ node' = [m \in Nodes |-> IF m = tail THEN [node[tail] EXCEPT !.next = n]
                                  ELSE IF m = n THEN Node(tail, NULL, v) ELSE node[m]]
      BY <3>1, <3>2, <1>3, <1>2
    <3>5. ASSUME NEW i \in 1..Len(s)
          PROVE  node'[s[i]] = [node[s[i]] EXCEPT !.next = IF i = Len(s) THEN n ELSE @]
      <4>1. CASE i = Len(s)
        BY <4>1, <3>4, <3>2, <1>2
      <4>2. CASE i # Len(s)
        <5>1. s[i] # tail /\ s[i] # n /\ s[i] \in Nodes /\ node[s[i]] \in list_node_t
          BY <4>2, <3>2, <1>2, <1>3
        <5>2. node'[s[i]] = node[s[i]]
          BY <5>1, <3>4
        <5>3. QED
          BY <5>1, <5>2, <4>2 DEF list_node_t
      <4>3. QED
        BY <4>1, <4>2
    <3>6. QED
      BY <2>1, <3>2, <3>3, <3>4, <3>5, <1>2, <1>3
  <2>3. CASE len = 0
    <3>1. node' = [node EXCEPT ![n] = Node(NULL, NULL, v)] /\ tail = NULL
      BY <2>3, <1>2 DEF list_rpush
    <3>2. QED
      BY <2>1, <2>3, <3>1, <1>2, <1>3
  <2>4. QED
    BY <2>2, <2>3, <1>2
<1>5. /\ t \in Seq(Nodes) /\ Len(t) = Len(s) + 1 /\ t[Len(t)] = n
      /\ \A i \in 1..Len(s) : t[i] = s[i]
  BY <1>2, Appended
<1> HIDE DEF t
<1>6. Lists(t)'
  <2>1. \A i, j \in 1..Len(t) : t[i] = t[j] => i = j
    BY <1>2, <1>5
  <2>2. head' = t[1] /\ tail' = t[Len(t)] /\ len' = Len(t)
    BY <1>2, <1>5 DEF list_rpush, Pushed
  <2>3. allocated' = {t[i] : i \in 1..Len(t)}
    <3>1. allocated' = allocated \cup {n}
      BY DEF list_rpush, Pushed
    <3>2. QED
      BY <3>1, <1>2, <1>5
  <2>4. ASSUME NEW i \in 1..Len(t)
        PROVE  /\ node'[t[i]].next = IF i = Len(t) THEN NULL ELSE t[i + 1]
               /\ node'[t[i]].prev = IF i = 1 THEN NULL ELSE t[i - 1]
               /\ node'[t[i]].val \in Values
    <3>1. CASE i = Len(t)
      <4>1. node'[t[i]].next = NULL /\ node'[t[i]].prev = tail /\ node'[t[i]].val = v
        BY <3>1, <1>13, <1>4, <1>5
      <4>2. QED
        BY <4>1, <3>1, <1>2, <1>5
    <3>2. CASE i # Len(t)
      <4>1. i \in 1..Len(s) /\ t[i] = s[i] /\ node[s[i]] \in list_node_t
        BY <3>2, <1>2, <1>3, <1>5
      <4>2. /\ node'[s[i]].next = (IF i = Len(s) THEN n ELSE node[s[i]].next)
            /\ node'[s[i]].prev = node[s[i]].prev /\ node'[s[i]].val = node[s[i]].val
        <5>1. node'[s[i]] = [node[s[i]] EXCEPT !.next = IF i = Len(s) THEN n ELSE @]
          BY <4>1, <1>4
        <5>2. QED
          BY <4>1, <5>1 DEF list_node_t
      <4>3. /\ node[s[i]].next = (IF i = Len(s) THEN NULL ELSE s[i + 1])
            /\ node[s[i]].prev = (IF i = 1 THEN NULL ELSE s[i - 1])
            /\ node[s[i]].val \in Values
        BY <4>1, <1>1 DEF Lists, Linked
      <4>4. QED
        BY <4>1, <4>2, <4>3, <3>2, <1>2, <1>5
    <3>3. QED
      BY <3>1, <3>2
  <2>5. QED
    BY <2>1, <2>2, <2>3, <2>4, <1>2, <1>5 DEF Lists, Linked
<1>7. ListInv'
  BY <1>4, <1>5, <1>6 DEF ListInv
<1> DEFINE e == Elements
           f == Elements'
<1>8. /\ e \in Seq(Entry) /\ Len(e) = Len(s)
      /\ \A i \in 1..Len(s) : e[i] = [node |-> s[i], val |-> node[s[i]].val]
      /\ f \in Seq(Entry) /\ Len(f) = Len(t)
      /\ \A i \in 1..Len(t) : f[i] = [node |-> t[i], val |-> node'[t[i]].val]
  BY <1>1, <1>5, <1>6, ElementsAre
<1>9. f = Append(e, [node |-> n, val |-> v])
  <2>1. ASSUME NEW i \in 1..Len(s) PROVE node'[s[i]].val = node[s[i]].val
    <3>1. node[s[i]] \in list_node_t
      BY <1>2, <1>3
    <3>2. QED
      BY <3>1, <1>4 DEF list_node_t
  <2>2. node'[n].val = v
    BY <1>4, <1>13
  <2> HIDE DEF e, f
  <2> DEFINE x == [node |-> n, val |-> v]
             g == Append(e, x)
  <2>3. x \in Entry
    BY <1>2 DEF Entry
  <2> HIDE DEF x
  <2>4. /\ g \in Seq(Entry) /\ Len(g) = Len(e) + 1 /\ g[Len(e) + 1] = x
        /\ \A i \in 1..Len(e) : g[i] = e[i]
    BY <2>3, <1>8, Appended
  <2> HIDE DEF g
  <2>5. ASSUME NEW i \in 1..Len(f) PROVE f[i] = g[i]
    <3>1. CASE i \in 1..Len(s)
      <4>1. i \in 1..Len(t) /\ t[i] = s[i] /\ i \in 1..Len(e)
        BY <3>1, <1>5, <1>8
      <4>2. f[i] = [node |-> s[i], val |-> node'[s[i]].val] /\ node'[s[i]].val = node[s[i]].val
        BY <4>1, <3>1, <1>8, <2>1
      <4>3. QED
        BY <4>1, <4>2, <3>1, <2>4, <1>8
    <3>2. CASE i = Len(s) + 1
      BY <3>2, <2>2, <2>4, <1>2, <1>5, <1>8 DEF x
    <3>3. QED
      BY <3>1, <3>2, <1>2, <1>5, <1>8
  <2>6. f = g
    BY <2>4, <2>5, <1>5, <1>8, SequencesEqual
  <2>7. QED
    BY <2>6 DEF g, x
<1>10. ~ AbstractOf!In(n)
  <2> HIDE DEF e, f
  <2>1. DOMAIN e = 1..Len(s)
    BY <1>8
  <2>2. ASSUME NEW i \in DOMAIN e PROVE e[i].node # n
    <3>1. e[i] = [node |-> s[i], val |-> node[s[i]].val] /\ s[i] # n
      BY <2>1, <1>2, <1>8
    <3>2. QED
      BY <3>1
  <2>3. QED
    BY <2>2 DEF AbstractOf!In, e
<1>11. result' = [call |-> <<"rpush", v>>, returned |-> n]
  BY DEF list_rpush, Pushed, Returns
<1>12. QED
  BY <1>7, <1>9, <1>10, <1>11 DEF AbstractOf!PushLast, AbstractOf!Element, AbstractOf!Returns

LEMMA LPush ==
  ASSUME ListInv, NEW n \in Nodes \ allocated, NEW v \in Values, list_lpush(n, v)
  PROVE  ListInv' /\ AbstractOf!PushFirst(n, v)
<1>1. PICK s \in Seq(Nodes) : Lists(s)
  BY DEF ListInv
<1> DEFINE t == <<n>> \o s
<1>2. /\ Len(s) \in Nat /\ len = Len(s) /\ allocated = {s[i] : i \in 1..Len(s)}
      /\ n \in Nodes /\ \A i \in 1..Len(s) : s[i] \in Nodes /\ s[i] # n /\ s[i] # NULL
      /\ \A i, j \in 1..Len(s) : s[i] = s[j] => i = j
      /\ tail = (IF Len(s) = 0 THEN NULL ELSE s[Len(s)])
      /\ head = (IF Len(s) = 0 THEN NULL ELSE s[1])
  BY <1>1, NodesAssumption DEF Lists
<1>3. node \in [Nodes -> list_node_t]
  BY DEF ListInv
<1> DEFINE made == Node(NULL, head, v)
<1>13. made \in list_node_t /\ made.prev = NULL /\ made.next = head /\ made.val = v
  <2>1. head \in Nodes \cup {NULL}
    <3>1. Len(s) # 0 => 1 \in 1..Len(s)
      BY <1>2
    <3>2. QED
      BY <1>2, <3>1
  <2>2. v \in Values \cup {NULL} /\ NULL \in Nodes \cup {NULL}
    OBVIOUS
  <2>3. QED
    BY <2>1, <2>2 DEF Node, list_node_t
<1>4. /\ node' \in [Nodes -> list_node_t]
      /\ node'[n] = Node(NULL, head, v)
      /\ \A i \in 1..Len(s) :
           node'[s[i]] = [node[s[i]] EXCEPT !.prev = IF i = 1 THEN n ELSE @]
  <2>1. Node(NULL, head, v) \in list_node_t
    BY <1>13
  <2>2. CASE len > 0
    <3>1. node' = [node EXCEPT ![n] = Node(NULL, head, v), ![head].prev = n]
      BY <2>2 DEF list_lpush
    <3>2. head \in Nodes /\ head # n /\ head = s[1] /\ 1 \in 1..Len(s)
      BY <1>2, <2>2
    <3>3. [node[head] EXCEPT !.prev = n] \in list_node_t
      BY <1>3, <3>2 DEF list_node_t
    <3>4. /\ node' = [m \in Nodes |-> IF m = head THEN [node[head] EXCEPT !.prev = n]
                                  ELSE IF m = n THEN Node(NULL, head, v) ELSE node[m]]
      BY <3>1, <3>2, <1>3, <1>2
    <3>5. ASSUME NEW i \in 1..Len(s)
          PROVE  node'[s[i]] = [node[s[i]] EXCEPT !.prev = IF i = 1 THEN n ELSE @]
      <4>1. CASE i = 1
        BY <4>1, <3>4, <3>2, <1>2
      <4>2. CASE i # 1
        <5>1. s[i] # head /\ s[i] # n /\ s[i] \in Nodes /\ node[s[i]] \in list_node_t
          BY <4>2, <3>2, <1>2, <1>3
        <5>2. node'[s[i]] = node[s[i]]
          BY <5>1, <3>4
        <5>3. QED
          BY <5>1, <5>2, <4>2 DEF list_node_t
      <4>3. QED
        BY <4>1, <4>2
    <3>6. QED
      BY <2>1, <3>2, <3>3, <3>4, <3>5, <1>2, <1>3
  <2>3. CASE len = 0
    <3>1. node' = [node EXCEPT ![n] = Node(NULL, NULL, v)] /\ head = NULL
      BY <2>3, <1>2 DEF list_lpush
    <3>2. QED
      BY <2>1, <2>3, <3>1, <1>2, <1>3
  <2>4. QED
    BY <2>2, <2>3, <1>2
<1>5. /\ t \in Seq(Nodes) /\ Len(t) = Len(s) + 1 /\ t[1] = n
      /\ \A i \in 1..Len(s) : t[i + 1] = s[i]
  BY <1>2, Prefixed
<1> HIDE DEF t
<1>14. \A i \in 1..Len(t) : i # 1 => i - 1 \in 1..Len(s) /\ t[i] = s[i - 1]
  <2>1. ASSUME NEW i \in 1..Len(t), i # 1 PROVE i - 1 \in 1..Len(s) /\ t[i] = s[i - 1]
    <3>1. i - 1 \in 1..Len(s) /\ (i - 1) + 1 = i
      BY <2>1, <1>2, <1>5
    <3>2. t[(i - 1) + 1] = s[i - 1]
      BY <3>1, <1>5
    <3>3. QED
      BY <3>1, <3>2
  <2>2. QED
    BY <2>1
<1>6. Lists(t)'
  <2>1. ASSUME NEW i \in 1..Len(t), NEW j \in 1..Len(t), t[i] = t[j] PROVE i = j
    <3>1. CASE i = 1 /\ j # 1
      BY <3>1, <2>1, <1>2, <1>5, <1>14
    <3>2. CASE i # 1 /\ j = 1
      BY <3>2, <2>1, <1>2, <1>5, <1>14
    <3>3. CASE i # 1 /\ j # 1
      <4>1. i - 1 = j - 1
        BY <3>3, <2>1, <1>2, <1>14
      <4>2. QED
        BY <4>1, <1>5
    <3>4. QED
      BY <3>1, <3>2, <3>3
  <2>2. head' = t[1] /\ len' = Len(t)
    BY <1>2, <1>5 DEF list_lpush, Pushed
  <2>6. tail' = t[Len(t)]
    <3>1. CASE len > 0
      <4>1. tail' = tail /\ Len(t) # 1 /\ Len(t) \in 1..Len(t) /\ Len(t) - 1 = Len(s)
        BY <3>1, <1>2, <1>5 DEF list_lpush
      <4>2. QED
        BY <4>1, <3>1, <1>2, <1>14
    <3>2. CASE len = 0
      BY <3>2, <1>2, <1>5 DEF list_lpush
    <3>3. QED
      BY <3>1, <3>2, <1>2
  <2>3. allocated' = {t[i] : i \in 1..Len(t)}
    <3>1. allocated' = allocated \cup {n}
      BY DEF list_lpush, Pushed
    <3>2. ASSUME NEW m PROVE m \in allocated' <=> \E i \in 1..Len(t) : m = t[i]
      <4>1. m = n => 1 \in 1..Len(t) /\ m = t[1]
        BY <1>2, <1>5
      <4>2. ASSUME NEW i \in 1..Len(s), m = s[i] PROVE i + 1 \in 1..Len(t) /\ m = t[i + 1]
        BY <4>2, <1>2, <1>5
      <4>3. ASSUME NEW i \in 1..Len(t), m = t[i] PROVE m \in allocated'
        <5>1. CASE i = 1
          BY <5>1, <4>3, <3>1, <1>5
        <5>2. CASE i # 1
          BY <5>2, <4>3, <3>1, <1>14, <1>2
        <5>3. QED
          BY <5>1, <5>2
      <4>4. QED
        BY <4>1, <4>2, <4>3, <3>1, <1>2
    <3>3. QED
      BY <3>2
  <2>4. ASSUME NEW i \in 1..Len(t)
        PROVE  /\ node'[t[i]].next = IF i = Len(t) THEN NULL ELSE t[i + 1]
               /\ node'[t[i]].prev = IF i = 1 THEN NULL ELSE t[i - 1]
               /\ node'[t[i]].val \in Values
    <3>1. CASE i = 1
      <4>1. node'[t[i]].next = head /\ node'[t[i]].prev = NULL /\ node'[t[i]].val = v
        BY <3>1, <1>13, <1>4, <1>5
      <4>2. Len(t) = 1 <=> Len(s) = 0
        BY <1>2, <1>5
      <4>3. Len(s) # 0 => 1 \in 1..Len(s) /\ t[1 + 1] = s[1]
        BY <1>2, <1>5
      <4>4. QED
        BY <4>1, <4>2, <4>3, <3>1, <1>2
    <3>2. CASE i # 1
      <4> DEFINE k == i - 1
      <4>1. k \in 1..Len(s) /\ t[i] = s[k] /\ node[s[k]] \in list_node_t /\ i = k + 1
        BY <3>2, <1>2, <1>3, <1>14
      <4> HIDE DEF k
      <4>2. /\ node'[s[k]].prev = (IF k = 1 THEN n ELSE node[s[k]].prev)
            /\ node'[s[k]].next = node[s[k]].next /\ node'[s[k]].val = node[s[k]].val
        <5>1. node'[s[k]] = [node[s[k]] EXCEPT !.prev = IF k = 1 THEN n ELSE @]
          BY <4>1, <1>4
        <5>2. QED
          BY <4>1, <5>1 DEF list_node_t
      <4>3. /\ node[s[k]].next = (IF k = Len(s) THEN NULL ELSE s[k + 1])
            /\ node[s[k]].prev = (IF k = 1 THEN NULL ELSE s[k - 1])
            /\ node[s[k]].val \in Values
        BY <4>1, <1>1 DEF Lists, Linked
      <4>4. k # Len(s) => k + 1 \in 1..Len(s) /\ t[i + 1] = s[k + 1]
        BY <4>1, <1>2, <1>5
      <4>5. t[i - 1] = IF k = 1 THEN n ELSE s[k - 1]
        <5>1. CASE k = 1
          BY <5>1, <4>1, <1>5
        <5>2. CASE k # 1
          <6>1. k - 1 \in 1..Len(s) /\ (k - 1) + 1 = i - 1
            BY <5>2, <4>1, <1>2
          <6>2. t[(k - 1) + 1] = s[k - 1]
            BY <6>1, <1>5
          <6>3. QED
            BY <6>1, <6>2, <5>2
        <5>3. QED
          BY <5>1, <5>2
      <4>6. i = Len(t) <=> k = Len(s)
        BY <4>1, <1>2, <1>5
      <4>7. QED
        BY <4>1, <4>2, <4>3, <4>4, <4>5, <4>6, <3>2
    <3>3. QED
      BY <3>1, <3>2
  <2>5. QED
    BY <2>1, <2>2, <2>3, <2>4, <2>6, <1>2, <1>5 DEF Lists, Linked
<1>7. ListInv'
  BY <1>4, <1>5, <1>6 DEF ListInv
<1> DEFINE e == Elements
           f == Elements'
<1>8. /\ e \in Seq(Entry) /\ Len(e) = Len(s)
      /\ \A i \in 1..Len(s) : e[i] = [node |-> s[i], val |-> node[s[i]].val]
      /\ f \in Seq(Entry) /\ Len(f) = Len(t)
      /\ \A i \in 1..Len(t) : f[i] = [node |-> t[i], val |-> node'[t[i]].val]
  BY <1>1, <1>5, <1>6, ElementsAre
<1>9. f = <<[node |-> n, val |-> v]>> \o e
  <2>1. ASSUME NEW i \in 1..Len(s) PROVE node'[s[i]].val = node[s[i]].val
    <3>1. node[s[i]] \in list_node_t
      BY <1>2, <1>3
    <3>2. QED
      BY <3>1, <1>4 DEF list_node_t
  <2>2. node'[n].val = v
    BY <1>4, <1>13
  <2> HIDE DEF e, f
  <2> DEFINE x == [node |-> n, val |-> v]
             g == <<x>> \o e
  <2>3. x \in Entry
    BY <1>2 DEF Entry
  <2> HIDE DEF x
  <2>4. g \in Seq(Entry) /\ Len(g) = Len(e) + 1 /\ g[1] = x /\ \A i \in 1..Len(e) : g[i + 1] = e[i]
    BY <2>3, <1>8, Prefixed
  <2> HIDE DEF g
  <2>5. ASSUME NEW i \in 1..Len(f) PROVE f[i] = g[i]
    <3>1. CASE i = 1
      BY <3>1, <2>2, <2>4, <1>2, <1>5, <1>8 DEF x
    <3>2. CASE i # 1
      <4> DEFINE k == i - 1
      <4>1. k \in 1..Len(s) /\ t[i] = s[k] /\ i = k + 1 /\ i \in 1..Len(t)
        BY <3>2, <1>2, <1>8, <1>14
      <4> HIDE DEF k
      <4>2. f[i] = [node |-> s[k], val |-> node'[s[k]].val] /\ node'[s[k]].val = node[s[k]].val
        BY <4>1, <1>8, <2>1
      <4>3. e[k] = [node |-> s[k], val |-> node[s[k]].val] /\ g[k + 1] = e[k]
        BY <4>1, <1>8, <2>4
      <4>4. QED
        BY <4>1, <4>2, <4>3
    <3>3. QED
      BY <3>1, <3>2
  <2>6. f = g
    BY <2>4, <2>5, <1>5, <1>8, SequencesEqual
  <2>7. QED
    BY <2>6 DEF g, x
<1>10. ~ AbstractOf!In(n)
  <2> HIDE DEF e, f
  <2>1. DOMAIN e = 1..Len(s)
    BY <1>8
  <2>2. ASSUME NEW i \in DOMAIN e PROVE e[i].node # n
    <3>1. e[i] = [node |-> s[i], val |-> node[s[i]].val] /\ s[i] # n
      BY <2>1, <1>2, <1>8
    <3>2. QED
      BY <3>1
  <2>3. QED
    BY <2>2 DEF AbstractOf!In, e
<1>11. result' = [call |-> <<"lpush", v>>, returned |-> n]
  BY DEF list_lpush, Pushed, Returns
<1>12. QED
  BY <1>7, <1>9, <1>10, <1>11 DEF AbstractOf!PushFirst, AbstractOf!Element, AbstractOf!Returns

\* The place in s of what is at i once the element at k is gone
Skip(k, i) == IF i < k THEN i ELSE i + 1

LEMMA Joined ==
  ASSUME NEW S, NEW a \in Seq(S), NEW b \in Seq(S)
  PROVE  /\ a \o b \in Seq(S) /\ Len(a \o b) = Len(a) + Len(b)
         /\ \A i \in 1..Len(a) : (a \o b)[i] = a[i]
         /\ \A i \in 1..Len(b) : (a \o b)[Len(a) + i] = b[i]
  OBVIOUS

LEMMA FirstOf ==
  ASSUME NEW S, NEW s \in Seq(S), NEW m \in Nat, m <= Len(s)
  PROVE  /\ SubSeq(s, 1, m) \in Seq(S) /\ Len(SubSeq(s, 1, m)) = m
         /\ \A i \in 1..m : SubSeq(s, 1, m)[i] = s[i]
  OBVIOUS

LEMMA Without ==
  ASSUME NEW S, NEW s \in Seq(S), NEW k \in 1..Len(s)
  PROVE  /\ RemoveAt(s, k) \in Seq(S) /\ Len(RemoveAt(s, k)) = Len(s) - 1
         /\ \A i \in 1..Len(s) - 1 : RemoveAt(s, k)[i] = s[Skip(k, i)]
<1> DEFINE a == SubSeq(s, 1, k - 1)
           b == SubSeq(s, k + 1, Len(s))
<1>1. Len(s) \in Nat /\ k \in Nat /\ 1 <= k /\ k <= Len(s)
  OBVIOUS
<1>2. a \in Seq(S) /\ Len(a) = k - 1 /\ \A i \in 1..k - 1 : a[i] = s[i]
  BY <1>1
<1>3. b \in Seq(S) /\ Len(b) = Len(s) - k /\ \A i \in 1..Len(s) - k : b[i] = s[k + i]
  BY <1>1
<1> HIDE DEF a, b
<1>4. /\ a \o b \in Seq(S) /\ Len(a \o b) = Len(s) - 1
      /\ \A i \in 1..k - 1 : (a \o b)[i] = a[i]
      /\ \A i \in 1..Len(s) - k : (a \o b)[(k - 1) + i] = b[i]
  <2>1. /\ a \o b \in Seq(S) /\ Len(a \o b) = Len(a) + Len(b)
        /\ \A i \in 1..Len(a) : (a \o b)[i] = a[i]
        /\ \A i \in 1..Len(b) : (a \o b)[Len(a) + i] = b[i]
    <3>1. a \in Seq(S) /\ b \in Seq(S)
      BY <1>2, <1>3
    <3>2. QED
      BY <3>1, Joined
  <2>2. QED
    BY <2>1, <1>1, <1>2, <1>3
<1>5. ASSUME NEW i \in 1..Len(s) - 1 PROVE (a \o b)[i] = s[Skip(k, i)]
  <2>1. CASE i < k
    BY <2>1, <1>1, <1>2, <1>4 DEF Skip
  <2>2. CASE ~(i < k)
    <3> DEFINE j == i - (k - 1)
    <3>1. j \in 1..Len(s) - k /\ k + j = i + 1 /\ (k - 1) + j = i
      BY <2>2, <1>1
    <3> HIDE DEF j
    <3>2. b[j] = s[k + j] /\ (a \o b)[(k - 1) + j] = b[j]
      BY <3>1, <1>3, <1>4
    <3>3. QED
      BY <2>2, <3>1, <3>2 DEF Skip
  <2>3. QED
    BY <2>1, <2>2
<1>6. RemoveAt(s, k) = a \o b
  BY DEF RemoveAt, a, b
<1>7. QED
  BY <1>4, <1>5, <1>6

LEMMA EndsGone ==
  ASSUME NEW S, NEW s \in Seq(S), Len(s) > 0
  PROVE  Front(s) = RemoveAt(s, Len(s)) /\ Tail(s) = RemoveAt(s, 1)
<1>1. Len(s) \in Nat \ {0} /\ Len(s) \in 1..Len(s) /\ 1 \in 1..Len(s)
  OBVIOUS
<1>2. Front(s) = RemoveAt(s, Len(s))
  <2> DEFINE a == SubSeq(s, 1, Len(s) - 1)
             c == RemoveAt(s, Len(s))
  <2>1. a \in Seq(S) /\ Len(a) = Len(s) - 1 /\ \A i \in 1..Len(s) - 1 : a[i] = s[i]
    <3>1. Len(s) - 1 \in Nat /\ Len(s) - 1 <= Len(s)
      BY <1>1
    <3>2. QED
      BY <3>1, FirstOf
  <2>2. c \in Seq(S) /\ Len(c) = Len(s) - 1 /\ \A i \in 1..Len(s) - 1 : c[i] = s[Skip(Len(s), i)]
    BY <1>1, Without
  <2> HIDE DEF a, c
  <2>3. \A i \in 1..Len(a) : a[i] = c[i]
    BY <1>1, <2>1, <2>2 DEF Skip
  <2>4. a = c
    BY <2>1, <2>2, <2>3, SequencesEqual
  <2>5. QED
    BY <2>4 DEF a, c, Front
<1>3. Tail(s) = RemoveAt(s, 1)
  <2> DEFINE a == Tail(s)
             c == RemoveAt(s, 1)
  <2>1. a \in Seq(S) /\ Len(a) = Len(s) - 1 /\ \A i \in 1..Len(s) - 1 : a[i] = s[i + 1]
    BY <1>1
  <2>2. c \in Seq(S) /\ Len(c) = Len(s) - 1 /\ \A i \in 1..Len(s) - 1 : c[i] = s[Skip(1, i)]
    BY <1>1, Without
  <2> HIDE DEF a, c
  <2>3. \A i \in 1..Len(a) : a[i] = c[i]
    BY <1>1, <2>1, <2>2 DEF Skip
  <2>4. a = c
    BY <2>1, <2>2, <2>3, SequencesEqual
  <2>5. QED
    BY <2>4 DEF a, c
<1>4. QED
  BY <1>2, <1>3

\* A chain that loses the node at k, whose neighbours are linked around it, is one without it
LEMMA Unlinked ==
  ASSUME ListInv, NEW s \in Seq(Nodes), Lists(s), NEW k \in 1..Len(s),
         node' \in [Nodes -> list_node_t],
         \A m \in Nodes \ {s[k]} :
           /\ node'[m].next = IF k # 1 /\ m = s[k - 1] THEN node[s[k]].next ELSE node[m].next
           /\ node'[m].prev = IF k # Len(s) /\ m = s[k + 1] THEN node[s[k]].prev ELSE node[m].prev
           /\ node'[m].val = node[m].val,
         head' = IF k = 1 THEN node[s[k]].next ELSE head,
         tail' = IF k = Len(s) THEN node[s[k]].prev ELSE tail,
         len' = len - 1,
         allocated' = allocated \ {s[k]}
  PROVE  ListInv' /\ Elements' = RemoveAt(Elements, k) /\ Len(Elements) = Len(s)
<1> DEFINE t == RemoveAt(s, k)
<1>1. /\ Len(s) \in Nat \ {0} /\ len = Len(s) /\ allocated = {s[i] : i \in 1..Len(s)}
      /\ \A i \in 1..Len(s) : s[i] \in Nodes /\ s[i] # NULL
      /\ \A i, j \in 1..Len(s) : s[i] = s[j] => i = j
      /\ tail = s[Len(s)] /\ head = s[1]
  BY NodesAssumption DEF Lists
<1>2. ASSUME NEW i \in 1..Len(s)
      PROVE  /\ node[s[i]].next = IF i = Len(s) THEN NULL ELSE s[i + 1]
             /\ node[s[i]].prev = IF i = 1 THEN NULL ELSE s[i - 1]
             /\ node[s[i]].val \in Values
  BY DEF Lists, Linked
<1>3. /\ t \in Seq(Nodes) /\ Len(t) = Len(s) - 1
      /\ \A i \in 1..Len(s) - 1 : t[i] = s[Skip(k, i)]
  <2>1. k \in 1..Len(s)
    OBVIOUS
  <2>2. QED
    BY <2>1, Without, SMTT(30)
<1> HIDE DEF t
<1>4. \A i \in 1..Len(t) : Skip(k, i) \in 1..Len(s) \ {k} /\ t[i] = s[Skip(k, i)]
  <2>1. ASSUME NEW i \in 1..Len(t) PROVE Skip(k, i) \in 1..Len(s) \ {k} /\ t[i] = s[Skip(k, i)]
    <3>1. i \in 1..Len(s) - 1
      BY <1>3
    <3>2. QED
      BY <3>1, <1>1, <1>3 DEF Skip
  <2>2. QED
    BY <2>1
<1>5. \A i, j \in 1..Len(t) : Skip(k, i) = Skip(k, j) => i = j
  BY <1>3 DEF Skip
<1>6. \A i \in 1..Len(s) \ {k} : \E j \in 1..Len(t) : i = Skip(k, j)
  <2>1. ASSUME NEW i \in 1..Len(s) \ {k} PROVE \E j \in 1..Len(t) : i = Skip(k, j)
    <3>1. CASE i < k
      <4>1. i \in 1..Len(t)
        BY <3>1, <1>1, <1>3
      <4>2. Skip(k, i) = i
        BY <3>1 DEF Skip
      <4>3. QED
        BY <4>1, <4>2
    <3>2. CASE ~(i < k)
      <4>1. i - 1 \in 1..Len(t) /\ ~(i - 1 < k) /\ (i - 1) + 1 = i
        BY <3>2, <1>1, <1>3
      <4>2. Skip(k, i - 1) = i
        BY <4>1 DEF Skip
      <4>3. QED
        BY <4>1, <4>2
    <3>3. QED
      BY <3>1, <3>2
  <2>2. QED
    BY <2>1
<1>7. Lists(t)'
  <2>1. ASSUME NEW i \in 1..Len(t), NEW j \in 1..Len(t), t[i] = t[j] PROVE i = j
    <3>1. /\ Skip(k, i) \in 1..Len(s) /\ t[i] = s[Skip(k, i)]
          /\ Skip(k, j) \in 1..Len(s) /\ t[j] = s[Skip(k, j)]
      BY <1>4
    <3>2. Skip(k, i) = Skip(k, j)
      BY <2>1, <3>1, <1>1
    <3>3. QED
      BY <3>2, <1>5
  <2>2. head' = IF Len(t) = 0 THEN NULL ELSE t[1]
    <3>1. CASE k = 1
      <4>1. head' = IF Len(s) = 1 THEN NULL ELSE s[2]
        BY <3>1, <1>1, <1>2
      <4>2. Len(t) # 0 => t[1] = s[2]
        BY <3>1, <1>1, <1>3 DEF Skip
      <4>3. QED
        BY <4>1, <4>2, <1>1, <1>3
    <3>2. CASE k # 1
      <4>1. Len(t) # 0 /\ 1 \in 1..Len(t) /\ Skip(k, 1) = 1
        BY <3>2, <1>1, <1>3 DEF Skip
      <4>2. QED
        BY <3>2, <4>1, <1>1, <1>3
    <3>3. QED
      BY <3>1, <3>2
  <2>3. tail' = IF Len(t) = 0 THEN NULL ELSE t[Len(t)]
    <3>1. CASE k = Len(s)
      <4>1. tail' = IF Len(s) = 1 THEN NULL ELSE s[Len(s) - 1]
        BY <3>1, <1>1, <1>2
      <4>2. Len(t) # 0 => Len(t) \in 1..Len(t) /\ Skip(k, Len(t)) = Len(s) - 1
        BY <3>1, <1>1, <1>3 DEF Skip
      <4>3. QED
        BY <4>1, <4>2, <1>1, <1>3
    <3>2. CASE k # Len(s)
      <4>1. Len(t) # 0 /\ Len(t) \in 1..Len(t) /\ Skip(k, Len(t)) = Len(s)
        BY <3>2, <1>1, <1>3 DEF Skip
      <4>2. QED
        BY <3>2, <4>1, <1>1, <1>3
    <3>3. QED
      BY <3>1, <3>2
  <2>4. allocated' = {t[i] : i \in 1..Len(t)}
    <3>1. ASSUME NEW m \in allocated' PROVE \E i \in 1..Len(t) : m = t[i]
      <4>1. PICK i \in 1..Len(s) : m = s[i]
        BY <1>1
      <4>2. i # k
        BY <4>1
      <4>3. PICK j \in 1..Len(t) : i = Skip(k, j)
        BY <4>2, <1>6
      <4>4. QED
        BY <4>1, <4>3, <1>4
    <3>2. ASSUME NEW i \in 1..Len(t) PROVE t[i] \in allocated'
      BY <1>1, <1>4
    <3>3. QED
      BY <3>1, <3>2
  <2>5. ASSUME NEW i \in 1..Len(t)
        PROVE  /\ node'[t[i]].next = IF i = Len(t) THEN NULL ELSE t[i + 1]
               /\ node'[t[i]].prev = IF i = 1 THEN NULL ELSE t[i - 1]
               /\ node'[t[i]].val \in Values
    <3> DEFINE p == Skip(k, i)
    <3>1. p \in 1..Len(s) \ {k} /\ t[i] = s[p] /\ s[p] \in Nodes \ {s[k]}
      BY <1>1, <1>4
    <3>2. /\ node'[s[p]].next =
               IF k # 1 /\ s[p] = s[k - 1] THEN node[s[k]].next ELSE node[s[p]].next
          /\ node'[s[p]].prev =
               IF k # Len(s) /\ s[p] = s[k + 1] THEN node[s[k]].prev ELSE node[s[p]].prev
          /\ node'[s[p]].val = node[s[p]].val
      BY <3>1
    <3>3. node'[s[p]].next = IF i = Len(t) THEN NULL ELSE t[i + 1]
      <4>1. CASE p = k - 1
        <5>1. k # 1 /\ node'[s[p]].next = node[s[k]].next /\ i = k - 1
          BY <4>1, <3>1, <3>2, <1>1, <1>3 DEF Skip
        <5>2. node'[s[p]].next = IF k = Len(s) THEN NULL ELSE s[k + 1]
          BY <5>1, <1>2
        <5>3. i # Len(t) => i + 1 \in 1..Len(t) /\ Skip(k, i + 1) = k + 1
          BY <5>1, <1>1, <1>3 DEF Skip
        <5>4. i # Len(t) => t[i + 1] = s[k + 1]
          BY <5>3, <1>4
        <5>5. i = Len(t) <=> k = Len(s)
          BY <5>1, <1>1, <1>3
        <5>6. QED
          BY <5>2, <5>4, <5>5
      <4>2. CASE p # k - 1
        <5>1. k # 1 => s[p] # s[k - 1]
          BY <4>2, <3>1, <1>1
        <5>2. node'[s[p]].next = IF p = Len(s) THEN NULL ELSE s[p + 1]
          BY <5>1, <3>1, <3>2, <1>2
        <5>3. p = Len(s) <=> i = Len(t)
          BY <4>2, <3>1, <1>1, <1>3 DEF Skip
        <5>4. i # Len(t) => i + 1 \in 1..Len(t) /\ Skip(k, i + 1) = p + 1
          BY <4>2, <3>1, <1>1, <1>3 DEF Skip
        <5>5. QED
          BY <5>2, <5>3, <5>4, <1>3
      <4>3. QED
        BY <4>1, <4>2
    <3>4. node'[s[p]].prev = IF i = 1 THEN NULL ELSE t[i - 1]
      <4>1. CASE p = k + 1
        <5>1. k # Len(s) /\ node'[s[p]].prev = node[s[k]].prev /\ i = k
          BY <4>1, <3>1, <3>2, <1>1, <1>3 DEF Skip
        <5>2. node'[s[p]].prev = IF k = 1 THEN NULL ELSE s[k - 1]
          BY <5>1, <1>2
        <5>3. i # 1 => i - 1 \in 1..Len(t) /\ Skip(k, i - 1) = k - 1
          BY <5>1, <1>1, <1>3 DEF Skip
        <5>4. i # 1 => t[i - 1] = s[k - 1]
          BY <5>3, <1>4
        <5>5. QED
          BY <5>1, <5>2, <5>4
      <4>2. CASE p # k + 1
        <5>1. k # Len(s) => s[p] # s[k + 1]
          BY <4>2, <3>1, <1>1
        <5>2. node'[s[p]].prev = IF p = 1 THEN NULL ELSE s[p - 1]
          BY <5>1, <3>1, <3>2, <1>2
        <5>3. p = 1 <=> i = 1
          BY <4>2, <3>1, <1>1, <1>3 DEF Skip
        <5>4. i # 1 => i - 1 \in 1..Len(t) /\ Skip(k, i - 1) = p - 1
          BY <4>2, <3>1, <1>1, <1>3 DEF Skip
        <5>5. QED
          BY <5>2, <5>3, <5>4, <1>3
      <4>3. QED
        BY <4>1, <4>2
    <3>5. node'[s[p]].val \in Values
      BY <3>1, <3>2, <1>2
    <3> HIDE DEF p
    <3>6. QED
      BY <3>1, <3>3, <3>4, <3>5
  <2>6. QED
    BY <2>1, <2>2, <2>3, <2>4, <2>5, <1>1, <1>3 DEF Lists, Linked
<1>8. ListInv'
  BY <1>3, <1>7 DEF ListInv
<1> DEFINE e == Elements
           f == Elements'
           g == RemoveAt(e, k)
<1>9. /\ e \in Seq(Entry) /\ Len(e) = Len(s)
      /\ \A i \in 1..Len(s) : e[i] = [node |-> s[i], val |-> node[s[i]].val]
      /\ f \in Seq(Entry) /\ Len(f) = Len(t)
      /\ \A i \in 1..Len(t) : f[i] = [node |-> t[i], val |-> node'[t[i]].val]
  BY <1>3, <1>7, ElementsAre
<1> HIDE DEF e, f
<1>10. g \in Seq(Entry) /\ Len(g) = Len(t) /\ \A i \in 1..Len(t) : g[i] = e[Skip(k, i)]
  BY <1>3, <1>9, Without
<1> HIDE DEF g
<1>11. ASSUME NEW i \in 1..Len(f) PROVE f[i] = g[i]
  <2> DEFINE p == Skip(k, i)
  <2>1. i \in 1..Len(t) /\ p \in 1..Len(s) \ {k} /\ t[i] = s[p] /\ s[p] \in Nodes \ {s[k]}
    BY <1>1, <1>4, <1>9
  <2>2. f[i] = [node |-> s[p], val |-> node'[s[p]].val] /\ node'[s[p]].val = node[s[p]].val
    BY <2>1, <1>9
  <2>3. g[i] = e[p] /\ e[p] = [node |-> s[p], val |-> node[s[p]].val]
    BY <2>1, <1>9, <1>10
  <2>4. QED
    BY <2>2, <2>3
<1>12. f = g
  BY <1>9, <1>10, <1>11, SequencesEqual
<1>13. QED
  BY <1>8, <1>9, <1>12 DEF e, f, g

LEMMA GoneIs ==
  Gone \in list_node_t
  BY NodeIs DEF Gone

\* A node and its neighbours in the chain
LEMMA AtPlace ==
  ASSUME ListInv, NEW s \in Seq(Nodes), Lists(s), NEW k \in 1..Len(s)
  PROVE  /\ s[k] \in Nodes /\ s[k] # NULL /\ node[s[k]] \in list_node_t
         /\ node[s[k]].next = IF k = Len(s) THEN NULL ELSE s[k + 1]
         /\ node[s[k]].prev = IF k = 1 THEN NULL ELSE s[k - 1]
         /\ k # Len(s) => s[k + 1] \in Nodes \ {s[k]}
         /\ k # 1 => s[k - 1] \in Nodes \ {s[k]}
<1>1. \A i \in 1..Len(s) : s[i] \in Nodes /\ s[i] # NULL
  BY NodesAssumption
<1>2. k # Len(s) => k + 1 \in 1..Len(s)
  OBVIOUS
<1>3. k # 1 => k - 1 \in 1..Len(s)
  OBVIOUS
<1>4. (k # Len(s) => s[k + 1] # s[k]) /\ (k # 1 => s[k - 1] # s[k])
  BY <1>2, <1>3 DEF Lists
<1>5. node[s[k]] \in list_node_t
  BY <1>1 DEF ListInv
<1>6. QED
  BY <1>1, <1>2, <1>3, <1>4, <1>5 DEF Lists, Linked

LEMMA RPop ==
  ASSUME ListInv, list_rpop
  PROVE  ListInv' /\ AbstractOf!PopLast
<1>1. PICK s \in Seq(Nodes) : Lists(s)
  BY DEF ListInv
<1> DEFINE k == Len(s)
           e == Elements
           f == Elements'
<1>2. len > 0 /\ len' = len - 1 /\ allocated' = allocated \ {tail} /\ tail' = node[tail].prev
  BY DEF list_rpop, Popped
<1>3. k \in 1..Len(s) /\ len = k /\ tail = s[k] /\ head = s[1]
  BY <1>1, <1>2 DEF Lists
<1>4. /\ s[k] \in Nodes /\ node[s[k]].next = NULL
      /\ node[s[k]].prev = IF k = 1 THEN NULL ELSE s[k - 1]
      /\ k # 1 => s[k - 1] \in Nodes \ {s[k]}
  BY <1>1, <1>3, AtPlace
<1>5. node \in [Nodes -> list_node_t] /\ Gone \in list_node_t
  BY GoneIs DEF ListInv
<1>6. /\ node' \in [Nodes -> list_node_t]
      /\ \A m \in Nodes \ {s[k]} :
           /\ node'[m].next = IF k # 1 /\ m = s[k - 1] THEN NULL ELSE node[m].next
           /\ node'[m].prev = node[m].prev
           /\ node'[m].val = node[m].val
  <2>1. CASE len > 1
    <3> DEFINE p == s[k - 1]
    <3>1. node' = [node EXCEPT ![tail] = Gone, ![tail'].next = NULL]
      BY <2>1 DEF list_rpop
    <3>2. tail' = p /\ p \in Nodes \ {s[k]} /\ k # 1
      BY <2>1, <1>2, <1>3, <1>4
    <3>3. node' = [node EXCEPT ![s[k]] = Gone, ![p].next = NULL]
      BY <3>1, <3>2, <1>3
    <3>4. [node[p] EXCEPT !.next = NULL] \in list_node_t
      BY <3>2, <1>5 DEF list_node_t
    <3> HIDE DEF p
    <3>5. node' = [m \in Nodes |-> IF m = p THEN [node[p] EXCEPT !.next = NULL]
                                   ELSE IF m = s[k] THEN Gone ELSE node[m]]
      BY <3>2, <3>3, <1>4, <1>5
    <3>6. node' \in [Nodes -> list_node_t]
      BY <3>4, <3>5, <1>5
    <3>7. ASSUME NEW m \in Nodes \ {s[k]}
          PROVE  /\ node'[m].next = IF m = p THEN NULL ELSE node[m].next
                 /\ node'[m].prev = node[m].prev
                 /\ node'[m].val = node[m].val
      <4>1. node[m] \in list_node_t
        BY <1>5
      <4>2. node'[m] = IF m = p THEN [node[m] EXCEPT !.next = NULL] ELSE node[m]
        BY <3>5
      <4>3. QED
        BY <4>1, <4>2 DEF list_node_t
    <3>8. QED
      BY <3>2, <3>6, <3>7 DEF p
  <2>2. CASE ~(len > 1)
    <3>1. node' = [node EXCEPT ![s[k]] = Gone] /\ k = 1
      BY <2>2, <1>3 DEF list_rpop
    <3>2. QED
      BY <3>1, <1>4, <1>5
  <2>3. QED
    BY <2>1, <2>2
<1>7. head' = IF k = 1 THEN node[s[k]].next ELSE head
  <2>1. CASE len > 1
    BY <2>1, <1>3 DEF list_rpop
  <2>2. CASE ~(len > 1)
    BY <2>2, <1>3, <1>4 DEF list_rpop
  <2>3. QED
    BY <2>1, <2>2
<1>8. ListInv' /\ Elements' = RemoveAt(Elements, k) /\ Len(Elements) = k
  BY <1>1, <1>2, <1>3, <1>4, <1>6, <1>7, Unlinked
<1>9. e \in Seq(Entry) /\ Len(e) = k /\ e[k].node = s[k]
  <2>1. PICK t \in Seq(Nodes) : Lists(t)'
    BY <1>8 DEF ListInv
  <2>2. /\ e \in Seq(Entry) /\ Len(e) = Len(s)
        /\ \A i \in 1..Len(s) : e[i] = [node |-> s[i], val |-> node[s[i]].val]
    BY <1>1, <2>1, ElementsAre
  <2> HIDE DEF e
  <2>3. e[k] = [node |-> s[k], val |-> node[s[k]].val]
    BY <1>3, <2>2
  <2>4. QED
    BY <2>2, <2>3
<1>10. result' = [call |-> <<"rpop">>, returned |-> s[k]]
  BY <1>3 DEF list_rpop, Popped, Returns
<1> HIDE DEF e, f
<1>11. e # << >> /\ f = Front(e) /\ Last(e).node = s[k]
  BY <1>3, <1>8, <1>9, EndsGone DEF Last, e, f
<1>12. QED
  <2>1. /\ Elements # << >> /\ Elements' = AbstractOf!Front(Elements)
        /\ AbstractOf!Last(Elements).node = s[k]
    BY <1>11 DEF Front, Last, AbstractOf!Front, AbstractOf!Last, e, f
  <2>2. QED
    BY <1>8, <1>10, <2>1 DEF AbstractOf!PopLast, AbstractOf!Returns

LEMMA LPop ==
  ASSUME ListInv, list_lpop
  PROVE  ListInv' /\ AbstractOf!PopFirst
<1>1. PICK s \in Seq(Nodes) : Lists(s)
  BY DEF ListInv
<1> DEFINE e == Elements
           f == Elements'
<1>2. len > 0 /\ len' = len - 1 /\ allocated' = allocated \ {head} /\ head' = node[head].next
  BY DEF list_lpop, Popped
<1>3. 1 \in 1..Len(s) /\ Len(s) \in Nat /\ len = Len(s) /\ tail = s[Len(s)] /\ head = s[1]
  BY <1>1, <1>2 DEF Lists
<1>4. /\ s[1] \in Nodes /\ node[s[1]].prev = NULL
      /\ node[s[1]].next = IF 1 = Len(s) THEN NULL ELSE s[1 + 1]
      /\ 1 # Len(s) => s[1 + 1] \in Nodes \ {s[1]}
  BY <1>1, <1>3, AtPlace
<1>5. node \in [Nodes -> list_node_t] /\ Gone \in list_node_t
  BY GoneIs DEF ListInv
<1>6. /\ node' \in [Nodes -> list_node_t]
      /\ \A m \in Nodes \ {s[1]} :
           /\ node'[m].prev = IF 1 # Len(s) /\ m = s[1 + 1] THEN NULL ELSE node[m].prev
           /\ node'[m].next = node[m].next
           /\ node'[m].val = node[m].val
  <2>1. CASE len > 1
    <3> DEFINE p == s[1 + 1]
    <3>1. node' = [node EXCEPT ![head] = Gone, ![head'].prev = NULL]
      BY <2>1 DEF list_lpop
    <3>2. head' = p /\ p \in Nodes \ {s[1]} /\ 1 # Len(s)
      BY <2>1, <1>2, <1>3, <1>4
    <3>3. node' = [node EXCEPT ![s[1]] = Gone, ![p].prev = NULL]
      BY <3>1, <3>2, <1>3
    <3>4. [node[p] EXCEPT !.prev = NULL] \in list_node_t
      BY <3>2, <1>5 DEF list_node_t
    <3> HIDE DEF p
    <3>5. node' = [m \in Nodes |-> IF m = p THEN [node[p] EXCEPT !.prev = NULL]
                                   ELSE IF m = s[1] THEN Gone ELSE node[m]]
      BY <3>2, <3>3, <1>4, <1>5
    <3>6. node' \in [Nodes -> list_node_t]
      BY <3>4, <3>5, <1>5
    <3>7. ASSUME NEW m \in Nodes \ {s[1]}
          PROVE  /\ node'[m].prev = IF m = p THEN NULL ELSE node[m].prev
                 /\ node'[m].next = node[m].next
                 /\ node'[m].val = node[m].val
      <4>1. node[m] \in list_node_t
        BY <1>5
      <4>2. node'[m] = IF m = p THEN [node[m] EXCEPT !.prev = NULL] ELSE node[m]
        BY <3>5
      <4>3. QED
        BY <4>1, <4>2 DEF list_node_t
    <3>8. QED
      BY <3>2, <3>6, <3>7 DEF p
  <2>2. CASE ~(len > 1)
    <3>1. node' = [node EXCEPT ![s[1]] = Gone] /\ Len(s) = 1
      BY <2>2, <1>2, <1>3 DEF list_lpop
    <3>2. QED
      BY <3>1, <1>4, <1>5
  <2>3. QED
    BY <2>1, <2>2
<1>7. tail' = IF 1 = Len(s) THEN node[s[1]].prev ELSE tail
  <2>1. CASE len > 1
    BY <2>1, <1>3 DEF list_lpop
  <2>2. CASE ~(len > 1)
    BY <2>2, <1>2, <1>3, <1>4 DEF list_lpop
  <2>3. QED
    BY <2>1, <2>2
<1>8. head' = IF 1 = 1 THEN node[s[1]].next ELSE head
  BY <1>2, <1>3
<1>9. \A m \in Nodes \ {s[1]} :
        node'[m].next = IF 1 # 1 /\ m = s[1 - 1] THEN node[s[1]].next ELSE node[m].next
  BY <1>6
<1>10. ListInv' /\ Elements' = RemoveAt(Elements, 1) /\ Len(Elements) = Len(s)
  BY <1>1, <1>2, <1>3, <1>4, <1>6, <1>7, <1>8, <1>9, Unlinked
<1>11. e \in Seq(Entry) /\ Len(e) = Len(s) /\ e[1].node = s[1]
  <2>1. PICK t \in Seq(Nodes) : Lists(t)'
    BY <1>10 DEF ListInv
  <2>2. /\ e \in Seq(Entry) /\ Len(e) = Len(s)
        /\ \A i \in 1..Len(s) : e[i] = [node |-> s[i], val |-> node[s[i]].val]
    BY <1>1, <2>1, ElementsAre
  <2> HIDE DEF e
  <2>3. e[1] = [node |-> s[1], val |-> node[s[1]].val]
    BY <1>3, <2>2
  <2>4. QED
    BY <2>2, <2>3
<1>12. result' = [call |-> <<"lpop">>, returned |-> s[1]]
  BY <1>3 DEF list_lpop, Popped, Returns
<1> HIDE DEF e, f
<1>13. e # << >> /\ f = Tail(e) /\ Head(e).node = s[1]
  <2>1. Len(e) > 0
    BY <1>3, <1>11
  <2>2. Tail(e) = RemoveAt(e, 1)
    BY <2>1, <1>11, EndsGone
  <2>3. QED
    BY <2>1, <2>2, <1>10, <1>11 DEF e, f
<1>14. QED
  BY <1>10, <1>12, <1>13 DEF AbstractOf!PopFirst, AbstractOf!Returns, e, f

LEMMA RemoveNode ==
  ASSUME ListInv, NEW n \in ToSet(Walk("next")), list_remove(n)
  PROVE  ListInv' /\ \E i \in DOMAIN Elements : AbstractOf!RemoveElement(i)
<1>1. PICK s \in Seq(Nodes) : Lists(s)
  BY DEF ListInv
<1>2. Walk("next") = s
  BY <1>1, ListIs
<1>3. PICK k \in 1..Len(s) : n = s[k]
  BY <1>2 DEF ToSet
<1> DEFINE e == Elements
           f == Elements'
<1>4. Len(s) \in Nat /\ len = Len(s) /\ tail = s[Len(s)] /\ head = s[1]
  BY <1>1, <1>3 DEF Lists
<1>5. /\ s[k] \in Nodes /\ s[k] # NULL /\ node[s[k]] \in list_node_t
      /\ node[s[k]].next = IF k = Len(s) THEN NULL ELSE s[k + 1]
      /\ node[s[k]].prev = IF k = 1 THEN NULL ELSE s[k - 1]
      /\ k # Len(s) => s[k + 1] \in Nodes \ {s[k]}
      /\ k # 1 => s[k - 1] \in Nodes \ {s[k]}
  BY <1>1, AtPlace
<1>6. node \in [Nodes -> list_node_t] /\ Gone \in list_node_t /\ NULL \notin Nodes
  BY GoneIs, NodesAssumption DEF ListInv
<1> DEFINE prev == node[s[k]].prev
           next == node[s[k]].next
<1>7. /\ prev \in Nodes \cup {NULL} /\ next \in Nodes \cup {NULL}
      /\ prev = NULL <=> k = 1
      /\ next = NULL <=> k = Len(s)
      /\ k # 1 => prev = s[k - 1]
      /\ k # Len(s) => next = s[k + 1]
  BY <1>5, <1>6
<1>8. /\ node' = [m \in Nodes |->
           IF m = s[k] THEN Gone
           ELSE [node[m] EXCEPT !.next = IF m = prev THEN next ELSE @,
                                !.prev = IF m = next THEN prev ELSE @]]
      /\ head' = IF prev = NULL THEN next ELSE head
      /\ tail' = IF next = NULL THEN prev ELSE tail
      /\ len' = len - 1
      /\ allocated' = allocated \ {s[k]}
      /\ result' = [call |-> <<"remove", s[k]>>, returned |-> NULL]
  BY <1>3 DEF list_remove, Returns
<1> HIDE DEF prev, next
<1>9. ASSUME NEW m \in Nodes \ {s[k]}
      PROVE  /\ node'[m] \in list_node_t
             /\ node'[m].next = IF m = prev THEN next ELSE node[m].next
             /\ node'[m].prev = IF m = next THEN prev ELSE node[m].prev
             /\ node'[m].val = node[m].val
  <2>1. node[m] \in list_node_t
    BY <1>6
  <2>2. node'[m] = [node[m] EXCEPT !.next = IF m = prev THEN next ELSE @,
                                   !.prev = IF m = next THEN prev ELSE @]
    BY <1>8
  <2>3. QED
    BY <2>1, <2>2, <1>7 DEF list_node_t
<1>10. node' \in [Nodes -> list_node_t]
  <2>1. node' = [m \in Nodes |-> node'[m]]
    BY <1>8
  <2>2. node'[s[k]] = Gone
    BY <1>5, <1>8
  <2>3. \A m \in Nodes : node'[m] \in list_node_t
    BY <2>2, <1>6, <1>9
  <2>4. QED
    BY <2>1, <2>3
<1>11. ListInv' /\ Elements' = RemoveAt(Elements, k) /\ Len(Elements) = Len(s)
  <2>1. ASSUME NEW m \in Nodes \ {s[k]}
        PROVE  /\ node'[m].next = IF k # 1 /\ m = s[k - 1] THEN next ELSE node[m].next
               /\ node'[m].prev = IF k # Len(s) /\ m = s[k + 1] THEN prev ELSE node[m].prev
               /\ node'[m].val = node[m].val
    BY <1>6, <1>7, <1>9
  <2>2. head' = (IF k = 1 THEN next ELSE head) /\ tail' = IF k = Len(s) THEN prev ELSE tail
    BY <1>7, <1>8
  <2>3. len' = len - 1 /\ allocated' = allocated \ {s[k]}
    BY <1>8
  <2>4. QED
    BY <2>1, <2>2, <2>3, <1>1, <1>10, Unlinked DEF prev, next
<1>12. e \in Seq(Entry) /\ Len(e) = Len(s) /\ e[k].node = s[k]
  <2>1. PICK t \in Seq(Nodes) : Lists(t)'
    BY <1>11 DEF ListInv
  <2>2. /\ e \in Seq(Entry) /\ Len(e) = Len(s)
        /\ \A i \in 1..Len(s) : e[i] = [node |-> s[i], val |-> node[s[i]].val]
    BY <1>1, <2>1, ElementsAre
  <2> HIDE DEF e
  <2>3. e[k] = [node |-> s[k], val |-> node[s[k]].val]
    BY <2>2
  <2>4. QED
    BY <2>2, <2>3
<1> HIDE DEF e, f
<1>13. k \in DOMAIN e
  BY <1>12
<1>14. AbstractOf!RemoveElement(k)
  <2>1. Elements' = AbstractOf!RemoveAt(Elements, k) /\ Elements[k].node = s[k]
    BY <1>11, <1>12 DEF RemoveAt, AbstractOf!RemoveAt, e
  <2>2. QED
    BY <1>8, <2>1 DEF AbstractOf!RemoveElement, AbstractOf!Returns
<1>15. QED
  BY <1>11, <1>13, <1>14 DEF e

LEMMA ListUnchanged ==
  ASSUME ListInv, UNCHANGED <<head, tail, len, node, allocated>>
  PROVE  ListInv' /\ Elements' = Elements
<1>1. PICK s \in Seq(Nodes) : Lists(s)
  BY DEF ListInv
<1>2. Lists(s)'
  BY <1>1 DEF Lists, Linked
<1>3. ListInv'
  BY <1>2 DEF ListInv
<1>4. /\ Elements = [i \in 1..Len(s) |-> [node |-> s[i], val |-> node[s[i]].val]]
      /\ Elements' = [i \in 1..Len(s) |-> [node |-> s[i], val |-> node'[s[i]].val]]
  BY <1>1, <1>2, ListIs, ListIsNext
<1>5. QED
  BY <1>3, <1>4

LEMMA EmptyList ==
  ASSUME head = NULL, tail = NULL, len = 0, allocated = {}, node \in [Nodes -> list_node_t]
  PROVE  ListInv /\ Elements = << >>
<1>1. PICK s \in Seq(Nodes) : s = << >>
  <2>1. << >> \in Seq(Nodes)
    OBVIOUS
  <2>2. QED
    BY <2>1, Zenon
<1>2. Len(s) = 0
  BY <1>1
<1>3. Lists(s)
  BY <1>2 DEF Lists, Linked
<1>4. Elements = [i \in 1..Len(s) |-> [node |-> s[i], val |-> node[s[i]].val]]
  BY <1>3, ListIs
<1>5. Elements = << >>
  BY <1>2, <1>4
<1>6. QED
  BY <1>3, <1>5 DEF ListInv

LEMMA EmptyListNext ==
  ASSUME head' = NULL, tail' = NULL, len' = 0, allocated' = {},
         node' \in [Nodes -> list_node_t]
  PROVE  ListInv' /\ Elements' = << >>
<1>1. PICK s \in Seq(Nodes) : s = << >>
  <2>1. << >> \in Seq(Nodes)
    OBVIOUS
  <2>2. QED
    BY <2>1, Zenon
<1>2. Len(s) = 0
  BY <1>1
<1>3. Lists(s)'
  BY <1>2 DEF Lists, Linked
<1>4. Elements' = [i \in 1..Len(s) |-> [node |-> s[i], val |-> node'[s[i]].val]]
  BY <1>3, ListIsNext
<1>5. Elements' = << >>
  BY <1>2, <1>4
<1>6. QED
  BY <1>3, <1>5 DEF ListInv

LEMMA Destroy ==
  ASSUME ListInv, list_destroy
  PROVE  ListInv' /\ AbstractOf!Clear
<1>1. PICK s \in Seq(Nodes) : Lists(s)
  BY DEF ListInv
<1>2. Walk("next") = s /\ ToSet(s) = allocated
  BY <1>1, ListIs DEF Lists, ToSet
<1>3. node' \in [Nodes -> list_node_t]
  BY GoneIs DEF list_destroy, ListInv
<1>4. head' = NULL /\ tail' = NULL /\ len' = 0 /\ allocated' = {}
  BY <1>2 DEF list_destroy
<1>5. ListInv' /\ Elements' = << >>
  BY <1>3, <1>4, EmptyListNext
<1>6. QED
  BY <1>5 DEF list_destroy, Returns, AbstractOf!Clear, AbstractOf!Returns

LEMMA ReadAt ==
  ASSUME ListInv, NEW index \in -len - 1..len, list_at(index)
  PROVE  /\ ListInv' /\ AbstractOf!At(index)
         /\ index \in -Len(Elements) - 1..Len(Elements)
<1>1. PICK s \in Seq(Nodes) : Lists(s)
  BY DEF ListInv
<1>2. ListInv' /\ Elements' = Elements
  BY ListUnchanged DEF list_at
<1> DEFINE e == Elements
           steps == IF index < 0 THEN Complement(index) ELSE index
           walk == Walk(IF index < 0 THEN "prev" ELSE "next")
           i == IF index >= 0 THEN index + 1 ELSE Len(e) + index + 1
           r == IF steps < len THEN walk[steps + 1] ELSE NULL
           q == IF i \in DOMAIN e THEN e[i].node ELSE NULL
<1>3. len = Len(s) /\ Len(s) \in Nat /\ index \in Int
  BY <1>1 DEF Lists
<1>4. walk = IF index < 0 THEN Reverse(s) ELSE s
  BY <1>1, ListIs
<1>5. \A j \in 1..Len(s) : Reverse(s)[j] = s[Len(s) - j + 1]
  BY Reversed
<1>6. /\ DOMAIN e = 1..Len(s) /\ Len(e) = Len(s)
      /\ \A j \in 1..Len(s) : e[j].node = s[j]
  <2>1. e = [j \in 1..Len(s) |-> [node |-> s[j], val |-> node[s[j]].val]]
    BY <1>1, ListIs
  <2> HIDE DEF e
  <2>2. QED
    BY <2>1, <1>3
<1>7. result' = [call |-> <<"at", index>>, returned |-> r]
  BY DEF list_at, Returns
<1> HIDE DEF e, walk
<1>8. r = q
  <2>1. CASE index < 0
    <3>1. steps = -index - 1 /\ i = Len(s) + index + 1
      BY <2>1, <1>3, <1>6 DEF Complement
    <3>2. CASE steps < len
      <4>1. steps + 1 \in 1..Len(s) /\ Len(s) - (steps + 1) + 1 = i /\ i \in 1..Len(s)
        <5>1. -index - 1 \in Nat /\ -index - 1 < Len(s)
          BY <3>1, <3>2, <2>1, <1>3 DEF Complement
        <5>2. -index - 1 + 1 \in 1..Len(s) /\ Len(s) - (-index - 1 + 1) + 1 = Len(s) + index + 1
          BY <5>1, <1>3
        <5>3. QED
          BY <3>1, <5>1, <5>2, <1>3
      <4>2. r = s[i] /\ q = s[i]
        BY <4>1, <3>2, <2>1, <1>4, <1>5, <1>6
      <4>3. QED
        BY <4>2
    <3>3. CASE ~(steps < len)
      <4>1. i \notin 1..Len(s)
        BY <3>1, <3>3, <2>1, <1>3
      <4>2. QED
        BY <4>1, <3>3, <1>6
    <3>4. QED
      BY <3>2, <3>3
  <2>2. CASE ~(index < 0)
    <3>1. steps = index /\ i = index + 1
      BY <2>2, <1>3
    <3>2. CASE index < len
      <4>1. i \in 1..Len(s)
        BY <3>1, <3>2, <2>2, <1>3
      <4>2. r = s[i] /\ q = s[i]
        BY <4>1, <3>1, <3>2, <2>2, <1>4, <1>6
      <4>3. QED
        BY <4>2
    <3>3. CASE ~(index < len)
      <4>1. i \notin 1..Len(s)
        BY <3>1, <3>3, <1>3
      <4>2. QED
        BY <4>1, <3>1, <3>3, <1>6
    <3>4. QED
      BY <3>2, <3>3
  <2>3. QED
    BY <2>1, <2>2
<1>9. AbstractOf!At(index)
  BY <1>2, <1>7, <1>8 DEF AbstractOf!At, AbstractOf!Returns, e
<1>10. QED
  BY <1>2, <1>3, <1>6, <1>9 DEF e

LEMMA MinIs ==
  ASSUME NEW T \in SUBSET Nat, T # {}
  PROVE  Min(T) \in T
  BY LeastNumber DEF Min

LEMMA FindValue ==
  ASSUME ListInv, NEW v \in Values, list_find(v)
  PROVE  ListInv' /\ AbstractOf!Find(v)
<1>1. PICK s \in Seq(Nodes) : Lists(s)
  BY DEF ListInv
<1>2. ListInv' /\ Elements' = Elements
  BY ListUnchanged DEF list_find
<1> DEFINE e == Elements
           I == {i \in 1..Len(s) : node[s[i]].val = v}
           k == IF I # {} THEN Min(I) ELSE 0
<1>3. Walk("next") = s
  BY <1>1, ListIs
<1>4. /\ Len(e) = Len(s)
      /\ \A j \in 1..Len(s) : e[j].node = s[j] /\ e[j].val = node[s[j]].val
  <2>1. e = [j \in 1..Len(s) |-> [node |-> s[j], val |-> node[s[j]].val]]
    BY <1>1, ListIs
  <2> HIDE DEF e
  <2>2. QED
    BY <2>1
<1>5. SelectInSeq(s, LAMBDA n : node[n].val = v) = k
  BY DEF SelectInSeq
<1>6. AbstractOf!SelectInSeq(Elements, LAMBDA x : x.val = v) = k
  <2>1. {i \in 1..Len(e) : e[i].val = v} = I
    BY <1>4
  <2>2. AbstractOf!SelectInSeq(e, LAMBDA x : x.val = v)
          = IF {i \in 1..Len(e) : e[i].val = v} # {}
            THEN AbstractOf!Min({i \in 1..Len(e) : e[i].val = v}) ELSE 0
    BY DEF AbstractOf!SelectInSeq
  <2>3. AbstractOf!Min(I) = Min(I)
    BY DEF AbstractOf!Min, Min
  <2> HIDE DEF I
  <2>4. QED
    BY <2>1, <2>2, <2>3
<1>7. k = 0 \/ k \in 1..Len(s)
  <2>1. I \in SUBSET Nat
    OBVIOUS
  <2>2. CASE I # {}
    <3> HIDE DEF I
    <3>1. Min(I) \in I
      BY <2>1, <2>2, MinIs
    <3>2. QED
      BY <2>2, <3>1 DEF I
  <2>3. CASE I = {}
    BY <2>3
  <2>4. QED
    BY <2>2, <2>3
<1>8. result' = [call |-> <<"find", v>>, returned |-> IF k = 0 THEN NULL ELSE s[k]]
  BY <1>3, <1>5 DEF list_find, Returns
<1> HIDE DEF k
<1>9. (IF k = 0 THEN NULL ELSE s[k]) = (IF k = 0 THEN NULL ELSE Elements[k].node)
  BY <1>4, <1>7
<1>10. AbstractOf!Find(v)
  BY <1>2, <1>6, <1>8, <1>9 DEF AbstractOf!Find, AbstractOf!Returns
<1>11. QED
  BY <1>2, <1>10

LEMMA ListInvInit ==
  ListInit => ListInv /\ AbstractOf!Init
<1> SUFFICES ASSUME ListInit PROVE ListInv /\ AbstractOf!Init
  OBVIOUS
<1>1. node \in [Nodes -> list_node_t]
  BY GoneIs DEF ListInit
<1>2. ListInv /\ Elements = << >>
  BY <1>1, EmptyList DEF ListInit
<1>3. QED
  BY <1>2 DEF ListInit, AbstractOf!Init

LEMMA ListInvStep ==
  ListInv /\ ListNext => ListInv' /\ AbstractOf!Next
<1> SUFFICES ASSUME ListInv, ListNext PROVE ListInv' /\ AbstractOf!Next
  OBVIOUS
<1>1. ASSUME NEW n \in Nodes \ allocated, NEW v \in Values, list_rpush(n, v)
      PROVE  ListInv' /\ AbstractOf!Next
  BY <1>1, RPush DEF AbstractOf!Next
<1>2. ASSUME NEW n \in Nodes \ allocated, NEW v \in Values, list_lpush(n, v)
      PROVE  ListInv' /\ AbstractOf!Next
  BY <1>2, LPush DEF AbstractOf!Next
<1>3. CASE PushNothing("rpush") \/ PushNothing("lpush")
  <2>1. ListInv' /\ Elements' = Elements
    BY <1>3, ListUnchanged DEF PushNothing
  <2>2. QED
    BY <1>3, <2>1 DEF PushNothing, Returns, AbstractOf!PushFails,
      AbstractOf!Returns, AbstractOf!Next
<1>4. CASE list_rpop
  BY <1>4, RPop DEF AbstractOf!Next
<1>5. CASE list_lpop
  BY <1>5, LPop DEF AbstractOf!Next
<1>6. CASE PopNothing("rpop") \/ PopNothing("lpop")
  <2>1. ListInv' /\ Elements' = Elements
    BY <1>6, ListUnchanged DEF PopNothing
  <2>2. Elements = << >>
    <3>1. PICK s \in Seq(Nodes) : Lists(s)
      BY DEF ListInv
    <3>2. Len(s) = 0
      BY <1>6, <3>1 DEF PopNothing, Lists
    <3>3. Elements = [i \in 1..Len(s) |-> [node |-> s[i], val |-> node[s[i]].val]]
      BY <3>1, ListIs
    <3>4. QED
      BY <3>2, <3>3
  <2>3. CASE PopNothing("rpop")
    BY <2>1, <2>2, <2>3 DEF PopNothing, Returns, AbstractOf!PopLast,
      AbstractOf!Returns, AbstractOf!Next
  <2>4. CASE PopNothing("lpop")
    BY <2>1, <2>2, <2>4 DEF PopNothing, Returns, AbstractOf!PopFirst,
      AbstractOf!Returns, AbstractOf!Next
  <2>5. QED
    BY <1>6, <2>3, <2>4
<1>7. ASSUME NEW n \in ToSet(Walk("next")), list_remove(n)
      PROVE  ListInv' /\ AbstractOf!Next
  BY <1>7, RemoveNode DEF AbstractOf!Next
<1>8. ASSUME NEW index \in -len - 1..len, list_at(index)
      PROVE  ListInv' /\ AbstractOf!Next
  BY <1>8, ReadAt DEF AbstractOf!Next
<1>9. ASSUME NEW v \in Values, list_find(v)
      PROVE  ListInv' /\ AbstractOf!Next
  BY <1>9, FindValue DEF AbstractOf!Next
<1>10. CASE list_destroy
  BY <1>10, Destroy DEF AbstractOf!Next
<1>11. QED
  BY <1>1, <1>2, <1>3, <1>4, <1>5, <1>6, <1>7, <1>8, <1>9, <1>10 DEF ListNext

LEMMA ListInvNext ==
  ListInv /\ [Next]_vars => ListInv' /\ [AbstractOf!Next]_<<Elements, result>>
<1> SUFFICES ASSUME ListInv, [Next]_vars
             PROVE  ListInv' /\ [AbstractOf!Next]_<<Elements, result>>
  OBVIOUS
<1>1. CASE ListNext
  BY <1>1, ListInvStep
<1>2. CASE UNCHANGED listVars
  <2>1. UNCHANGED <<head, tail, len, node, allocated>> /\ result' = result
    BY <1>2 DEF listVars
  <2>2. QED
    BY <2>1, ListUnchanged
<1>3. QED
  BY <1>1, <1>2 DEF Next, vars

(***************************************************************************)
(* However many nodes there are, after any calls of std_list.c the list    *)
(* read backward is the list read forward, len nodes long, and its nodes   *)
(* are those that were pushed and neither popped, removed nor destroyed.   *)
(***************************************************************************)
THEOREM ListLinked == Spec => []LinksAgree
<1>1. Init => ListInv
  BY ListInvInit DEF Init
<1>2. ListInv /\ [Next]_vars => ListInv'
  BY ListInvNext
<1>3. ListInv => LinksAgree
  BY ChainAgrees
<1>4. QED
  BY <1>1, <1>2, <1>3, PTL DEF Spec

(***************************************************************************)
(* std_list.c implements AbstractList: whoever uses the list may take it   *)
(* for a sequence, whatever its length and whichever calls are made, and   *)
(* every call returns what it returns of the sequence.                     *)
(***************************************************************************)
THEOREM ListImplemented == Spec => ImplementsList
<1>1. Init => ListInv /\ AbstractOf!Init
  BY ListInvInit DEF Init
<1>2. ListInv /\ [Next]_vars => ListInv' /\ [AbstractOf!Next]_<<Elements, result>>
  BY ListInvNext
<1>3. QED
  BY <1>1, <1>2, PTL DEF Spec, ImplementsList, AbstractOf!Spec

(* ------------------------------------------------------------------------ *)
(* The map                                                                      *)

Bucket == Seq(map_node_t)

LEMMA UpTheNumbers ==
  ASSUME NEW N \in Nat, NEW G, 0 \in G, \A m \in 0..N : m # N /\ m \in G => m + 1 \in G
  PROVE  \A m \in 0..N : m \in G
<1> DEFINE T == {m \in 0..N : m \notin G}
<1>1. SUFFICES ASSUME T # {} PROVE FALSE
  OBVIOUS
<1>2. T \in SUBSET Nat
  OBVIOUS
<1>3. PICK m \in T : \A l \in T : m <= l
  <2> HIDE DEF T
  <2>1. QED
    BY <1>1, <1>2, LeastNumber
<1>4. m \in 0..N /\ m \notin G /\ m # 0
  OBVIOUS
<1>5. m - 1 \in 0..N /\ m - 1 # N /\ m - 1 \in G /\ (m - 1) + 1 = m
  <2>1. m - 1 \in 0..N /\ ~(m <= m - 1)
    BY <1>4
  <2>2. m - 1 \notin T
    BY <1>3, <2>1
  <2>3. QED
    BY <1>4, <2>1, <2>2
<1>6. QED
  BY <1>4, <1>5

\* A node is one of bs where there is a place for it
LEMMA NodesAre ==
  ASSUME NEW bs \in Seq(Bucket), NEW x
  PROVE  x \in NodesOf(bs) <=> \E b \in 1..Len(bs) : \E i \in 1..Len(bs[b]) : x = bs[b][i]
<1>1. ASSUME NEW b \in 1..Len(bs) PROVE bs[b] \in Bucket /\ DOMAIN bs[b] = 1..Len(bs[b])
  BY DEF Bucket
<1>2. DOMAIN bs = 1..Len(bs)
  OBVIOUS
<1>3. x \in NodesOf(bs) <=> \E b \in 1..Len(bs) : x \in ToSet(bs[b])
  BY <1>2 DEF NodesOf
<1>4. ASSUME NEW b \in 1..Len(bs)
      PROVE  x \in ToSet(bs[b]) <=> \E i \in 1..Len(bs[b]) : x = bs[b][i]
  BY <1>1 DEF ToSet
<1>5. QED
  BY <1>3, <1>4

LEMMA NodesTyped ==
  ASSUME NEW bs \in Seq(Bucket)
  PROVE  NodesOf(bs) \subseteq map_node_t
<1>1. ASSUME NEW b \in 1..Len(bs), NEW i \in 1..Len(bs[b]) PROVE bs[b][i] \in map_node_t
  <2>1. bs[b] \in Seq(map_node_t)
    BY DEF Bucket
  <2>2. QED
    BY <2>1
<1>2. QED
  BY <1>1, NodesAre

LEMMA KeysOnceIs ==
  ASSUME NEW bs \in Seq(Bucket)
  PROVE  KeysOnce(bs) <=>
           \A b, c \in 1..Len(bs) : \A i \in 1..Len(bs[b]) : \A j \in 1..Len(bs[c]) :
             bs[b][i].key = bs[c][j].key => b = c /\ i = j
<1>1. ASSUME NEW b \in 1..Len(bs) PROVE DOMAIN bs[b] = 1..Len(bs[b])
  BY DEF Bucket
<1>2. DOMAIN bs = 1..Len(bs)
  OBVIOUS
<1> DEFINE Once == \A b, c \in 1..Len(bs) : \A i \in 1..Len(bs[b]) : \A j \in 1..Len(bs[c]) :
                     bs[b][i].key = bs[c][j].key => b = c /\ i = j
<1>3. ASSUME KeysOnce(bs), NEW b \in 1..Len(bs), NEW c \in 1..Len(bs),
             NEW i \in 1..Len(bs[b]), NEW j \in 1..Len(bs[c]), bs[b][i].key = bs[c][j].key
      PROVE  b = c /\ i = j
  <2>1. b \in DOMAIN bs /\ c \in DOMAIN bs /\ i \in DOMAIN bs[b] /\ j \in DOMAIN bs[c]
    BY <1>1, <1>2
  <2>2. QED
    BY <1>3, <2>1 DEF KeysOnce
<1>4. ASSUME Once, NEW b \in DOMAIN bs, NEW c \in DOMAIN bs,
             NEW i \in DOMAIN bs[b], NEW j \in DOMAIN bs[c], bs[b][i].key = bs[c][j].key
      PROVE  b = c /\ i = j
  <2>1. b \in 1..Len(bs) /\ c \in 1..Len(bs) /\ i \in 1..Len(bs[b]) /\ j \in 1..Len(bs[c])
    BY <1>1, <1>2
  <2>2. QED
    BY <1>4, <2>1
<1>5. KeysOnce(bs) => Once
  BY <1>3
<1>6. Once => KeysOnce(bs)
  BY <1>4 DEF KeysOnce
<1>7. QED
  BY <1>5, <1>6

LEMMA PlacedIs ==
  ASSUME NEW bs \in Seq(Bucket)
  PROVE  Placed(bs) <=>
           \A b \in 1..Len(bs) : \A i \in 1..Len(bs[b]) :
             BucketIndex(bs[b][i].key, Len(bs)) + 1 = b
<1>1. ASSUME NEW b \in 1..Len(bs) PROVE DOMAIN bs[b] = 1..Len(bs[b])
  BY DEF Bucket
<1>2. DOMAIN bs = 1..Len(bs)
  OBVIOUS
<1>3. QED
  BY <1>1, <1>2 DEF Placed

\* The nodes of a chain, and that no key is in it twice
Distinct(s) == \A i, j \in 1..Len(s) : s[i].key = s[j].key => i = j

LEMMA ReversedDistinct ==
  ASSUME NEW s \in Bucket, Distinct(s)
  PROVE  /\ Reverse(s) \in Bucket /\ Distinct(Reverse(s))
         /\ \A x : (\E i \in 1..Len(Reverse(s)) : x = Reverse(s)[i])
                   <=> \E i \in 1..Len(s) : x = s[i]
<1> DEFINE r == Reverse(s)
<1>1. /\ r \in Bucket /\ Len(r) = Len(s) /\ Len(s) \in Nat
      /\ \A i \in 1..Len(s) : r[i] = s[Len(s) - i + 1]
  BY Reversed DEF Bucket
<1> HIDE DEF r
<1>2. \A i \in 1..Len(s) : Len(s) - i + 1 \in 1..Len(s) /\ Len(s) - (Len(s) - i + 1) + 1 = i
  BY <1>1
<1>3. ASSUME NEW i \in 1..Len(r), NEW j \in 1..Len(r), r[i].key = r[j].key PROVE i = j
  <2>1. PICK a \in 1..Len(s) : a = Len(s) - i + 1 /\ r[i] = s[a]
    BY <1>1, <1>2
  <2>2. PICK b \in 1..Len(s) : b = Len(s) - j + 1 /\ r[j] = s[b]
    BY <1>1, <1>2
  <2>3. a = b
    BY <2>1, <2>2, <1>3 DEF Distinct
  <2>4. QED
    BY <2>1, <2>2, <2>3, <1>1
<1>4. ASSUME NEW x, NEW i \in 1..Len(r), x = r[i] PROVE \E j \in 1..Len(s) : x = s[j]
  BY <1>1, <1>2, <1>4
<1>5. ASSUME NEW x, NEW j \in 1..Len(s), x = s[j] PROVE \E i \in 1..Len(r) : x = r[i]
  <2>1. r[Len(s) - j + 1] = s[j]
    BY <1>1, <1>2
  <2>2. QED
    BY <2>1, <1>1, <1>2, <1>5
<1>7. Distinct(r)
  BY <1>3 DEF Distinct
<1>8. \A x : (\E i \in 1..Len(r) : x = r[i]) <=> \E i \in 1..Len(s) : x = s[i]
  BY <1>4, <1>5
<1>6. QED
  BY <1>1, <1>7, <1>8 DEF r

\* Two chains that share no key, one behind the other
LEMMA JoinedDistinct ==
  ASSUME NEW s \in Bucket, NEW t \in Bucket, Distinct(s), Distinct(t),
         \A i \in 1..Len(s) : \A j \in 1..Len(t) : s[i].key # t[j].key
  PROVE  /\ s \o t \in Bucket /\ Distinct(s \o t)
         /\ \A x : (\E i \in 1..Len(s \o t) : x = (s \o t)[i])
                   <=> (\E i \in 1..Len(s) : x = s[i]) \/ (\E i \in 1..Len(t) : x = t[i])
<1> DEFINE r == s \o t
<1>1. /\ r \in Bucket /\ Len(r) = Len(s) + Len(t) /\ Len(s) \in Nat /\ Len(t) \in Nat
      /\ \A i \in 1..Len(s) : r[i] = s[i]
      /\ \A i \in 1..Len(t) : r[Len(s) + i] = t[i]
  BY Joined DEF Bucket
<1> HIDE DEF r
<1>2. ASSUME NEW i \in 1..Len(r), i \notin 1..Len(s)
      PROVE  i - Len(s) \in 1..Len(t) /\ r[i] = t[i - Len(s)]
  <2>1. i - Len(s) \in 1..Len(t) /\ Len(s) + (i - Len(s)) = i
    BY <1>1, <1>2
  <2>2. r[Len(s) + (i - Len(s))] = t[i - Len(s)]
    BY <2>1, <1>1
  <2>3. QED
    BY <2>1, <2>2
<1>3. ASSUME NEW i \in 1..Len(r), NEW j \in 1..Len(r), r[i].key = r[j].key PROVE i = j
  <2>1. CASE i \in 1..Len(s) /\ j \in 1..Len(s)
    BY <2>1, <1>1, <1>3 DEF Distinct
  <2>2. CASE i \in 1..Len(s) /\ j \notin 1..Len(s)
    <3>1. r[i] = s[i] /\ j - Len(s) \in 1..Len(t) /\ r[j] = t[j - Len(s)]
      BY <2>2, <1>1, <1>2
    <3>2. QED
      BY <2>2, <3>1, <1>3
  <2>3. CASE i \notin 1..Len(s) /\ j \in 1..Len(s)
    <3>1. r[j] = s[j] /\ i - Len(s) \in 1..Len(t) /\ r[i] = t[i - Len(s)]
      BY <2>3, <1>1, <1>2
    <3>2. QED
      BY <2>3, <3>1, <1>3
  <2>4. CASE i \notin 1..Len(s) /\ j \notin 1..Len(s)
    <3>1. /\ i - Len(s) \in 1..Len(t) /\ r[i] = t[i - Len(s)]
          /\ j - Len(s) \in 1..Len(t) /\ r[j] = t[j - Len(s)]
      BY <2>4, <1>2
    <3>2. i - Len(s) = j - Len(s)
      BY <3>1, <1>3 DEF Distinct
    <3>3. QED
      BY <3>2, <1>1
  <2>5. QED
    BY <2>1, <2>2, <2>3, <2>4
<1>4. ASSUME NEW x, NEW i \in 1..Len(r), x = r[i]
      PROVE  (\E j \in 1..Len(s) : x = s[j]) \/ (\E j \in 1..Len(t) : x = t[j])
  BY <1>1, <1>2, <1>4
<1>5. ASSUME NEW x, (\E j \in 1..Len(s) : x = s[j]) \/ (\E j \in 1..Len(t) : x = t[j])
      PROVE  \E i \in 1..Len(r) : x = r[i]
  <2>1. ASSUME NEW j \in 1..Len(s), x = s[j] PROVE \E i \in 1..Len(r) : x = r[i]
    BY <2>1, <1>1
  <2>2. ASSUME NEW j \in 1..Len(t), x = t[j] PROVE \E i \in 1..Len(r) : x = r[i]
    <3>1. Len(s) + j \in 1..Len(r) /\ r[Len(s) + j] = t[j]
      BY <1>1
    <3>2. QED
      BY <3>1, <2>2
  <2>3. QED
    BY <1>5, <2>1, <2>2
<1>7. Distinct(r)
  BY <1>3 DEF Distinct
<1>8. \A x : (\E i \in 1..Len(r) : x = r[i])
             <=> (\E i \in 1..Len(s) : x = s[i]) \/ (\E i \in 1..Len(t) : x = t[i])
  BY <1>4, <1>5
<1>6. QED
  BY <1>1, <1>7, <1>8 DEF r

LEMMA ChainedIs ==
  ASSUME NEW bs \in Seq(Bucket), KeysOnce(bs)
  PROVE  /\ Chained(bs) \in Bucket /\ Distinct(Chained(bs))
         /\ \A x : (\E i \in 1..Len(Chained(bs)) : x = Chained(bs)[i]) <=> x \in NodesOf(bs)
<1> DEFINE N == Len(bs)
           Link(f, i) == IF i = 0 THEN << >> ELSE Reverse(bs[N + 1 - i]) \o f[i - 1]
           Is(f, m) == f = [i \in 0..m |-> Link(f, i)]
<1>1. N \in Nat /\ \A b \in 1..N : bs[b] \in Bucket /\ Distinct(bs[b])
  <2>1. ASSUME NEW b \in 1..N PROVE bs[b] \in Bucket /\ Distinct(bs[b])
    BY KeysOnceIs DEF Distinct
  <2>2. QED
    BY <2>1
<1>2. \E f : Is(f, N)
  <2> DEFINE G == {m \in 0..N : \E f : Is(f, m)}
  <2>1. 0 \in G
    <3>1. Is([i \in 0..0 |-> << >>], 0)
      OBVIOUS
    <3> HIDE DEF Is, Link
    <3>2. (\E f : Is(f, 0)) /\ 0 \in 0..N
      BY <3>1, <1>1
    <3>3. QED
      BY <3>2
  <2>2. ASSUME NEW m \in 0..N, m # N, m \in G PROVE m + 1 \in G
    <3>1. PICK f : Is(f, m)
      BY <2>2
    <3> DEFINE g == [i \in 0..m + 1 |-> IF i = m + 1 THEN Link(f, m + 1) ELSE f[i]]
    <3>2. m \in Nat /\ m + 1 \in 0..N
      BY <2>2, <1>1
    <3>3. ASSUME NEW i \in 0..m + 1 PROVE g[i] = Link(g, i)
      <4>1. i # 0 => i - 1 \in 0..m /\ i - 1 # m + 1 /\ i - 1 \in 0..m + 1
        BY <3>2
      <4>2. i # 0 => g[i - 1] = f[i - 1]
        BY <4>1
      <4>3. Link(g, i) = Link(f, i)
        <5> HIDE DEF g
        <5>1. QED
          BY <4>2
      <4>4. i # m + 1 => g[i] = f[i] /\ i \in 0..m
        BY <3>2
      <4>5. i # m + 1 => f[i] = Link(f, i)
        BY <4>4, <3>1
      <4>6. i = m + 1 => g[i] = Link(f, i)
        OBVIOUS
      <4> HIDE DEF g, Link
      <4>7. QED
        BY <4>3, <4>4, <4>5, <4>6
    <3>4. Is(g, m + 1)
      <4>1. g = [i \in 0..m + 1 |-> g[i]]
        OBVIOUS
      <4> HIDE DEF g, Link
      <4>2. QED
        BY <4>1, <3>3
    <3>5. QED
      BY <3>2, <3>4
  <2> HIDE DEF G
  <2>3. N \in G
    BY <2>1, <2>2, <1>1, UpTheNumbers, N \in 0..N
  <2>4. QED
    BY <2>3 DEF G
<1> DEFINE c == CHOOSE f : Is(f, N)
<1>3. Is(c, N)
  BY <1>2
<1>4. Chained(bs) = c[N]
  BY DEF Chained
<1>5. c[0] = << >> /\ \A i \in 1..N : c[i] = Reverse(bs[N + 1 - i]) \o c[i - 1]
  <2> HIDE DEF c
  <2>1. ASSUME NEW i \in 0..N PROVE c[i] = Link(c, i)
    BY <1>3
  <2>2. 0 \in 0..N /\ \A i \in 1..N : i \in 0..N /\ i # 0
    BY <1>1
  <2>3. QED
    BY <2>1, <2>2
<1> HIDE DEF c, Is, Link
<1> DEFINE Good(m) ==
             /\ c[m] \in Bucket /\ Distinct(c[m])
             /\ \A x : (\E i \in 1..Len(c[m]) : x = c[m][i])
                       <=> \E b \in N + 1 - m..N : \E i \in 1..Len(bs[b]) : x = bs[b][i]
<1>6. Good(N)
  <2> DEFINE G == {m \in 0..N : Good(m)}
  <2>1. 0 \in G
    <3>1. c[0] \in Bucket /\ Len(c[0]) = 0
      BY <1>5 DEF Bucket
    <3>2. N + 1 - 0..N = {} /\ 0 \in 0..N /\ 1..0 = {}
      BY <1>1
    <3>3. QED
      BY <3>1, <3>2 DEF Distinct
  <2>2. ASSUME NEW m \in 0..N, m # N, m \in G PROVE m + 1 \in G
    <3> DEFINE a == N + 1 - (m + 1)
               r == Reverse(bs[a])
               d == c[m]
    <3>1. m + 1 \in 1..N /\ m + 1 \in 0..N /\ a \in 1..N /\ N + 1 - m = a + 1 /\ (m + 1) - 1 = m
      BY <2>2, <1>1
    <3>2. Good(m)
      BY <2>2
    <3>3. c[m + 1] = r \o d
      <4>1. c[m + 1] = Reverse(bs[N + 1 - (m + 1)]) \o c[(m + 1) - 1]
        BY <3>1, <1>5
      <4>2. QED
        BY <4>1, <3>1
    <3>4. /\ r \in Bucket /\ Distinct(r)
          /\ \A x : (\E i \in 1..Len(r) : x = r[i]) <=> \E i \in 1..Len(bs[a]) : x = bs[a][i]
      <4> HIDE DEF a
      <4>1. bs[a] \in Bucket /\ Distinct(bs[a])
        BY <3>1, <1>1
      <4>2. QED
        BY <4>1, ReversedDistinct
    <3>5. /\ d \in Bucket /\ Distinct(d)
          /\ \A x : (\E i \in 1..Len(d) : x = d[i])
                    <=> \E b \in N + 1 - m..N : \E i \in 1..Len(bs[b]) : x = bs[b][i]
      BY <3>2
    <3>6. /\ {a} \cup (N + 1 - m..N) = N + 1 - (m + 1)..N
          /\ \A b \in N + 1 - m..N : b \in 1..N /\ b # a
      BY <3>1, <1>1
    <3> HIDE DEF a, r, d, Good, G
    <3>7. ASSUME NEW i \in 1..Len(r), NEW j \in 1..Len(d) PROVE r[i].key # d[j].key
      <4>1. PICK k \in 1..Len(bs[a]) : r[i] = bs[a][k]
        BY <3>4
      <4>2. PICK b \in N + 1 - m..N : \E l \in 1..Len(bs[b]) : d[j] = bs[b][l]
        BY <3>5
      <4>3. PICK l \in 1..Len(bs[b]) : d[j] = bs[b][l]
        BY <4>2
      <4>4. b \in 1..N /\ b # a /\ a \in 1..N
        BY <4>2, <3>1, <3>6
      <4>5. bs[a][k].key # bs[b][l].key
        <5>1. a \in 1..Len(bs) /\ b \in 1..Len(bs) /\ a # b
          BY <4>4 DEF N
        <5> DEFINE x == bs[a][k]
                   y == bs[b][l]
        <5>2. x.key = y.key => a = b /\ k = l
          BY <5>1, KeysOnceIs
        <5>3. QED
          BY <5>1, <5>2
      <4>6. QED
        BY <4>1, <4>3, <4>5
    <3>8. /\ r \o d \in Bucket /\ Distinct(r \o d)
          /\ \A x : (\E i \in 1..Len(r \o d) : x = (r \o d)[i])
                    <=> (\E i \in 1..Len(r) : x = r[i]) \/ (\E i \in 1..Len(d) : x = d[i])
      BY <3>4, <3>5, <3>7, JoinedDistinct
    <3> DEFINE Within(x, b) == \E i \in 1..Len(bs[b]) : x = bs[b][i]
               Has(x, s) == \E i \in 1..Len(s) : x = s[i]
    <3>9. /\ \A x : Has(x, r) <=> Within(x, a)
          /\ \A x : Has(x, d) <=> \E b \in N + 1 - m..N : Within(x, b)
          /\ \A x : Has(x, r \o d) <=> Has(x, r) \/ Has(x, d)
      BY <3>4, <3>5, <3>8
    <3>10. \A x : Has(x, c[m + 1]) <=> \E b \in N + 1 - (m + 1)..N : Within(x, b)
      <4> HIDE DEF Within, Has
      <4>1. QED
        BY <3>9, <3>6, <3>3
    <3>11. Good(m + 1)
      BY <3>3, <3>8, <3>10 DEF Good
    <3>12. QED
      BY <3>1, <3>11 DEF G
  <2> HIDE DEF G
  <2>3. N \in G
    BY <2>1, <2>2, <1>1, UpTheNumbers, N \in 0..N
  <2>4. QED
    BY <2>3 DEF G
<1>7. N + 1 - N..N = 1..N
  BY <1>1
<1>8. /\ c[N] \in Bucket /\ Distinct(c[N])
      /\ \A x : (\E i \in 1..Len(c[N]) : x = c[N][i])
                <=> \E b \in 1..N : \E i \in 1..Len(bs[b]) : x = bs[b][i]
  BY <1>6, <1>7
<1>9. ASSUME NEW x
      PROVE  (\E b \in 1..N : \E i \in 1..Len(bs[b]) : x = bs[b][i]) <=> x \in NodesOf(bs)
  BY NodesAre
<1> HIDE DEF N
<1>10. QED
  BY <1>4, <1>8, <1>9

LEMMA BucketIndexIs ==
  ASSUME NEW k \in Keys, NEW n \in Nat \ {0}
  PROVE  BucketIndex(k, n) \in 0..n - 1
<1>1. Hash[k] \in Nat
  BY HashAssumption
<1>2. QED
  BY <1>1 DEF BucketIndex

LEMMA AddNodeIs ==
  ASSUME NEW bs \in Seq(Bucket), Len(bs) # 0, Placed(bs), KeysOnce(bs),
         NEW n \in map_node_t, \A x \in NodesOf(bs) : x.key # n.key
  PROVE  /\ AddNode(bs, n) \in Seq(Bucket) /\ Len(AddNode(bs, n)) = Len(bs)
         /\ Placed(AddNode(bs, n)) /\ KeysOnce(AddNode(bs, n))
         /\ NodesOf(AddNode(bs, n)) = NodesOf(bs) \cup {n}
<1> DEFINE N == Len(bs)
           a == BucketIndex(n.key, N) + 1
           s == <<n>> \o bs[a]
           t == AddNode(bs, n)
<1>1. N \in Nat \ {0} /\ n.key \in Keys /\ a \in 1..N
  <2>1. N \in Nat \ {0} /\ n.key \in Keys
    BY DEF map_node_t
  <2>2. BucketIndex(n.key, N) \in 0..N - 1
    BY <2>1, BucketIndexIs
  <2>3. QED
    BY <2>1, <2>2
<1>2. \A b \in 1..N : bs[b] \in Bucket /\ Len(bs[b]) \in Nat
  BY DEF Bucket
<1>3. /\ s \in Bucket /\ Len(s) = Len(bs[a]) + 1 /\ s[1] = n
      /\ \A i \in 1..Len(bs[a]) : s[i + 1] = bs[a][i]
  <2> HIDE DEF a
  <2>1. bs[a] \in Seq(map_node_t)
    BY <1>1, <1>2 DEF Bucket
  <2>2. QED
    BY <2>1, Prefixed DEF Bucket
<1>4. t = [bs EXCEPT ![a] = s]
  BY DEF AddNode
<1> HIDE DEF a, s
<1>5. t \in Seq(Bucket) /\ Len(t) = N /\ \A b \in 1..N : t[b] = IF b = a THEN s ELSE bs[b]
  BY <1>1, <1>3, <1>4
<1> HIDE DEF t
<1>6. ASSUME NEW b \in 1..N, NEW i \in 1..Len(t[b])
      PROVE  \/ b = a /\ i = 1 /\ t[b][i] = n
             \/ b = a /\ i # 1 /\ i - 1 \in 1..Len(bs[a]) /\ t[b][i] = bs[a][i - 1]
             \/ b # a /\ i \in 1..Len(bs[b]) /\ t[b][i] = bs[b][i]
  <2>1. CASE b # a
    BY <2>1, <1>5
  <2>2. CASE b = a /\ i = 1
    BY <2>2, <1>3, <1>5
  <2>3. CASE b = a /\ i # 1
    <3>1. t[b] = s /\ i \in 1..Len(bs[a]) + 1 /\ Len(bs[a]) \in Nat
      BY <2>3, <1>1, <1>2, <1>3, <1>5
    <3>2. i - 1 \in 1..Len(bs[a]) /\ (i - 1) + 1 = i
      BY <2>3, <3>1
    <3>3. s[(i - 1) + 1] = bs[a][i - 1]
      BY <3>2, <1>3
    <3>4. QED
      BY <2>3, <3>1, <3>2, <3>3
  <2>4. QED
    BY <2>1, <2>2, <2>3
<1>7. ASSUME NEW b \in 1..N, NEW i \in 1..Len(bs[b]) PROVE bs[b][i] \in NodesOf(bs)
  BY NodesAre
<1>8. Placed(t)
  <2>1. ASSUME NEW b \in 1..N, NEW i \in 1..Len(t[b]) PROVE BucketIndex(t[b][i].key, N) + 1 = b
    <3>1. CASE b = a /\ i = 1 /\ t[b][i] = n
      BY <3>1 DEF a
    <3>2. CASE b = a /\ i # 1 /\ i - 1 \in 1..Len(bs[a]) /\ t[b][i] = bs[a][i - 1]
      BY <3>2, <1>1, PlacedIs
    <3>3. CASE b # a /\ i \in 1..Len(bs[b]) /\ t[b][i] = bs[b][i]
      BY <3>3, PlacedIs
    <3>4. QED
      BY <1>6, <3>1, <3>2, <3>3
  <2>2. QED
    BY <2>1, <1>5, PlacedIs
<1>9. KeysOnce(t)
  <2>1. ASSUME NEW b \in 1..N, NEW c \in 1..N, NEW i \in 1..Len(t[b]), NEW j \in 1..Len(t[c]),
               t[b][i].key = t[c][j].key
        PROVE  b = c /\ i = j
    <3> DEFINE New(d, k) == d = a /\ k = 1 /\ t[d][k] = n
               Moved(d, k) == d = a /\ k # 1 /\ k - 1 \in 1..Len(bs[a]) /\ t[d][k] = bs[a][k - 1]
               Same(d, k) == d # a /\ k \in 1..Len(bs[d]) /\ t[d][k] = bs[d][k]
    <3>1. (New(b, i) \/ Moved(b, i) \/ Same(b, i)) /\ (New(c, j) \/ Moved(c, j) \/ Same(c, j))
      BY <1>6
    <3>2. CASE New(b, i) /\ New(c, j)
      BY <3>2
    <3>3. CASE New(b, i) /\ ~New(c, j)
      <4>1. t[c][j] \in NodesOf(bs)
        BY <3>1, <3>3, <1>1, <1>7
      <4>2. QED
        BY <4>1, <3>3, <2>1
    <3>4. CASE ~New(b, i) /\ New(c, j)
      <4>1. t[b][i] \in NodesOf(bs)
        BY <3>1, <3>4, <1>1, <1>7
      <4>2. QED
        BY <4>1, <3>4, <2>1
    <3>5. CASE Moved(b, i) /\ Moved(c, j)
      <4>1. i - 1 = j - 1
        <5>1. PICK x \in 1..Len(bs[a]) : x = i - 1 /\ t[b][i] = bs[a][x]
          BY <3>5
        <5>2. PICK y \in 1..Len(bs[a]) : y = j - 1 /\ t[c][j] = bs[a][y]
          BY <3>5
        <5>3. bs[a][x].key = bs[a][y].key
          BY <5>1, <5>2, <2>1
        <5>4. a \in 1..Len(bs)
          BY <1>1
        <5>5. x = y
          BY <5>3, <5>4, KeysOnceIs
        <5>6. QED
          BY <5>1, <5>2, <5>5
      <4>2. i \in Int /\ j \in Int
        OBVIOUS
      <4>3. QED
        BY <4>1, <4>2, <3>5
    <3>6. CASE Moved(b, i) /\ Same(c, j)
      BY <3>6, <2>1, <1>1, KeysOnceIs
    <3>7. CASE Same(b, i) /\ Moved(c, j)
      BY <3>7, <2>1, <1>1, KeysOnceIs
    <3>8. CASE Same(b, i) /\ Same(c, j)
      <4>1. /\ b \in 1..Len(bs) /\ c \in 1..Len(bs)
            /\ i \in 1..Len(bs[b]) /\ t[b][i] = bs[b][i]
            /\ j \in 1..Len(bs[c]) /\ t[c][j] = bs[c][j]
        BY <3>8, <1>1
      <4>2. bs[b][i].key = bs[c][j].key
        BY <4>1, <2>1
      <4>3. QED
        BY <4>1, <4>2, KeysOnceIs
    <3> HIDE DEF New, Moved, Same
    <3>9. QED
      BY <3>1, <3>2, <3>3, <3>4, <3>5, <3>6, <3>7, <3>8
  <2>2. QED
    BY <2>1, <1>5, KeysOnceIs
<1>10. NodesOf(t) = NodesOf(bs) \cup {n}
  <2>1. ASSUME NEW x \in NodesOf(t) PROVE x \in NodesOf(bs) \cup {n}
    <3>1. PICK b \in 1..N : \E i \in 1..Len(t[b]) : x = t[b][i]
      BY <1>5, NodesAre
    <3>2. PICK i \in 1..Len(t[b]) : x = t[b][i]
      BY <3>1
    <3>3. QED
      BY <3>2, <1>1, <1>6, <1>7
  <2>2. n \in NodesOf(t)
    <3>1. t[a] = s /\ 1 \in 1..Len(s) /\ s[1] = n
      BY <1>1, <1>2, <1>3, <1>5
    <3>2. \E i \in 1..Len(t[a]) : n = t[a][i]
      BY <3>1
    <3>3. QED
      BY <3>2, <1>1, <1>5, NodesAre
  <2>3. ASSUME NEW x \in NodesOf(bs) PROVE x \in NodesOf(t)
    <3>1. PICK b \in 1..N : \E i \in 1..Len(bs[b]) : x = bs[b][i]
      BY NodesAre
    <3>2. PICK i \in 1..Len(bs[b]) : x = bs[b][i]
      BY <3>1
    <3>3. \E j \in 1..Len(t[b]) : x = t[b][j]
      <4>1. CASE b = a
        <5>1. t[b] = s /\ i + 1 \in 1..Len(s) /\ s[i + 1] = x
          BY <4>1, <3>2, <1>1, <1>2, <1>3, <1>5
        <5>2. QED
          BY <5>1
      <4>2. CASE b # a
        BY <4>2, <3>2, <1>5
      <4>3. QED
        BY <4>1, <4>2
    <3>4. QED
      BY <3>3, <1>5, NodesAre
  <2>4. QED
    BY <2>1, <2>2, <2>3
<1>11. QED
  BY <1>5, <1>8, <1>9, <1>10 DEF t

LEMMA EmptyBuckets ==
  ASSUME NEW n \in Nat
  PROVE  /\ [b \in 1..n |-> << >>] \in Seq(Bucket) /\ Len([b \in 1..n |-> << >>]) = n
         /\ Placed([b \in 1..n |-> << >>]) /\ KeysOnce([b \in 1..n |-> << >>])
         /\ NodesOf([b \in 1..n |-> << >>]) = {}
<1> DEFINE t == [b \in 1..n |-> << >>]
<1>1. << >> \in Bucket
  BY DEF Bucket
<1>2. t \in Seq(Bucket) /\ Len(t) = n /\ \A b \in 1..n : t[b] = << >> /\ Len(t[b]) = 0
  BY <1>1
<1> HIDE DEF t
<1>3. \A b \in 1..Len(t) : 1..Len(t[b]) = {}
  BY <1>2
<1>4. Placed(t)
  BY <1>2, <1>3, PlacedIs
<1>5. KeysOnce(t)
  BY <1>2, <1>3, KeysOnceIs
<1>6. NodesOf(t) = {}
  <2>1. ASSUME NEW x PROVE x \notin NodesOf(t)
    BY <1>2, <1>3, NodesAre
  <2>2. QED
    BY <2>1
<1>7. QED
  BY <1>2, <1>4, <1>5, <1>6 DEF t

LEMMA AddedIs ==
  ASSUME NEW s \in Bucket, Distinct(s), NEW n \in Nat, n = 0 => Len(s) = 0
  PROVE  /\ Added(s, n) \in Seq(Bucket) /\ Len(Added(s, n)) = n
         /\ Placed(Added(s, n)) /\ KeysOnce(Added(s, n))
         /\ \A x : x \in NodesOf(Added(s, n)) <=> \E i \in 1..Len(s) : x = s[i]
<1> DEFINE N == Len(s)
           empty == [b \in 1..n |-> << >>]
           Link(f, i) == IF i = 0 THEN empty ELSE AddNode(f[i - 1], s[i])
           Is(f, m) == f = [i \in 0..m |-> Link(f, i)]
<1>1. N \in Nat /\ \A i \in 1..N : s[i] \in map_node_t
  BY DEF Bucket
<1>2. \E f : Is(f, N)
  <2> DEFINE G == {m \in 0..N : \E f : Is(f, m)}
  <2>1. 0 \in G
    <3>1. Is([i \in 0..0 |-> empty], 0)
      OBVIOUS
    <3> HIDE DEF Is, Link
    <3>2. (\E f : Is(f, 0)) /\ 0 \in 0..N
      BY <3>1, <1>1
    <3>3. QED
      BY <3>2
  <2>2. ASSUME NEW m \in 0..N, m # N, m \in G PROVE m + 1 \in G
    <3>1. PICK f : Is(f, m)
      BY <2>2
    <3> DEFINE g == [i \in 0..m + 1 |-> IF i = m + 1 THEN Link(f, m + 1) ELSE f[i]]
    <3>2. m \in Nat /\ m + 1 \in 0..N
      BY <2>2, <1>1
    <3>3. ASSUME NEW i \in 0..m + 1 PROVE g[i] = Link(g, i)
      <4>1. i # 0 => i - 1 \in 0..m /\ i - 1 # m + 1 /\ i - 1 \in 0..m + 1
        BY <3>2
      <4>2. i # 0 => g[i - 1] = f[i - 1]
        BY <4>1
      <4>3. Link(g, i) = Link(f, i)
        <5> HIDE DEF g
        <5>1. QED
          BY <4>2
      <4>4. i # m + 1 => g[i] = f[i] /\ i \in 0..m
        BY <3>2
      <4>5. i # m + 1 => f[i] = Link(f, i)
        BY <4>4, <3>1
      <4>6. i = m + 1 => g[i] = Link(f, i)
        OBVIOUS
      <4> HIDE DEF g, Link
      <4>7. QED
        BY <4>3, <4>4, <4>5, <4>6
    <3>4. Is(g, m + 1)
      <4>1. g = [i \in 0..m + 1 |-> g[i]]
        OBVIOUS
      <4> HIDE DEF g, Link
      <4>2. QED
        BY <4>1, <3>3
    <3>5. QED
      BY <3>2, <3>4
  <2> HIDE DEF G
  <2>3. N \in G
    BY <2>1, <2>2, <1>1, UpTheNumbers, N \in 0..N
  <2>4. QED
    BY <2>3 DEF G
<1> DEFINE c == CHOOSE f : Is(f, N)
<1>3. Is(c, N)
  BY <1>2
<1>4. Added(s, n) = c[N]
  BY DEF Added
<1>5. c[0] = empty /\ \A i \in 1..N : c[i] = AddNode(c[i - 1], s[i])
  <2> HIDE DEF c
  <2>1. ASSUME NEW i \in 0..N PROVE c[i] = Link(c, i)
    BY <1>3
  <2>2. 0 \in 0..N /\ \A i \in 1..N : i \in 0..N /\ i # 0
    BY <1>1
  <2>3. QED
    BY <2>1, <2>2
<1> HIDE DEF c, Is, Link
<1> DEFINE Good(m) ==
             /\ c[m] \in Seq(Bucket) /\ Len(c[m]) = n
             /\ Placed(c[m]) /\ KeysOnce(c[m])
             /\ NodesOf(c[m]) = {s[i] : i \in 1..m}
<1>6. Good(N)
  <2> DEFINE G == {m \in 0..N : Good(m)}
  <2>1. 0 \in G
    <3>1. {s[i] : i \in 1..0} = {} /\ 0 \in 0..N
      BY <1>1
    <3> HIDE DEF c
    <3>2. Good(0)
      BY <1>5, <3>1, EmptyBuckets
    <3> HIDE DEF Good
    <3>3. QED
      BY <3>1, <3>2
  <2>2. ASSUME NEW m \in 0..N, m # N, m \in G PROVE m + 1 \in G
    <3> DEFINE d == c[m]
               x == s[m + 1]
    <3>1. m + 1 \in 1..N /\ m + 1 \in 0..N /\ (m + 1) - 1 = m /\ Len(s) # 0
      BY <2>2, <1>1
    <3>2. /\ d \in Seq(Bucket) /\ Len(d) = n /\ Placed(d) /\ KeysOnce(d)
          /\ NodesOf(d) = {s[i] : i \in 1..m}
      BY <2>2
    <3>3. c[m + 1] = AddNode(d, x)
      BY <3>1, <1>5
    <3>4. x \in map_node_t /\ Len(d) # 0
      BY <3>1, <3>2, <1>1
    <3>5. \A y \in NodesOf(d) : y.key # x.key
      <4>1. ASSUME NEW i \in 1..m PROVE s[i].key # s[m + 1].key
        <5>1. i \in 1..N /\ i # m + 1
          BY <3>1, <1>1
        <5>2. QED
          BY <5>1, <3>1 DEF Distinct
      <4>2. QED
        BY <4>1, <3>2
    <3>6. {s[i] : i \in 1..m + 1} = {s[i] : i \in 1..m} \cup {x}
      <4>1. 1..m + 1 = (1..m) \cup {m + 1}
        BY <3>1
      <4>2. QED
        BY <4>1
    <3> HIDE DEF d, x, G
    <3>7. /\ AddNode(d, x) \in Seq(Bucket) /\ Len(AddNode(d, x)) = n
          /\ Placed(AddNode(d, x)) /\ KeysOnce(AddNode(d, x))
          /\ NodesOf(AddNode(d, x)) = NodesOf(d) \cup {x}
      BY <3>2, <3>4, <3>5, AddNodeIs
    <3>8. Good(m + 1)
      BY <3>2, <3>3, <3>6, <3>7
    <3> HIDE DEF Good
    <3>9. QED
      BY <3>1, <3>8 DEF G
  <2> HIDE DEF G
  <2>3. N \in G
    BY <2>1, <2>2, <1>1, UpTheNumbers, N \in 0..N
  <2>4. QED
    BY <2>3 DEF G
<1>7. QED
  BY <1>4, <1>6

\* A resize moves the nodes about, and no node is lost
LEMMA ResizeIs ==
  ASSUME NEW bs \in Seq(Bucket), KeysOnce(bs), NEW n \in Nat, n = 0 => Len(bs) = 0
  PROVE  /\ Resize(bs, n) \in Seq(Bucket) /\ Len(Resize(bs, n)) = n
         /\ Placed(Resize(bs, n)) /\ KeysOnce(Resize(bs, n))
         /\ NodesOf(Resize(bs, n)) = NodesOf(bs)
<1> DEFINE s == Chained(bs)
           t == Added(s, n)
<1>1. /\ s \in Bucket /\ Distinct(s)
      /\ \A x : (\E i \in 1..Len(s) : x = s[i]) <=> x \in NodesOf(bs)
  BY ChainedIs
<1> HIDE DEF s
<1>2. n = 0 => Len(s) = 0
  <2>1. SUFFICES ASSUME n = 0, Len(s) # 0 PROVE FALSE
    OBVIOUS
  <2>2. 1 \in 1..Len(s)
    BY <2>1, <1>1 DEF Bucket
  <2>3. s[1] \in NodesOf(bs)
    BY <2>2, <1>1
  <2>4. 1..Len(bs) = {}
    BY <2>1
  <2>5. QED
    BY <2>3, <2>4, NodesAre
<1>3. /\ t \in Seq(Bucket) /\ Len(t) = n /\ Placed(t) /\ KeysOnce(t)
      /\ \A x : x \in NodesOf(t) <=> \E i \in 1..Len(s) : x = s[i]
  BY <1>1, <1>2, AddedIs
<1>4. Resize(bs, n) = t
  BY DEF Resize, s
<1> HIDE DEF t
<1>5. NodesOf(t) = NodesOf(bs)
  BY <1>1, <1>3
<1>6. QED
  BY <1>3, <1>4, <1>5

\* The functions that PowerOfTwo is written with
Powers(n) == CHOOSE p : p = [e \in 0..n |-> IF e = 0 THEN 1 ELSE 2 * p[e - 1]]

LEMMA PowersAre ==
  ASSUME NEW n \in Nat
  PROVE  /\ Powers(n)[0] = 1
         /\ \A e \in 1..n : Powers(n)[e] = 2 * Powers(n)[e - 1]
<1> DEFINE Link(f, i) == IF i = 0 THEN 1 ELSE 2 * f[i - 1]
           Is(f, m) == f = [i \in 0..m |-> Link(f, i)]
<1>1. \E f : Is(f, n)
  <2> DEFINE G == {m \in 0..n : \E f : Is(f, m)}
  <2>1. 0 \in G
    <3>1. Is([i \in 0..0 |-> 1], 0)
      OBVIOUS
    <3> HIDE DEF Is, Link
    <3>2. (\E f : Is(f, 0)) /\ 0 \in 0..n
      BY <3>1
    <3>3. QED
      BY <3>2
  <2>2. ASSUME NEW m \in 0..n, m # n, m \in G PROVE m + 1 \in G
    <3>1. PICK f : Is(f, m)
      BY <2>2
    <3> DEFINE g == [i \in 0..m + 1 |-> IF i = m + 1 THEN Link(f, m + 1) ELSE f[i]]
    <3>2. m \in Nat /\ m + 1 \in 0..n
      BY <2>2
    <3>3. ASSUME NEW i \in 0..m + 1 PROVE g[i] = Link(g, i)
      <4>1. i # 0 => i - 1 \in 0..m /\ i - 1 # m + 1 /\ i - 1 \in 0..m + 1
        BY <3>2
      <4>2. i # 0 => g[i - 1] = f[i - 1]
        BY <4>1
      <4>3. Link(g, i) = Link(f, i)
        <5> HIDE DEF g
        <5>1. QED
          BY <4>2
      <4>4. i # m + 1 => g[i] = f[i] /\ i \in 0..m
        BY <3>2
      <4>5. i # m + 1 => f[i] = Link(f, i)
        BY <4>4, <3>1
      <4>6. i = m + 1 => g[i] = Link(f, i)
        OBVIOUS
      <4> HIDE DEF g, Link
      <4>7. QED
        BY <4>3, <4>4, <4>5, <4>6
    <3>4. Is(g, m + 1)
      <4>1. g = [i \in 0..m + 1 |-> g[i]]
        OBVIOUS
      <4> HIDE DEF g, Link
      <4>2. QED
        BY <4>1, <3>3
    <3>5. QED
      BY <3>2, <3>4
  <2> HIDE DEF G
  <2>3. n \in G
    BY <2>1, <2>2, UpTheNumbers, n \in 0..n
  <2>4. QED
    BY <2>3 DEF G
<1>2. Is(Powers(n), n)
  BY <1>1 DEF Powers
<1> DEFINE c == Powers(n)
<1>3. Is(c, n)
  BY <1>2
<1> HIDE DEF c
<1>4. ASSUME NEW i \in 0..n PROVE c[i] = Link(c, i)
  BY <1>3
<1>5. 0 \in 0..n /\ \A i \in 1..n : i \in 0..n /\ i # 0
  OBVIOUS
<1>6. QED
  BY <1>4, <1>5 DEF c

LEMMA PowersAgree ==
  ASSUME NEW n \in Nat, NEW m \in Nat, n <= m
  PROVE  \A e \in 0..n : Powers(m)[e] = Powers(n)[e] /\ Powers(n)[e] \in Nat
<1> DEFINE G == {e \in 0..n : Powers(m)[e] = Powers(n)[e] /\ Powers(n)[e] \in Nat}
<1>1. 0 \in G
  BY PowersAre
<1>2. ASSUME NEW e \in 0..n, e # n, e \in G PROVE e + 1 \in G
  <2>1. e + 1 \in 1..n /\ e + 1 \in 1..m /\ (e + 1) - 1 = e
    BY <1>2
  <2>2. /\ Powers(n)[e + 1] = 2 * Powers(n)[(e + 1) - 1]
        /\ Powers(m)[e + 1] = 2 * Powers(m)[(e + 1) - 1]
    BY <2>1, PowersAre
  <2>3. Powers(n)[e + 1] = 2 * Powers(n)[e] /\ Powers(m)[e + 1] = 2 * Powers(m)[e]
    BY <2>1, <2>2
  <2>4. Powers(m)[e] = Powers(n)[e] /\ Powers(n)[e] \in Nat
    BY <1>2
  <2>5. QED
    BY <2>1, <2>3, <2>4
<1> HIDE DEF G
<1>3. \A e \in 0..n : e \in G
  BY <1>1, <1>2, UpTheNumbers
<1>4. QED
  BY <1>3 DEF G

LEMMA PowerOfTwoIs ==
  ASSUME NEW n \in Nat
  PROVE  PowerOfTwo(n) <=> \E e \in 0..n : n = Powers(n)[e]
  BY DEF PowerOfTwo, Powers

LEMMA OneIsPower ==
  PowerOfTwo(1)
<1>1. Powers(1)[0] = 1 /\ 0 \in 0..1
  BY PowersAre
<1>2. QED
  BY <1>1, PowerOfTwoIs

LEMMA TwiceIsPower ==
  ASSUME NEW n \in Nat \ {0}, PowerOfTwo(n)
  PROVE  PowerOfTwo(2 * n)
<1>1. PICK e \in 0..n : n = Powers(n)[e]
  BY PowerOfTwoIs
<1>2. 2 * n \in Nat /\ n <= 2 * n /\ e + 1 \in 1..2 * n /\ e + 1 \in 0..2 * n /\ (e + 1) - 1 = e
  OBVIOUS
<1>3. Powers(2 * n)[e] = n
  BY <1>1, <1>2, PowersAgree
<1>4. Powers(2 * n)[e + 1] = 2 * Powers(2 * n)[(e + 1) - 1]
  BY <1>2, PowersAre
<1>5. QED
  BY <1>2, <1>3, <1>4, PowerOfTwoIs

\* The value of a key among the nodes of bs
LookupIn(bs, k) ==
  LET found == {y \in NodesOf(bs) : y.key = k}
  IN  IF found = {} THEN NULL ELSE (CHOOSE y \in found : TRUE).value

\* The nodes of bs with other keys
Others(bs, k) == {x \in NodesOf(bs) : x.key # k}

LEMMA OneNode ==
  ASSUME NEW bs \in Seq(Bucket), KeysOnce(bs), NEW x \in NodesOf(bs), NEW y \in NodesOf(bs),
         x.key = y.key
  PROVE  x = y
<1>1. PICK b \in 1..Len(bs) : \E i \in 1..Len(bs[b]) : x = bs[b][i]
  BY NodesAre
<1>2. PICK i \in 1..Len(bs[b]) : x = bs[b][i]
  BY <1>1
<1>3. PICK c \in 1..Len(bs) : \E j \in 1..Len(bs[c]) : y = bs[c][j]
  BY NodesAre
<1>4. PICK j \in 1..Len(bs[c]) : y = bs[c][j]
  BY <1>3
<1>5. b = c /\ i = j
  BY <1>2, <1>4, KeysOnceIs
<1>6. QED
  BY <1>2, <1>4, <1>5

LEMMA LookupIs ==
  ASSUME NEW bs \in Seq(Bucket), KeysOnce(bs), NEW k
  PROVE  /\ \A x \in NodesOf(bs) : x.key = k => LookupIn(bs, k) = x.value
         /\ (\A x \in NodesOf(bs) : x.key # k) => LookupIn(bs, k) = NULL
<1> DEFINE found == {x \in NodesOf(bs) : x.key = k}
<1>1. LookupIn(bs, k) = IF found = {} THEN NULL ELSE (CHOOSE x \in found : TRUE).value
  BY DEF LookupIn
<1>2. ASSUME NEW x \in NodesOf(bs), x.key = k PROVE LookupIn(bs, k) = x.value
  <2>1. x \in found /\ \A y \in found : y = x
    BY <1>2, OneNode
  <2> HIDE DEF found
  <2>2. (CHOOSE y \in found : TRUE) = x
    BY <2>1
  <2>3. QED
    BY <1>1, <2>1, <2>2
<1>3. ASSUME \A x \in NodesOf(bs) : x.key # k PROVE LookupIn(bs, k) = NULL
  <2>1. found = {}
    BY <1>3
  <2>2. QED
    BY <1>1, <2>1
<1>4. QED
  BY <1>2, <1>3

LEMMA MapNodeIs ==
  ASSUME NEW k \in Keys, NEW v \in Values
  PROVE  MapNode(k, v) \in map_node_t /\ MapNode(k, v).key = k /\ MapNode(k, v).value = v
  BY DEF MapNode, map_node_t, map_value_t

LEMMA SetIs ==
  ASSUME NEW bs \in Seq(Bucket), KeysOnce(bs), NEW t \in Seq(Bucket), KeysOnce(t),
         NEW k \in Keys, NEW v \in Values, NodesOf(t) = Others(bs, k) \cup {MapNode(k, v)},
         NEW j \in Keys
  PROVE  LookupIn(t, j) = IF j = k THEN v ELSE LookupIn(bs, j)
<1> DEFINE n == MapNode(k, v)
<1>1. n.key = k /\ n.value = v /\ n \in NodesOf(t)
  BY MapNodeIs
<1> HIDE DEF n
<1>2. CASE j = k
  BY <1>1, <1>2, LookupIs
<1>3. CASE j # k
  <2>1. CASE \E x \in NodesOf(bs) : x.key = j
    <3>1. PICK x \in NodesOf(bs) : x.key = j
      BY <2>1
    <3>2. x \in NodesOf(t)
      BY <3>1, <1>3 DEF Others
    <3>3. LookupIn(t, j) = x.value
      BY <3>1, <3>2, LookupIs
    <3>4. LookupIn(bs, j) = x.value
      BY <3>1, LookupIs
    <3>5. QED
      BY <3>3, <3>4, <1>3
  <2>2. CASE ~\E x \in NodesOf(bs) : x.key = j
    <3>1. \A x \in NodesOf(t) : x.key # j
      BY <2>2, <1>1, <1>3 DEF Others, n
    <3>2. LookupIn(t, j) = NULL
      BY <3>1, LookupIs
    <3>3. LookupIn(bs, j) = NULL
      BY <2>2, LookupIs
    <3>4. QED
      BY <3>2, <3>3, <1>3
  <2>3. QED
    BY <2>1, <2>2
<1>4. QED
  BY <1>2, <1>3

LEMMA RemovedIs ==
  ASSUME NEW bs \in Seq(Bucket), KeysOnce(bs), NEW t \in Seq(Bucket), KeysOnce(t),
         NEW k \in Keys, NodesOf(t) = Others(bs, k), NEW j \in Keys
  PROVE  LookupIn(t, j) = IF j = k THEN NULL ELSE LookupIn(bs, j)
<1>1. CASE j = k
  <2>1. \A x \in NodesOf(t) : x.key # j
    BY <1>1 DEF Others
  <2>2. QED
    BY <2>1, <1>1, LookupIs
<1>2. CASE j # k
  <2>1. {x \in NodesOf(t) : x.key = j} = {x \in NodesOf(bs) : x.key = j}
    BY <1>2 DEF Others
  <2>2. LookupIn(bs, j) = IF {x \in NodesOf(bs) : x.key = j} = {} THEN NULL
                          ELSE (CHOOSE y \in {x \in NodesOf(bs) : x.key = j} : TRUE).value
    BY DEF LookupIn
  <2>3. LookupIn(t, j) = IF {x \in NodesOf(t) : x.key = j} = {} THEN NULL
                         ELSE (CHOOSE y \in {x \in NodesOf(t) : x.key = j} : TRUE).value
    BY DEF LookupIn
  <2>4. QED
    BY <2>1, <2>2, <2>3, <1>2
<1>3. QED
  BY <1>1, <1>2

\* No more nodes than keys
LEMMA NodesFew ==
  ASSUME NEW bs \in Seq(Bucket), KeysOnce(bs)
  PROVE  /\ IsFiniteSet(NodesOf(bs)) /\ Cardinality(NodesOf(bs)) \in Nat
         /\ Cardinality(NodesOf(bs)) <= Cardinality(Keys)
<1> DEFINE S == NodesOf(bs)
           f == [x \in S |-> x.key]
<1>1. S \subseteq map_node_t
  BY NodesTyped
<1>2. \A x \in S : x.key \in Keys
  BY <1>1 DEF map_node_t
<1>3. \A x, y \in S : x.key = y.key => x = y
  BY OneNode
<1> HIDE DEF S
<1>4. f \in [S -> Keys] /\ \A x, y \in S : f[x] = f[y] => x = y
  BY <1>2, <1>3
<1>5. f \in Injection(S, Keys)
  BY <1>4 DEF Injection, IsInjective
<1>6. IsFiniteSet(Keys)
  BY HashAssumption
<1> HIDE DEF f
<1>7. IsFiniteSet(S) /\ Cardinality(S) <= Cardinality(Keys)
  BY <1>5, <1>6, FS_Injection
<1>8. Cardinality(S) \in Nat
  BY <1>7, FS_CardinalityType
<1>9. QED
  BY <1>7, <1>8 DEF S

MapInv ==
  /\ buckets \in Seq(Bucket) /\ nnodes \in Nat
  /\ NodesInBuckets

GotOK == got.returned \in Values \cup {NULL, "ok", "failed"}

\* Where Position finds a key, or that there is none to be found
LEMMA PositionIs ==
  ASSUME MapInv, NEW k \in Keys
  PROVE  \/ Position(k) = 0 /\ \A x \in NodesOf(buckets) : x.key # k
         \/ /\ Position(k) # 0 /\ nbuckets # 0
            /\ BucketIndex(k, nbuckets) + 1 \in 1..nbuckets
            /\ Position(k) \in 1..Len(Chain(k))
            /\ Chain(k)[Position(k)].key = k
            /\ Chain(k)[Position(k)] \in NodesOf(buckets)
<1> DEFINE b == BucketIndex(k, nbuckets) + 1
           s == buckets[b]
           I == {i \in 1..Len(s) : s[i].key = k}
<1>1. buckets \in Seq(Bucket) /\ Placed(buckets) /\ nbuckets \in Nat /\ nbuckets = Len(buckets)
  BY DEF MapInv, NodesInBuckets, nbuckets
<1>2. CASE nbuckets = 0
  <2>1. Position(k) = 0
    BY <1>2 DEF Position
  <2>2. 1..Len(buckets) = {}
    BY <1>1, <1>2
  <2>3. \A x \in NodesOf(buckets) : x.key # k
    BY <2>2, <1>1, NodesAre
  <2>4. QED
    BY <2>1, <2>3
<1>3. CASE nbuckets # 0
  <2>1. b \in 1..nbuckets
    <3>1. BucketIndex(k, nbuckets) \in 0..nbuckets - 1
      BY <1>1, <1>3, BucketIndexIs
    <3>2. QED
      BY <3>1, <1>1
  <2>2. Position(k) = IF I # {} THEN Min(I) ELSE 0
    BY <1>3 DEF Position, SelectInSeq, Chain
  <2> HIDE DEF b
  <2>3. s \in Bucket
    BY <2>1, <1>1
  <2>4. CASE I = {}
    <3>1. ASSUME NEW x \in NodesOf(buckets), x.key = k PROVE FALSE
      <4>1. PICK c \in 1..Len(buckets) : \E i \in 1..Len(buckets[c]) : x = buckets[c][i]
        BY <1>1, NodesAre
      <4>2. PICK i \in 1..Len(buckets[c]) : x = buckets[c][i]
        BY <4>1
      <4>3. BucketIndex(x.key, Len(buckets)) + 1 = c
        BY <4>2, <1>1, PlacedIs
      <4>4. c = b
        BY <4>3, <3>1, <1>1 DEF b
      <4>5. QED
        BY <4>2, <4>4, <3>1, <2>4
    <3>2. QED
      BY <3>1, <2>2, <2>4
  <2>5. CASE I # {}
    <3>1. I \in SUBSET Nat
      OBVIOUS
    <3> HIDE DEF I
    <3>2. Min(I) \in I
      BY <3>1, <2>5, MinIs
    <3>3. Position(k) \in 1..Len(s) /\ s[Position(k)].key = k
      BY <3>2, <2>2, <2>5 DEF I
    <3>4. Chain(k) = s
      BY DEF Chain, b
    <3>7. s[Position(k)] \in NodesOf(buckets)
      <4>1. b \in 1..Len(buckets) /\ \E i \in 1..Len(buckets[b]) : s[Position(k)] = buckets[b][i]
        BY <2>1, <3>3, <1>1
      <4> DEFINE x == s[Position(k)]
      <4> HIDE DEF x
      <4>2. \E i \in 1..Len(buckets[b]) : x = buckets[b][i]
        BY <4>1 DEF x
      <4>3. x \in NodesOf(buckets)
        BY <4>1, <4>2, <1>1, NodesAre
      <4>4. QED
        BY <4>3 DEF x
    <3> HIDE DEF s
    <3>5. Position(k) # 0
      BY <3>3
    <3>6. QED
      BY <3>3, <3>4, <3>5, <3>7, <2>1, <1>3 DEF b
  <2>6. QED
    BY <2>4, <2>5
<1>4. QED
  BY <1>2, <1>3

LEMMA OneReplaced ==
  ASSUME NEW S, NEW q \in Seq(S), NEW b \in 1..Len(q), NEW s \in S,
         NEW t, t = [q EXCEPT ![b] = s]
  PROVE  /\ t \in Seq(S) /\ Len(t) = Len(q)
         /\ \A c \in 1..Len(q) : t[c] = IF c = b THEN s ELSE q[c]
  OBVIOUS

\* The value of the node at p in bucket b, which holds key k, replaced
Replaced(bs, b, p, v) == [bs EXCEPT ![b][p].value = v]

LEMMA ReplacedIs ==
  ASSUME NEW bs \in Seq(Bucket), Placed(bs), KeysOnce(bs), NEW k \in Keys, NEW v \in Values,
         NEW b \in 1..Len(bs), NEW p \in 1..Len(bs[b]), bs[b][p].key = k
  PROVE  /\ Replaced(bs, b, p, v) \in Seq(Bucket) /\ Len(Replaced(bs, b, p, v)) = Len(bs)
         /\ Placed(Replaced(bs, b, p, v)) /\ KeysOnce(Replaced(bs, b, p, v))
         /\ NodesOf(Replaced(bs, b, p, v)) = Others(bs, k) \cup {MapNode(k, v)}
<1> DEFINE s == [bs[b] EXCEPT ![p] = MapNode(k, v)]
           t == [bs EXCEPT ![b] = s]
<1>1. bs[b] \in Seq(map_node_t) /\ MapNode(k, v) \in map_node_t
  BY MapNodeIs DEF Bucket
<1>2. [bs[b][p] EXCEPT !.value = v] = MapNode(k, v)
  <2> DEFINE x == bs[b][p]
  <2>1. x \in map_node_t /\ x.key = k
    BY <1>1
  <2> HIDE DEF x
  <2>2. [x EXCEPT !.value = v] = MapNode(k, v)
    BY <2>1 DEF map_node_t, MapNode
  <2>3. QED
    BY <2>2 DEF x
<1>3. Replaced(bs, b, p, v) = t
  BY <1>2 DEF Replaced
<1>5. /\ s \in Bucket /\ Len(s) = Len(bs[b])
      /\ \A i \in 1..Len(bs[b]) : s[i] = IF i = p THEN MapNode(k, v) ELSE bs[b][i]
  BY <1>1, OneReplaced DEF Bucket
<1> HIDE DEF s
<1>6. /\ t \in Seq(Bucket) /\ Len(t) = Len(bs)
      /\ \A c \in 1..Len(bs) : t[c] = IF c = b THEN s ELSE bs[c]
  BY <1>5, OneReplaced
<1> HIDE DEF t
<1>7. \A c \in 1..Len(bs) : Len(t[c]) = Len(bs[c])
  BY <1>5, <1>6
<1>8. ASSUME NEW c \in 1..Len(bs), NEW i \in 1..Len(bs[c])
      PROVE  t[c][i] = IF c = b /\ i = p THEN MapNode(k, v) ELSE bs[c][i]
  BY <1>5, <1>6
<1>9. MapNode(k, v).key = k
  BY MapNodeIs
<1>10. ASSUME NEW c \in 1..Len(bs), NEW i \in 1..Len(bs[c]) PROVE t[c][i].key = bs[c][i].key
  BY <1>8, <1>9
<1>11. Placed(t)
  <2>1. ASSUME NEW c \in 1..Len(t), NEW i \in 1..Len(t[c])
        PROVE  BucketIndex(t[c][i].key, Len(t)) + 1 = c
    BY <1>6, <1>7, <1>10, PlacedIs
  <2>2. QED
    BY <2>1, <1>6, PlacedIs
<1>12. KeysOnce(t)
  <2>1. ASSUME NEW c \in 1..Len(t), NEW d \in 1..Len(t),
               NEW i \in 1..Len(t[c]), NEW j \in 1..Len(t[d]), t[c][i].key = t[d][j].key
        PROVE  c = d /\ i = j
    <3>1. /\ c \in 1..Len(bs) /\ d \in 1..Len(bs) /\ i \in 1..Len(bs[c]) /\ j \in 1..Len(bs[d])
      BY <1>6, <1>7
    <3>2. bs[c][i].key = bs[d][j].key
      BY <3>1, <2>1, <1>10
    <3>3. QED
      BY <3>1, <3>2, KeysOnceIs
  <2>2. QED
    BY <2>1, <1>6, KeysOnceIs
<1>13. ASSUME NEW x PROVE x \in NodesOf(t) <=> x \in Others(bs, k) \cup {MapNode(k, v)}
  <2>1. ASSUME x \in NodesOf(t) PROVE x \in Others(bs, k) \cup {MapNode(k, v)}
    <3>1. PICK c \in 1..Len(bs) : \E i \in 1..Len(t[c]) : x = t[c][i]
      BY <2>1, <1>6, NodesAre
    <3>2. PICK i \in 1..Len(bs[c]) : x = t[c][i]
      BY <3>1, <1>7
    <3>3. CASE c = b /\ i = p
      BY <3>2, <3>3, <1>8
    <3>4. CASE ~(c = b /\ i = p)
      <4>1. x = bs[c][i] /\ x.key # k
        BY <3>2, <3>4, <1>8, KeysOnceIs
      <4>2. x \in NodesOf(bs)
        BY <4>1, NodesAre
      <4>3. QED
        BY <4>1, <4>2 DEF Others
    <3>5. QED
      BY <3>3, <3>4
  <2>2. MapNode(k, v) \in NodesOf(t)
    <3>1. t[b][p] = MapNode(k, v) /\ b \in 1..Len(t) /\ p \in 1..Len(t[b])
      BY <1>6, <1>7, <1>8
    <3>2. \E i \in 1..Len(t[b]) : MapNode(k, v) = t[b][i]
      BY <3>1
    <3>3. QED
      BY <3>1, <3>2, <1>6, NodesAre
  <2>3. ASSUME x \in Others(bs, k) PROVE x \in NodesOf(t)
    <3>0. x \in NodesOf(bs)
      BY <2>3 DEF Others
    <3>1. PICK c \in 1..Len(bs) : \E i \in 1..Len(bs[c]) : x = bs[c][i]
      BY <3>0, NodesAre
    <3>2. PICK i \in 1..Len(bs[c]) : x = bs[c][i]
      BY <3>1
    <3>3. ~(c = b /\ i = p)
      BY <3>2, <2>3 DEF Others
    <3>4. x = t[c][i] /\ c \in 1..Len(t) /\ i \in 1..Len(t[c])
      BY <3>2, <3>3, <1>6, <1>7, <1>8
    <3>5. \E j \in 1..Len(t[c]) : x = t[c][j]
      BY <3>4
    <3>6. QED
      BY <3>4, <3>5, <1>6, NodesAre
  <2>4. QED
    BY <2>1, <2>2, <2>3
<1>14. NodesOf(t) = Others(bs, k) \cup {MapNode(k, v)}
  BY <1>13
<1>15. QED
  BY <1>3, <1>6, <1>11, <1>12, <1>14

\* The node at p in bucket b, which holds key k, removed
LEMMA NodeGone ==
  ASSUME NEW bs \in Seq(Bucket), Placed(bs), KeysOnce(bs), NEW k \in Keys,
         NEW b \in 1..Len(bs), NEW p \in 1..Len(bs[b]), bs[b][p].key = k
  PROVE  \E t \in Seq(Bucket) :
           /\ t = [bs EXCEPT ![b] = RemoveAt(@, p)] /\ Len(t) = Len(bs)
           /\ Placed(t) /\ KeysOnce(t) /\ NodesOf(t) = Others(bs, k)
<1> DEFINE s == RemoveAt(bs[b], p)
           t == [bs EXCEPT ![b] = s]
           Was(c, i) == IF c = b THEN Skip(p, i) ELSE i
<1>1. Len(bs) \in Nat /\ \A c \in 1..Len(bs) : bs[c] \in Seq(map_node_t) /\ Len(bs[c]) \in Nat
  BY DEF Bucket
<1>3. t = [bs EXCEPT ![b] = RemoveAt(@, p)]
  OBVIOUS
<1>2. /\ s \in Bucket /\ Len(s) = Len(bs[b]) - 1
      /\ \A i \in 1..Len(bs[b]) - 1 : s[i] = bs[b][Skip(p, i)]
  BY <1>1, Without DEF Bucket
<1> HIDE DEF s
<1>4. /\ t \in Seq(Bucket) /\ Len(t) = Len(bs)
      /\ \A c \in 1..Len(bs) : t[c] = IF c = b THEN s ELSE bs[c]
  BY <1>2, OneReplaced
<1> HIDE DEF t
<1>5. ASSUME NEW c \in 1..Len(bs), NEW i \in 1..Len(t[c])
      PROVE  /\ Was(c, i) \in 1..Len(bs[c]) /\ t[c][i] = bs[c][Was(c, i)]
             /\ ~(c = b /\ Was(c, i) = p)
  <2>1. CASE c = b
    <3>1. t[c] = s /\ i \in 1..Len(bs[b]) - 1 /\ Was(c, i) = Skip(p, i)
      BY <2>1, <1>2, <1>4
    <3>2. Skip(p, i) \in 1..Len(bs[b]) /\ Skip(p, i) # p
      BY <3>1, <1>1 DEF Skip
    <3>3. QED
      BY <2>1, <3>1, <3>2, <1>2
  <2>2. CASE c # b
    BY <2>2, <1>4
  <2>3. QED
    BY <2>1, <2>2
<1>6. ASSUME NEW c \in 1..Len(bs), NEW i \in 1..Len(t[c]), NEW j \in 1..Len(t[c]),
             Was(c, i) = Was(c, j)
      PROVE  i = j
  BY <1>6 DEF Skip
<1>7. ASSUME NEW c \in 1..Len(bs), NEW i \in 1..Len(bs[c]), ~(c = b /\ i = p)
      PROVE  \E j \in 1..Len(t[c]) : t[c][j] = bs[c][i]
  <2>1. CASE c # b
    BY <2>1, <1>4
  <2>2. CASE c = b /\ i < p
    <3>0. t[c] = s /\ 1..Len(t[c]) = 1..Len(bs[b]) - 1
      BY <2>2, <1>2, <1>4
    <3>1. t[c] = s /\ i \in 1..Len(bs[b]) - 1 /\ Skip(p, i) = i /\ 1..Len(t[c]) = 1..Len(bs[b]) - 1
      <4>1. i \in 1..Len(bs[b]) /\ Len(bs[b]) \in Nat /\ i < p /\ p <= Len(bs[b])
        BY <2>2, <1>1
      <4>2. QED
        BY <4>1, <3>0 DEF Skip
    <3>2. t[c][i] = bs[c][i]
      BY <3>1, <2>2, <1>2
    <3>3. QED
      BY <3>1, <3>2
  <2>3. CASE c = b /\ i > p
    <3>1. /\ t[c] = s /\ i - 1 \in 1..Len(bs[b]) - 1 /\ Skip(p, i - 1) = i
          /\ 1..Len(t[c]) = 1..Len(bs[b]) - 1
      <4>0. t[c] = s /\ 1..Len(t[c]) = 1..Len(bs[b]) - 1
        BY <2>3, <1>2, <1>4
      <4>1. i \in 1..Len(bs[b]) /\ Len(bs[b]) \in Nat /\ i > p /\ p \in 1..Len(bs[b])
        BY <2>3, <1>1
      <4>2. QED
        BY <4>0, <4>1 DEF Skip
    <3>2. t[c][i - 1] = bs[c][i]
      BY <3>1, <2>3, <1>2
    <3>3. QED
      BY <3>1, <3>2
  <2>4. c = b => i < p \/ i > p
    BY <1>7
  <2>5. QED
    BY <2>1, <2>2, <2>3, <2>4
<1> HIDE DEF Was
<1>8. Placed(t)
  <2>1. ASSUME NEW c \in 1..Len(t), NEW i \in 1..Len(t[c])
        PROVE  BucketIndex(t[c][i].key, Len(t)) + 1 = c
    <3>1. c \in 1..Len(bs) /\ Len(t) = Len(bs)
      BY <1>4
    <3>2. Was(c, i) \in 1..Len(bs[c]) /\ t[c][i] = bs[c][Was(c, i)]
      BY <3>1, <1>5
    <3>3. BucketIndex(bs[c][Was(c, i)].key, Len(bs)) + 1 = c
      BY <3>1, <3>2, PlacedIs
    <3>4. QED
      BY <3>1, <3>2, <3>3
  <2>2. QED
    BY <2>1, <1>4, PlacedIs
<1>9. KeysOnce(t)
  <2>1. ASSUME NEW c \in 1..Len(t), NEW d \in 1..Len(t),
               NEW i \in 1..Len(t[c]), NEW j \in 1..Len(t[d]), t[c][i].key = t[d][j].key
        PROVE  c = d /\ i = j
    <3>1. c \in 1..Len(bs) /\ d \in 1..Len(bs)
      BY <1>4
    <3>2. /\ Was(c, i) \in 1..Len(bs[c]) /\ t[c][i] = bs[c][Was(c, i)]
          /\ Was(d, j) \in 1..Len(bs[d]) /\ t[d][j] = bs[d][Was(d, j)]
      BY <3>1, <1>5
    <3>3. c = d /\ Was(c, i) = Was(d, j)
      <4>1. bs[c][Was(c, i)].key = bs[d][Was(d, j)].key
        BY <3>2, <2>1
      <4>2. PICK x \in 1..Len(bs[c]) : x = Was(c, i)
        BY <3>2
      <4>3. PICK y \in 1..Len(bs[d]) : y = Was(d, j)
        BY <3>2
      <4>4. bs[c][x].key = bs[d][y].key
        BY <4>1, <4>2, <4>3
      <4>5. c = d /\ x = y
        BY <3>1, <4>4, KeysOnceIs
      <4>6. QED
        BY <4>2, <4>3, <4>5
    <3>4. QED
      BY <3>1, <3>3, <1>6
  <2>2. QED
    BY <2>1, <1>4, KeysOnceIs
<1>10. ASSUME NEW x PROVE x \in NodesOf(t) <=> x \in Others(bs, k)
  <2>1. ASSUME x \in NodesOf(t) PROVE x \in Others(bs, k)
    <3>1. PICK c \in 1..Len(bs) : \E i \in 1..Len(t[c]) : x = t[c][i]
      BY <2>1, <1>4, NodesAre
    <3>2. PICK i \in 1..Len(t[c]) : x = t[c][i]
      BY <3>1
    <3>3. Was(c, i) \in 1..Len(bs[c]) /\ x = bs[c][Was(c, i)] /\ ~(c = b /\ Was(c, i) = p)
      BY <3>2, <1>5
    <3>4. x.key # k
      BY <3>3, KeysOnceIs
    <3>5. x \in NodesOf(bs)
      BY <3>3, NodesAre
    <3>6. QED
      BY <3>4, <3>5 DEF Others
  <2>2. ASSUME x \in Others(bs, k) PROVE x \in NodesOf(t)
    <3>0. x \in NodesOf(bs)
      BY <2>2 DEF Others
    <3>1. PICK c \in 1..Len(bs) : \E i \in 1..Len(bs[c]) : x = bs[c][i]
      BY <3>0, NodesAre
    <3>2. PICK i \in 1..Len(bs[c]) : x = bs[c][i]
      BY <3>1
    <3>3. ~(c = b /\ i = p)
      BY <3>2, <2>2 DEF Others
    <3>4. \E j \in 1..Len(t[c]) : x = t[c][j]
      BY <3>2, <3>3, <1>7
    <3>5. QED
      BY <3>4, <1>4, NodesAre
  <2>3. QED
    BY <2>1, <2>2
<1>11. NodesOf(t) = Others(bs, k)
  BY <1>10
<1>12. QED
  BY <1>3, <1>4, <1>8, <1>9, <1>11

\* How many nodes there are without the one of k, and with another one for it
LEMMA OthersAre ==
  ASSUME NEW bs \in Seq(Bucket), KeysOnce(bs), NEW k \in Keys
  PROVE  /\ (\A x \in NodesOf(bs) : x.key # k) => Others(bs, k) = NodesOf(bs)
         /\ \A x \in NodesOf(bs) :
              x.key = k => Cardinality(Others(bs, k)) = Cardinality(NodesOf(bs)) - 1
         /\ \A v \in Values :
              Cardinality(Others(bs, k) \cup {MapNode(k, v)}) = Cardinality(Others(bs, k)) + 1
<1>1. IsFiniteSet(NodesOf(bs))
  BY NodesFew
<1>2. (\A x \in NodesOf(bs) : x.key # k) => Others(bs, k) = NodesOf(bs)
  BY DEF Others
<1>3. ASSUME NEW x \in NodesOf(bs), x.key = k
      PROVE  Cardinality(Others(bs, k)) = Cardinality(NodesOf(bs)) - 1
  <2>1. ASSUME NEW y \in NodesOf(bs) PROVE y.key = k <=> y = x
    BY <1>3, OneNode
  <2>2. Others(bs, k) = NodesOf(bs) \ {x}
    BY <2>1 DEF Others
  <2>3. QED
    BY <2>2, <1>1, FS_RemoveElement
<1>4. ASSUME NEW v \in Values
      PROVE  Cardinality(Others(bs, k) \cup {MapNode(k, v)}) = Cardinality(Others(bs, k)) + 1
  <2>1. MapNode(k, v).key = k
    BY MapNodeIs
  <2>2. MapNode(k, v) \notin Others(bs, k)
    BY <2>1 DEF Others
  <2>3. Others(bs, k) \subseteq NodesOf(bs)
    BY DEF Others
  <2>4. IsFiniteSet(Others(bs, k))
    BY <2>3, <1>1, FS_Subset
  <2>5. QED
    BY <2>2, <2>4, FS_AddElement
<1>5. QED
  BY <1>2, <1>3, <1>4

\* What the dictionary holds, before and after a step
LEMMA DictIs ==
  /\ [k \in Keys |-> Lookup(k)] = [k \in Keys |-> LookupIn(buckets, k)]
  /\ [k \in Keys |-> Lookup(k)]' = [k \in Keys |-> LookupIn(buckets', k)]
<1>1. [k \in Keys |-> Lookup(k)] = [k \in Keys |-> LookupIn(buckets, k)]
  BY DEF Lookup, LookupIn
<1>2. [k \in Keys |-> Lookup(k)]' = [k \in Keys |-> LookupIn(buckets', k)]
  BY DEF Lookup, LookupIn
<1>3. QED
  BY <1>1, <1>2

LEMMA MapUnchanged ==
  ASSUME MapInv, UNCHANGED <<buckets, nnodes>>
  PROVE  MapInv' /\ UNCHANGED [k \in Keys |-> Lookup(k)]
<1>1. MapInv'
  BY DEF MapInv, NodesInBuckets, nbuckets
<1>2. UNCHANGED [k \in Keys |-> Lookup(k)]
  BY DictIs
<1>3. QED
  BY <1>1, <1>2

LEMMA MapSet ==
  ASSUME MapInv, NEW k \in Keys, NEW v \in Values,
         buckets' \in Seq(Bucket), KeysOnce(buckets'),
         NodesOf(buckets') = Others(buckets, k) \cup {MapNode(k, v)},
         Answers(<<"set", k, v>>, "ok")
  PROVE  DictionaryOf!Next /\ GotOK'
<1>1. buckets \in Seq(Bucket) /\ KeysOnce(buckets)
  BY DEF MapInv, NodesInBuckets
<1>2. \A j \in Keys : LookupIn(buckets', j) = IF j = k THEN v ELSE LookupIn(buckets, j)
  BY <1>1, SetIs
<1>3. [j \in Keys |-> LookupIn(buckets', j)]
        = [[j \in Keys |-> LookupIn(buckets, j)] EXCEPT ![k] = v]
  BY <1>2
<1>4. DictionaryOf!Set(k, v)
  BY <1>3, DictIs DEF DictionaryOf!Set, DictionaryOf!Answers, Answers
<1>5. DictionaryOf!Next
  BY <1>4 DEF DictionaryOf!Next
<1>6. GotOK'
  BY DEF GotOK, Answers
<1>7. QED
  BY <1>5, <1>6

LEMMA MapGet ==
  ASSUME MapInv, NEW k \in Keys, map_get_value(k)
  PROVE  MapInv' /\ DictionaryOf!Next /\ GotOK'
<1>1. buckets \in Seq(Bucket) /\ KeysOnce(buckets)
  BY DEF MapInv, NodesInBuckets
<1> DEFINE r == IF Position(k) = 0 THEN NULL ELSE Chain(k)[Position(k)].value
<1>2. got' = [call |-> <<"get", k>>, returned |-> r]
  BY DEF map_get_value, Answers
<1>3. r = LookupIn(buckets, k) /\ r \in Values \cup {NULL}
  <2>1. CASE Position(k) = 0
    <3>1. \A x \in NodesOf(buckets) : x.key # k
      BY <2>1, PositionIs
    <3>2. LookupIn(buckets, k) = NULL
      BY <3>1, <1>1, LookupIs
    <3>3. QED
      BY <3>2, <2>1
  <2>2. CASE Position(k) # 0
    <3> DEFINE x == Chain(k)[Position(k)]
    <3>1. x \in NodesOf(buckets) /\ x.key = k
      BY <2>2, PositionIs
    <3>2. r = x.value
      BY <2>2
    <3> HIDE DEF x, r
    <3>3. LookupIn(buckets, k) = x.value
      BY <3>1, <1>1, LookupIs
    <3>4. x \in map_node_t
      BY <3>1, <1>1, NodesTyped
    <3>5. x.value \in Values
      BY <3>4 DEF map_node_t, map_value_t
    <3>6. QED
      BY <3>2, <3>3, <3>5
  <2>3. QED
    BY <2>1, <2>2
<1> HIDE DEF r
<1>4. UNCHANGED <<buckets, nnodes>>
  BY DEF map_get_value
<1>5. MapInv' /\ UNCHANGED [j \in Keys |-> Lookup(j)]
  BY <1>4, MapUnchanged
<1>6. [j \in Keys |-> Lookup(j)][k] = r
  <2>1. [j \in Keys |-> LookupIn(buckets, j)][k] = LookupIn(buckets, k)
    OBVIOUS
  <2>2. QED
    BY <2>1, <1>3, DictIs
<1>7. DictionaryOf!Get(k)
  BY <1>2, <1>5, <1>6 DEF DictionaryOf!Get, DictionaryOf!Answers
<1>8. GotOK'
  BY <1>2, <1>3 DEF GotOK
<1>9. DictionaryOf!Next
  BY <1>7 DEF DictionaryOf!Next
<1>10. QED
  BY <1>5, <1>8, <1>9

LEMMA MapReplace ==
  ASSUME MapInv, NEW k \in Keys, NEW v \in Values, ReplaceValue(k, v)
  PROVE  MapInv' /\ DictionaryOf!Next /\ GotOK'
<1> DEFINE b == BucketIndex(k, nbuckets) + 1
           p == Position(k)
<1>1. /\ buckets \in Seq(Bucket) /\ Placed(buckets) /\ KeysOnce(buckets)
      /\ nnodes = Cardinality(NodesOf(buckets)) /\ nnodes <= Len(buckets) /\ nnodes \in Nat
      /\ Len(buckets) = 0 \/ PowerOfTwo(Len(buckets))
  BY DEF MapInv, NodesInBuckets, nbuckets
<1>2. p # 0 /\ buckets' = [buckets EXCEPT ![b][p].value = v] /\ nnodes' = nnodes
      /\ Answers(<<"set", k, v>>, "ok")
  BY DEF ReplaceValue
<1>3. /\ b \in 1..Len(buckets) /\ p \in 1..Len(buckets[b]) /\ buckets[b][p].key = k
      /\ buckets[b][p] \in NodesOf(buckets)
  BY <1>2, PositionIs DEF Chain, nbuckets
<1> HIDE DEF b, p
<1>4. /\ buckets' \in Seq(Bucket) /\ Len(buckets') = Len(buckets)
      /\ Placed(buckets') /\ KeysOnce(buckets')
      /\ NodesOf(buckets') = Others(buckets, k) \cup {MapNode(k, v)}
  <2>1. buckets' = Replaced(buckets, b, p, v)
    BY <1>2 DEF Replaced
  <2>2. QED
    BY <2>1, <1>1, <1>3, ReplacedIs
<1>5. Cardinality(NodesOf(buckets')) = Cardinality(NodesOf(buckets))
  <2>1. Cardinality(Others(buckets, k)) = Cardinality(NodesOf(buckets)) - 1
    BY <1>1, <1>3, OthersAre
  <2>2. Cardinality(NodesOf(buckets')) = Cardinality(Others(buckets, k)) + 1
    BY <1>1, <1>4, OthersAre
  <2>3. QED
    BY <2>1, <2>2, <1>1
<1>6. MapInv'
  BY <1>1, <1>2, <1>4, <1>5 DEF MapInv, NodesInBuckets, nbuckets
<1>7. QED
  BY <1>2, <1>4, <1>6, MapSet

LEMMA MapAdd ==
  ASSUME MapInv, NEW k \in Keys, NEW v \in Values, AddValue(k, v)
  PROVE  MapInv' /\ DictionaryOf!Next /\ GotOK'
<1> DEFINE n == MapNode(k, v)
           bs == IF MustGrow THEN Resize(buckets, Doubled) ELSE buckets
<1>1. /\ buckets \in Seq(Bucket) /\ Placed(buckets) /\ KeysOnce(buckets)
      /\ nnodes = Cardinality(NodesOf(buckets)) /\ nnodes <= Len(buckets) /\ nnodes \in Nat
      /\ Len(buckets) = 0 \/ PowerOfTwo(Len(buckets))
  BY DEF MapInv, NodesInBuckets, nbuckets
<1>2. Position(k) = 0 /\ buckets' = AddNode(bs, n) /\ nnodes' = nnodes + 1
      /\ Answers(<<"set", k, v>>, "ok")
  BY DEF AddValue
<1>3. \A x \in NodesOf(buckets) : x.key # k
  BY <1>2, PositionIs
<1>4. n \in map_node_t /\ n.key = k
  BY MapNodeIs
<1>5. /\ bs \in Seq(Bucket) /\ Placed(bs) /\ KeysOnce(bs) /\ NodesOf(bs) = NodesOf(buckets)
      /\ Len(bs) # 0 /\ PowerOfTwo(Len(bs)) /\ nnodes + 1 <= Len(bs)
  <2>1. CASE MustGrow
    <3> DEFINE d == Doubled
    <3>1. nnodes = Len(buckets) /\ Len(buckets) \in Nat
      BY <2>1, <1>1 DEF MustGrow, nbuckets
    <3>2. d \in Nat \ {0} /\ nnodes + 1 <= d /\ PowerOfTwo(d)
      <4>1. CASE Len(buckets) = 0
        <5>1. d = 1
          BY <4>1 DEF Doubled, nbuckets
        <5>2. QED
          BY <5>1, <4>1, <3>1, OneIsPower
      <4>2. CASE Len(buckets) # 0
        <5>1. d = 2 * Len(buckets)
          BY <4>2, <3>1 DEF Doubled, nbuckets
        <5> HIDE DEF d
        <5>2. d \in Nat \ {0} /\ nnodes + 1 <= d
          BY <5>1, <4>2, <3>1
        <5>3. PowerOfTwo(2 * Len(buckets))
          BY <4>2, <3>1, <1>1, TwiceIsPower
        <5>4. QED
          BY <5>1, <5>2, <5>3
      <4>3. QED
        BY <4>1, <4>2
    <3>3. bs = Resize(buckets, d)
      BY <2>1
    <3> HIDE DEF d, bs
    <3>4. QED
      BY <3>2, <3>3, <1>1, ResizeIs
  <2>2. CASE ~MustGrow
    <3>1. bs = buckets
      BY <2>2
    <3>2. Len(buckets) \in Nat /\ nnodes < Len(buckets)
      BY <2>2, <1>1 DEF MustGrow, nbuckets
    <3> HIDE DEF bs
    <3>3. QED
      BY <3>1, <3>2, <1>1
  <2>3. QED
    BY <2>1, <2>2
<1> HIDE DEF n, bs
<1>6. /\ buckets' \in Seq(Bucket) /\ Len(buckets') = Len(bs)
      /\ Placed(buckets') /\ KeysOnce(buckets')
      /\ NodesOf(buckets') = NodesOf(buckets) \cup {n}
  BY <1>2, <1>3, <1>4, <1>5, AddNodeIs
<1>7. NodesOf(buckets') = Others(buckets, k) \cup {n} /\ Others(buckets, k) = NodesOf(buckets)
  BY <1>1, <1>3, <1>6, OthersAre
<1>8. Cardinality(NodesOf(buckets')) = Cardinality(NodesOf(buckets)) + 1
  BY <1>1, <1>7, OthersAre DEF n
<1>9. MapInv'
  BY <1>1, <1>2, <1>5, <1>6, <1>8 DEF MapInv, NodesInBuckets, nbuckets
<1>10. DictionaryOf!Next /\ GotOK'
  BY <1>2, <1>6, <1>7, MapSet DEF n
<1>11. QED
  BY <1>9, <1>10

LEMMA MapNoRoom ==
  ASSUME MapInv, NEW k \in Keys, AddValueNoRoom(k)
  PROVE  MapInv' /\ DictionaryOf!Next /\ GotOK'
<1> DEFINE n == Len(buckets)
<1>1. /\ buckets \in Seq(Bucket) /\ Placed(buckets) /\ KeysOnce(buckets)
      /\ nnodes = Cardinality(NodesOf(buckets)) /\ nnodes <= n /\ nnodes \in Nat
      /\ n = 0 \/ PowerOfTwo(n)
  BY DEF MapInv, NodesInBuckets, nbuckets
<1>2. buckets' = Resize(buckets, n) /\ nnodes' = nnodes /\ Answers(<<"set", k>>, "failed")
  BY DEF AddValueNoRoom, nbuckets
<1>3. n \in Nat
  BY <1>1
<1>4. /\ buckets' \in Seq(Bucket) /\ Len(buckets') = n
      /\ Placed(buckets') /\ KeysOnce(buckets') /\ NodesOf(buckets') = NodesOf(buckets)
  <2> HIDE DEF n
  <2>1. n = 0 => Len(buckets) = 0
    BY DEF n
  <2>2. QED
    BY <1>1, <1>2, <1>3, <2>1, ResizeIs
<1>5. MapInv'
  BY <1>1, <1>2, <1>4 DEF MapInv, NodesInBuckets, nbuckets
<1>6. UNCHANGED [j \in Keys |-> Lookup(j)]
  <2>1. \A j \in Keys : LookupIn(buckets', j) = LookupIn(buckets, j)
    BY <1>4 DEF LookupIn
  <2>2. [j \in Keys |-> LookupIn(buckets', j)] = [j \in Keys |-> LookupIn(buckets, j)]
    BY <2>1
  <2>3. QED
    BY <2>2, DictIs
<1>7. DictionaryOf!SetFails(k)
  BY <1>2, <1>6 DEF DictionaryOf!SetFails, DictionaryOf!Answers, Answers
<1>8. DictionaryOf!Next
  BY <1>7 DEF DictionaryOf!Next
<1>9. GotOK'
  BY <1>2 DEF GotOK, Answers
<1>10. QED
  BY <1>5, <1>8, <1>9

LEMMA MapRemove ==
  ASSUME MapInv, NEW k \in Keys, map_remove_value(k)
  PROVE  MapInv' /\ DictionaryOf!Next /\ GotOK'
<1> DEFINE b == BucketIndex(k, nbuckets) + 1
           p == Position(k)
<1>1. /\ buckets \in Seq(Bucket) /\ Placed(buckets) /\ KeysOnce(buckets)
      /\ nnodes = Cardinality(NodesOf(buckets)) /\ nnodes <= Len(buckets) /\ nnodes \in Nat
      /\ Len(buckets) = 0 \/ PowerOfTwo(Len(buckets))
  BY DEF MapInv, NodesInBuckets, nbuckets
<1>2. Answers(<<"remove", k>>, NULL)
  BY DEF map_remove_value
<1>3. MapInv' /\ NodesOf(buckets') = Others(buckets, k)
  <2>1. CASE p = 0
    <3>1. UNCHANGED <<buckets, nnodes>>
      BY <2>1 DEF map_remove_value
    <3>2. \A x \in NodesOf(buckets) : x.key # k
      BY <2>1, PositionIs
    <3>3. Others(buckets, k) = NodesOf(buckets)
      BY <3>2, <1>1, OthersAre
    <3>4. QED
      BY <3>1, <3>3, MapUnchanged
  <2>2. CASE p # 0
    <3>1. buckets' = [buckets EXCEPT ![b] = RemoveAt(@, p)] /\ nnodes' = nnodes - 1
      BY <2>2 DEF map_remove_value
    <3>2. /\ b \in 1..Len(buckets) /\ p \in 1..Len(buckets[b]) /\ buckets[b][p].key = k
          /\ buckets[b][p] \in NodesOf(buckets)
      BY <2>2, PositionIs DEF Chain, nbuckets
    <3> HIDE DEF b, p
    <3>3. /\ buckets' \in Seq(Bucket) /\ Len(buckets') = Len(buckets)
          /\ Placed(buckets') /\ KeysOnce(buckets')
          /\ NodesOf(buckets') = Others(buckets, k)
      <4>1. PICK t \in Seq(Bucket) :
              /\ t = [buckets EXCEPT ![b] = RemoveAt(@, p)] /\ Len(t) = Len(buckets)
              /\ Placed(t) /\ KeysOnce(t) /\ NodesOf(t) = Others(buckets, k)
        BY <1>1, <3>2, NodeGone
      <4>2. buckets' = t
        BY <4>1, <3>1
      <4>3. QED
        BY <4>1, <4>2
    <3>4. Cardinality(NodesOf(buckets')) = Cardinality(NodesOf(buckets)) - 1
      BY <1>1, <3>2, <3>3, OthersAre
    <3>5. Cardinality(NodesOf(buckets')) \in Nat
      BY <3>3, NodesFew
    <3>6. MapInv'
      BY <1>1, <3>1, <3>3, <3>4, <3>5 DEF MapInv, NodesInBuckets, nbuckets
    <3>7. QED
      BY <3>3, <3>6
  <2>3. QED
    BY <2>1, <2>2
<1>4. \A j \in Keys : LookupIn(buckets', j) = IF j = k THEN NULL ELSE LookupIn(buckets, j)
  <2>1. buckets' \in Seq(Bucket) /\ KeysOnce(buckets')
    BY <1>3 DEF MapInv, NodesInBuckets
  <2>2. QED
    BY <1>1, <1>3, <2>1, RemovedIs
<1>5. [j \in Keys |-> LookupIn(buckets', j)]
        = [[j \in Keys |-> LookupIn(buckets, j)] EXCEPT ![k] = NULL]
  BY <1>4
<1>6. DictionaryOf!Remove(k)
  BY <1>2, <1>5, DictIs DEF DictionaryOf!Remove, DictionaryOf!Answers, Answers
<1>7. DictionaryOf!Next
  BY <1>6 DEF DictionaryOf!Next
<1>8. GotOK'
  BY <1>2 DEF GotOK, Answers
<1>9. QED
  BY <1>3, <1>7, <1>8

LEMMA NoBuckets ==
  /\ << >> \in Seq(Bucket) /\ Placed(<< >>) /\ KeysOnce(<< >>)
  /\ NodesOf(<< >>) = {} /\ Len(<< >>) = 0
  /\ Cardinality({}) = 0
  /\ \A k : LookupIn(<< >>, k) = NULL
<1> DEFINE bs == << >>
<1>1. bs \in Seq(Bucket) /\ Len(bs) = 0 /\ 1..Len(bs) = {}
  OBVIOUS
<1> HIDE DEF bs
<1>2. Placed(bs)
  BY <1>1, PlacedIs
<1>3. KeysOnce(bs)
  BY <1>1, KeysOnceIs
<1>4. \A x : x \notin NodesOf(bs)
  BY <1>1, NodesAre
<1>5. NodesOf(bs) = {}
  BY <1>4
<1>6. \A k : LookupIn(bs, k) = NULL
  BY <1>5 DEF LookupIn
<1>7. Cardinality({}) = 0
  BY FS_EmptySet
<1>8. QED
  BY <1>1, <1>2, <1>3, <1>5, <1>6, <1>7 DEF bs

LEMMA MapDestory ==
  ASSUME map_destory
  PROVE  MapInv' /\ DictionaryOf!Next /\ GotOK'
<1>1. buckets' = << >> /\ nnodes' = 0 /\ Answers(<<"destory">>, NULL)
  BY DEF map_destory
<1>2. MapInv'
  <2>1. /\ buckets' \in Seq(Bucket) /\ Placed(buckets') /\ KeysOnce(buckets')
        /\ NodesOf(buckets') = {} /\ Len(buckets') = 0 /\ Cardinality({}) = 0
    BY <1>1, NoBuckets
  <2>2. QED
    BY <1>1, <2>1 DEF MapInv, NodesInBuckets, nbuckets
<1>3. [j \in Keys |-> Lookup(j)]' = [j \in Keys |-> NULL]
  BY <1>1, NoBuckets, DictIs
<1>4. DictionaryOf!Clear
  BY <1>1, <1>3 DEF DictionaryOf!Clear, DictionaryOf!Answers, Answers
<1>5. DictionaryOf!Next
  BY <1>4 DEF DictionaryOf!Next
<1>6. GotOK'
  BY <1>1 DEF GotOK, Answers
<1>7. QED
  BY <1>2, <1>5, <1>6

LEMMA MapInvInit ==
  MapInit => MapInv /\ GotOK /\ DictionaryOf!Init
<1> SUFFICES ASSUME MapInit PROVE MapInv /\ GotOK /\ DictionaryOf!Init
  OBVIOUS
<1>1. buckets = << >> /\ nnodes = 0 /\ got = [call |-> <<"new">>, returned |-> NULL]
  BY DEF MapInit
<1>2. MapInv
  BY <1>1, NoBuckets DEF MapInv, NodesInBuckets, nbuckets
<1>3. [j \in Keys |-> Lookup(j)] = [j \in Keys |-> NULL]
  BY <1>1, NoBuckets, DictIs
<1>4. DictionaryOf!Init
  BY <1>1, <1>3 DEF DictionaryOf!Init
<1>5. GotOK
  BY <1>1 DEF GotOK
<1>6. QED
  BY <1>2, <1>4, <1>5

\* Every operation of the map keeps MapInv, and is one of the dictionary's or none
LEMMA MapInvStep ==
  ASSUME MapInv, GotOK, MapNext
  PROVE  /\ MapInv' /\ GotOK'
         /\ DictionaryOf!Next \/ UNCHANGED <<[k \in Keys |-> Lookup(k)], got>>
<1>1. ASSUME NEW k \in Keys, AddValueNoNode(k)
      PROVE  MapInv' /\ GotOK' /\ UNCHANGED <<[j \in Keys |-> Lookup(j)], got>>
  <2>1. UNCHANGED <<buckets, nnodes>> /\ got' = got
    BY <1>1 DEF AddValueNoNode
  <2>2. MapInv' /\ UNCHANGED [j \in Keys |-> Lookup(j)]
    BY <2>1, MapUnchanged
  <2>3. GotOK'
    BY <2>1 DEF GotOK
  <2>4. QED
    BY <2>1, <2>2, <2>3
<1>2. ASSUME map_iter_next(map_iter_new) PROVE MapInv' /\ DictionaryOf!Next /\ GotOK'
  <2>1. UNCHANGED <<buckets, nnodes>> /\ Answers(<<"next">>, NULL)
    BY <1>2 DEF map_iter_next
  <2>2. MapInv' /\ UNCHANGED [j \in Keys |-> Lookup(j)]
    BY <2>1, MapUnchanged
  <2>3. DictionaryOf!Iterate
    BY <2>1, <2>2 DEF DictionaryOf!Iterate, DictionaryOf!Answers, Answers
  <2>4. DictionaryOf!Next
    BY <2>3 DEF DictionaryOf!Next
  <2>5. GotOK'
    BY <2>1 DEF GotOK, Answers
  <2>6. QED
    BY <2>2, <2>4, <2>5
<1>3. CASE \E k \in Keys : map_get_value(k)
  BY <1>3, MapGet
<1>4. CASE \E k \in Keys : map_remove_value(k)
  BY <1>4, MapRemove
<1>5. CASE \E k \in Keys : AddValueNoRoom(k)
  BY <1>5, MapNoRoom
<1>6. CASE \E k \in Keys : AddValueNoNode(k)
  BY <1>6, <1>1
<1>7. CASE \E k \in Keys : \E v \in Values : ReplaceValue(k, v)
  BY <1>7, MapReplace
<1>8. CASE \E k \in Keys : \E v \in Values : AddValue(k, v)
  BY <1>8, MapAdd
<1>9. CASE map_destory
  BY <1>9, MapDestory
<1>10. QED
  BY <1>2, <1>3, <1>4, <1>5, <1>6, <1>7, <1>8, <1>9 DEF MapNext

LEMMA MapInvNext ==
  ASSUME MapInv, GotOK, [Next]_vars
  PROVE  /\ MapInv' /\ GotOK'
         /\ [DictionaryOf!Next]_<<[k \in Keys |-> Lookup(k)], got>>
<1>1. CASE MapNext
  BY <1>1, MapInvStep
<1>2. CASE UNCHANGED mapVars
  <2>1. UNCHANGED <<buckets, nnodes>> /\ got' = got
    BY <1>2 DEF mapVars
  <2>2. MapInv' /\ UNCHANGED [k \in Keys |-> Lookup(k)]
    BY <2>1, MapUnchanged
  <2>3. GotOK'
    BY <2>1 DEF GotOK
  <2>4. QED
    BY <2>1, <2>2, <2>3
<1>3. QED
  BY <1>1, <1>2 DEF Next, vars

(***************************************************************************)
(* Whatever the hash function, however many keys, and whether realloc      *)
(* succeeds or not, every node is in the bucket of its hash, no key is     *)
(* there twice, and there are no more nodes than buckets (std_map.c).      *)
(***************************************************************************)
THEOREM MapInBuckets == Spec => []NodesInBuckets
<1>1. Init => MapInv /\ GotOK
  BY MapInvInit DEF Init
<1>2. MapInv /\ GotOK /\ [Next]_vars => (MapInv /\ GotOK)'
  BY MapInvNext
<1>3. MapInv => NodesInBuckets
  BY DEF MapInv
<1>4. QED
  BY <1>1, <1>2, <1>3, PTL DEF Spec

(***************************************************************************)
(* std_map.c implements Dictionary: through collisions, growth, failed     *)
(* growth and removals a get returns what was last set for its key, and a  *)
(* set that fails changes no key.                                          *)
(***************************************************************************)
THEOREM MapImplemented == Spec => ImplementsDictionary
<1>1. Init => MapInv /\ GotOK /\ DictionaryOf!Init
  BY MapInvInit DEF Init
<1>2. MapInv /\ GotOK /\ [Next]_vars
        => (MapInv /\ GotOK)' /\ [DictionaryOf!Next]_<<[k \in Keys |-> Lookup(k)], got>>
  BY MapInvNext
<1>3. QED
  BY <1>1, <1>2, PTL DEF Spec, ImplementsDictionary, DictionaryOf!Spec

(* ------------------------------------------------------------------------ *)
(* The types                                                                    *)

ResultOK == result.returned \in Nodes \cup {NULL}

\* What a sequence of elements returns is one of its nodes, or NULL
LEMMA ResultNext ==
  ASSUME ListInv, ListInv', AbstractOf!Next
  PROVE  ResultOK'
<1> DEFINE e == Elements
<1>1. PICK s \in Seq(Nodes) : Lists(s)
  BY DEF ListInv
<1>2. e \in Seq(Entry)
  <2>1. PICK t \in Seq(Nodes) : Lists(t)'
    BY DEF ListInv
  <2>2. QED
    BY <1>1, <2>1, ElementsAre
<1> HIDE DEF e
<1>3. /\ DOMAIN e = 1..Len(e) /\ Len(e) \in Nat
      /\ \A i \in 1..Len(e) : e[i] \in Entry
  BY <1>2
<1>4. \A i \in 1..Len(e) : e[i].node \in Nodes
  BY <1>3 DEF Entry
<1>5. e # << >> => 1 \in 1..Len(e) /\ Len(e) \in 1..Len(e)
  BY <1>2
<1>6. ASSUME NEW n \in Nodes, NEW v \in Values,
             AbstractOf!PushLast(n, v) \/ AbstractOf!PushFirst(n, v)
      PROVE  ResultOK'
  BY <1>6 DEF AbstractOf!PushLast, AbstractOf!PushFirst, AbstractOf!Returns, ResultOK
<1>7. CASE AbstractOf!PushFails("rpush") \/ AbstractOf!PushFails("lpush") \/ AbstractOf!Clear
  BY <1>7 DEF AbstractOf!PushFails, AbstractOf!Clear, AbstractOf!Returns, ResultOK
<1>8. CASE AbstractOf!PopLast
  <2>1. result'.returned = IF e = << >> THEN NULL ELSE e[Len(e)].node
    BY <1>8 DEF AbstractOf!PopLast, AbstractOf!Returns, AbstractOf!Last, e
  <2>2. QED
    BY <2>1, <1>4, <1>5 DEF ResultOK
<1>9. CASE AbstractOf!PopFirst
  <2>1. result'.returned = IF e = << >> THEN NULL ELSE Head(e).node
    BY <1>9 DEF AbstractOf!PopFirst, AbstractOf!Returns, e
  <2>2. e # << >> => Head(e) = e[1]
    BY <1>2
  <2>3. QED
    BY <2>1, <2>2, <1>4, <1>5 DEF ResultOK
<1>10. ASSUME NEW i \in DOMAIN Elements, AbstractOf!RemoveElement(i) PROVE ResultOK'
  BY <1>10 DEF AbstractOf!RemoveElement, AbstractOf!Returns, ResultOK
<1>11. ASSUME NEW index, AbstractOf!At(index) PROVE ResultOK'
  <2>1. \E i : result'.returned = IF i \in DOMAIN e THEN e[i].node ELSE NULL
    BY <1>11 DEF AbstractOf!At, AbstractOf!Returns, e
  <2>2. QED
    BY <2>1, <1>3, <1>4 DEF ResultOK
<1>12. ASSUME NEW v \in Values, AbstractOf!Find(v) PROVE ResultOK'
  <2> DEFINE I == {i \in 1..Len(e) : e[i].val = v}
             i == IF I # {} THEN Min(I) ELSE 0
  <2>1. result'.returned = IF i = 0 THEN NULL ELSE e[i].node
    BY <1>12 DEF AbstractOf!Find, AbstractOf!Returns, AbstractOf!SelectInSeq, AbstractOf!Min, Min, e
  <2>2. i # 0 => i \in 1..Len(e)
    <3>1. I \in SUBSET Nat
      OBVIOUS
    <3> HIDE DEF I
    <3>2. I # {} => Min(I) \in I
      BY <3>1, MinIs
    <3>3. QED
      BY <3>2 DEF I
  <2> HIDE DEF i
  <2>3. QED
    BY <2>1, <2>2, <1>4 DEF ResultOK
<1>13. QED
  BY <1>6, <1>7, <1>8, <1>9, <1>10, <1>11, <1>12 DEF AbstractOf!Next

BufferOK == data \in Seq(Values) /\ size = Len(data) /\ capacity \in Nat

LEMMA BufferOKStep ==
  ASSUME BufferOK, BufferNext
  PROVE  BufferOK'
<1>1. ASSUME NEW v \in Values, buffer_array_put(v) PROVE BufferOK'
  <2>1. data' = Append(data, v) /\ size' = size + 1
        /\ capacity' = IF TooSmall(1) THEN 2 * capacity ELSE capacity
    BY <1>1 DEF buffer_array_put, Store
  <2>2. QED
    BY <2>1 DEF BufferOK
<1>2. CASE PutNoRoom
  BY <1>2 DEF PutNoRoom, bufferVars, BufferOK
<1>3. CASE buffer_array_clear
  BY <1>3 DEF buffer_array_clear, BufferOK
<1>4. QED
  BY <1>1, <1>2, <1>3 DEF BufferNext

\* Each container's invariant types its variables
KitInv == ListInv /\ ResultOK /\ MapInv /\ GotOK /\ BufferOK

LEMMA KitTyped ==
  KitInv => TypeOK
<1> SUFFICES ASSUME KitInv PROVE TypeOK
  OBVIOUS
<1>1. PICK s \in Seq(Nodes) : Lists(s)
  BY DEF KitInv, ListInv
<1>2. head \in Nodes \cup {NULL} /\ tail \in Nodes \cup {NULL}
  BY <1>1 DEF Lists
<1>3. len \in 0..Cardinality(Nodes)
  BY <1>1, ChainFits DEF Lists
<1>4. allocated \subseteq Nodes
  BY <1>1 DEF Lists
<1>5. \A n \in 1..nbuckets : buckets[n] \in Seq(map_node_t)
  BY DEF KitInv, MapInv, Bucket, nbuckets
<1>6. nnodes \in 0..Cardinality(Keys)
  <2>1. Cardinality(Keys) \in Nat
    BY HashAssumption, FS_CardinalityType
  <2>2. QED
    BY <2>1, NodesFew DEF KitInv, MapInv, NodesInBuckets
<1>7. node \in [Nodes -> list_node_t]
  BY DEF KitInv, ListInv
<1>8. QED
  BY <1>2, <1>3, <1>4, <1>5, <1>6, <1>7 DEF KitInv, ResultOK, GotOK, BufferOK, TypeOK

(***************************************************************************)
(* Whatever calls are made of them, the containers hold nodes, pairs and   *)
(* instructions, never more nodes than there are, and return what they     *)
(* hold or NULL (std_list.c, std_map.c, std_buffer_array.c).               *)
(***************************************************************************)
THEOREM KitTypes == Spec => []TypeOK
<1>1. Init => KitInv
  <2> SUFFICES ASSUME Init PROVE KitInv
    OBVIOUS
  <2>1. ListInv
    BY ListInvInit DEF Init
  <2>2. MapInv /\ GotOK
    BY MapInvInit DEF Init
  <2>3. ResultOK
    BY DEF Init, ListInit, ResultOK
  <2>4. BufferOK
    BY BufferAssumption DEF Init, BufferInit, BufferOK
  <2>5. QED
    BY <2>1, <2>2, <2>3, <2>4 DEF KitInv
<1>2. KitInv /\ [Next]_vars => KitInv'
  <2> SUFFICES ASSUME KitInv, [Next]_vars PROVE KitInv'
    OBVIOUS
  <2>1. ListInv' /\ [AbstractOf!Next]_<<Elements, result>>
    BY ListInvNext DEF KitInv
  <2>2. MapInv' /\ GotOK'
    BY MapInvNext DEF KitInv
  <2>3. ResultOK'
    <3>1. CASE AbstractOf!Next
      BY <3>1, <2>1, ResultNext DEF KitInv
    <3>2. CASE result' = result
      BY <3>2 DEF KitInv, ResultOK
    <3>3. QED
      BY <2>1, <3>1, <3>2
  <2>4. BufferOK'
    <3>1. CASE BufferNext
      BY <3>1, BufferOKStep DEF KitInv
    <3>2. CASE UNCHANGED bufferVars
      BY <3>2 DEF bufferVars, KitInv, BufferOK
    <3>3. QED
      BY <3>1, <3>2 DEF Next, vars
  <2>5. QED
    BY <2>1, <2>2, <2>3, <2>4 DEF KitInv
<1>3. QED
  BY <1>1, <1>2, KitTyped, PTL DEF Spec
====

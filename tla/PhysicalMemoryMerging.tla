----------------------- MODULE PhysicalMemoryMerging -----------------------
(***************************************************************************)
(* What add_free_list()'s merges achieve: free blocks that are halves of a *)
(* larger one never stay apart, so that freeing everything restores the    *)
(* blocks made at boot, a request fails only when no run of frames is left *)
(* for it, and is_allocated() is right.  And that no list node leaks.      *)
(***************************************************************************)
EXTENDS PhysicalMemoryProofs, FiniteSetTheorems

(***************************************************************************)
(* Aligned spans.                                                          *)
(***************************************************************************)

\* A frame of a span has that span.
LEMMA SameSpan ==
  ASSUME NEW s \in Nat, NEW k \in Orders, NEW f \in Span(s, k)
  PROVE  f \in Nat /\ Align(f, k) = Align(s, k) /\ Span(f, k) = Span(s, k)
<1>1. PICK S \in Nat \ {0} : S = BlockSize[k]
  BY Sizes
<1>2. PICK q \in Nat, r \in 0..(S-1) : q = s \div S /\ r = s % S /\ s = (S * q) + r
  BY DivisionBound
<1>3. PICK a \in Nat : a = S * q /\ a = Align(s, k)
  BY <1>1, <1>2 DEF Align
<1>4. f \in a..(a + S - 1)
  BY <1>1, <1>3 DEF Span
<1>5. PICK m \in 0..(S-1) : m = f - a
  BY <1>4
<1>6. f \in Nat /\ f = (S * q) + m
  BY <1>3, <1>4, <1>5
<1>7. f % S = m
  BY <1>6, Remainder
<1>8. Align(f, k) = a
  BY <1>1, <1>5, <1>6, <1>7 DEF Align
<1> QED BY <1>3, <1>6, <1>8 DEF Span

\* A span lies in the spans of the higher orders.
LEMMA SpanNest ==
  ASSUME NEW s \in Nat, NEW j \in Orders, NEW k \in Orders, j <= k
  PROVE  Span(s, j) \subseteq Span(s, k)
<1> DEFINE T == {i \in Orders : j <= i /\ ~(Span(s, j) \subseteq Span(s, i))}
<1>0. Orders \subseteq Nat
  BY DEF Orders
<1>1. SUFFICES ASSUME T # {} PROVE FALSE
  OBVIOUS
<1>2. PICK i \in T : \A x \in T : i <= x
  BY <1>0, <1>1, LeastElement
<1>3. i # j /\ i \in Orders /\ j <= i
  BY <1>2
<1>4. i - 1 \in Orders /\ i - 1 < ALLOC_MAX_ORDER /\ (i - 1) + 1 = i /\ j <= i - 1 /\ ~(i <= i - 1)
  BY <1>3, OrderAssumption DEF Orders
<1>5. i - 1 \notin T
  BY <1>2, <1>4
<1>6. Span(s, j) \subseteq Span(s, i - 1)
  BY <1>4, <1>5
<1>7. Span(s, i - 1) \subseteq Span(s, i)
  BY <1>4, Halves
<1> QED BY <1>2, <1>6, <1>7

(***************************************************************************)
(* Sets of blocks.                                                         *)
(***************************************************************************)

\* No two blocks share a frame; no two are the halves of a larger one.
Apart(B) == \A b, c \in B : b # c => Yield(b) \intersect Yield(c) = {}

NoBuddies(B) ==
  \A b, c \in B : b.order = c.order /\ b.order < ALLOC_MAX_ORDER =>
    Yield(c) # Span(Buddy(b.start, b.order), b.order)

\* Where no halves are left apart, an aligned run of free frames lies in one
\* block: otherwise the smallest block in it would have its buddy beside it.
LEMMA Covering ==
  ASSUME NEW B \in SUBSET Block, Apart(B), NoBuddies(B),
         NEW f \in Nat, NEW k \in Orders, Span(f, k) \subseteq YieldOf(B)
  PROVE  \E b \in B : b.order >= k /\ f \in Yield(b)
<1>0. /\ Orders \subseteq Nat /\ k \in Nat
      /\ \A b \in B : b.start \in Nat /\ b.order \in Orders /\ b.order \in Nat
  BY DEF Orders, Block
<1>1. PICK b \in B : f \in Yield(b)
  <2>1. f \in YieldOf(B)
    BY AlignFacts
  <2> QED BY <2>1 DEF YieldOf
<1>2. SUFFICES ASSUME ~(b.order >= k) PROVE FALSE
  BY <1>1
<1> DEFINE Small == {c \in B : c.order < k /\ Yield(c) \intersect Span(f, k) # {}}
           T == {c.order : c \in Small}
<1>3. b \in Small
  <2>1. f \in Span(f, k)
    BY AlignFacts
  <2>2. b.order < k
    BY <1>0, <1>2
  <2> QED BY <1>1, <2>1, <2>2
<1>4. PICK m \in T : \A x \in T : m <= x
  <2>1. T \in SUBSET Nat
    BY <1>0
  <2>2. T # {}
    BY <1>3
  <2> HIDE DEF T
  <2> QED BY <2>1, <2>2, LeastElement
<1>5. PICK c \in Small : c.order = m
  BY <1>4
<1>6. PICK s \in Nat : s = c.start /\ Yield(c) = Span(s, m)
  BY <1>0, <1>5 DEF Yield
<1>7. m \in Orders /\ m < k /\ m < ALLOC_MAX_ORDER /\ m + 1 \in Orders /\ m + 1 <= k
  BY <1>0, <1>5, OrderAssumption DEF Orders
<1>8. Span(s, m + 1) \subseteq Span(f, k)
  <2>1. PICK g \in Span(s, m) : g \in Span(f, k)
    BY <1>5, <1>6
  <2>2. g \in Nat /\ Span(g, m) = Span(s, m)
    BY <1>6, <1>7, SameSpan
  <2>3. Span(g, k) = Span(f, k)
    BY <2>1, SameSpan
  <2>4. s \in Span(g, m)
    BY <1>6, <1>7, <2>2, AlignFacts
  <2>5. s \in Span(g, m + 1)
    BY <1>7, <2>2, <2>4, Halves
  <2>6. Span(s, m + 1) = Span(g, m + 1)
    BY <1>7, <2>2, <2>5, SameSpan
  <2> QED BY <1>7, <2>2, <2>3, <2>6, SpanNest
<1>9. PICK x \in Nat :
        /\ x = Buddy(s, m)
        /\ x \in Span(s, m + 1)
        /\ Span(x, m + 1) = Span(s, m + 1)
        /\ x \notin Span(s, m)
  <2>1. /\ Buddy(s, m) \in Nat
        /\ Buddy(s, m) \in Span(s, m + 1)
        /\ Buddy(s, m) \notin Span(s, m)
    BY <1>6, <1>7, Halves, AlignFacts
  <2> QED BY <1>6, <1>7, <2>1, SameSpan
<1>10. PICK d \in B : x \in Yield(d)
  BY <1>8, <1>9 DEF YieldOf
<1>11. PICK t \in Nat, n \in Orders : t = d.start /\ n = d.order /\ Yield(d) = Span(t, n)
  BY <1>0, <1>10 DEF Yield
<1>12. Span(x, n) = Yield(d)
  BY <1>9, <1>10, <1>11, SameSpan
<1>13. ~(n >= m + 1)
  <2> SUFFICES ASSUME n >= m + 1 PROVE FALSE
    OBVIOUS
  <2>1. Span(x, m + 1) \subseteq Yield(d)
    BY <1>7, <1>9, <1>11, <1>12, SpanNest
  <2>2. s \in Yield(d) /\ s \in Yield(c)
    BY <2>1, <1>6, <1>7, <1>9, AlignFacts
  <2>3. d = c
    BY <2>2, <1>5, <1>10 DEF Apart
  <2> QED BY <2>3, <1>6, <1>9, <1>10
<1>14. n = m
  <2>1. n < k
    BY <1>0, <1>7, <1>11, <1>13
  <2>2. x \in Span(f, k)
    BY <1>8, <1>9
  <2>3. d \in Small
    BY <1>10, <1>11, <2>1, <2>2
  <2>4. m <= n
    BY <1>4, <1>11, <2>3
  <2> QED BY <1>0, <1>7, <1>11, <1>13, <2>4
<1>15. Yield(d) = Span(Buddy(c.start, c.order), c.order) /\ c.order = d.order
  BY <1>5, <1>6, <1>9, <1>11, <1>12, <1>14
<1> QED BY <1>5, <1>7, <1>10, <1>15 DEF NoBuddies

\* Two sets of blocks without halves left apart that have the same frames have
\* the same blocks.
LEMMA SameCover ==
  ASSUME NEW B \in SUBSET Block, Apart(B), NoBuddies(B),
         NEW C \in SUBSET Block, Apart(C), NoBuddies(C),
         YieldOf(B) = YieldOf(C), NEW b \in B
  PROVE  \E c \in C : Yield(c) = Yield(b) /\ c.order = b.order
<1>0. Orders \subseteq Nat /\ \A x \in B \union C : x.start \in Nat /\ x.order \in Orders
  BY DEF Orders, Block
<1>1. Yield(b) = Span(b.start, b.order) /\ Yield(b) \subseteq YieldOf(B)
  BY DEF Yield, YieldOf
<1>2. PICK c \in C : c.order >= b.order /\ b.start \in Yield(c)
  BY <1>0, <1>1, Covering
<1>3. Yield(c) = Span(c.start, c.order) /\ Yield(c) \subseteq YieldOf(C)
  BY DEF Yield, YieldOf
<1>4. Yield(c) = Span(b.start, c.order)
  BY <1>0, <1>2, <1>3, SameSpan
<1>5. PICK d \in B : d.order >= c.order /\ b.start \in Yield(d)
  BY <1>0, <1>3, <1>4, Covering
<1>6. b.start \in Yield(b)
  BY <1>0, <1>1, AlignFacts
<1>7. d = b
  BY <1>5, <1>6 DEF Apart
<1>8. c.order = b.order
  <2>1. PICK i \in Nat, j \in Nat : i = c.order /\ j = b.order
    BY <1>0
  <2>2. i >= j /\ j >= i
    BY <1>2, <1>5, <1>7, <2>1
  <2> QED BY <2>1, <2>2
<1> QED BY <1>1, <1>4, <1>8

(***************************************************************************)
(* The invariant.                                                          *)
(***************************************************************************)

\* Blocks of the highest order are pushed as they are: their address is that of
\* either half.  All others are aligned.
Grain(k) == IF k = ALLOC_MAX_ORDER THEN ALLOC_MAX_ORDER - 1 ELSE k

Grained(s, k) == Align(s, Grain(k)) = s

GrainedLists(L) == \A k \in Orders : \A s \in Range(L[k]) : Grained(s, k)

\* No two halves of a block are on a list, but for the lists of the orders K:
\* there, the first block may have its buddy on the list.
MergedBut(L, K) ==
  \A k \in Orders : \A s \in Range(L[k]) :
    k < ALLOC_MAX_ORDER /\ Buddy(s, k) \in Range(L[k]) =>
      k \in K /\ Head(L[k]) \in {s, Buddy(s, k)}

\* fill_free_list has split a block of this order: its head is split further,
\* or taken.
BeingSplit == IF pc = "split" THEN {lvl + 1} ELSE IF pc = "take" THEN {goal} ELSE {}

Merged == MergedBut(free_lists, BeingSplit) \/ (pc = "halted" /\ nodes = NodeLimit)

NodesBounded == nodes <= NodeLimit

\* The list fill_free_list comes back from is empty only at the highest order.
Filled ==
  /\ pc = "split" => lvl + 1 = ALLOC_MAX_ORDER \/ free_lists[lvl+1] # <<>>
  /\ pc = "take"  => goal = ALLOC_MAX_ORDER \/ free_lists[goal] # <<>>

WhyHalted ==
  pc = "halted" => nodes = NodeLimit \/ \A k \in Orders : k >= goal => free_lists[k] = <<>>

\* Once it runs, the kernel has read the whole memory map.
Booted == pc \notin {"boot", "halted"} => region > Len(mem_map)

Merging ==
  /\ Booted
  /\ NodesBounded
  /\ Filled
  /\ WhyHalted
  /\ Mergeless => Merged

(***************************************************************************)
(* What changes of the lists keep.                                         *)
(***************************************************************************)

\* Lists that lose blocks gain no buddies.
LEMMA MergedLess ==
  ASSUME NEW L, NEW M, MergedBut(L, {}),
         \A k \in Orders : Range(M[k]) \subseteq Range(L[k])
  PROVE  MergedBut(M, {})
BY DEF MergedBut

\* A block is pushed whose buddy is on no list.
LEMMA MergedPush ==
  ASSUME NEW L \in Lists, NEW k \in Orders, NEW a \in Nat, MergedBut(L, {}),
         k < ALLOC_MAX_ORDER => Buddy(a, k) \notin Range(L[k])
  PROVE  MergedBut([L EXCEPT ![k] = Cons(a, @)], {})
<1> DEFINE M == [L EXCEPT ![k] = Cons(a, @)]
<1>0. L[k] \in Seq(Nat)
  BY DEF Lists
<1>1. Range(M[k]) = Range(L[k]) \union {a}
  BY <1>0, PushList DEF Lists
<1>2. \A j \in Orders \ {k} : M[j] = L[j]
  BY DEF Lists
<1>3. \A s \in Range(L[k]) : s \in Nat
  BY <1>0, SeqFunction DEF Range
<1> HIDE DEF M
<1> SUFFICES ASSUME NEW j \in Orders, NEW s \in Range(M[j]), j < ALLOC_MAX_ORDER,
                    Buddy(s, j) \in Range(M[j])
             PROVE  FALSE
  BY DEF MergedBut, M
<1>4. CASE j # k
  BY <1>2, <1>4 DEF MergedBut
<1>5. CASE j = k
  <2>1. Buddy(a, k) # a
    BY <1>5, Halves, AlignFacts
  <2>2. s = a \/ s \in Range(L[k])
    BY <1>1, <1>5
  <2>3. CASE s = a
    BY <1>1, <1>5, <2>1, <2>3
  <2>4. CASE s \in Range(L[k]) /\ Buddy(s, k) \in Range(L[k])
    BY <1>5, <2>4 DEF MergedBut
  <2>5. CASE s \in Range(L[k]) /\ Buddy(s, k) = a
    BY <1>3, <1>5, <2>5, BuddyTwice
  <2> QED BY <1>1, <1>5, <2>2, <2>3, <2>4, <2>5
<1> QED BY <1>4, <1>5

\* The head of the list is taken whose buddy may be behind it.
LEMMA MergedPop ==
  ASSUME NEW L \in Lists, NEW k \in Orders, L[k] # <<>>, AllInjective(L),
         NEW M, M[k] = Tail(L[k]), MergedBut(L, {k}),
         NEW j \in Orders, NEW s \in Range(M[j]), j < ALLOC_MAX_ORDER,
         j # k => M[j] = L[j],
         Buddy(s, j) \in Range(M[j])
  PROVE  FALSE
<1>1. CASE j # k
  BY <1>1 DEF MergedBut
<1>2. CASE j = k
  <2>1. Range(M[k]) = Range(L[k]) \ {Head(L[k])}
    BY PopList DEF Lists, AllInjective
  <2> QED BY <1>2, <2>1 DEF MergedBut
<1> QED BY <1>1, <1>2

\* The blocks of the memory map, on their lists, are merged.
LEMMA MapMerged ==
  ASSUME Mergeless, NEW L \in Lists, BlocksOn(L) \subseteq MapBlocks(mem_map)
  PROVE  MergedBut(L, {})
<1>1. ASSUME NEW k \in Orders, NEW s \in Range(L[k])
      PROVE  s \in Nat /\ MkBlock(s, k) \in MapBlocks(mem_map)
  <2>1. s \in Nat
    BY SeqFunction DEF Lists, Range
  <2>2. MkBlock(s, k) \in BlocksOn(L)
    BY <2>1, BlockFields DEF BlocksOn
  <2> QED BY <2>1, <2>2
<1>3. MergedBut(L, {})
  <2> SUFFICES ASSUME NEW k \in Orders, NEW s \in Range(L[k]), k < ALLOC_MAX_ORDER,
                      Buddy(s, k) \in Range(L[k])
               PROVE  FALSE
    BY DEF MergedBut
  <2>1. MkBlock(s, k) \in MapBlocks(mem_map) /\ MkBlock(Buddy(s, k), k) \in MapBlocks(mem_map)
    BY <1>1
  <2> QED BY <2>1 DEF Mergeless, MkBlock
<1> QED BY <1>3

(***************************************************************************)
(* The invariant is inductive.                                             *)
(***************************************************************************)

\* kmalloc() never has more nodes live than it can.
LEMMA BoundStep ==
  ASSUME TypeOK, NodesBounded, [Next]_vars
  PROVE  NodesBounded'
<1> USE RequestAssumption DEF TypeOK, NodesBounded
<1>1. CASE BootBlock \/ BootFault \/ BootRegion \/ BootDone
  BY <1>1 DEF BootBlock, BootFault, BootRegion, BootDone, Halt, HasNode
<1>2. CASE FillDescend \/ FillStop \/ Split \/ SplitFault \/ Take \/ TakeFault
  BY <1>2 DEF FillDescend, FillStop, Split, SplitFault, Take, TakeFault, Halt, HasNode
<1>3. CASE AddTop \/ AddMerge \/ AddPush \/ FreeFault \/ Stopped \/ UNCHANGED vars
  BY <1>3 DEF AddTop, AddMerge, AddPush, FreeFault, Stopped, Halt, vars
<1>4. ASSUME NEW n \in Requests, Allocate(n) \/ Refuse(n) PROVE NodesBounded'
  BY <1>4 DEF Allocate, Refuse, vars
<1>5. ASSUME NEW b \in held, Free(b) PROVE NodesBounded'
  BY <1>5 DEF Free, HasNode
<1>6. ASSUME NEW r \in Reservations,
             \/ ReserveExact(r[1], r[2])
             \/ ReserveAbsent(r[1], r[2])
             \/ ReserveLost(r[1], r[2])
      PROVE NodesBounded'
  BY <1>6 DEF ReserveExact, ReserveAbsent, ReserveLost, vars
<1> QED BY <1>1, <1>2, <1>3, <1>4, <1>5, <1>6 DEF Next, Step

\* fill_free_list comes back with a block, or from the highest order.
LEMMA FilledStep ==
  ASSUME IInv, Filled, [Next]_vars
  PROVE  Filled'
<1>0. lvl \in Int /\ goal \in Int /\ ALLOC_MAX_ORDER \in Int
  BY OrderAssumption DEF IInv, TypeOK, Orders
<1>1. CASE FillStop
  <2>1. /\ free_lists' = free_lists /\ goal' = goal
        /\ free_lists[lvl] # <<>> \/ lvl = ALLOC_MAX_ORDER
        /\ \/ lvl = goal /\ pc' = "take"
           \/ pc' = "split" /\ lvl' = lvl - 1
    BY <1>1 DEF FillStop, FillReturn
  <2>2. lvl' = lvl - 1 => lvl' + 1 = lvl
    BY <1>0
  <2> QED BY <2>1, <2>2 DEF Filled
<1>2. CASE Split
  <2> DEFINE old == Head(free_lists[lvl+1])
             new == <<Buddy(old, lvl), old>>
  <2>1. /\ free_lists' = [free_lists EXCEPT ![lvl+1] = Tail(@), ![lvl] = new]
        /\ goal' = goal
        /\ \/ lvl = goal /\ pc' = "take"
           \/ pc' = "split" /\ lvl' = lvl - 1
    BY <1>2 DEF Split, FillReturn
  <2>2. new # <<>>
    OBVIOUS
  <2> HIDE DEF new
  <2>3. lvl # lvl + 1 /\ (lvl' = lvl - 1 => lvl' + 1 = lvl)
    BY <1>0
  <2>4. free_lists \in Lists /\ lvl \in Orders
    BY DEF IInv, TypeOK, Lists
  <2>5. free_lists'[lvl] = new
    BY <2>1, <2>3, <2>4 DEF Lists
  <2> QED BY <2>1, <2>2, <2>3, <2>5 DEF Filled
<1>3. CASE BootBlock \/ BootFault \/ BootRegion \/ BootDone
  BY <1>3 DEF BootBlock, BootFault, BootRegion, BootDone, Halt, Filled
<1>4. CASE FillDescend \/ SplitFault \/ Take \/ TakeFault
  BY <1>4 DEF FillDescend, SplitFault, Take, TakeFault, Halt, Return, Filled
<1>5. CASE AddTop \/ AddMerge \/ AddPush \/ FreeFault
  BY <1>5 DEF AddTop, AddMerge, AddPush, FreeFault, Halt, Return, Filled
<1>6. ASSUME NEW n \in Requests, Allocate(n) \/ Refuse(n) PROVE Filled'
  BY <1>6 DEF Allocate, Refuse, vars, Filled
<1>7. ASSUME NEW b \in held, Free(b) PROVE Filled'
  BY <1>7 DEF Free, Filled
<1>8. ASSUME NEW r \in Reservations,
             \/ ReserveExact(r[1], r[2])
             \/ ReserveAbsent(r[1], r[2])
             \/ ReserveLost(r[1], r[2])
      PROVE Filled'
  BY <1>8 DEF ReserveExact, ReserveAbsent, ReserveLost, vars, Filled
<1>9. CASE Stopped \/ UNCHANGED vars
  BY <1>9 DEF Stopped, vars, Filled
<1> QED BY <1>1, <1>2, <1>3, <1>4, <1>5, <1>6, <1>7, <1>8, <1>9 DEF Next, Step

\* The machine stops with no node left, or where the lists from the order of
\* the request upward are empty.
LEMMA HaltedStep ==
  ASSUME IInv, NodesBounded, Filled, WhyHalted, [Next]_vars
  PROVE  WhyHalted'
<1>0. /\ nodes \in Int /\ NodeLimit \in Int /\ lvl \in Int /\ goal \in Int
      /\ ALLOC_MAX_ORDER \in Int /\ \A k \in Orders : k \in Int /\ k <= ALLOC_MAX_ORDER
  BY OrderAssumption, RequestAssumption DEF IInv, TypeOK, Orders
<1>1. ~HasNode => nodes = NodeLimit
  BY <1>0 DEF HasNode, NodesBounded
<1>2. CASE BootFault \/ FreeFault
  BY <1>1, <1>2 DEF BootFault, FreeFault, Halt, WhyHalted
<1>3. CASE SplitFault
  <2>1. nodes' = nodes /\ free_lists' = free_lists /\ goal' = goal /\ pc = "split"
    BY <1>3 DEF SplitFault, Halt
  <2>2. ASSUME HasNode, NEW k \in Orders, k >= goal PROVE free_lists[k] = <<>>
    <3>1. free_lists[lvl+1] = <<>> /\ lvl + 1 = ALLOC_MAX_ORDER
      BY <1>3, <2>1, <2>2 DEF SplitFault, Filled
    <3>2. k <= lvl \/ k = lvl + 1
      BY <1>0, <3>1
    <3>3. goal <= k
      BY <1>0, <2>2
    <3> QED BY <2>1, <3>1, <3>2, <3>3 DEF IInv, EmptyBelow
  <2> QED BY <1>1, <2>1, <2>2 DEF WhyHalted
<1>4. CASE TakeFault
  <2>1. /\ nodes' = nodes /\ free_lists' = free_lists /\ goal' = goal /\ pc = "take"
        /\ free_lists[goal] = <<>>
    BY <1>4 DEF TakeFault, Halt
  <2>2. \A k \in Orders : k >= goal => k = goal
    BY <1>0, <2>1 DEF Filled
  <2> QED BY <2>1, <2>2 DEF WhyHalted
<1>5. CASE BootBlock \/ BootRegion \/ BootDone
  BY <1>5 DEF BootBlock, BootRegion, BootDone, WhyHalted
<1>6. CASE FillDescend \/ FillStop \/ Split \/ Take
  BY <1>6 DEF FillDescend, FillStop, FillReturn, Split, Take, Return, WhyHalted
<1>7. CASE AddTop \/ AddMerge \/ AddPush
  BY <1>7 DEF AddTop, AddMerge, AddPush, Return, WhyHalted
<1>8. ASSUME NEW n \in Requests, Allocate(n) \/ Refuse(n) PROVE WhyHalted'
  BY <1>8 DEF Allocate, Refuse, vars, WhyHalted
<1>9. ASSUME NEW b \in held, Free(b) PROVE WhyHalted'
  BY <1>9 DEF Free, WhyHalted
<1>10. ASSUME NEW r \in Reservations,
              \/ ReserveExact(r[1], r[2])
              \/ ReserveAbsent(r[1], r[2])
              \/ ReserveLost(r[1], r[2])
       PROVE WhyHalted'
  BY <1>10 DEF ReserveExact, ReserveAbsent, ReserveLost, vars, WhyHalted
<1>11. CASE Stopped \/ UNCHANGED vars
  BY <1>11 DEF Stopped, vars, WhyHalted
<1> QED BY <1>2, <1>3, <1>4, <1>5, <1>6, <1>7, <1>8, <1>9, <1>10, <1>11 DEF Next, Step

\* The lists while the kernel boots, after the step.
LEMMA BootMerged ==
  ASSUME Mergeless, mem_map' = mem_map, IInv', pc' = "boot"
  PROVE  MergedBut(free_lists', {})
<1>1. PICK L \in Lists, m \in Seq(Region) : L = free_lists' /\ m = mem_map
  BY MapAssumption DEF IInv, TypeOK, Lists
<1>2. BlocksOn(L) = PlacedOf(m, region', placed')
  BY <1>1, FreeOf DEF IInv, Booting
<1>3. BlocksOn(L) \subseteq MapBlocks(mem_map)
  BY <1>1, <1>2, PlacedIn
<1> QED BY <1>1, <1>2, <1>3, MapMerged

\* Without a list that is being split, or with that list empty, no two halves
\* are left apart at all.
LEMMA MergedFrom ==
  ASSUME NEW L
  PROVE  /\ \A K : MergedBut(L, {}) => MergedBut(L, K)
         /\ \A k \in Orders : L[k] = <<>> /\ MergedBut(L, {k}) => MergedBut(L, {})
<1>1. Range(<<>>) = {}
  BY DEF Range
<1> QED BY <1>1 DEF MergedBut

\* add_free_list leaves no two halves apart, and fill_free_list splits a block
\* only to hand out one half at once.
LEMMA MergedStep ==
  ASSUME IInv, IInv', Mergeless, Merged, NodesBounded, [Next]_vars
  PROVE  Merged'
<1>0. /\ free_lists \in Lists /\ AllInjective(free_lists)
      /\ lvl \in Orders /\ goal \in Orders /\ blk \in Nat
  BY DEF IInv, TypeOK, Lists
<1>from. ASSUME pc \notin {"split", "take", "halted"} PROVE MergedBut(free_lists, {})
  BY <1>from DEF Merged, BeingSplit
<1>to. ASSUME MergedBut(free_lists', {}) PROVE Merged'
  <2>1. MergedBut(free_lists', BeingSplit')
    BY <1>to, MergedFrom
  <2> QED BY <2>1 DEF Merged
<1>out. ~HasNode => nodes = NodeLimit
  BY RequestAssumption DEF HasNode, NodesBounded, IInv, TypeOK
<1>1. CASE BootBlock
  <2>1. pc' = "boot" /\ mem_map' = mem_map
    BY <1>1 DEF BootBlock
  <2> QED BY <2>1, <1>to, BootMerged
<1>2. CASE BootFault \/ BootRegion \/ BootDone \/ FreeFault \/ FillDescend \/ FillStop
  <2>1. free_lists' = free_lists /\ pc \notin {"split", "take", "halted"}
    BY <1>2 DEF BootFault, BootRegion, BootDone, FreeFault, Halt, FillDescend, FillStop
  <2> QED BY <2>1, <1>from, <1>to
<1>3. CASE Split
  <2>1. /\ MergedBut(free_lists, {lvl+1}) /\ BeingSplit' = {lvl}
        /\ lvl < ALLOC_MAX_ORDER /\ lvl + 1 \in Orders /\ lvl # lvl + 1
    <3>1. /\ pc = "split" /\ goal' = goal
          /\ pc' = IF lvl = goal THEN "take" ELSE "split"
          /\ lvl' = IF lvl = goal THEN lvl ELSE lvl - 1
      BY <1>3 DEF Split, FillReturn
    <3>2. lvl < ALLOC_MAX_ORDER /\ lvl + 1 \in Orders /\ lvl # lvl + 1 /\ (lvl - 1) + 1 = lvl
      BY <1>3, <1>0, OrderAssumption DEF Split, IInv, TypeOK, Orders
    <3>3. MergedBut(free_lists, {lvl+1})
      BY <3>1 DEF Merged, BeingSplit
    <3>4. BeingSplit' = {lvl}
      BY <3>1, <3>2 DEF BeingSplit
    <3> QED BY <3>2, <3>3, <3>4
  <2>2. free_lists[lvl+1] # <<>>
    BY <1>3 DEF Split
  <2>3. PICK o \in Nat, b \in Nat : /\ o = Head(free_lists[lvl+1]) /\ b = Buddy(o, lvl)
                                    /\ b # o
    <3>1. Head(free_lists[lvl+1]) \in Nat
      BY <1>0, <2>1, <2>2, PopList DEF Lists
    <3> QED BY <1>0, <2>1, <3>1, Halves, AlignFacts
  <2> DEFINE new == <<b, o>>
  <2>4. Range(new) = {b, o} /\ Head(new) = b
    BY <2>3, PairList
  <2>5. /\ free_lists'[lvl+1] = Tail(free_lists[lvl+1])
        /\ free_lists'[lvl] = new
        /\ \A k \in Orders \ {lvl, lvl+1} : free_lists'[k] = free_lists[k]
    BY <1>0, <1>3, <2>1, <2>3 DEF Split, Lists
  <2> HIDE DEF new
  <2>6. ASSUME NEW j \in Orders, NEW s \in Range(free_lists'[j]), j < ALLOC_MAX_ORDER,
               Buddy(s, j) \in Range(free_lists'[j])
        PROVE  j = lvl /\ Head(free_lists'[j]) \in {s, Buddy(s, j)}
    <3>1. CASE j = lvl
      BY <2>3, <2>4, <2>5, <3>1
    <3>2. CASE j # lvl
      <4>1. j # lvl + 1 => free_lists'[j] = free_lists[j]
        BY <2>5, <3>2
      <4> QED BY <1>0, <2>1, <2>2, <2>5, <2>6, <4>1, MergedPop
    <3> QED BY <3>1, <3>2
  <2>7. MergedBut(free_lists', {lvl})
    BY <2>6 DEF MergedBut
  <2> QED BY <2>1, <2>7 DEF Merged
<1>4. CASE SplitFault
  <2>1. /\ pc = "split" /\ pc' = "halted" /\ free_lists' = free_lists /\ nodes' = nodes
        /\ free_lists[lvl+1] = <<>> \/ ~HasNode
    BY <1>4 DEF SplitFault, Halt
  <2>2. CASE ~HasNode
    BY <1>out, <2>1, <2>2 DEF Merged
  <2>3. CASE free_lists[lvl+1] = <<>>
    <3>1. MergedBut(free_lists, {lvl+1})
      BY <2>1 DEF Merged, BeingSplit
    <3>2. lvl + 1 \in Orders
      BY <1>0, <2>1, OrderAssumption DEF IInv, TypeOK, Orders
    <3> QED BY <1>to, <2>1, <2>3, <3>1, <3>2, MergedFrom
  <2> QED BY <2>1, <2>2, <2>3
<1>5. CASE TakeFault
  <2>1. pc = "take" /\ free_lists' = free_lists /\ free_lists[goal] = <<>>
    BY <1>5 DEF TakeFault, Halt
  <2>2. MergedBut(free_lists, {goal})
    BY <2>1 DEF Merged, BeingSplit
  <2> QED BY <1>0, <1>to, <2>1, <2>2, MergedFrom
<1>6. CASE Take
  <2>1. /\ free_lists' = [free_lists EXCEPT ![goal] = Tail(@)]
        /\ free_lists[goal] # <<>> /\ pc = "take"
    BY <1>6 DEF Take
  <2>2. MergedBut(free_lists, {goal})
    BY <2>1 DEF Merged, BeingSplit
  <2>3. /\ free_lists'[goal] = Tail(free_lists[goal])
        /\ \A k \in Orders \ {goal} : free_lists'[k] = free_lists[k]
    BY <1>0, <2>1 DEF Lists
  <2>4. ASSUME NEW j \in Orders, NEW s \in Range(free_lists'[j]), j < ALLOC_MAX_ORDER,
               Buddy(s, j) \in Range(free_lists'[j])
        PROVE  FALSE
    BY <1>0, <2>1, <2>2, <2>3, <2>4, MergedPop
  <2>5. MergedBut(free_lists', {})
    BY <2>4 DEF MergedBut
  <2> QED BY <1>to, <2>5
<1>7. CASE AddTop
  <2>1. /\ free_lists' = [free_lists EXCEPT ![lvl] = Cons(blk, @)]
        /\ pc = "add" /\ ~(lvl < ALLOC_MAX_ORDER)
    BY <1>7, OrderAssumption DEF AddTop
  <2>2. MergedBut(free_lists', {})
    BY <1>0, <1>from, <2>1, MergedPush
  <2> QED BY <1>to, <2>2
<1>8. CASE AddMerge
  <2>1. PICK i \in DOMAIN free_lists[lvl] :
          free_lists' = [free_lists EXCEPT ![lvl] = RemoveAt(@, i)]
    BY <1>8 DEF AddMerge
  <2>2. MergedBut(free_lists, {})
    BY <1>8, <1>from DEF AddMerge
  <2>3. MergedBut(free_lists', {})
    BY <1>0, <2>1, <2>2, UnlinkLess, MergedLess
  <2> QED BY <1>to, <2>3
<1>9. CASE AddPush
  <2>1. /\ free_lists' = [free_lists EXCEPT ![lvl] = Cons(Align(blk, lvl), @)]
        /\ Buddy(Align(blk, lvl), lvl) \notin Range(free_lists[lvl]) /\ pc = "add"
    BY <1>9 DEF AddPush
  <2>2. Align(blk, lvl) \in Nat
    BY <1>0, AlignFacts
  <2>3. MergedBut(free_lists', {})
    BY <1>0, <1>from, <2>1, <2>2, MergedPush
  <2> QED BY <1>to, <2>3
<1>10. ASSUME NEW n \in Requests, Allocate(n) \/ Refuse(n) PROVE Merged'
  <2>1. free_lists' = free_lists /\ pc = "idle"
    BY <1>10 DEF Allocate, Refuse, vars
  <2> QED BY <1>from, <1>to, <2>1
<1>11. ASSUME NEW b \in held, Free(b) PROVE Merged'
  <2>1. free_lists' = free_lists /\ pc = "idle"
    BY <1>11 DEF Free
  <2> QED BY <1>from, <1>to, <2>1
<1>12. ASSUME NEW r \in Reservations, ReserveExact(r[1], r[2]) PROVE Merged'
  <2>1. r[1] \in Nat /\ r[2] \in Nat /\ r[2] <= BlockSize[ALLOC_MAX_ORDER]
    BY RequestAssumption, OrderAssumption, BlockSizeAssumption DEF Orders
  <2>2. PICK k \in Orders : k = GetAllocOrder(r[2])
    BY <2>1, RequestOrder
  <2>3. PICK i \in DOMAIN free_lists[k] :
          free_lists' = [free_lists EXCEPT ![k] = RemoveAt(@, i)]
    BY <1>12, <2>2 DEF ReserveExact
  <2>4. MergedBut(free_lists, {})
    BY <1>12, <1>from DEF ReserveExact
  <2>5. MergedBut(free_lists', {})
    BY <1>0, <2>3, <2>4, UnlinkLess, MergedLess
  <2> QED BY <1>to, <2>5
<1>13. ASSUME NEW r \in Reservations, ReserveAbsent(r[1], r[2]) \/ ReserveLost(r[1], r[2])
       PROVE Merged'
  <2>1. free_lists' = free_lists /\ pc = "idle"
    BY <1>13 DEF ReserveAbsent, ReserveLost, vars
  <2> QED BY <1>from, <1>to, <2>1
<1>14. CASE Stopped \/ UNCHANGED vars
  BY <1>14 DEF Stopped, vars, Merged, BeingSplit
<1> QED BY <1>1, <1>2, <1>3, <1>4, <1>5, <1>6, <1>7, <1>8, <1>9, <1>10, <1>11, <1>12, <1>13,
           <1>14 DEF Next, Step

\* After initialize() nothing is read from the memory map, and it never changes.
LEMMA BootedStep ==
  ASSUME TypeOK, Booted, [Next]_vars
  PROVE  Booted' /\ mem_map' = mem_map
<1>1. CASE BootBlock \/ BootFault \/ BootRegion \/ BootDone
  BY <1>1 DEF BootBlock, BootFault, BootRegion, BootDone, Halt, boot, Booted
<1>2. CASE FillDescend \/ FillStop \/ Split \/ SplitFault \/ Take \/ TakeFault
  BY <1>2 DEF FillDescend, FillStop, Split, SplitFault, Take, TakeFault, Halt, boot, Booted
<1>3. CASE AddTop \/ AddMerge \/ AddPush \/ FreeFault \/ Stopped \/ UNCHANGED vars
  BY <1>3 DEF AddTop, AddMerge, AddPush, FreeFault, Stopped, Halt, vars, boot, Booted
<1>4. ASSUME NEW n \in Requests, Allocate(n) \/ Refuse(n) PROVE Booted' /\ mem_map' = mem_map
  BY <1>4 DEF Allocate, Refuse, vars, boot, Booted
<1>5. ASSUME NEW b \in held, Free(b) PROVE Booted' /\ mem_map' = mem_map
  BY <1>5 DEF Free, boot, Booted
<1>6. ASSUME NEW r \in Reservations,
             \/ ReserveExact(r[1], r[2])
             \/ ReserveAbsent(r[1], r[2])
             \/ ReserveLost(r[1], r[2])
      PROVE Booted' /\ mem_map' = mem_map
  BY <1>6 DEF ReserveExact, ReserveAbsent, ReserveLost, vars, boot, Booted
<1> QED BY <1>1, <1>2, <1>3, <1>4, <1>5, <1>6 DEF Next, Step

\* Every step keeps the invariant.
LEMMA MergingStep == IInv /\ Merging /\ [Next]_vars => Merging'
<1> SUFFICES ASSUME IInv, Merging, [Next]_vars PROVE Merging'
  OBVIOUS
<1>1. IInv' /\ TypeOK
  BY InvStep DEF IInv
<1>2. Booted' /\ mem_map' = mem_map
  BY <1>1, BootedStep DEF Merging
<1>3. NodesBounded' /\ Filled' /\ WhyHalted'
  BY <1>1, BoundStep, FilledStep, HaltedStep DEF Merging
<1>4. ASSUME Mergeless' PROVE Merged'
  <2>1. Mergeless
    BY <1>2, <1>4 DEF Mergeless
  <2> QED BY <1>1, <2>1, MergedStep DEF Merging
<1> QED BY <1>2, <1>3, <1>4 DEF Merging

\* It holds when the kernel starts.
LEMMA MergingInit == Init => Merging
<1> SUFFICES ASSUME Init PROVE Merging
  OBVIOUS
<1>1. pc = "boot" /\ held = {} /\ nodes = 0 /\ \A k \in Orders : free_lists[k] = <<>>
  BY DEF Init
<1>2. Range(<<>>) = {}
  BY DEF Range
<1>3. Merged
  BY <1>1, <1>2 DEF Merged, MergedBut
<1>4. NodesBounded
  BY <1>1, RequestAssumption DEF NodesBounded
<1> QED BY <1>1, <1>3, <1>4 DEF Merging, Booted, Filled, WhyHalted

\* Free blocks stay merged, the free list fill_free_list returns to is filled,
\* and the machine halts for want of nodes or of blocks only.
THEOREM StaysMerged == Spec => [](Separate(mem_map) => Merging)
<1>1. Init => (Separate(mem_map) => Merging)
  BY MergingInit
<1>2. (Separate(mem_map) => IInv) /\ (Separate(mem_map) => Merging) /\ [Next]_vars
        => (Separate(mem_map) => Merging)'
  BY MergingStep, MapStays
<1> QED BY <1>1, <1>2, Invariant, PTL DEF Spec

\* The blocks of a mergeless map are apart, and aligned: all that is known holds.
Known == Mergeless => IInv /\ ExactAligned /\ Merging

LEMMA AlwaysKnown == Spec => []Known
<1>1. TypeOK /\ (Separate(mem_map) => IInv) /\ (Separate(mem_map) => ExactAligned)
        /\ (Separate(mem_map) => Merging) => Known
  BY AlignedMap DEF TypeOK, Mergeless, Known
<1> QED BY <1>1, TypeCorrect, Invariant, StaysAligned, StaysMerged, PTL

\* The lists of a mergeless map hold aligned blocks.
LEMMA ListsGrained ==
  ASSUME IInv, ExactAligned, Mergeless
  PROVE  GrainedLists(free_lists)
<1> SUFFICES ASSUME NEW k \in Orders, NEW s \in Range(free_lists[k]) PROVE Grained(s, k)
  BY DEF GrainedLists
<1>1. PICK g \in Orders : g = Grain(k) /\ g <= k /\ g < ALLOC_MAX_ORDER
  <2>1. Grain(k) \in Orders /\ Grain(k) <= k /\ Grain(k) < ALLOC_MAX_ORDER
    BY OrderAssumption DEF Grain, Orders
  <2> QED BY <2>1
<1>2. Exact(mem_map, g)
  BY <1>1, AlignedMap DEF Mergeless, IInv, TypeOK
<1> QED BY <1>1, <1>2 DEF ExactAligned, AlignedAt, ListsAligned, Grained

(***************************************************************************)
(* What follows for the callers.                                           *)
(***************************************************************************)

\* Among aligned blocks, only the block at the address of the buddy is it.
LEMMA NoBuddiesOf ==
  ASSUME NEW B \in SUBSET Block,
         \A b \in B : b.order < ALLOC_MAX_ORDER => Align(b.start, b.order) = b.start,
         \A b, c \in B : b.order = c.order /\ b.order < ALLOC_MAX_ORDER =>
                           c.start # Buddy(b.start, b.order)
  PROVE  NoBuddies(B)
<1> SUFFICES ASSUME NEW b \in B, NEW c \in B, b.order = c.order, b.order < ALLOC_MAX_ORDER,
                    Yield(c) = Span(Buddy(b.start, b.order), b.order)
             PROVE  FALSE
  BY DEF NoBuddies
<1>1. PICK s \in Nat, t \in Nat, k \in Orders :
        s = b.start /\ t = c.start /\ k = b.order /\ k = c.order /\ k < ALLOC_MAX_ORDER
  BY DEF Block
<1>2. PICK x \in Nat : x = Buddy(s, k) /\ Align(x, k) = x
  BY <1>1, BuddyTwice
<1>3. Span(t, k) = Span(x, k) /\ Align(t, k) = t
  BY <1>1, <1>2 DEF Yield
<1>4. t \in Span(x, k)
  BY <1>3, AlignFacts
<1>5. t = x
  BY <1>2, <1>3, <1>4, SameSpan
<1> QED BY <1>1, <1>2, <1>5

\* The free blocks, as a set.
LEMMA FreeSet ==
  ASSUME IInv
  PROVE  /\ FreeBlocks \in SUBSET Block /\ Apart(FreeBlocks)
         /\ \A b \in Block : b \in FreeBlocks <=> b.start \in Range(free_lists[b.order])
<1>1. FreeBlocks = BlocksOn(free_lists)
  BY FreeOf DEF IInv
<1>2. ASSUME NEW b \in FreeBlocks, NEW c \in FreeBlocks, b # c
      PROVE  Yield(b) \intersect Yield(c) = {}
  <2>1. <<"free", b>> \in Pieces /\ <<"free", c>> \in Pieces /\ <<"free", b>> # <<"free", c>>
    BY <1>2 DEF Pieces
  <2> QED BY <2>1 DEF IInv, PiecesApart
<1> QED BY <1>1, <1>2 DEF Apart, BlocksOn

\* Where the lists are merged, no two free blocks are the halves of a larger one.
LEMMA FreeMerged ==
  ASSUME IInv, GrainedLists(free_lists), MergedBut(free_lists, {})
  PROVE  NoBuddies(FreeBlocks)
<1>1. ASSUME NEW b \in FreeBlocks
      PROVE  b \in Block /\ b.order \in Orders /\ b.start \in Range(free_lists[b.order])
  BY FreeSet DEF Block
<1>2. ASSUME NEW b \in FreeBlocks, b.order < ALLOC_MAX_ORDER
      PROVE  Align(b.start, b.order) = b.start
  <2>1. b.order # ALLOC_MAX_ORDER
    BY <1>2, OrderAssumption
  <2>2. Grained(b.start, b.order)
    BY <1>1 DEF GrainedLists
  <2> QED BY <2>1, <2>2 DEF Grained, Grain
<1>3. ASSUME NEW b \in FreeBlocks, NEW c \in FreeBlocks,
             b.order = c.order, b.order < ALLOC_MAX_ORDER
      PROVE  c.start # Buddy(b.start, b.order)
  BY <1>1, <1>3 DEF MergedBut
<1> QED BY <1>2, <1>3, FreeSet, NoBuddiesOf

\* The blocks of the memory map, as a set.
LEMMA MapSet ==
  ASSUME IInv
  PROVE  /\ MapBlocks(mem_map) \in SUBSET Block /\ Apart(MapBlocks(mem_map))
         /\ Mergeless => NoBuddies(MapBlocks(mem_map))
<1>1. PICK m \in MemoryMaps : m = mem_map /\ m \in Seq(Region) /\ Separate(m)
  BY MapAssumption DEF IInv, TypeOK
<1>2. \A r \in DOMAIN m : m[r] \in Region
  BY <1>1
<1>3. ASSUME NEW b \in MapBlocks(m)
      PROVE  \E r \in DOMAIN m : \E j \in 0..(RegionBlocks(m[r]) - 1) : b = RegionBlock(m[r], j)
  BY DEF MapBlocks
<1>4. MapBlocks(m) \in SUBSET Block
  <2> SUFFICES ASSUME NEW b \in MapBlocks(m) PROVE b \in Block
    OBVIOUS
  <2>1. PICK r \in DOMAIN m : \E j \in 0..(RegionBlocks(m[r]) - 1) : b = RegionBlock(m[r], j)
    BY <1>3
  <2>2. PICK j \in 0..(RegionBlocks(m[r]) - 1) : b = RegionBlock(m[r], j)
    BY <2>1
  <2>3. j \in Nat
    BY <1>2, RegionBlockType
  <2> QED BY <1>2, <2>2, <2>3, RegionBlockType
<1>5. Apart(MapBlocks(m))
  <2> SUFFICES ASSUME NEW b \in MapBlocks(m), NEW c \in MapBlocks(m), b # c
               PROVE  Yield(b) \intersect Yield(c) = {}
    BY DEF Apart
  <2>1. PICK r1 \in DOMAIN m : \E j \in 0..(RegionBlocks(m[r1]) - 1) : b = RegionBlock(m[r1], j)
    BY <1>3
  <2>2. PICK j1 \in 0..(RegionBlocks(m[r1]) - 1) : b = RegionBlock(m[r1], j1)
    BY <2>1
  <2>3. PICK r2 \in DOMAIN m : \E j \in 0..(RegionBlocks(m[r2]) - 1) : c = RegionBlock(m[r2], j)
    BY <1>3
  <2>4. PICK j2 \in 0..(RegionBlocks(m[r2]) - 1) : c = RegionBlock(m[r2], j2)
    BY <2>3
  <2>5. <<r1, j1>> # <<r2, j2>>
    BY <2>2, <2>4
  <2> QED BY <1>1, <2>2, <2>4, <2>5 DEF Separate
<1>6. ASSUME Mergeless PROVE NoBuddies(MapBlocks(m))
  <2>1. \A b \in MapBlocks(m) : b.order < ALLOC_MAX_ORDER => Align(b.start, b.order) = b.start
    BY <1>1, <1>6 DEF Mergeless, Aligned
  <2>2. \A b, c \in MapBlocks(m) : b.order = c.order /\ b.order < ALLOC_MAX_ORDER =>
                                     c.start # Buddy(b.start, b.order)
    BY <1>1, <1>6 DEF Mergeless
  <2> QED BY <1>4, <2>1, <2>2, NoBuddiesOf
<1> QED BY <1>1, <1>4, <1>5, <1>6

\* Between calls the free blocks are merged.
LEMMA IdleMerged ==
  ASSUME IInv, ExactAligned, Merging, Mergeless,
         pc = "idle" \/ (pc = "halted" /\ nodes # NodeLimit)
  PROVE  GrainedLists(free_lists) /\ NoBuddies(FreeBlocks)
BY FreeMerged, ListsGrained DEF Merging, Merged, BeingSplit

\* Once every block is returned, the lists hold the blocks that initialize()
\* made: free() undoes all the splits of allocate(), in whatever order the
\* calls come.
THEOREM RestoredAlways == Spec => []Restored
<1>1. ASSUME Known PROVE Restored
  <2> DEFINE B == FreeBlocks
             C == MapBlocks(mem_map)
  <2> SUFFICES ASSUME Mergeless, pc = "idle", held = {}
               PROVE  {<<Yield(b), b.order>> : b \in B} = {<<Yield(b), b.order>> : b \in C}
    BY DEF Restored
  <2>0. IInv /\ ExactAligned /\ Merging
    BY <1>1 DEF Known
  <2>1. /\ B \in SUBSET Block /\ Apart(B) /\ NoBuddies(B)
        /\ C \in SUBSET Block /\ Apart(C) /\ NoBuddies(C)
    BY <2>0, FreeSet, MapSet, IdleMerged DEF IInv
  <2>2. YieldOf(B) = YieldOf(C)
    <3>1. InHand = {} /\ FreeBlocks = BlocksOn(free_lists)
      BY <2>0, InHandOf, FreeOf DEF IInv
    <3>2. Pieces = PieceSet(B, {}, {})
      BY <2>0, <3>1, PiecesOf DEF IInv
    <3>3. YieldIn(Pieces) = YieldOf(C)
      BY <2>0 DEF IInv, AllFrames, Merging, Booted
    <3> QED BY <3>2, <3>3, FreeFrames
  <2> HIDE DEF B, C
  <2>3. ASSUME NEW b \in B PROVE \E c \in C : Yield(c) = Yield(b) /\ c.order = b.order
    BY <2>1, <2>2, SameCover
  <2>4. ASSUME NEW c \in C PROVE \E b \in B : Yield(b) = Yield(c) /\ b.order = c.order
    BY <2>1, <2>2, SameCover
  <2> QED BY <2>3, <2>4
<1> QED BY <1>1, AlwaysKnown, PTL

\* The machine stops in the allocator only when the nodes are used up or no
\* aligned run of free frames is as large as the request.
THEOREM HaltExhausted == Spec => []HaltMeansExhausted
<1>1. ASSUME Known PROVE HaltMeansExhausted
  <2> SUFFICES ASSUME Mergeless, pc = "halted", nodes # NodeLimit,
                      NEW f \in YieldOf(FreeBlocks), Span(f, goal) \subseteq YieldOf(FreeBlocks)
               PROVE  FALSE
    BY DEF HaltMeansExhausted
  <2>0. IInv /\ ExactAligned /\ Merging
    BY <1>1 DEF Known
  <2>1. FreeBlocks \in SUBSET Block /\ Apart(FreeBlocks) /\ NoBuddies(FreeBlocks)
    BY <2>0, FreeSet, IdleMerged
  <2>2. f \in Nat /\ goal \in Orders
    <3>1. PICK b \in FreeBlocks : f \in Yield(b)
      BY DEF YieldOf
    <3>2. b.start \in Nat /\ b.order \in Orders
      BY <2>1, <3>1 DEF Block
    <3> QED BY <2>0, <3>1, <3>2, SameSpan DEF Yield, IInv, TypeOK
  <2>3. PICK b \in FreeBlocks : b.order >= goal
    BY <2>1, <2>2, Covering
  <2>4. free_lists[b.order] = <<>> /\ b.start \in Range(free_lists[b.order])
    BY <2>0, <2>1, <2>3, FreeSet DEF Merging, WhyHalted, Block
  <2> QED BY <2>4 DEF Range
<1> QED BY <1>1, AlwaysKnown, PTL

\* is_allocated() answers FALSE exactly when the whole of the aligned block is
\* free, as long as the highest order, which its search leaves out, is empty.
THEOREM SearchExact == Spec => []IsAllocatedExact
<1>1. ASSUME Known PROVE IsAllocatedExact
  <2> SUFFICES ASSUME Mergeless, pc = "idle", free_lists[ALLOC_MAX_ORDER] = <<>>,
                      NEW f \in YieldOf(MapBlocks(mem_map)),
                      NEW n \in Requests, n <= BlockSize[ALLOC_MAX_ORDER]
               PROVE  IsAllocated(f, n) <=>
                        ~(Span(f, GetAllocOrder(n)) \subseteq YieldOf(FreeBlocks))
    BY DEF IsAllocatedExact
  <2>0. IInv /\ ExactAligned /\ Merging
    BY <1>1 DEF Known
  <2>1. FreeBlocks \in SUBSET Block /\ Apart(FreeBlocks) /\ NoBuddies(FreeBlocks)
    BY <2>0, FreeSet, IdleMerged
  <2>2. GrainedLists(free_lists)
    BY <2>0, IdleMerged
  <2>3. f \in Nat
    <3>1. PICK b \in MapBlocks(mem_map) : f \in Yield(b)
      BY DEF YieldOf
    <3>2. b.start \in Nat /\ b.order \in Orders
      BY <2>0, <3>1, MapSet DEF Block, IInv
    <3> QED BY <3>1, <3>2, SameSpan DEF Yield
  <2>4. PICK k \in Orders : k = GetAllocOrder(n)
    BY RequestAssumption, RequestOrder
  <2>5. IsAllocated(f, n) <=> ~OnList(f, k) /\ ~HasParent(f, k)
    BY <2>4 DEF IsAllocated
  <2>6. ASSUME Span(f, k) \subseteq YieldOf(FreeBlocks) PROVE OnList(f, k) \/ HasParent(f, k)
    <3>1. PICK b \in FreeBlocks : b.order >= k /\ f \in Yield(b)
      BY <2>1, <2>3, <2>6, Covering
    <3>2. PICK s \in Nat, i \in Orders :
            s = b.start /\ i = b.order /\ s \in Range(free_lists[i]) /\ f \in Span(s, i)
      BY <2>0, <2>1, <3>1, FreeSet DEF Block, Yield
    <3>3. i # ALLOC_MAX_ORDER
      BY <3>2 DEF Range
    <3>4. Align(s, i) = s
      BY <2>2, <3>2, <3>3 DEF GrainedLists, Grained, Grain
    <3>5. OnList(f, i)
      BY <3>2, <3>4, SameSpan DEF OnList
    <3>6. i = k \/ i \in (k+1)..(ALLOC_MAX_ORDER-1)
      BY <3>1, <3>2, <3>3, OrderAssumption DEF Orders
    <3> QED BY <3>5, <3>6 DEF HasParent
  <2>7. ASSUME NEW i \in Orders, k <= i, OnList(f, i)
        PROVE  Span(f, k) \subseteq YieldOf(FreeBlocks)
    <3>1. Align(f, i) \in Nat /\ Span(Align(f, i), i) = Span(f, i)
      BY <2>3, AlignFacts
    <3>2. MkBlock(Align(f, i), i) \in FreeBlocks
      BY <2>0, <2>7, <3>1, BlockFields, FreeSet DEF OnList
    <3>3. Span(f, i) \subseteq YieldOf(FreeBlocks)
      BY <3>1, <3>2, BlockFields DEF Yield, YieldOf
    <3> QED BY <2>3, <2>7, <3>3, SpanNest
  <2>8. ASSUME OnList(f, k) \/ HasParent(f, k) PROVE Span(f, k) \subseteq YieldOf(FreeBlocks)
    <3>1. k <= k /\ \A i \in (k+1)..(ALLOC_MAX_ORDER-1) : i \in Orders /\ k <= i
      BY OrderAssumption DEF Orders
    <3> QED BY <2>7, <2>8, <3>1 DEF HasParent
  <2> QED BY <2>4, <2>5, <2>6, <2>8
<1> QED BY <1>1, AlwaysKnown, PTL

(***************************************************************************)
(* The nodes.                                                              *)
(***************************************************************************)

LinkedOf(L) == UNION {{k} \X DOMAIN L[k] : k \in Orders}

\* Every list has as many nodes as its length; the set of all of them is finite.
Accounted ==
  /\ IsFiniteSet(Linked)
  /\ nodes = Cardinality(Linked) + Cardinality(InHand)

\* A push makes a list longer by one, a pop or an unlinking shorter by one.
LEMMA ListLengths ==
  ASSUME NEW l \in Seq(Nat)
  PROVE  /\ \A s \in Nat : Len(Cons(s, l)) = Len(l) + 1
         /\ l # <<>> => Len(Tail(l)) = Len(l) - 1
         /\ \A i \in DOMAIN l : Len(RemoveAt(l, i)) = Len(l) - 1
<1>1. ASSUME NEW s \in Nat PROVE Len(Cons(s, l)) = Len(l) + 1
  <2>1. <<s>> \in Seq(Nat) /\ Len(<<s>>) = 1
    OBVIOUS
  <2>2. Len(<<s>> \o l) = Len(<<s>>) + Len(l)
    BY <2>1, ConcatProperties
  <2>3. Len(l) \in Nat
    BY SeqFunction
  <2> QED BY <2>1, <2>2, <2>3 DEF Cons
<1>2. l # <<>> => Len(Tail(l)) = Len(l) - 1
  OBVIOUS
<1>3. ASSUME NEW i \in DOMAIN l PROVE Len(RemoveAt(l, i)) = Len(l) - 1
  <2>1. PICK n \in Nat : n = Len(l) /\ i \in 1..n
    BY SeqFunction
  <2>2. /\ SubSeq(l, 1, i-1) \in Seq(Nat) /\ Len(SubSeq(l, 1, i-1)) = i - 1
        /\ SubSeq(l, i+1, n) \in Seq(Nat) /\ Len(SubSeq(l, i+1, n)) = n - i
    BY <2>1
  <2>3. Len(SubSeq(l, 1, i-1) \o SubSeq(l, i+1, n)) = (i - 1) + (n - i)
    BY <2>2, ConcatProperties
  <2> QED BY <2>1, <2>3 DEF RemoveAt
<1> QED BY <1>1, <1>2, <1>3

\* One list grows by a node.
LEMMA LinkOne ==
  ASSUME NEW L \in Lists, NEW M \in Lists, NEW k \in Orders, Len(M[k]) = Len(L[k]) + 1,
         \A j \in Orders \ {k} : Len(M[j]) = Len(L[j])
  PROVE  /\ LinkedOf(M) = LinkedOf(L) \union {<<k, Len(M[k])>>}
         /\ <<k, Len(M[k])>> \notin LinkedOf(L)
<1>1. \A j \in Orders : /\ Len(L[j]) \in Nat /\ DOMAIN L[j] = 1..Len(L[j])
                        /\ Len(M[j]) \in Nat /\ DOMAIN M[j] = 1..Len(M[j])
  BY SeqFunction DEF Lists
<1>2. DOMAIN M[k] = DOMAIN L[k] \union {Len(M[k])} /\ Len(M[k]) \notin DOMAIN L[k]
  BY <1>1
<1>3. \A j \in Orders \ {k} : DOMAIN M[j] = DOMAIN L[j]
  BY <1>1
<1> QED BY <1>2, <1>3 DEF LinkedOf

\* How the number of linked nodes changes.
LEMMA LinkCount ==
  ASSUME NEW L \in Lists, NEW M \in Lists, NEW k \in Orders,
         \A j \in Orders \ {k} : Len(M[j]) = Len(L[j]),
         IsFiniteSet(LinkedOf(L))
  PROVE  /\ Cardinality(LinkedOf(L)) \in Nat
         /\ Len(M[k]) = Len(L[k]) + 1 =>
              /\ IsFiniteSet(LinkedOf(M))
              /\ Cardinality(LinkedOf(M)) = Cardinality(LinkedOf(L)) + 1
         /\ Len(M[k]) = Len(L[k]) - 1 =>
              /\ IsFiniteSet(LinkedOf(M))
              /\ Cardinality(LinkedOf(M)) = Cardinality(LinkedOf(L)) - 1
<1>0. Len(L[k]) \in Nat /\ Len(M[k]) \in Nat
  BY SeqFunction DEF Lists
<1>1. Cardinality(LinkedOf(L)) \in Nat
  BY FS_CardinalityType
<1>2. ASSUME Len(M[k]) = Len(L[k]) + 1
      PROVE  /\ IsFiniteSet(LinkedOf(M))
             /\ Cardinality(LinkedOf(M)) = Cardinality(LinkedOf(L)) + 1
  <2>1. /\ LinkedOf(M) = LinkedOf(L) \union {<<k, Len(M[k])>>}
        /\ <<k, Len(M[k])>> \notin LinkedOf(L)
    BY <1>2, LinkOne
  <2> QED BY <2>1, FS_AddElement
<1>3. ASSUME Len(M[k]) = Len(L[k]) - 1
      PROVE  /\ IsFiniteSet(LinkedOf(M))
             /\ Cardinality(LinkedOf(M)) = Cardinality(LinkedOf(L)) - 1
  <2>1. Len(L[k]) = Len(M[k]) + 1 /\ \A j \in Orders \ {k} : Len(L[j]) = Len(M[j])
    BY <1>0, <1>3
  <2> DEFINE x == <<k, Len(L[k])>>
  <2>2. LinkedOf(L) = LinkedOf(M) \union {x} /\ x \notin LinkedOf(M)
    BY <2>1, LinkOne
  <2> HIDE DEF x
  <2>3. LinkedOf(M) = LinkedOf(L) \ {x} /\ x \in LinkedOf(L)
    BY <2>2
  <2> QED BY <2>3, FS_RemoveElement
<1> QED BY <1>1, <1>2, <1>3

\* What the operations of the code do to the number of linked nodes.
LEMMA LinkSteps ==
  ASSUME NEW L \in Lists, IsFiniteSet(LinkedOf(L)), NEW k \in Orders
  PROVE  /\ Cardinality(LinkedOf(L)) \in Nat
         /\ \A s \in Nat : LET M == [L EXCEPT ![k] = Cons(s, @)]
                           IN  /\ IsFiniteSet(LinkedOf(M))
                               /\ Cardinality(LinkedOf(M)) = Cardinality(LinkedOf(L)) + 1
         /\ L[k] # <<>> => LET M == [L EXCEPT ![k] = Tail(@)]
                           IN  /\ IsFiniteSet(LinkedOf(M))
                               /\ Cardinality(LinkedOf(M)) = Cardinality(LinkedOf(L)) - 1
         /\ \A i \in DOMAIN L[k] : LET M == [L EXCEPT ![k] = RemoveAt(@, i)]
                                   IN  /\ IsFiniteSet(LinkedOf(M))
                                       /\ Cardinality(LinkedOf(M)) = Cardinality(LinkedOf(L)) - 1
<1>0. L[k] \in Seq(Nat)
  BY DEF Lists
<1>1. ASSUME NEW l \in Seq(Nat)
      PROVE  /\ [L EXCEPT ![k] = l] \in Lists /\ [L EXCEPT ![k] = l][k] = l
             /\ \A j \in Orders \ {k} : Len([L EXCEPT ![k] = l][j]) = Len(L[j])
  BY DEF Lists
<1>2. Cardinality(LinkedOf(L)) \in Nat
  BY FS_CardinalityType
<1>3. ASSUME NEW s \in Nat
      PROVE  LET M == [L EXCEPT ![k] = Cons(s, @)]
             IN  /\ IsFiniteSet(LinkedOf(M))
                 /\ Cardinality(LinkedOf(M)) = Cardinality(LinkedOf(L)) + 1
  <2>1. PICK l \in Seq(Nat) : l = Cons(s, L[k]) /\ Len(l) = Len(L[k]) + 1
    BY <1>0, PushList, ListLengths
  <2>2. PICK M \in Lists : /\ M = [L EXCEPT ![k] = l] /\ M[k] = l
                           /\ \A j \in Orders \ {k} : Len(M[j]) = Len(L[j])
    BY <1>1
  <2>3. IsFiniteSet(LinkedOf(M)) /\ Cardinality(LinkedOf(M)) = Cardinality(LinkedOf(L)) + 1
    BY <2>1, <2>2, LinkCount
  <2> QED BY <2>1, <2>2, <2>3
<1>4. ASSUME L[k] # <<>>
      PROVE  LET M == [L EXCEPT ![k] = Tail(@)]
             IN  /\ IsFiniteSet(LinkedOf(M))
                 /\ Cardinality(LinkedOf(M)) = Cardinality(LinkedOf(L)) - 1
  <2>1. PICK l \in Seq(Nat) : l = Tail(L[k]) /\ Len(l) = Len(L[k]) - 1
    BY <1>0, <1>4, PopList, ListLengths
  <2>2. PICK M \in Lists : /\ M = [L EXCEPT ![k] = l] /\ M[k] = l
                           /\ \A j \in Orders \ {k} : Len(M[j]) = Len(L[j])
    BY <1>1
  <2>3. IsFiniteSet(LinkedOf(M)) /\ Cardinality(LinkedOf(M)) = Cardinality(LinkedOf(L)) - 1
    BY <2>1, <2>2, LinkCount
  <2> QED BY <2>1, <2>2, <2>3
<1>5. ASSUME NEW i \in DOMAIN L[k]
      PROVE  LET M == [L EXCEPT ![k] = RemoveAt(@, i)]
             IN  /\ IsFiniteSet(LinkedOf(M))
                 /\ Cardinality(LinkedOf(M)) = Cardinality(LinkedOf(L)) - 1
  <2>1. PICK l \in Seq(Nat) : l = RemoveAt(L[k], i) /\ Len(l) = Len(L[k]) - 1
    <3>1. Len(L[k]) \in Nat /\ i \in 1..Len(L[k])
      BY <1>0, SeqFunction
    <3>2. RemoveAt(L[k], i) \in Seq(Nat)
      BY <1>0, <3>1, UnlinkList
    <3> QED BY <1>0, <3>2, ListLengths
  <2>2. PICK M \in Lists : /\ M = [L EXCEPT ![k] = l] /\ M[k] = l
                           /\ \A j \in Orders \ {k} : Len(M[j]) = Len(L[j])
    BY <1>1
  <2>3. IsFiniteSet(LinkedOf(M)) /\ Cardinality(LinkedOf(M)) = Cardinality(LinkedOf(L)) - 1
    BY <2>1, <2>2, LinkCount
  <2> QED BY <2>1, <2>2, <2>3
<1> QED BY <1>2, <1>3, <1>4, <1>5

\* No call leaks a node or frees one twice.
LEMMA AccountedStep ==
  ASSUME TypeOK, EmptyBelow, Accounted, [Next]_vars
  PROVE  Accounted'
<1>0. /\ free_lists \in Lists /\ lvl \in Orders /\ goal \in Orders /\ blk \in Nat /\ nodes \in Int
      /\ Linked = LinkedOf(free_lists) /\ Linked' = LinkedOf(free_lists')
      /\ IsFiniteSet(LinkedOf(free_lists)) /\ Cardinality(LinkedOf(free_lists)) \in Nat
      /\ nodes = Cardinality(LinkedOf(free_lists)) + Cardinality(InHand)
  BY FS_CardinalityType DEF TypeOK, Lists, Linked, LinkedOf, Accounted
<1>hand. /\ pc = "add" => Cardinality(InHand) = 1
         /\ pc # "add" => Cardinality(InHand) = 0
         /\ pc' = "add" => Cardinality(InHand') = 1
         /\ pc' # "add" => Cardinality(InHand') = 0
  BY InHandOf, FS_EmptySet, FS_Singleton
<1>to. ASSUME IsFiniteSet(LinkedOf(free_lists')),
              nodes' = Cardinality(LinkedOf(free_lists')) + Cardinality(InHand')
       PROVE  Accounted'
  BY <1>0, <1>to DEF Accounted
<1>same. ASSUME free_lists' = free_lists, nodes' = nodes, pc # "add", pc' # "add"
         PROVE  Accounted'
  BY <1>0, <1>hand, <1>same, <1>to
<1>1. CASE BootBlock
  <2>1. PICK s \in Nat, k \in Orders : free_lists' = [free_lists EXCEPT ![k] = Cons(s, @)]
    <3>1. mem_map[region] \in Region /\ placed \in Nat
      BY <1>1, MapAssumption DEF BootBlock, TypeOK
    <3>2. RegionBlock(mem_map[region], placed) \in Block
      BY <3>1, RegionBlockType
    <3> QED BY <1>1, <3>2 DEF BootBlock, Block
  <2>2. /\ IsFiniteSet(LinkedOf(free_lists'))
        /\ Cardinality(LinkedOf(free_lists')) = Cardinality(LinkedOf(free_lists)) + 1
    BY <1>0, <2>1, LinkSteps
  <2>3. nodes' = nodes + 1 /\ pc = "boot" /\ pc' = "boot"
    BY <1>1 DEF BootBlock
  <2> QED BY <1>0, <1>hand, <1>to, <2>2, <2>3
<1>2. CASE BootFault \/ BootRegion \/ BootDone \/ FreeFault
  BY <1>2, <1>same DEF BootFault, BootRegion, BootDone, FreeFault, Halt
<1>3. CASE FillDescend \/ FillStop \/ SplitFault \/ TakeFault
  BY <1>3, <1>same DEF FillDescend, FillStop, FillReturn, SplitFault, TakeFault, Halt
<1>4. CASE Split
  <2>1. /\ lvl + 1 \in Orders /\ lvl # lvl + 1
        /\ free_lists[lvl+1] # <<>> /\ free_lists[lvl] = <<>>
    <3>1. lvl < ALLOC_MAX_ORDER /\ goal <= lvl /\ pc = "split" /\ free_lists[lvl+1] # <<>>
      BY <1>4 DEF Split, TypeOK
    <3>2. lvl + 1 \in Orders /\ lvl # lvl + 1 /\ lvl <= lvl
      BY <1>0, <3>1, OrderAssumption DEF Orders
    <3> QED BY <1>0, <3>1, <3>2 DEF EmptyBelow
  <2>2. PICK o \in Nat, b \in Nat : o = Head(free_lists[lvl+1]) /\ b = Buddy(o, lvl)
    <3>1. Head(free_lists[lvl+1]) \in Nat
      BY <1>0, <2>1, PopList DEF Lists
    <3>2. lvl < ALLOC_MAX_ORDER
      BY <1>4 DEF Split, TypeOK
    <3> QED BY <1>0, <3>1, <3>2, Halves
  <2>3. PICK l \in Seq(Nat) : l = Tail(free_lists[lvl+1])
    BY <1>0, <2>1, PopList DEF Lists
  <2>4. PICK K \in Lists :
          /\ K = [free_lists EXCEPT ![lvl+1] = Tail(@)]
          /\ IsFiniteSet(LinkedOf(K))
          /\ Cardinality(LinkedOf(K)) = Cardinality(LinkedOf(free_lists)) - 1
    <3>1. [free_lists EXCEPT ![lvl+1] = Tail(@)] \in Lists
      BY <1>0, <2>1, <2>3 DEF Lists
    <3> QED BY <1>0, <2>1, <3>1, LinkSteps
  <2>5. PICK H \in Lists :
          /\ H = [K EXCEPT ![lvl] = <<o>>]
          /\ IsFiniteSet(LinkedOf(H))
          /\ Cardinality(LinkedOf(H)) = Cardinality(LinkedOf(K)) + 1
    <3>1. K[lvl] = <<>>
      BY <1>0, <2>1, <2>4 DEF Lists
    <3>2. PICK u \in Seq(Nat) : u = <<o>> /\ Len(u) = 1 /\ Len(<<>>) = 0
      <4>1. <<o>> \in Seq(Nat) /\ Len(<<o>>) = 1 /\ Len(<<>>) = 0
        OBVIOUS
      <4> QED BY <4>1, Zenon
    <3> DEFINE H == [K EXCEPT ![lvl] = u]
    <3>3. H \in Lists /\ H[lvl] = u /\ \A j \in Orders \ {lvl} : Len(H[j]) = Len(K[j])
      BY <1>0 DEF Lists
    <3>4. H = [K EXCEPT ![lvl] = <<o>>]
      BY <3>2, Zenon
    <3> HIDE DEF H
    <3>5. Len(H[lvl]) = Len(K[lvl]) + 1
      BY <3>1, <3>2, <3>3
    <3>6. IsFiniteSet(LinkedOf(H)) /\ Cardinality(LinkedOf(H)) = Cardinality(LinkedOf(K)) + 1
      BY <1>0, <2>4, <3>3, <3>5, LinkCount
    <3> QED BY <3>3, <3>4, <3>6
  <2>6. PICK M \in Lists :
          /\ M = [K EXCEPT ![lvl] = <<b, o>>]
          /\ IsFiniteSet(LinkedOf(M))
          /\ Cardinality(LinkedOf(M)) = Cardinality(LinkedOf(H)) + 1
    <3>1. PICK u \in Seq(Nat) : u = <<b, o>> /\ Len(u) = 2
      <4>1. <<b, o>> \in Seq(Nat) /\ Len(<<b, o>>) = 2
        OBVIOUS
      <4> QED BY <4>1, Zenon
    <3>2. Len(H[lvl]) = 1 /\ \A j \in Orders \ {lvl} : H[j] = K[j]
      BY <1>0, <2>5 DEF Lists
    <3> DEFINE M == [K EXCEPT ![lvl] = u]
    <3>3. M \in Lists /\ M[lvl] = u /\ \A j \in Orders \ {lvl} : Len(M[j]) = Len(H[j])
      BY <1>0, <3>2 DEF Lists
    <3>4. M = [K EXCEPT ![lvl] = <<b, o>>]
      BY <3>1, Zenon
    <3> HIDE DEF M
    <3>5. Len(M[lvl]) = Len(H[lvl]) + 1
      BY <3>1, <3>2, <3>3
    <3>6. IsFiniteSet(LinkedOf(M)) /\ Cardinality(LinkedOf(M)) = Cardinality(LinkedOf(H)) + 1
      BY <1>0, <2>5, <3>3, <3>5, LinkCount
    <3> QED BY <3>3, <3>4, <3>6
  <2>7. free_lists' = M
    <3>1. free_lists' = [free_lists EXCEPT ![lvl+1] = Tail(@), ![lvl] = <<b, o>>]
      BY <1>4, <2>2 DEF Split
    <3> QED BY <2>4, <2>6, <3>1, Zenon
  <2>8. nodes' = nodes + 1 /\ pc # "add" /\ pc' # "add"
    BY <1>4 DEF Split, FillReturn
  <2>9. Cardinality(LinkedOf(free_lists')) = Cardinality(LinkedOf(free_lists)) + 1
    BY <1>0, <2>4, <2>5, <2>6, <2>7
  <2> QED BY <1>0, <1>hand, <1>to, <2>6, <2>7, <2>8, <2>9
<1>5. CASE Take
  <2>1. /\ free_lists' = [free_lists EXCEPT ![goal] = Tail(@)] /\ free_lists[goal] # <<>>
        /\ nodes' = nodes - 1 /\ pc = "take" /\ pc' = "idle"
    BY <1>5 DEF Take, Return
  <2>2. /\ IsFiniteSet(LinkedOf(free_lists'))
        /\ Cardinality(LinkedOf(free_lists')) = Cardinality(LinkedOf(free_lists)) - 1
    BY <1>0, <2>1, LinkSteps
  <2> QED BY <1>0, <1>hand, <1>to, <2>1, <2>2
<1>6. ASSUME NEW s \in Nat, free_lists' = [free_lists EXCEPT ![lvl] = Cons(s, @)],
             nodes' = nodes, pc = "add", pc' = "idle"
      PROVE  Accounted'
  <2>1. /\ IsFiniteSet(LinkedOf(free_lists'))
        /\ Cardinality(LinkedOf(free_lists')) = Cardinality(LinkedOf(free_lists)) + 1
    BY <1>0, <1>6, LinkSteps
  <2> QED BY <1>0, <1>hand, <1>to, <1>6, <2>1
<1>7. CASE AddTop
  BY <1>0, <1>6, <1>7 DEF AddTop, Return
<1>8. CASE AddPush
  <2>1. Align(blk, lvl) \in Nat
    BY <1>0, AlignFacts
  <2> QED BY <1>6, <1>8, <2>1 DEF AddPush, Return
<1>9. CASE AddMerge
  <2>1. PICK i \in DOMAIN free_lists[lvl] :
          free_lists' = [free_lists EXCEPT ![lvl] = RemoveAt(@, i)]
    BY <1>9 DEF AddMerge
  <2>2. nodes' = nodes - 1 /\ pc = "add" /\ pc' = "add"
    BY <1>9 DEF AddMerge
  <2>3. /\ IsFiniteSet(LinkedOf(free_lists'))
        /\ Cardinality(LinkedOf(free_lists')) = Cardinality(LinkedOf(free_lists)) - 1
    BY <1>0, <2>1, LinkSteps
  <2> QED BY <1>0, <1>hand, <1>to, <2>2, <2>3
<1>10. ASSUME NEW n \in Requests, Allocate(n) \/ Refuse(n) PROVE Accounted'
  BY <1>10, <1>same DEF Allocate, Refuse, vars
<1>11. ASSUME NEW b \in held, Free(b) PROVE Accounted'
  <2>1. free_lists' = free_lists /\ nodes' = nodes + 1 /\ pc = "idle" /\ pc' = "add"
    BY <1>11 DEF Free
  <2> QED BY <1>0, <1>hand, <1>to, <2>1
<1>12. ASSUME NEW r \in Reservations, ReserveExact(r[1], r[2]) PROVE Accounted'
  <2>1. r[1] \in Nat /\ r[2] \in Nat /\ r[2] <= BlockSize[ALLOC_MAX_ORDER]
    BY RequestAssumption, OrderAssumption, BlockSizeAssumption DEF Orders
  <2>2. PICK k \in Orders : k = GetAllocOrder(r[2])
    BY <2>1, RequestOrder
  <2>3. PICK i \in DOMAIN free_lists[k] :
          free_lists' = [free_lists EXCEPT ![k] = RemoveAt(@, i)]
    BY <1>12, <2>2 DEF ReserveExact
  <2>4. nodes' = nodes - 1 /\ pc = "idle" /\ pc' = "idle"
    BY <1>12 DEF ReserveExact
  <2>5. /\ IsFiniteSet(LinkedOf(free_lists'))
        /\ Cardinality(LinkedOf(free_lists')) = Cardinality(LinkedOf(free_lists)) - 1
    BY <1>0, <2>3, LinkSteps
  <2> QED BY <1>0, <1>hand, <1>to, <2>4, <2>5
<1>13. ASSUME NEW r \in Reservations, ReserveAbsent(r[1], r[2]) \/ ReserveLost(r[1], r[2])
       PROVE Accounted'
  BY <1>13, <1>same DEF ReserveAbsent, ReserveLost, vars
<1>14. CASE Stopped \/ UNCHANGED vars
  BY <1>14 DEF Stopped, vars, Accounted, Linked, InHand
<1> QED BY <1>1, <1>2, <1>3, <1>4, <1>5, <1>7, <1>8, <1>9, <1>10, <1>11, <1>12, <1>13, <1>14
        DEF Next, Step

\* No node leaks through any run of splits, merges and reservations, and none
\* is freed twice: as many are allocated as are linked or in hand.
THEOREM NodesKept == Spec => []NodesAccounted
<1>1. Init => EmptyBelow /\ Accounted
  <2> SUFFICES ASSUME Init PROVE EmptyBelow /\ Accounted
    OBVIOUS
  <2>1. InHand = {} /\ nodes = 0
    BY InHandOf DEF Init
  <2>2. \A k \in Orders : DOMAIN free_lists[k] = {}
    BY DEF Init
  <2>3. Linked = {}
    BY <2>2 DEF Linked
  <2>4. EmptyBelow
    BY DEF Init, EmptyBelow
  <2> QED BY <2>1, <2>3, <2>4, FS_EmptySet DEF Accounted
<1>2. TypeOK /\ EmptyBelow /\ Accounted /\ [Next]_vars => EmptyBelow' /\ Accounted'
  BY AccountedStep, EmptyStep
<1>3. Accounted => NodesAccounted
  BY DEF Accounted, NodesAccounted
<1> QED BY <1>1, <1>2, <1>3, TypeCorrect, PTL DEF Spec
=============================================================================

------------------------ MODULE PhysicalMemoryProofs ------------------------
(***************************************************************************)
(* Theorems about the physical memory manager, for every highest order,    *)
(* every memory map whose blocks are apart, every request and every        *)
(* capacity of kmalloc(): type correctness, exclusion, conservation, and   *)
(* that it implements FrameAllocator.  First come facts about the          *)
(* operators PhysicalMemory is built from: arithmetic of aligned blocks,   *)
(* the orders of requests and regions, and what pushing, popping and       *)
(* unlinking do to a free list.                                            *)
(***************************************************************************)
EXTENDS PhysicalMemory, SequenceTheorems, WellFoundedInduction, TLAPS

(***************************************************************************)
(* Division.                                                               *)
(***************************************************************************)

\* Division with remainder: the quotient and the remainder are unique.
LEMMA DivisionUnique ==
  ASSUME NEW S \in Nat \ {0}, NEW q1 \in Int, NEW q2 \in Int,
         NEW r1 \in 0..(S-1), NEW r2 \in 0..(S-1),
         (S * q1) + r1 = (S * q2) + r2
  PROVE  q1 = q2 /\ r1 = r2
<1>1. ~(q1 < q2)
  <2> SUFFICES ASSUME q1 < q2 PROVE FALSE
    OBVIOUS
  <2>1. S * (q2 - q1) >= S
    OBVIOUS
  <2>2. S * (q2 - q1) = (S * q2) - (S * q1)
    OBVIOUS
  <2> QED BY <2>1, <2>2
<1>2. ~(q2 < q1)
  <2> SUFFICES ASSUME q2 < q1 PROVE FALSE
    OBVIOUS
  <2>1. S * (q1 - q2) >= S
    OBVIOUS
  <2>2. S * (q1 - q2) = (S * q1) - (S * q2)
    OBVIOUS
  <2> QED BY <2>1, <2>2
<1> QED BY <1>1, <1>2

\* The remainder lies below the divisor (align_block clears low bits only).
LEMMA DivisionBound ==
  ASSUME NEW s \in Nat, NEW S \in Nat \ {0}
  PROVE  /\ s \div S \in Nat
         /\ s % S \in 0..(S-1)
         /\ s = (S * (s \div S)) + (s % S)
  OBVIOUS

\* A number written as a multiple of S and a rest below S has that remainder.
LEMMA Remainder ==
  ASSUME NEW S \in Nat \ {0}, NEW q \in Nat, NEW r \in 0..(S-1),
         NEW s \in Nat, s = (S * q) + r
  PROVE  s % S = r
<1>1. PICK d \in Nat, m \in 0..(S-1) : s = (S * d) + m /\ m = s % S
  BY DivisionBound
<1>2. (S * q) + r = (S * d) + m
  BY <1>1
<1>3. m = r
  BY <1>2, DivisionUnique
<1> QED BY <1>1, <1>3

\* The remainder by S, from the remainder by 2S: bit k of an address decides.
LEMMA HalfRemainder ==
  ASSUME NEW s \in Nat, NEW S \in Nat \ {0}, NEW T \in Nat \ {0}, T = 2 * S
  PROVE  s % S = IF s % T < S THEN s % T ELSE (s % T) - S
<1> DEFINE q == s \div T
           r == s % T
<1>1. q \in Nat /\ r \in 0..(T-1) /\ s = (T * q) + r
  BY DivisionBound
<1> HIDE DEF q, r
<1>2. CASE r < S
  <2>1. PICK p \in Nat : p = 2 * q
    BY <1>1
  <2>2. s = (S * p) + r
    BY <1>1, <2>1
  <2>3. s % S = r
    BY <1>1, <1>2, <2>2, Remainder
  <2> QED BY <2>3, <1>2 DEF r
<1>3. CASE ~(r < S)
  <2>1. PICK p \in Nat : p = (2 * q) + 1
    BY <1>1
  <2>2. PICK m \in 0..(S-1) : m = r - S
    BY <1>1, <1>3
  <2>3. s = (S * p) + m
    BY <1>1, <2>1, <2>2
  <2>4. s % S = m
    BY <2>3, Remainder
  <2> QED BY <2>2, <2>4, <1>3 DEF r
<1> QED BY <1>2, <1>3

\* Adding or taking away S leaves the remainder by S alone.
LEMMA ShiftRemainder ==
  ASSUME NEW s \in Nat, NEW S \in Nat \ {0}
  PROVE  /\ (s + S) % S = s % S
         /\ s >= S => (s - S) % S = s % S
<1> DEFINE q == s \div S
           r == s % S
<1>1. q \in Nat /\ r \in 0..(S-1) /\ s = (S * q) + r
  BY DivisionBound
<1> HIDE DEF q, r
<1>2. (s + S) % S = r
  <2>1. s + S \in Nat /\ q + 1 \in Nat /\ s + S = (S * (q + 1)) + r
    BY <1>1
  <2> QED BY <2>1, <1>1, Remainder
<1>3. ASSUME s >= S PROVE (s - S) % S = r
  <2>1. q # 0
    BY <1>1, <1>3
  <2>2. s - S \in Nat /\ q - 1 \in Nat /\ s - S = (S * (q - 1)) + r
    BY <1>1, <1>3, <2>1
  <2> QED BY <2>2, <1>1, Remainder
<1> QED BY <1>2, <1>3 DEF r

\* A nonempty set of naturals has a least element.
LEMMA LeastElement ==
  ASSUME NEW T \in SUBSET Nat, T # {}
  PROVE  \E x \in T : \A y \in T : x <= y
<1> DEFINE R == OpToRel(<, Nat)
<1>1. IsWellFoundedOn(R, Nat)
  BY NatLessThanWellFounded
<1>2. \A x, y \in Nat : x < y => <<x, y>> \in R
  BY DEF OpToRel
<1> HIDE DEF R
<1>3. PICK x \in T : \A y \in T : ~(<<y, x>> \in R)
  BY <1>1, WFMin
<1>4. \A y \in T : ~(y < x)
  BY <1>2, <1>3
<1> QED BY <1>4

(***************************************************************************)
(* Blocks.                                                                 *)
(***************************************************************************)

\* The sizes of a block and of one of the next order.
LEMMA Sizes ==
  ASSUME NEW k \in Orders
  PROVE  /\ BlockSize[k] \in Nat \ {0}
         /\ k < ALLOC_MAX_ORDER => /\ k + 1 \in Orders
                                   /\ BlockSize[k+1] \in Nat \ {0}
                                   /\ BlockSize[k+1] = 2 * BlockSize[k]
<1>1. BlockSize[k] \in Nat \ {0}
  BY BlockSizeAssumption
<1>2. ASSUME k < ALLOC_MAX_ORDER PROVE k + 1 \in Orders /\ k \in Orders \ {ALLOC_MAX_ORDER}
  BY <1>2, OrderAssumption DEF Orders
<1>3. ASSUME k < ALLOC_MAX_ORDER
      PROVE  BlockSize[k+1] \in Nat \ {0} /\ BlockSize[k+1] = 2 * BlockSize[k]
  BY <1>2, <1>3, BlockSizeAssumption
<1> QED BY <1>1, <1>2, <1>3

\* align_block yields the aligned block an address lies in, and yields the
\* same one again when it is applied to its own result.
LEMMA AlignFacts ==
  ASSUME NEW s \in Nat, NEW k \in Orders
  PROVE  /\ Align(s, k) \in Nat
         /\ Align(Align(s, k), k) = Align(s, k)
         /\ s \in Span(s, k)
         /\ Align(s, k) \in Span(s, k)
         /\ Span(Align(s, k), k) = Span(s, k)
<1>1. PICK S \in Nat \ {0} : S = BlockSize[k]
  BY Sizes
<1>2. PICK q \in Nat, r \in 0..(S-1) : q = s \div S /\ r = s % S /\ s = (S * q) + r
  BY DivisionBound
<1>3. Align(s, k) = s - r
  BY <1>1, <1>2 DEF Align
<1>4. PICK a \in Nat : a = s - r /\ a = (S * q) + 0
  BY <1>2
<1>5. a % S = 0
  <2>1. PICK z \in 0..(S-1) : z = 0
    OBVIOUS
  <2>2. a = (S * q) + z
    BY <1>4, <2>1
  <2> QED BY <2>1, <2>2, Remainder
<1>6. Align(a, k) = a
  BY <1>1, <1>4, <1>5 DEF Align
<1>7. Align(s, k) = a
  BY <1>3, <1>4
<1>8. Span(s, k) = a..(a + S - 1) /\ Span(a, k) = a..(a + S - 1)
  BY <1>1, <1>6, <1>7 DEF Span
<1>9. s \in a..(a + S - 1) /\ a \in a..(a + S - 1)
  BY <1>4
<1> QED BY <1>6, <1>7, <1>8, <1>9

\* The two halves of a block of order k+1 are the block of order k at the same
\* address and its buddy.  This is what a split in fill_free_list and a merge
\* in add_free_list rest on, and it asks for no alignment of s.
LEMMA Halves ==
  ASSUME NEW s \in Nat, NEW k \in Orders, k < ALLOC_MAX_ORDER
  PROVE  /\ Buddy(s, k) \in Nat
         /\ Span(s, k) \union Span(Buddy(s, k), k) = Span(s, k+1)
         /\ Span(s, k) \intersect Span(Buddy(s, k), k) = {}
<1>1. PICK S \in Nat \ {0}, T \in Nat \ {0} :
        S = BlockSize[k] /\ T = BlockSize[k+1] /\ T = 2 * S
  BY Sizes
<1>2. PICK r \in 0..(T-1) : r = s % T /\ s >= r
  <2>1. PICK q \in Nat, r \in 0..(T-1) : r = s % T /\ s = (T * q) + r
    BY DivisionBound
  <2>2. T * q \in Nat
    OBVIOUS
  <2> QED BY <2>1, <2>2
<1>3. PICK A \in Nat : A = s - r /\ A = Align(s, k+1)
  BY <1>1, <1>2 DEF Align
<1>4. Span(s, k+1) = A..(A + T - 1)
  BY <1>1, <1>3 DEF Span
<1>5. s % S = IF r < S THEN r ELSE r - S
  BY <1>1, <1>2, HalfRemainder
<1>6. Align(s, k) = IF r < S THEN A ELSE A + S
  BY <1>1, <1>3, <1>5 DEF Align
<1>7. Buddy(s, k) = IF r < S THEN s + S ELSE s - S
  BY <1>1, <1>2 DEF Buddy
<1>8. PICK b \in Nat : b = Buddy(s, k)
  <2>1. s + S \in Nat /\ (~(r < S) => s - S \in Nat)
    BY <1>2
  <2>2. Buddy(s, k) \in Nat
    BY <1>7, <2>1
  <2> QED BY <2>2
<1>9. b % S = s % S
  <2>1. (s + S) % S = s % S /\ (s >= S => (s - S) % S = s % S)
    BY ShiftRemainder
  <2>2. ~(r < S) => s >= S
    BY <1>2
  <2> QED BY <2>1, <2>2, <1>7, <1>8
<1>10. Align(b, k) = IF r < S THEN A + S ELSE A
  <2>1. Align(b, k) = b - (s % S)
    BY <1>1, <1>9 DEF Align
  <2>2. b = IF r < S THEN s + S ELSE s - S
    BY <1>7, <1>8
  <2> QED BY <2>1, <2>2, <1>3, <1>5
<1>11. /\ Span(s, k) = IF r < S THEN A..(A + S - 1) ELSE (A + S)..(A + S + S - 1)
       /\ Span(b, k) = IF r < S THEN (A + S)..(A + S + S - 1) ELSE A..(A + S - 1)
  BY <1>1, <1>6, <1>10 DEF Span
<1>12. A + T - 1 = A + S + S - 1
  BY <1>1
<1> QED BY <1>4, <1>8, <1>11, <1>12

\* The buddy of the buddy is the block itself, and it is aligned as well.
LEMMA BuddyTwice ==
  ASSUME NEW s \in Nat, NEW k \in Orders, k < ALLOC_MAX_ORDER
  PROVE  /\ Buddy(s, k) \in Nat
         /\ Buddy(Buddy(s, k), k) = s
         /\ Align(s, k) = s => Align(Buddy(s, k), k) = Buddy(s, k)
<1>1. PICK S \in Nat \ {0}, T \in Nat \ {0} :
        S = BlockSize[k] /\ T = BlockSize[k+1] /\ T = 2 * S
  BY Sizes
<1>2. PICK q \in Nat, r \in 0..(T-1) : r = s % T /\ s = (T * q) + r
  BY DivisionBound
<1>3. Buddy(s, k) = IF r < S THEN s + S ELSE s - S
  BY <1>1, <1>2 DEF Buddy
<1>4. PICK b \in Nat : b = Buddy(s, k)
  BY Halves
<1>5. Buddy(b, k) = IF b % T < S THEN b + S ELSE b - S
  BY <1>1 DEF Buddy
<1>6. b % S = s % S
  <2>1. T * q \in Nat
    OBVIOUS
  <2>2. ~(r < S) => s >= S
    BY <1>2, <2>1
  <2> QED BY <1>3, <1>4, <2>2, ShiftRemainder
<1>7. CASE r < S
  <2>1. PICK m \in 0..(T-1) : m = r + S
    BY <1>1, <1>7
  <2>2. b = (T * q) + m
    BY <1>2, <1>3, <1>4, <1>7, <2>1
  <2>3. b % T = m
    BY <2>2, Remainder
  <2>4. Buddy(b, k) = b - S
    BY <1>5, <2>1, <2>3
  <2> QED BY <1>1, <1>3, <1>4, <1>6, <1>7, <2>4 DEF Align
<1>8. CASE ~(r < S)
  <2>1. PICK m \in 0..(T-1) : m = r - S
    BY <1>1, <1>8
  <2>2. b = (T * q) + m
    BY <1>2, <1>3, <1>4, <1>8, <2>1
  <2>3. b % T = m
    BY <2>2, Remainder
  <2>4. Buddy(b, k) = b + S
    BY <1>1, <1>5, <2>1, <2>3
  <2>5. b = s - S /\ s >= S
    BY <1>3, <1>4, <1>8
  <2>6. Buddy(b, k) = s
    BY <2>4, <2>5
  <2> QED BY <1>1, <1>4, <1>6, <2>5, <2>6 DEF Align
<1> QED BY <1>7, <1>8

\* An address aligned for an order is aligned for the one below.
LEMMA AlignDown ==
  ASSUME NEW s \in Nat, NEW k \in Orders, k < ALLOC_MAX_ORDER, Align(s, k+1) = s
  PROVE  Align(s, k) = s
<1>1. PICK S \in Nat \ {0}, T \in Nat \ {0} :
        S = BlockSize[k] /\ T = BlockSize[k+1] /\ T = 2 * S
  BY Sizes
<1>2. PICK r \in 0..(T-1) : r = s % T
  BY DivisionBound
<1>3. r = 0
  BY <1>1, <1>2 DEF Align
<1>4. s % S = 0
  <2>1. s % S = IF s % T < S THEN s % T ELSE (s % T) - S
    BY <1>1, HalfRemainder
  <2> QED BY <1>1, <1>2, <1>3, <2>1
<1> QED BY <1>1, <1>4 DEF Align

\* An address aligned for an order is aligned for all the orders below it.
LEMMA AlignBelow ==
  ASSUME NEW s \in Nat, NEW j \in Orders, NEW k \in Orders, j <= k, Align(s, k) = s
  PROVE  Align(s, j) = s
<1> DEFINE T == {d \in Nat : d <= k - j /\ Align(s, k - d) # s}
<1>0. j \in Nat /\ k \in Nat /\ ALLOC_MAX_ORDER \in Nat /\ k <= ALLOC_MAX_ORDER
  BY OrderAssumption DEF Orders
<1>1. SUFFICES ASSUME T # {} PROVE FALSE
  <2>1. k - j \in Nat /\ k - (k - j) = j
    BY <1>0
  <2> QED BY <1>1, <2>1
<1>2. PICK d \in T : \A x \in T : d <= x
  BY <1>1, LeastElement
<1>3. d # 0
  BY <1>0, <1>2
<1>4. d - 1 \in Nat /\ d - 1 <= k - j /\ ~(d <= d - 1) /\ k - (d - 1) = (k - d) + 1
  BY <1>0, <1>2, <1>3
<1>5. Align(s, (k - d) + 1) = s
  BY <1>2, <1>4
<1>6. k - d \in Orders /\ k - d < ALLOC_MAX_ORDER
  BY <1>0, <1>2, <1>3 DEF Orders
<1> QED BY <1>2, <1>5, <1>6, AlignDown

\* The size of a block is a multiple of the sizes of the orders below.
LEMMA SizeMultiple ==
  ASSUME NEW j \in Orders, NEW k \in Orders, j <= k
  PROVE  \E q \in Nat : BlockSize[k] = BlockSize[j] * q
<1> DEFINE Multiple(i) == \E q \in Nat : BlockSize[i] = BlockSize[j] * q
           T == {i \in Orders : j <= i /\ ~Multiple(i)}
<1>0. Orders \in SUBSET Nat /\ ALLOC_MAX_ORDER \in Nat /\ \A i \in Orders : i <= ALLOC_MAX_ORDER
  BY OrderAssumption DEF Orders
<1>1. SUFFICES ASSUME T # {} PROVE FALSE
  OBVIOUS
<1>2. PICK i \in T : \A x \in T : i <= x
  BY <1>0, <1>1, LeastElement
<1>3. PICK S \in Nat \ {0} : S = BlockSize[j]
  BY Sizes
<1>4. Multiple(j)
  <2>1. BlockSize[j] = BlockSize[j] * 1
    BY <1>3
  <2> QED BY <2>1
<1>5. PICK h \in Orders : h + 1 = i /\ h < ALLOC_MAX_ORDER /\ j <= h /\ ~(i <= h)
  <2>1. i # j
    BY <1>2, <1>4
  <2>2. i - 1 \in Orders /\ (i - 1) + 1 = i /\ i - 1 < ALLOC_MAX_ORDER /\ j <= i - 1 /\ ~(i <= i - 1)
    BY <1>0, <1>2, <2>1 DEF Orders
  <2> QED BY <2>2
<1>6. PICK q \in Nat : BlockSize[h] = S * q
  BY <1>2, <1>3, <1>5
<1>7. BlockSize[i] = 2 * BlockSize[h]
  BY <1>5, Sizes
<1>8. 2 * (S * q) = S * (2 * q) /\ 2 * q \in Nat
  OBVIOUS
<1>9. Multiple(i)
  BY <1>3, <1>6, <1>7, <1>8
<1> QED BY <1>2, <1>9

\* An address is aligned for an order if it is a multiple of the size.
LEMMA Multiples ==
  ASSUME NEW s \in Nat, NEW k \in Orders
  PROVE  Align(s, k) = s <=> \E d \in Nat : s = BlockSize[k] * d
<1>1. PICK S \in Nat \ {0} : S = BlockSize[k]
  BY Sizes
<1>2. PICK r \in 0..(S-1) : r = s % S
  BY DivisionBound
<1>3. ASSUME Align(s, k) = s PROVE \E d \in Nat : s = S * d
  <2>1. r = 0
    BY <1>1, <1>2, <1>3 DEF Align
  <2>2. PICK q \in Nat : s = (S * q) + r
    BY <1>2, DivisionBound
  <2>3. s = S * q
    BY <2>1, <2>2
  <2> QED BY <2>3
<1>4. ASSUME NEW d \in Nat, s = S * d PROVE Align(s, k) = s
  <2>1. PICK z \in 0..(S-1) : z = 0
    OBVIOUS
  <2>2. s = (S * d) + z
    BY <1>4, <2>1
  <2>3. s % S = 0
    BY <2>1, <2>2, Remainder
  <2> QED BY <1>1, <2>3 DEF Align
<1> QED BY <1>1, <1>3, <1>4

\* The other half of a block is aligned for every order, up to its own, that
\* the block is.
LEMMA BuddyAligned ==
  ASSUME NEW s \in Nat, NEW j \in Orders, NEW k \in Orders, j <= k, k < ALLOC_MAX_ORDER,
         Align(s, j) = s
  PROVE  Align(Buddy(s, k), j) = Buddy(s, k)
<1>1. PICK T \in Nat \ {0}, S \in Nat \ {0} : T = BlockSize[j] /\ S = BlockSize[k]
  BY Sizes
<1>2. PICK d \in Nat : s = T * d
  BY <1>1, Multiples
<1>3. PICK q \in Nat : S = T * q
  BY <1>1, SizeMultiple
<1>4. PICK b \in Nat : b = Buddy(s, k)
  BY Halves
<1>5. b = s + S \/ b = s - S
  BY <1>1, <1>4 DEF Buddy
<1>6. \E e \in Nat : b = T * e
  <2>1. CASE b = s + S
    <3>1. b = T * (d + q) /\ d + q \in Nat
      BY <1>2, <1>3, <2>1
    <3> QED BY <3>1
  <2>2. CASE b = s - S
    <3>1. b = T * (d - q)
      BY <1>2, <1>3, <2>2
    <3>2. d - q \in Nat
      <4> SUFFICES ASSUME d < q PROVE FALSE
        OBVIOUS
      <4>1. PICK n \in Nat : n = q - d /\ n # 0
        OBVIOUS
      <4>2. T * n \in Nat \ {0}
        BY <4>1
      <4>3. b = -(T * n)
        BY <3>1, <4>1
      <4> QED BY <4>2, <4>3
    <3> QED BY <3>1, <3>2
  <2> QED BY <1>5, <2>1, <2>2
<1> QED BY <1>1, <1>4, <1>6, Multiples

(***************************************************************************)
(* Orders.                                                                 *)
(***************************************************************************)

\* get_alloc_order returns an order whose blocks are large enough.
LEMMA RequestOrder ==
  ASSUME NEW n \in Nat, n <= BlockSize[ALLOC_MAX_ORDER]
  PROVE  /\ GetAllocOrder(n) \in Orders
         /\ n <= BlockSize[GetAllocOrder(n)]
<1> DEFINE T == {k \in Orders : n <= BlockSize[k]}
<1>1. ALLOC_MAX_ORDER \in T /\ T \in SUBSET Nat
  BY OrderAssumption DEF Orders
<1>2. PICK k \in T : \A j \in T : k <= j
  BY <1>1, LeastElement
<1>3. \E k1 \in Orders : /\ n <= BlockSize[k1]
                         /\ \A j \in Orders : n <= BlockSize[j] => k1 <= j
  BY <1>2
<1> QED BY <1>3 DEF GetAllocOrder

\* initialize() cuts a region into blocks of a legal order.
LEMMA RegionOrderType ==
  ASSUME NEW n \in Nat
  PROVE  RegionOrder(n) \in Orders
<1>1. 0 \in Orders
  BY OrderAssumption DEF Orders
<1>2. CASE n = 0 \/ n >= 2 * BlockSize[ALLOC_MAX_ORDER]
  BY <1>1, <1>2 DEF RegionOrder
<1>3. CASE ~(n = 0 \/ n >= 2 * BlockSize[ALLOC_MAX_ORDER])
  <2> DEFINE T == {k \in Orders : n < 2 * BlockSize[k]}
  <2>1. ALLOC_MAX_ORDER \in Orders /\ BlockSize[ALLOC_MAX_ORDER] \in Nat
    BY OrderAssumption, BlockSizeAssumption DEF Orders
  <2>2. ALLOC_MAX_ORDER \in T /\ T \in SUBSET Nat
    BY <2>1, <1>3 DEF Orders
  <2>3. PICK k \in T : \A j \in T : k <= j
    BY <2>2, LeastElement
  <2>4. BlockSize[k] <= n
    <3>1. CASE k = 0
      BY <3>1, <1>3, BlockSizeAssumption
    <3>2. CASE k # 0
      <4>1. k - 1 \in Orders /\ k - 1 < ALLOC_MAX_ORDER /\ k = (k - 1) + 1
        BY <3>2, OrderAssumption DEF Orders
      <4>2. BlockSize[k] = 2 * BlockSize[k-1]
        BY <4>1, Sizes
      <4>3. k - 1 \notin T
        BY <2>3, <4>1 DEF Orders
      <4>4. BlockSize[k-1] \in Nat
        BY <4>1, Sizes
      <4> QED BY <4>1, <4>2, <4>3, <4>4
    <3> QED BY <3>1, <3>2
  <2>5. \E k1 \in Orders : BlockSize[k1] <= n /\ n < 2 * BlockSize[k1]
    BY <2>3, <2>4
  <2> QED BY <1>3, <2>5 DEF RegionOrder
<1> QED BY <1>2, <1>3

\* The number and the shape of the blocks that initialize() makes.
LEMMA RegionBlockType ==
  ASSUME NEW r \in Region
  PROVE  /\ RegionBlocks(r) \in Nat
         /\ \A j \in Nat : /\ RegionBlock(r, j) \in Block
                           /\ RegionBlock(r, j).order \in Orders
                           /\ RegionBlock(r, j).start \in Nat
<1>1. r.size \in Nat /\ r.beginning \in Nat
  BY DEF Region
<1>2. PICK k \in Orders : k = RegionOrder(r.size)
  BY <1>1, RegionOrderType
<1>3. PICK S \in Nat \ {0} : S = BlockSize[k]
  BY Sizes
<1>4. r.size \div S \in Nat
  BY <1>1, DivisionBound
<1>5. RegionBlocks(r) \in Nat
  BY <1>2, <1>3, <1>4 DEF RegionBlocks
<1>6. ASSUME NEW j \in Nat
      PROVE  /\ RegionBlock(r, j) \in Block
             /\ RegionBlock(r, j).order \in Orders
             /\ RegionBlock(r, j).start \in Nat
  <2>1. j * S \in Nat
    OBVIOUS
  <2>2. r.beginning + (j * S) \in Nat
    BY <1>1, <2>1
  <2>3. RegionBlock(r, j) = [start |-> r.beginning + (j * S), order |-> k]
    BY <1>2, <1>3 DEF RegionBlock
  <2> QED BY <2>2, <2>3 DEF Block
<1> QED BY <1>5, <1>6

\* A block that initialize() makes of a region lies in it, and those of one
\* region lie one behind the other.
LEMMA RegionBlockPlace ==
  ASSUME NEW r \in Region, NEW j \in 0..(RegionBlocks(r) - 1)
  PROVE  /\ RegionBlock(r, j) \in Block
         /\ Extent(RegionBlock(r, j)) \subseteq r.beginning..(r.beginning + r.size - 1)
         /\ \A i \in 0..(RegionBlocks(r) - 1) :
              i < j => Extent(RegionBlock(r, i)) \intersect Extent(RegionBlock(r, j)) = {}
<1>1. PICK n \in Nat, a \in Nat : n = r.size /\ a = r.beginning
  BY DEF Region
<1>2. PICK k \in Orders, S \in Nat \ {0} : k = RegionOrder(n) /\ S = BlockSize[k]
  BY <1>1, RegionOrderType, Sizes
<1>3. PICK d \in Nat : d = n \div S /\ S * d <= n /\ d = RegionBlocks(r)
  <2>1. n \div S \in Nat /\ n % S \in 0..(S-1) /\ n = (S * (n \div S)) + (n % S)
    BY DivisionBound
  <2>2. RegionBlocks(r) = n \div S
    BY <1>1, <1>2 DEF RegionBlocks
  <2>3. S * (n \div S) <= n
    <3>1. PICK x \in Nat, m \in 0..(S-1) : x = S * (n \div S) /\ m = n % S
      BY <2>1
    <3> QED BY <2>1, <3>1
  <2> QED BY <2>1, <2>2, <2>3
<1>4. ASSUME NEW i \in 0..(d - 1)
      PROVE  /\ RegionBlock(r, i) = [start |-> a + (i * S), order |-> k]
             /\ Extent(RegionBlock(r, i)) = (a + (i * S))..(a + (i * S) + S - 1)
             /\ (i * S) \in Nat
             /\ (i * S) + S <= n
  <2>1. RegionBlock(r, i) = [start |-> a + (i * S), order |-> k]
    BY <1>1, <1>2 DEF RegionBlock
  <2>2. i \in Nat /\ d - (i + 1) \in Nat
    OBVIOUS
  <2>3. S * (d - (i + 1)) \in Nat
    BY <2>2
  <2>4. S * (d - (i + 1)) = (S * d) - ((i * S) + S)
    BY <2>2
  <2>5. i * S \in Nat /\ S * d \in Nat
    BY <2>2
  <2>6. (i * S) + S <= S * d
    BY <2>3, <2>4, <2>5
  <2>7. (i * S) + S <= n
    BY <1>3, <2>5, <2>6
  <2> QED BY <1>2, <2>1, <2>5, <2>7 DEF Extent
<1>5. j \in 0..(d - 1)
  BY <1>3
<1>6. PICK x \in Nat : x = j * S /\ x + S <= n
                      /\ RegionBlock(r, j) = [start |-> a + x, order |-> k]
                      /\ Extent(RegionBlock(r, j)) = (a + x)..(a + x + S - 1)
  BY <1>4, <1>5
<1>7. RegionBlock(r, j) \in Block
  <2>1. a + x \in Nat
    OBVIOUS
  <2> QED BY <1>6, <2>1 DEF Block
<1>8. Extent(RegionBlock(r, j)) \subseteq a..(a + n - 1)
  BY <1>6
<1>9. ASSUME NEW i \in 0..(d - 1), i < j
      PROVE  Extent(RegionBlock(r, i)) \intersect Extent(RegionBlock(r, j)) = {}
  <2>1. PICK y \in Nat : y = i * S /\ Extent(RegionBlock(r, i)) = (a + y)..(a + y + S - 1)
    BY <1>4
  <2>2. y + S <= x
    <3>1. i \in Nat /\ j - (i + 1) \in Nat
      BY <1>5, <1>9
    <3>2. S * (j - (i + 1)) \in Nat
      BY <3>1
    <3>3. S * (j - (i + 1)) = (j * S) - ((i * S) + S)
      BY <1>5, <3>1
    <3> QED BY <1>6, <2>1, <3>2, <3>3
  <2> QED BY <1>6, <2>1, <2>2
<1> QED BY <1>1, <1>3, <1>7, <1>8, <1>9

\* Where the blocks of a map are aligned, they become what they are, and none
\* of them reaches into another one.
LEMMA AlignedMap ==
  ASSUME NEW m \in MemoryMaps, Aligned(m)
  PROVE  /\ MapBlocks(m) \in SUBSET Block
         /\ \A b \in MapBlocks(m) : Extent(b) = Yield(b)
         /\ \A k \in Orders : k < ALLOC_MAX_ORDER => Exact(m, k)
         /\ Separate(m)
<1>1. \A r \in DOMAIN m : m[r] \in Region
  BY MapAssumption
<1>2. ASSUME NEW b \in MapBlocks(m)
      PROVE  b \in Block /\ Extent(b) = Yield(b)
             /\ \A k \in Orders : k <= b.order => Align(b.start, k) = b.start
  <2>1. PICK r \in DOMAIN m : \E j \in 0..(RegionBlocks(m[r]) - 1) : b = RegionBlock(m[r], j)
    BY DEF MapBlocks
  <2>2. b \in Block
    BY <1>1, <2>1, RegionBlockPlace
  <2>3. Align(b.start, b.order) = b.start /\ b.start \in Nat /\ b.order \in Orders
    BY <2>2 DEF Aligned, Block
  <2>4. \A k \in Orders : k <= b.order => Align(b.start, k) = b.start
    BY <2>3, AlignBelow
  <2> QED BY <2>2, <2>3, <2>4 DEF Extent, Yield, Span
<1>3. Separate(m)
  <2> SUFFICES ASSUME NEW r1 \in DOMAIN m, NEW r2 \in DOMAIN m,
                      NEW j1 \in 0..(RegionBlocks(m[r1]) - 1),
                      NEW j2 \in 0..(RegionBlocks(m[r2]) - 1), <<r1, j1>> # <<r2, j2>>
               PROVE  Yield(RegionBlock(m[r1], j1)) \intersect Yield(RegionBlock(m[r2], j2)) = {}
    BY DEF Separate
  <2>1. /\ RegionBlock(m[r1], j1) \in MapBlocks(m)
        /\ RegionBlock(m[r2], j2) \in MapBlocks(m)
    BY DEF MapBlocks
  <2>2. /\ Yield(RegionBlock(m[r1], j1)) = Extent(RegionBlock(m[r1], j1))
        /\ Yield(RegionBlock(m[r2], j2)) = Extent(RegionBlock(m[r2], j2))
    BY <1>2, <2>1
  <2>3. CASE r1 # r2
    <3>1. (m[r1].beginning..(m[r1].beginning + m[r1].size - 1))
            \intersect (m[r2].beginning..(m[r2].beginning + m[r2].size - 1)) = {}
      BY <2>3, DisjointAssumption
    <3>2. /\ Extent(RegionBlock(m[r1], j1)) \subseteq m[r1].beginning..(m[r1].beginning + m[r1].size - 1)
          /\ Extent(RegionBlock(m[r2], j2)) \subseteq m[r2].beginning..(m[r2].beginning + m[r2].size - 1)
      BY <1>1, RegionBlockPlace
    <3> QED BY <2>2, <3>1, <3>2
  <2>4. CASE r1 = r2
    <3>1. RegionBlocks(m[r1]) \in Nat
      BY <1>1, RegionBlockType
    <3>2. j1 < j2 \/ j2 < j1
      BY <2>4, <3>1
    <3> QED BY <1>1, <2>2, <2>4, <3>2, RegionBlockPlace
  <2> QED BY <2>3, <2>4
<1>4. MapBlocks(m) \in SUBSET Block
  BY <1>2
<1> QED BY <1>2, <1>3, <1>4 DEF Exact

(***************************************************************************)
(* Free lists.                                                             *)
(***************************************************************************)

\* A sequence of naturals as a function.
LEMMA SeqFunction ==
  ASSUME NEW l \in Seq(Nat)
  PROVE  /\ Len(l) \in Nat
         /\ DOMAIN l = 1..Len(l)
         /\ \A i \in 1..Len(l) : l[i] \in Nat
<1>1. Len(l) \in Nat /\ DOMAIN l = 1..Len(l) /\ l \in [1..Len(l) -> Nat]
  BY LenProperties
<1> QED BY <1>1

\* Pushing at the head: free_lists[k] = blk with blk->next the old list.
LEMMA PushList ==
  ASSUME NEW l \in Seq(Nat), NEW s \in Nat
  PROVE  /\ Cons(s, l) \in Seq(Nat)
         /\ Range(Cons(s, l)) = Range(l) \union {s}
         /\ IsInjective(l) /\ s \notin Range(l) => IsInjective(Cons(s, l))
<1>1. PICK u \in Seq(Nat) : u = <<s>> /\ Len(u) = 1 /\ u[1] = s
  <2>1. <<s>> \in Seq(Nat) /\ Len(<<s>>) = 1 /\ <<s>>[1] = s
    OBVIOUS
  <2> QED BY <2>1, Zenon
<1>2. PICK m \in Seq(Nat) :
        /\ m = u \o l
        /\ Len(m) = Len(u) + Len(l)
        /\ \A i \in 1..(Len(u) + Len(l)) : m[i] = IF i <= Len(u) THEN u[i] ELSE l[i - Len(u)]
  <2>1. /\ u \o l \in Seq(Nat)
        /\ Len(u \o l) = Len(u) + Len(l)
        /\ \A i \in 1..(Len(u) + Len(l)) :
             (u \o l)[i] = IF i <= Len(u) THEN u[i] ELSE l[i - Len(u)]
    BY ConcatProperties
  <2> QED BY <2>1, Zenon
<1>3. /\ m = Cons(s, l)
      /\ DOMAIN m = 1..(Len(l) + 1)
      /\ DOMAIN l = 1..Len(l)
      /\ Len(l) \in Nat
  BY <1>1, <1>2, SeqFunction DEF Cons
<1>5. m[1] = s /\ \A i \in 2..(Len(l) + 1) : m[i] = l[i-1] /\ i - 1 \in 1..Len(l)
  BY <1>1, <1>2, <1>3
<1>4. ASSUME NEW i \in 1..Len(l) PROVE i + 1 \in 1..(Len(l) + 1) /\ m[i+1] = l[i]
  <2>1. i + 1 \in 2..(Len(l) + 1) /\ (i + 1) - 1 = i
    BY <1>3
  <2> QED BY <2>1, <1>5
<1>6. Range(m) = Range(l) \union {s}
  <2>1. ASSUME NEW i \in 1..(Len(l)+1) PROVE m[i] \in Range(l) \union {s}
    <3>1. CASE i = 1
      BY <3>1, <1>5
    <3>2. CASE i # 1
      <4>1. i - 1 \in DOMAIN l /\ m[i] = l[i-1]
        BY <3>2, <1>3, <1>5
      <4> QED BY <4>1 DEF Range
    <3> QED BY <3>1, <3>2
  <2>2. ASSUME NEW i \in 1..Len(l) PROVE l[i] \in Range(m)
    BY <1>3, <1>4 DEF Range
  <2>3. s \in Range(m)
    BY <1>3, <1>5 DEF Range
  <2> QED BY <2>1, <2>2, <2>3, <1>3 DEF Range
<1>7. ASSUME IsInjective(l), s \notin Range(l) PROVE IsInjective(m)
  <2> SUFFICES ASSUME NEW a \in 1..(Len(l) + 1), NEW b \in 1..(Len(l) + 1), m[a] = m[b]
               PROVE  a = b
    BY <1>3 DEF IsInjective
  <2>1. CASE a = 1 \/ b = 1
    <3>1. \A i \in 1..(Len(l) + 1) : i # 1 => m[i] \in Range(l)
      <4> SUFFICES ASSUME NEW i \in 1..(Len(l) + 1), i # 1 PROVE m[i] \in Range(l)
        OBVIOUS
      <4>1. i - 1 \in DOMAIN l /\ m[i] = l[i-1]
        BY <1>3, <1>5
      <4> QED BY <4>1 DEF Range
    <3> QED BY <2>1, <3>1, <1>5, <1>7
  <2>2. CASE a # 1 /\ b # 1
    <3>1. a - 1 \in DOMAIN l /\ b - 1 \in DOMAIN l /\ l[a-1] = l[b-1]
      BY <2>2, <1>3, <1>5
    <3>2. a - 1 = b - 1
      BY <3>1, <1>7 DEF IsInjective
    <3> QED BY <3>2
  <2> QED BY <2>1, <2>2
<1> QED BY <1>2, <1>3, <1>6, <1>7

\* Unlinking the node at position i: prev->next = cur->next.
LEMMA UnlinkList ==
  ASSUME NEW l \in Seq(Nat), NEW n \in Nat, n = Len(l), NEW i \in 1..n
  PROVE  /\ RemoveAt(l, i) \in Seq(Nat)
         /\ l[i] \in Nat /\ l[i] \in Range(l)
         /\ IsInjective(l) => /\ Range(RemoveAt(l, i)) = Range(l) \ {l[i]}
                              /\ IsInjective(RemoveAt(l, i))
<1>1. /\ Len(l) = n /\ DOMAIN l = 1..n
      /\ \A j \in 1..n : l[j] \in Nat
  BY SeqFunction
<1>2. PICK u \in Seq(Nat) : /\ u = SubSeq(l, 1, i-1)
                            /\ Len(u) = i - 1
                            /\ \A j \in 1..(i-1) : u[j] = l[j]
  <2>1. /\ SubSeq(l, 1, i-1) \in Seq(Nat)
        /\ Len(SubSeq(l, 1, i-1)) = i - 1
        /\ \A j \in 1..(i-1) : SubSeq(l, 1, i-1)[j] = l[j]
    BY <1>1
  <2> QED BY <2>1, Zenon
<1>3. PICK v \in Seq(Nat) : /\ v = SubSeq(l, i+1, n)
                            /\ Len(v) = n - i
                            /\ \A j \in 1..(n - i) : v[j] = l[j+i]
  <2>1. /\ SubSeq(l, i+1, n) \in Seq(Nat)
        /\ Len(SubSeq(l, i+1, n)) = n - i
        /\ \A j \in 1..(n - i) : SubSeq(l, i+1, n)[j] = l[j+i]
    BY <1>1
  <2> QED BY <2>1, Zenon
<1>4. PICK m \in Seq(Nat) :
        /\ m = u \o v
        /\ Len(m) = Len(u) + Len(v)
        /\ \A j \in 1..(Len(u) + Len(v)) :
             m[j] = IF j <= Len(u) THEN u[j] ELSE v[j - Len(u)]
  <2>1. /\ u \o v \in Seq(Nat)
        /\ Len(u \o v) = Len(u) + Len(v)
        /\ \A j \in 1..(Len(u) + Len(v)) :
             (u \o v)[j] = IF j <= Len(u) THEN u[j] ELSE v[j - Len(u)]
    BY ConcatProperties
  <2> QED BY <2>1, Zenon
<1>5. Len(u) = i - 1 /\ Len(v) = n - i /\ Len(u) + Len(v) = n - 1
  <2>1. Len(u) = i - 1 /\ Len(v) = n - i
    BY <1>2, <1>3
  <2> QED BY <2>1
<1>6. m = RemoveAt(l, i) /\ DOMAIN m = 1..(n - 1)
  <2>1. m = RemoveAt(l, i)
    BY <1>1, <1>2, <1>3, <1>4 DEF RemoveAt
  <2>2. Len(m) = n - 1
    BY <1>4, <1>5
  <2> QED BY <2>1, <2>2, SeqFunction
<1>7. ASSUME NEW j \in 1..(n - 1), j < i PROVE m[j] = l[j]
  <2>1. j \in 1..(i-1) /\ j <= i - 1
    BY <1>7
  <2>2. m[j] = u[j]
    BY <2>1, <1>4, <1>5
  <2>3. u[j] = l[j]
    BY <2>1, <1>2
  <2> QED BY <2>2, <2>3
<1>8. ASSUME NEW j \in 1..(n - 1), ~(j < i) PROVE m[j] = l[j+1]
  <2>1. PICK x \in 1..(n - i) : x = j - (i - 1) /\ x + i = j + 1
    <3>1. j - (i - 1) \in 1..(n - i) /\ (j - (i - 1)) + i = j + 1
      BY <1>8
    <3> QED BY <3>1, Zenon
  <2>2. ~(j <= i - 1)
    BY <1>8
  <2>3. m[j] = v[x]
    BY <2>1, <2>2, <1>4, <1>5
  <2>4. v[x] = l[x+i]
    BY <1>3
  <2> QED BY <2>1, <2>3, <2>4
<1>9. ASSUME IsInjective(l) PROVE Range(m) = Range(l) \ {l[i]}
  <2>1. ASSUME NEW j \in 1..(n - 1) PROVE m[j] \in Range(l) \ {l[i]}
    <3>1. CASE j < i
      <4>1. j \in 1..n /\ j # i
        BY <3>1
      <4>2. m[j] = l[j]
        BY <3>1, <1>7
      <4> QED BY <4>1, <4>2, <1>1, <1>9 DEF Range, IsInjective
    <3>2. CASE ~(j < i)
      <4>1. j + 1 \in 1..n /\ j + 1 # i
        BY <3>2
      <4>2. m[j] = l[j+1]
        BY <3>2, <1>8
      <4> QED BY <4>1, <4>2, <1>1, <1>9 DEF Range, IsInjective
    <3> QED BY <3>1, <3>2
  <2>2. ASSUME NEW j \in 1..n, l[j] # l[i] PROVE l[j] \in Range(m)
    <3>1. CASE j < i
      <4>1. j \in 1..(n - 1)
        BY <3>1
      <4>2. m[j] = l[j]
        BY <3>1, <4>1, <1>7
      <4> QED BY <4>1, <4>2, <1>6 DEF Range
    <3>2. CASE ~(j < i)
      <4>1. j # i
        BY <2>2
      <4>2. j - 1 \in 1..(n - 1) /\ ~(j - 1 < i) /\ (j - 1) + 1 = j
        BY <4>1, <3>2
      <4>3. m[j-1] = l[j]
        BY <4>2, <1>8
      <4> QED BY <4>2, <4>3, <1>6 DEF Range
    <3> QED BY <3>1, <3>2
  <2> QED BY <2>1, <2>2, <1>1, <1>6 DEF Range
<1>10. ASSUME IsInjective(l) PROVE IsInjective(m)
  <2> SUFFICES ASSUME NEW a \in 1..(n - 1), NEW b \in 1..(n - 1), m[a] = m[b]
               PROVE  a = b
    BY <1>6 DEF IsInjective
  <2>1. \A x, y \in 1..n : l[x] = l[y] => x = y
    BY <1>1, <1>10 DEF IsInjective
  <2>2. a \in 1..n /\ a + 1 \in 1..n /\ b \in 1..n /\ b + 1 \in 1..n
    <3>1. \A x \in 1..(n - 1) : x \in 1..n /\ x + 1 \in 1..n
      OBVIOUS
    <3> QED BY <3>1
  <2>3. CASE a < i /\ b < i
    BY <2>1, <2>2, <2>3, <1>7
  <2>4. CASE a < i /\ ~(b < i)
    <3>1. l[a] = l[b+1]
      BY <2>4, <1>7, <1>8
    <3>2. a = b + 1
      BY <3>1, <2>1, <2>2
    <3> QED BY <2>4, <3>2
  <2>5. CASE ~(a < i) /\ b < i
    <3>1. l[a+1] = l[b]
      BY <2>5, <1>7, <1>8
    <3>2. a + 1 = b
      BY <3>1, <2>1, <2>2
    <3> QED BY <2>5, <3>2
  <2>6. CASE ~(a < i) /\ ~(b < i)
    <3>1. l[a+1] = l[b+1]
      BY <2>6, <1>8
    <3>2. a + 1 = b + 1
      BY <3>1, <2>1, <2>2
    <3> QED BY <3>2
  <2> QED BY <2>3, <2>4, <2>5, <2>6
<1>11. l[i] \in Nat /\ l[i] \in Range(l)
  BY <1>1 DEF Range
<1> QED BY <1>6, <1>9, <1>10, <1>11

\* Popping the head: get_block_from_stack.
LEMMA PopList ==
  ASSUME NEW l \in Seq(Nat), l # <<>>
  PROVE  /\ Tail(l) \in Seq(Nat)
         /\ Head(l) \in Nat /\ Head(l) \in Range(l)
         /\ IsInjective(l) => /\ Range(Tail(l)) = Range(l) \ {Head(l)}
                              /\ IsInjective(Tail(l))
<1>1. /\ Len(l) \in Nat /\ DOMAIN l = 1..Len(l)
      /\ \A j \in 1..Len(l) : l[j] \in Nat
  BY SeqFunction
<1>2. 1 \in DOMAIN l /\ Head(l) = l[1]
  BY <1>1
<1>3. PICK m \in Seq(Nat) : /\ m = Tail(l)
                            /\ Len(m) = Len(l) - 1
                            /\ \A j \in 1..(Len(l) - 1) : m[j] = l[j+1]
  <2>1. /\ Tail(l) \in Seq(Nat)
        /\ Len(Tail(l)) = Len(l) - 1
        /\ \A j \in 1..(Len(l) - 1) : Tail(l)[j] = l[j+1]
    BY <1>1
  <2> QED BY <2>1, Zenon
<1>4. DOMAIN m = 1..(Len(l) - 1)
  BY <1>3, SeqFunction
<1>5. ASSUME IsInjective(l) PROVE Range(m) = Range(l) \ {l[1]}
  <2>1. ASSUME NEW j \in 1..(Len(l) - 1) PROVE m[j] \in Range(l) \ {l[1]}
    <3>1. PICK x \in DOMAIN l : m[j] = l[x] /\ x # 1
      BY <1>1, <1>3
    <3> QED BY <3>1, <1>2, <1>5 DEF Range, IsInjective
  <2>2. ASSUME NEW j \in 1..Len(l), l[j] # l[1] PROVE l[j] \in Range(m)
    <3>1. j - 1 \in 1..(Len(l) - 1) /\ (j - 1) + 1 = j
      BY <2>2, <1>1
    <3>2. m[j-1] = l[j]
      BY <3>1, <1>3
    <3> QED BY <3>1, <3>2, <1>4 DEF Range
  <2> QED BY <2>1, <2>2, <1>1, <1>4 DEF Range
<1>6. ASSUME IsInjective(l) PROVE IsInjective(m)
  <2> SUFFICES ASSUME NEW a \in 1..(Len(l) - 1), NEW b \in 1..(Len(l) - 1), m[a] = m[b]
               PROVE  a = b
    BY <1>4 DEF IsInjective
  <2>1. a + 1 \in DOMAIN l /\ b + 1 \in DOMAIN l /\ l[a+1] = l[b+1]
    BY <1>1, <1>3
  <2>2. a + 1 = b + 1
    BY <2>1, <1>6 DEF IsInjective
  <2> QED BY <2>2
<1>7. Head(l) \in Nat /\ Head(l) \in Range(l)
  BY <1>1, <1>2 DEF Range
<1> QED BY <1>2, <1>3, <1>5, <1>6, <1>7

\* The list of the two halves that a split leaves.
LEMMA PairList ==
  ASSUME NEW a \in Nat, NEW b \in Nat, a # b
  PROVE  /\ <<a, b>> \in Seq(Nat)
         /\ Range(<<a, b>>) = {a, b}
         /\ IsInjective(<<a, b>>)
<1>1. PICK m \in Seq(Nat) : m = <<a, b>> /\ DOMAIN m = 1..2 /\ m[1] = a /\ m[2] = b
  <2>1. /\ <<a, b>> \in Seq(Nat) /\ DOMAIN <<a, b>> = 1..2
        /\ <<a, b>>[1] = a /\ <<a, b>>[2] = b
    OBVIOUS
  <2> QED BY <2>1, Zenon
<1>2. 1 \in 1..2 /\ 2 \in 1..2 /\ \A i \in 1..2 : i = 1 \/ i = 2
  OBVIOUS
<1>3. Range(m) = {a, b}
  BY <1>1, <1>2 DEF Range
<1>4. IsInjective(m)
  BY <1>1, <1>2 DEF IsInjective
<1> QED BY <1>1, <1>3, <1>4

(***************************************************************************)
(* The blocks on the free lists, as a set.                                 *)
(***************************************************************************)

Lists == [Orders -> Seq(Nat)]

\* A block_start and an order make a block.
MkBlock(s, k) == [start |-> s, order |-> k]

BlocksOn(L) == {b \in Block : b.start \in Range(L[b.order])}

AllInjective(L) == \A k \in Orders : IsInjective(L[k])

\* A block is its block_start and its order.
LEMMA BlockFields ==
  /\ \A s \in Nat, k \in Orders : /\ MkBlock(s, k) \in Block
                                  /\ MkBlock(s, k).start = s
                                  /\ MkBlock(s, k).order = k
  /\ \A b \in Block : b.start \in Nat /\ b.order \in Orders /\ b = MkBlock(b.start, b.order)
BY DEF Block, MkBlock

\* FreeBlocks is the set of the blocks on the lists.
LEMMA FreeBlocksOn ==
  ASSUME NEW L \in Lists
  PROVE  UNION {{[start |-> s, order |-> k] : s \in Range(L[k])} : k \in Orders}
           = BlocksOn(L)
<1> DEFINE U == UNION {{MkBlock(s, k) : s \in Range(L[k])} : k \in Orders}
<1>1. \A k \in Orders : \A s \in Range(L[k]) : s \in Nat
  <2> SUFFICES ASSUME NEW k \in Orders, NEW i \in DOMAIN L[k] PROVE L[k][i] \in Nat
    BY DEF Range
  <2>1. L[k] \in Seq(Nat)
    BY DEF Lists
  <2> QED BY <2>1, SeqFunction
<1>2. ASSUME NEW b \in U PROVE b \in BlocksOn(L)
  <2>1. PICK k \in Orders : \E s \in Range(L[k]) : b = MkBlock(s, k)
    OBVIOUS
  <2> QED BY <2>1, <1>1, BlockFields DEF BlocksOn
<1>3. ASSUME NEW b \in BlocksOn(L) PROVE b \in U
  <2>1. b.order \in Orders /\ b.start \in Range(L[b.order]) /\ b = MkBlock(b.start, b.order)
    BY BlockFields DEF BlocksOn
  <2> QED BY <2>1
<1>4. U = BlocksOn(L)
  BY <1>2, <1>3
<1> QED BY <1>4 DEF MkBlock

\* A push adds one block.
LEMMA PushBlocks ==
  ASSUME NEW L \in Lists, NEW k \in Orders, NEW s \in Nat
  PROVE  LET M == [L EXCEPT ![k] = Cons(s, @)]
         IN  /\ M \in Lists
             /\ BlocksOn(M) = BlocksOn(L) \union {MkBlock(s, k)}
             /\ AllInjective(L) /\ MkBlock(s, k) \notin BlocksOn(L) => AllInjective(M)
<1> DEFINE M == [L EXCEPT ![k] = Cons(s, @)]
<1>1. L[k] \in Seq(Nat)
  BY DEF Lists
<1>2. /\ Cons(s, L[k]) \in Seq(Nat)
      /\ Range(Cons(s, L[k])) = Range(L[k]) \union {s}
      /\ IsInjective(L[k]) /\ s \notin Range(L[k]) => IsInjective(Cons(s, L[k]))
  BY <1>1, PushList
<1>3. /\ M \in Lists /\ M[k] = Cons(s, L[k])
      /\ \A j \in Orders \ {k} : M[j] = L[j]
  BY <1>2 DEF Lists
<1> HIDE DEF M
<1>4. ASSUME NEW b \in Block
      PROVE  b \in BlocksOn(M) <=> b \in BlocksOn(L) \/ b = MkBlock(s, k)
  <2>1. CASE b.order = k
    <3>1. b \in BlocksOn(M) <=> b.start \in Range(L[k]) \/ b.start = s
      BY <2>1, <1>2, <1>3 DEF BlocksOn
    <3>2. b \in BlocksOn(L) <=> b.start \in Range(L[k])
      BY <2>1 DEF BlocksOn
    <3>3. b = MkBlock(s, k) <=> b.start = s
      BY <2>1, BlockFields
    <3> QED BY <3>1, <3>2, <3>3
  <2>2. CASE b.order # k
    <3>1. b.order \in Orders \ {k} /\ b # MkBlock(s, k)
      BY <2>2, BlockFields
    <3> QED BY <3>1, <1>3 DEF BlocksOn
  <2> QED BY <2>1, <2>2
<1>5. BlocksOn(M) = BlocksOn(L) \union {MkBlock(s, k)}
  BY <1>4, BlockFields DEF BlocksOn
<1>6. ASSUME AllInjective(L), MkBlock(s, k) \notin BlocksOn(L) PROVE AllInjective(M)
  <2>1. s \notin Range(L[k])
    BY <1>6, BlockFields DEF BlocksOn
  <2> QED BY <2>1, <1>2, <1>3, <1>6 DEF AllInjective
<1> QED BY <1>3, <1>5, <1>6 DEF M

\* Taking an element off a list, however it is done, removes one block.
LEMMA DropBlocks ==
  ASSUME NEW L \in Lists, NEW k \in Orders, NEW s \in Nat, NEW l \in Seq(Nat),
         Range(l) = Range(L[k]) \ {s}, IsInjective(l), AllInjective(L)
  PROVE  LET M == [L EXCEPT ![k] = l]
         IN  /\ M \in Lists
             /\ BlocksOn(M) = BlocksOn(L) \ {MkBlock(s, k)}
             /\ AllInjective(M)
<1> DEFINE M == [L EXCEPT ![k] = l]
<1>1. /\ M \in Lists /\ M[k] = l
      /\ \A j \in Orders \ {k} : M[j] = L[j]
  BY DEF Lists
<1> HIDE DEF M
<1>2. ASSUME NEW b \in Block
      PROVE  b \in BlocksOn(M) <=> b \in BlocksOn(L) /\ b # MkBlock(s, k)
  <2>1. CASE b.order = k
    <3>1. b \in BlocksOn(M) <=> b.start \in Range(L[k]) /\ b.start # s
      BY <2>1, <1>1 DEF BlocksOn
    <3>2. b \in BlocksOn(L) <=> b.start \in Range(L[k])
      BY <2>1 DEF BlocksOn
    <3>3. b = MkBlock(s, k) <=> b.start = s
      BY <2>1, BlockFields
    <3> QED BY <3>1, <3>2, <3>3
  <2>2. CASE b.order # k
    <3>1. b.order \in Orders \ {k} /\ b # MkBlock(s, k)
      BY <2>2, BlockFields
    <3> QED BY <3>1, <1>1 DEF BlocksOn
  <2> QED BY <2>1, <2>2
<1>3. BlocksOn(M) = BlocksOn(L) \ {MkBlock(s, k)}
  BY <1>2 DEF BlocksOn
<1>4. AllInjective(M)
  BY <1>1 DEF AllInjective
<1> QED BY <1>1, <1>3, <1>4 DEF M

\* A pop removes the block at the head.
LEMMA PopBlocks ==
  ASSUME NEW L \in Lists, NEW k \in Orders, L[k] # <<>>, AllInjective(L)
  PROVE  LET M == [L EXCEPT ![k] = Tail(@)]
         IN  /\ M \in Lists
             /\ Head(L[k]) \in Nat
             /\ MkBlock(Head(L[k]), k) \in BlocksOn(L)
             /\ BlocksOn(M) = BlocksOn(L) \ {MkBlock(Head(L[k]), k)}
             /\ AllInjective(M)
<1>1. L[k] \in Seq(Nat) /\ IsInjective(L[k])
  BY DEF Lists, AllInjective
<1>2. PICK s \in Nat, l \in Seq(Nat) :
        /\ s = Head(L[k]) /\ l = Tail(L[k]) /\ s \in Range(L[k])
        /\ Range(l) = Range(L[k]) \ {s} /\ IsInjective(l)
  BY <1>1, PopList
<1>3. MkBlock(s, k) \in BlocksOn(L)
  BY <1>2, BlockFields DEF BlocksOn
<1>4. LET M == [L EXCEPT ![k] = l]
      IN  M \in Lists /\ BlocksOn(M) = BlocksOn(L) \ {MkBlock(s, k)} /\ AllInjective(M)
  BY <1>2, DropBlocks
<1>5. [L EXCEPT ![k] = Tail(@)] = [L EXCEPT ![k] = l]
  BY <1>2 DEF Lists
<1> QED BY <1>2, <1>3, <1>4, <1>5

\* Unlinking position i removes the block there.
LEMMA UnlinkBlocks ==
  ASSUME NEW L \in Lists, NEW k \in Orders, NEW i \in DOMAIN L[k], AllInjective(L)
  PROVE  LET M == [L EXCEPT ![k] = RemoveAt(@, i)]
         IN  /\ M \in Lists
             /\ L[k][i] \in Nat
             /\ MkBlock(L[k][i], k) \in BlocksOn(L)
             /\ BlocksOn(M) = BlocksOn(L) \ {MkBlock(L[k][i], k)}
             /\ AllInjective(M)
<1>1. L[k] \in Seq(Nat) /\ IsInjective(L[k])
  BY DEF Lists, AllInjective
<1>2. PICK n \in Nat : n = Len(L[k]) /\ i \in 1..n
  BY <1>1, SeqFunction
<1>3. PICK s \in Nat, l \in Seq(Nat) :
        /\ s = L[k][i] /\ l = RemoveAt(L[k], i) /\ s \in Range(L[k])
        /\ Range(l) = Range(L[k]) \ {s} /\ IsInjective(l)
  BY <1>1, <1>2, UnlinkList
<1>4. MkBlock(s, k) \in BlocksOn(L)
  BY <1>3, BlockFields DEF BlocksOn
<1>5. LET M == [L EXCEPT ![k] = l]
      IN  M \in Lists /\ BlocksOn(M) = BlocksOn(L) \ {MkBlock(s, k)} /\ AllInjective(M)
  BY <1>3, DropBlocks
<1>6. [L EXCEPT ![k] = RemoveAt(@, i)] = [L EXCEPT ![k] = l]
  BY <1>3 DEF Lists
<1> QED BY <1>3, <1>4, <1>5, <1>6

\* Filling an empty list with two block_starts adds two blocks.
LEMMA PairBlocks ==
  ASSUME NEW L \in Lists, NEW k \in Orders, L[k] = <<>>,
         NEW a \in Nat, NEW b \in Nat, a # b, AllInjective(L),
         NEW M \in Lists, M[k] = <<a, b>>, \A j \in Orders \ {k} : M[j] = L[j]
  PROVE  /\ BlocksOn(M) = BlocksOn(L) \union {MkBlock(a, k), MkBlock(b, k)}
         /\ AllInjective(M)
<1>1. PICK l \in Seq(Nat) : l = <<a, b>> /\ Range(l) = {a, b} /\ IsInjective(l)
  BY PairList
<1>2. /\ M \in Lists /\ M[k] = l
      /\ \A j \in Orders \ {k} : M[j] = L[j]
  BY <1>1
<1>3. Range(L[k]) = {}
  BY DEF Range
<1>4. ASSUME NEW c \in Block
      PROVE  c \in BlocksOn(M) <=> c \in BlocksOn(L) \/ c = MkBlock(a, k) \/ c = MkBlock(b, k)
  <2>1. CASE c.order = k
    <3>1. c \in BlocksOn(M) <=> c.start = a \/ c.start = b
      BY <2>1, <1>1, <1>2 DEF BlocksOn
    <3>2. c \notin BlocksOn(L)
      BY <2>1, <1>3 DEF BlocksOn
    <3>3. c = MkBlock(a, k) <=> c.start = a
      BY <2>1, BlockFields
    <3>4. c = MkBlock(b, k) <=> c.start = b
      BY <2>1, BlockFields
    <3> QED BY <3>1, <3>2, <3>3, <3>4
  <2>2. CASE c.order # k
    <3>1. c.order \in Orders \ {k} /\ c # MkBlock(a, k) /\ c # MkBlock(b, k)
      BY <2>2, BlockFields
    <3> QED BY <3>1, <1>2 DEF BlocksOn
  <2> QED BY <2>1, <2>2
<1>5. BlocksOn(M) = BlocksOn(L) \union {MkBlock(a, k), MkBlock(b, k)}
  BY <1>4, BlockFields DEF BlocksOn
<1>6. AllInjective(M)
  BY <1>1, <1>2 DEF AllInjective
<1> QED BY <1>5, <1>6

\* What a split does to the blocks: the head of list j gives way to the pair
\* <<a, head>> on the empty list k.
LEMMA SplitBlocks ==
  ASSUME NEW L \in Lists, NEW j \in Orders, NEW k \in Orders, j # k,
         L[j] # <<>>, L[k] = <<>>, AllInjective(L),
         NEW o \in Nat, o = Head(L[j]), NEW a \in Nat, a # o,
         NEW M \in Lists, M[j] = Tail(L[j]), M[k] = <<a, o>>,
         \A i \in Orders \ {j, k} : M[i] = L[i]
  PROVE  /\ MkBlock(o, j) \in BlocksOn(L)
         /\ BlocksOn(M) = (BlocksOn(L) \ {MkBlock(o, j)}) \union {MkBlock(a, k), MkBlock(o, k)}
         /\ AllInjective(M)
<1>1. PICK K \in Lists :
        /\ K = [L EXCEPT ![j] = Tail(@)]
        /\ MkBlock(o, j) \in BlocksOn(L)
        /\ BlocksOn(K) = BlocksOn(L) \ {MkBlock(o, j)}
        /\ AllInjective(K)
  <2>1. LET Q == [L EXCEPT ![j] = Tail(@)]
        IN  /\ Q \in Lists
            /\ MkBlock(o, j) \in BlocksOn(L)
            /\ BlocksOn(Q) = BlocksOn(L) \ {MkBlock(o, j)}
            /\ AllInjective(Q)
    BY PopBlocks
  <2> QED BY <2>1, Zenon
<1>2. K[k] = <<>>
  BY <1>1 DEF Lists
<1>3. \A i \in Orders \ {k} : M[i] = K[i]
  BY <1>1 DEF Lists
<1>4. /\ BlocksOn(M) = BlocksOn(K) \union {MkBlock(a, k), MkBlock(o, k)}
      /\ AllInjective(M)
  <2>1. AllInjective(K)
    BY <1>1
  <2> QED BY <2>1, <1>2, <1>3, PairBlocks
<1> QED BY <1>1, <1>3, <1>4

(***************************************************************************)
(* Pieces: blocks with the place they are in.                              *)
(***************************************************************************)

Pieces == ({"free"} \X FreeBlocks) \union ({"held"} \X held) \union ({"hand"} \X InHand)

PiecesApart(P) == \A p, q \in P : p # q => Yield(p[2]) \intersect Yield(q[2]) = {}

YieldIn(P) == UNION {Yield(p[2]) : p \in P}

\* Replacing some pieces by others that cover the same frames keeps all of
\* them apart and loses no frame: a split, a merge, a push, a pop.
LEMMA Replace ==
  ASSUME NEW P, NEW R, NEW N,
         R \subseteq P, PiecesApart(P), PiecesApart(N), YieldIn(N) = YieldIn(R)
  PROVE  /\ PiecesApart((P \ R) \union N)
         /\ YieldIn((P \ R) \union N) = YieldIn(P)
<1>1. ASSUME NEW p \in P \ R, NEW n \in N PROVE Yield(p[2]) \intersect Yield(n[2]) = {}
  <2> SUFFICES ASSUME NEW x \in Yield(p[2]), x \in Yield(n[2]) PROVE FALSE
    OBVIOUS
  <2>1. x \in YieldIn(R)
    BY DEF YieldIn
  <2>2. PICK r \in R : x \in Yield(r[2])
    BY <2>1 DEF YieldIn
  <2> QED BY <2>2 DEF PiecesApart
<1>2. PiecesApart((P \ R) \union N)
  BY <1>1 DEF PiecesApart
<1>3. YieldIn((P \ R) \union N) = YieldIn(P)
  <2>1. YieldIn((P \ R) \union N) = YieldIn(P \ R) \union YieldIn(N)
    BY DEF YieldIn
  <2>2. YieldIn(P) = YieldIn(P \ R) \union YieldIn(R)
    BY DEF YieldIn
  <2> QED BY <2>1, <2>2
<1> QED BY <1>2, <1>3

\* One piece is replaced by another one with the same frames.
LEMMA Move ==
  ASSUME NEW P, NEW r \in P, NEW n, PiecesApart(P), Yield(n[2]) = Yield(r[2])
  PROVE  /\ PiecesApart((P \ {r}) \union {n})
         /\ YieldIn((P \ {r}) \union {n}) = YieldIn(P)
<1>1. PiecesApart({n})
  BY DEF PiecesApart
<1>2. YieldIn({n}) = YieldIn({r})
  BY DEF YieldIn
<1> QED BY <1>1, <1>2, Replace

\* Free blocks F, held blocks H and the block in hand I, each with its place.
PieceSet(F, H, I) == ({"free"} \X F) \union ({"held"} \X H) \union ({"hand"} \X I)

(***************************************************************************)
(* The blocks initialize() has placed.                                     *)
(***************************************************************************)

\* The blocks of memory map m that are on a list when block p of region r is
\* about to be placed.
PlacedOf(m, r, p) ==
  {b \in Block : \E i \in DOMAIN m, j \in Nat :
     /\ j < RegionBlocks(m[i])
     /\ i < r \/ (i = r /\ j < p)
     /\ b = RegionBlock(m[i], j)}

\* How the placed blocks grow, and that all of them are placed at the end.
LEMMA Placing ==
  ASSUME NEW m \in Seq(Region), NEW r \in Nat \ {0}, NEW p \in Nat
  PROVE  /\ PlacedOf(m, 1, 0) = {}
         /\ r <= Len(m) /\ p < RegionBlocks(m[r]) =>
              PlacedOf(m, r, p+1) = PlacedOf(m, r, p) \union {RegionBlock(m[r], p)}
         /\ r <= Len(m) /\ p = RegionBlocks(m[r]) =>
              PlacedOf(m, r+1, 0) = PlacedOf(m, r, p)
         /\ r > Len(m) => PlacedOf(m, r, p) = MapBlocks(m)
<1>1. PICK n \in Nat : n = Len(m) /\ DOMAIN m = 1..n /\ \A i \in 1..n : m[i] \in Region
  OBVIOUS
<1>2. \A i \in 1..n : /\ RegionBlocks(m[i]) \in Nat
                      /\ \A j \in Nat : RegionBlock(m[i], j) \in Block
  BY <1>1, RegionBlockType
<1>3. PlacedOf(m, 1, 0) = {}
  BY <1>1 DEF PlacedOf
<1>4. ASSUME r <= n, p < RegionBlocks(m[r])
      PROVE  PlacedOf(m, r, p+1) = PlacedOf(m, r, p) \union {RegionBlock(m[r], p)}
  <2>1. r \in 1..n
    BY <1>4
  <2>2. \A i \in 1..n, j \in Nat :
          (i < r \/ (i = r /\ j < p + 1)) <=> (i < r \/ (i = r /\ j < p) \/ (i = r /\ j = p))
    OBVIOUS
  <2> QED BY <1>1, <1>2, <1>4, <2>1, <2>2 DEF PlacedOf
<1>5. ASSUME r <= n, p = RegionBlocks(m[r])
      PROVE  PlacedOf(m, r+1, 0) = PlacedOf(m, r, p)
  <2>1. \A i \in 1..n, j \in Nat :
          (i < r + 1 \/ (i = r + 1 /\ j < 0)) <=> (i < r \/ i = r)
    OBVIOUS
  <2> QED BY <1>1, <1>2, <1>5, <2>1 DEF PlacedOf
<1>6. ASSUME r > n PROVE PlacedOf(m, r, p) = MapBlocks(m)
  <2>1. \A i \in 1..n : i < r
    BY <1>6
  <2>2. ASSUME NEW b \in PlacedOf(m, r, p) PROVE b \in MapBlocks(m)
    <3>1. PICK i \in DOMAIN m, j \in Nat : j < RegionBlocks(m[i]) /\ b = RegionBlock(m[i], j)
      BY DEF PlacedOf
    <3>2. j \in 0..(RegionBlocks(m[i]) - 1)
      BY <3>1, <1>1, <1>2
    <3> QED BY <3>1, <3>2 DEF MapBlocks
  <2>3. ASSUME NEW b \in MapBlocks(m) PROVE b \in PlacedOf(m, r, p)
    <3>1. PICK i \in DOMAIN m : \E j \in 0..(RegionBlocks(m[i]) - 1) : b = RegionBlock(m[i], j)
      BY DEF MapBlocks
    <3>2. PICK j \in 0..(RegionBlocks(m[i]) - 1) : b = RegionBlock(m[i], j)
      BY <3>1
    <3>3. j \in Nat /\ j < RegionBlocks(m[i])
      BY <1>1, <1>2
    <3> QED BY <3>2, <3>3, <2>1, <1>1, <1>2 DEF PlacedOf
  <2> QED BY <2>2, <2>3
<1> QED BY <1>1, <1>3, <1>4, <1>5, <1>6

(***************************************************************************)
(* Type correctness.                                                       *)
(***************************************************************************)

\* Every step of the code keeps its variables legal: in particular no order
\* outside 0..ALLOC_MAX_ORDER ever indexes free_lists.
LEMMA TypeStep == TypeOK /\ [Next]_vars => TypeOK'
<1> SUFFICES ASSUME TypeOK, [Next]_vars PROVE TypeOK'
  OBVIOUS
<1> USE DEF TypeOK
<1>0. 0 \in Orders /\ Orders \subseteq Int /\ ALLOC_MAX_ORDER \in Int
      /\ \A k \in Orders : 0 <= k /\ k <= ALLOC_MAX_ORDER
  BY OrderAssumption DEF Orders
<1>map. mem_map \in Seq(Region) /\ Len(mem_map) \in Nat
  BY MapAssumption
<1>1. CASE BootBlock
  <2> DEFINE b == RegionBlock(mem_map[region], placed)
  <2>1. mem_map[region] \in Region
    BY <1>1, <1>map DEF BootBlock
  <2>2. b.order \in Orders /\ b.start \in Nat
    BY <2>1, RegionBlockType
  <2>3. free_lists' = [free_lists EXCEPT ![b.order] = Cons(b.start, @)]
    BY <1>1 DEF BootBlock
  <2> HIDE DEF b
  <2>4. Cons(b.start, free_lists[b.order]) \in Seq(Nat)
    BY <2>2, PushList
  <2>5. free_lists' \in [Orders -> Seq(Nat)]
    BY <2>2, <2>3, <2>4
  <2> QED BY <1>1, <2>5 DEF BootBlock
<1>2. CASE BootFault
  BY <1>2 DEF BootFault, Halt, boot
<1>3. CASE BootRegion
  BY <1>3, <1>map DEF BootRegion
<1>4. CASE BootDone
  BY <1>4 DEF BootDone, boot
<1>5. CASE FillDescend
  <2>1. lvl + 1 \in Orders
    BY <1>5, <1>0, Sizes DEF FillDescend
  <2> QED BY <1>5, <1>0, <2>1 DEF FillDescend, boot
<1>6. CASE FillStop
  <2>1. lvl # goal => lvl - 1 \in Orders /\ lvl - 1 >= goal /\ lvl - 1 < ALLOC_MAX_ORDER
    BY <1>6, OrderAssumption DEF FillStop, Orders
  <2> QED BY <1>6, <2>1 DEF FillStop, FillReturn, boot
<1>7. CASE Split
  <2> DEFINE old == Head(free_lists[lvl+1])
  <2>1. lvl + 1 \in Orders /\ lvl < ALLOC_MAX_ORDER
    BY <1>7, <1>0, Sizes DEF Split
  <2>2. /\ free_lists[lvl+1] \in Seq(Nat) /\ free_lists[lvl+1] # <<>>
        /\ Tail(free_lists[lvl+1]) \in Seq(Nat)
        /\ old \in Nat
    BY <1>7, <2>1, PopList DEF Split
  <2>3. Buddy(old, lvl) \in Nat
    BY <2>1, <2>2, Halves
  <2> HIDE DEF old
  <2>4. <<Buddy(old, lvl), old>> \in Seq(Nat)
    BY <2>2, <2>3
  <2>5. free_lists' = [free_lists EXCEPT ![lvl+1] = Tail(@), ![lvl] = <<Buddy(old, lvl), old>>]
    BY <1>7 DEF Split, old
  <2>6. free_lists' \in [Orders -> Seq(Nat)]
    BY <2>1, <2>2, <2>4, <2>5
  <2>7. lvl # goal => lvl - 1 \in Orders /\ lvl - 1 >= goal /\ lvl - 1 < ALLOC_MAX_ORDER
    BY <1>7, OrderAssumption DEF Split, Orders
  <2>8. /\ pc' = IF lvl = goal THEN "take" ELSE "split"
        /\ lvl' = IF lvl = goal THEN lvl ELSE lvl - 1
        /\ nodes' = nodes + 1
        /\ UNCHANGED <<mem_map, region, placed, held, goal, blk>>
    BY <1>7 DEF Split, FillReturn, boot
  <2>9. pc' = "take" \/ (pc' = "split" /\ lvl' >= goal' /\ lvl' < ALLOC_MAX_ORDER)
    BY <2>7, <2>8
  <2>10. lvl' \in Orders
    BY <2>7, <2>8
  <2> QED BY <2>6, <2>8, <2>9, <2>10
<1>8. CASE SplitFault
  BY <1>8 DEF SplitFault, Halt, boot
<1>9. CASE Take
  <2>1. /\ Head(free_lists[goal]) \in Nat
        /\ Tail(free_lists[goal]) \in Seq(Nat)
    BY <1>9, PopList DEF Take
  <2>2. free_lists' \in [Orders -> Seq(Nat)]
    BY <1>9, <2>1 DEF Take
  <2>3. held' \subseteq Block
    BY <1>9, <2>1 DEF Take, Block
  <2> QED BY <1>9, <1>0, <2>2, <2>3 DEF Take, Return, boot
<1>10. CASE TakeFault
  BY <1>10 DEF TakeFault, Halt, boot
<1>11. CASE AddTop
  <2>1. free_lists' \in [Orders -> Seq(Nat)]
    BY <1>11, PushList DEF AddTop
  <2> QED BY <1>11, <1>0, <2>1 DEF AddTop, Return, boot
<1>12. CASE AddMerge
  <2>1. PICK i \in DOMAIN free_lists[lvl] :
          free_lists' = [free_lists EXCEPT ![lvl] = RemoveAt(@, i)]
    BY <1>12 DEF AddMerge
  <2>2. free_lists[lvl] \in Seq(Nat)
    OBVIOUS
  <2>3. RemoveAt(free_lists[lvl], i) \in Seq(Nat)
    BY <2>2, UnlinkList, SeqFunction
  <2>4. free_lists' \in [Orders -> Seq(Nat)]
    BY <2>1, <2>3
  <2>5. Align(blk, lvl) \in Nat /\ lvl + 1 \in Orders
    BY <1>12, AlignFacts, Sizes DEF AddMerge
  <2>6. /\ pc' = "add" /\ lvl' = lvl + 1 /\ blk' = Align(blk, lvl)
        /\ nodes' = nodes - 1
        /\ UNCHANGED <<mem_map, region, placed, held, goal>>
    BY <1>12 DEF AddMerge, boot
  <2> QED BY <2>4, <2>5, <2>6
<1>13. CASE AddPush
  <2>1. Align(blk, lvl) \in Nat
    BY AlignFacts
  <2>2. free_lists' \in [Orders -> Seq(Nat)]
    BY <1>13, <2>1, PushList DEF AddPush
  <2> QED BY <1>13, <1>0, <2>2 DEF AddPush, Return, boot
<1>14. ASSUME NEW n \in Requests, Allocate(n) PROVE TypeOK'
  <2>1. PICK k \in Orders : k = GetAllocOrder(n)
    BY <1>14, RequestAssumption, RequestOrder DEF Allocate
  <2>2. /\ lvl' = k /\ goal' = k /\ pc' = "fill"
        /\ UNCHANGED <<mem_map, region, placed, free_lists, held, nodes, blk>>
    BY <1>14, <2>1 DEF Allocate, boot
  <2>3. k >= k
    BY <1>0
  <2> QED BY <2>2, <2>3
<1>15. ASSUME NEW n \in Requests, Refuse(n) PROVE TypeOK'
  BY <1>15 DEF Refuse, vars
<1>16. ASSUME NEW b \in held, Free(b) PROVE TypeOK'
  <2>1. b.start \in Nat /\ b.order \in Orders
    BY DEF Block
  <2> QED BY <1>16, <2>1 DEF Free, boot
<1>17. CASE FreeFault
  BY <1>17 DEF FreeFault, Halt, boot
<1>18. ASSUME NEW r \in Reservations, ReserveExact(r[1], r[2]) PROVE TypeOK'
  <2>1. r[1] \in Nat /\ r[2] \in Nat /\ r[2] <= BlockSize[ALLOC_MAX_ORDER]
    BY RequestAssumption, <1>0, BlockSizeAssumption
  <2>2. PICK k \in Orders : k = GetAllocOrder(r[2])
    BY <2>1, RequestOrder
  <2>3. PICK i \in DOMAIN free_lists[k] :
          free_lists' = [free_lists EXCEPT ![k] = RemoveAt(@, i)]
    BY <1>18, <2>2 DEF ReserveExact
  <2>4. free_lists[k] \in Seq(Nat)
    OBVIOUS
  <2>5. RemoveAt(free_lists[k], i) \in Seq(Nat)
    BY <2>4, UnlinkList, SeqFunction
  <2>6. free_lists' \in [Orders -> Seq(Nat)]
    BY <2>3, <2>5
  <2>7. Align(r[1], k) \in Nat
    BY <2>1, AlignFacts
  <2>8. held' \subseteq Block
    BY <1>18, <2>2, <2>7 DEF ReserveExact, Block
  <2> QED BY <1>18, <2>6, <2>8 DEF ReserveExact, boot
<1>19. ASSUME NEW r \in Reservations, ReserveAbsent(r[1], r[2]) PROVE TypeOK'
  BY <1>19 DEF ReserveAbsent, vars
<1>20. ASSUME NEW r \in Reservations, ReserveLost(r[1], r[2]) PROVE TypeOK'
  BY <1>20 DEF ReserveLost, boot
<1>21. CASE Stopped
  BY <1>21 DEF Stopped, vars
<1>22. CASE UNCHANGED vars
  BY <1>22 DEF vars
<1> QED
  BY <1>1, <1>2, <1>3, <1>4, <1>5, <1>6, <1>7, <1>8, <1>9, <1>10, <1>11, <1>12,
     <1>13, <1>14, <1>15, <1>16, <1>17, <1>18, <1>19, <1>20, <1>21, <1>22
     DEF Next, Step

\* The variables have their types in every reachable state.
THEOREM TypeCorrect == Spec => []TypeOK
<1>1. Init => TypeOK
  <2> SUFFICES ASSUME Init PROVE TypeOK
    OBVIOUS
  <2>1. 0 \in Orders
    BY OrderAssumption DEF Orders
  <2>2. mem_map \in Seq(Region) /\ Len(mem_map) \in Nat
    BY MapAssumption DEF Init
  <2>3. free_lists \in [Orders -> Seq(Nat)]
    BY DEF Init
  <2> QED BY <2>1, <2>2, <2>3 DEF Init, TypeOK
<1> QED BY <1>1, TypeStep, PTL DEF Spec

\* The memory map stays what the firmware reported.
LEMMA MapStays == [Next]_vars => mem_map' = mem_map
<1> SUFFICES ASSUME [Next]_vars PROVE mem_map' = mem_map
  OBVIOUS
<1> USE DEF boot, vars, Halt
<1>1. CASE BootBlock \/ BootFault \/ BootRegion \/ BootDone
  BY <1>1 DEF BootBlock, BootFault, BootRegion, BootDone
<1>2. CASE FillDescend \/ FillStop \/ Split \/ SplitFault \/ Take \/ TakeFault
  BY <1>2 DEF FillDescend, FillStop, Split, SplitFault, Take, TakeFault
<1>3. CASE AddTop \/ AddMerge \/ AddPush \/ FreeFault \/ Stopped \/ UNCHANGED vars
  BY <1>3 DEF AddTop, AddMerge, AddPush, FreeFault, Stopped
<1>4. ASSUME NEW n \in Requests, Allocate(n) \/ Refuse(n) PROVE mem_map' = mem_map
  BY <1>4 DEF Allocate, Refuse
<1>5. ASSUME NEW b \in held, Free(b) PROVE mem_map' = mem_map
  BY <1>5 DEF Free
<1>6. ASSUME NEW r \in Reservations,
             \/ ReserveExact(r[1], r[2])
             \/ ReserveAbsent(r[1], r[2])
             \/ ReserveLost(r[1], r[2])
      PROVE mem_map' = mem_map
  BY <1>6 DEF ReserveExact, ReserveAbsent, ReserveLost
<1> QED BY <1>1, <1>2, <1>3, <1>4, <1>5, <1>6 DEF Next, Step

(***************************************************************************)
(* The inductive invariant.                                                *)
(***************************************************************************)

\* While the kernel boots, exactly the blocks placed so far are on the lists.
Booting ==
  pc = "boot" =>
    /\ held = {}
    /\ FreeBlocks = PlacedOf(mem_map, region, placed)
    /\ region <= Len(mem_map) => placed <= RegionBlocks(mem_map[region])

\* fill_free_list recurses through empty lists only, so that the split, which
\* overwrites a list, overwrites an empty one.
EmptyBelow ==
  /\ pc = "fill"  => \A j \in Orders : goal <= j /\ j < lvl  => free_lists[j] = <<>>
  /\ pc = "split" => \A j \in Orders : goal <= j /\ j <= lvl => free_lists[j] = <<>>

\* The descent of fill_free_list passes empty lists, and the way back up
\* leaves the lists below empty.
LEMMA EmptyFill ==
  ASSUME TypeOK, EmptyBelow, FillDescend \/ FillStop \/ Split
  PROVE  EmptyBelow'
<1>1. /\ free_lists \in Lists /\ lvl \in Int /\ goal \in Int
      /\ \A j \in Orders : j \in Int
  BY OrderAssumption DEF TypeOK, Orders, Lists
<1>2. CASE FillDescend
  <2>1. /\ pc = "fill" /\ pc' = "fill" /\ lvl' = lvl + 1 /\ goal' = goal
        /\ free_lists' = free_lists /\ free_lists[lvl] = <<>>
    BY <1>2 DEF FillDescend
  <2>2. ASSUME NEW j \in Orders, goal <= j, j < lvl + 1 PROVE free_lists[j] = <<>>
    <3>1. j < lvl \/ j = lvl
      BY <1>1, <2>2
    <3> QED BY <3>1, <1>1, <2>1, <2>2 DEF EmptyBelow
  <2> QED BY <2>1, <2>2 DEF EmptyBelow
<1>3. CASE FillStop
  <2>1. /\ pc = "fill" /\ goal' = goal /\ free_lists' = free_lists
        /\ \/ pc' = "take"
           \/ pc' = "split" /\ lvl' = lvl - 1
    BY <1>3 DEF FillStop, FillReturn
  <2>2. ASSUME NEW j \in Orders, goal <= j, j <= lvl - 1 PROVE free_lists[j] = <<>>
    <3>1. j < lvl
      BY <1>1, <2>2
    <3> QED BY <3>1, <1>1, <2>1, <2>2 DEF EmptyBelow
  <2> QED BY <2>1, <2>2 DEF EmptyBelow
<1>4. CASE Split
  <2>1. /\ pc = "split" /\ goal' = goal
        /\ free_lists' = [free_lists EXCEPT ![lvl+1] = Tail(@),
                             ![lvl] = <<Buddy(Head(free_lists[lvl+1]), lvl), Head(free_lists[lvl+1])>>]
        /\ \/ pc' = "take"
           \/ pc' = "split" /\ lvl' = lvl - 1
    BY <1>4 DEF Split, FillReturn
  <2>2. ASSUME NEW j \in Orders, goal <= j, j <= lvl - 1 PROVE free_lists'[j] = <<>>
    <3>1. j <= lvl /\ j # lvl /\ j # lvl + 1
      BY <1>1, <2>2
    <3>2. free_lists[j] = <<>>
      BY <3>1, <1>1, <2>1, <2>2 DEF EmptyBelow
    <3> QED BY <3>1, <3>2, <1>1, <2>1 DEF Lists
  <2> QED BY <2>1, <2>2 DEF EmptyBelow
<1> QED BY <1>2, <1>3, <1>4

\* Every step of the code keeps the lists below the recursion empty.
LEMMA EmptyStep == TypeOK /\ EmptyBelow /\ [Next]_vars => EmptyBelow'
<1> SUFFICES ASSUME TypeOK, EmptyBelow, [Next]_vars PROVE EmptyBelow'
  OBVIOUS
<1>1. CASE FillDescend \/ FillStop \/ Split
  BY <1>1, EmptyFill
<1>2. CASE BootBlock \/ BootFault \/ BootRegion \/ BootDone
  BY <1>2 DEF BootBlock, BootFault, BootRegion, BootDone, Halt, EmptyBelow
<1>3. CASE SplitFault \/ Take \/ TakeFault
  BY <1>3 DEF SplitFault, Take, TakeFault, Halt, Return, EmptyBelow
<1>4. CASE AddTop \/ AddMerge \/ AddPush \/ FreeFault
  BY <1>4 DEF AddTop, AddMerge, AddPush, FreeFault, Halt, Return, EmptyBelow
<1>5. ASSUME NEW n \in Requests, Allocate(n) PROVE EmptyBelow'
  <2>1. PICK k \in Orders : k = GetAllocOrder(n)
    BY <1>5, RequestAssumption, RequestOrder DEF Allocate
  <2>2. lvl' = k /\ goal' = k /\ pc' = "fill"
    BY <1>5, <2>1 DEF Allocate
  <2>3. \A j \in Orders : ~(k <= j /\ j < k)
    BY OrderAssumption DEF Orders
  <2> QED BY <2>2, <2>3 DEF EmptyBelow
<1>6. ASSUME NEW b \in held, Free(b) PROVE EmptyBelow'
  BY <1>6 DEF Free, EmptyBelow
<1>7. ASSUME NEW r \in Reservations, ReserveExact(r[1], r[2]) \/ ReserveLost(r[1], r[2])
      PROVE EmptyBelow'
  BY <1>7 DEF ReserveExact, ReserveLost, EmptyBelow
<1>8. CASE UNCHANGED vars
  BY <1>8 DEF vars, EmptyBelow
<1>9. CASE Stopped \/ (\E n \in Requests : Refuse(n))
           \/ (\E r \in Reservations : ReserveAbsent(r[1], r[2]))
  BY <1>8, <1>9 DEF Stopped, Refuse, ReserveAbsent
<1> QED BY <1>1, <1>2, <1>3, <1>4, <1>5, <1>6, <1>7, <1>8, <1>9 DEF Next, Step

\* All that the map's blocks become, once the map has been read.
AllFrames ==
  region > Len(mem_map) => YieldIn(Pieces) = YieldOf(MapBlocks(mem_map))

IInv ==
  /\ TypeOK
  /\ Separate(mem_map)
  /\ AllInjective(free_lists)
  /\ PiecesApart(Pieces)
  /\ Booting
  /\ EmptyBelow
  /\ AllFrames

\* What every step after boot preserves.
Kept ==
  /\ AllInjective(free_lists')
  /\ PiecesApart(Pieces')
  /\ YieldIn(Pieces') = YieldIn(Pieces)

\* The free blocks, from the variables.
LEMMA FreeOf ==
  /\ TypeOK  => FreeBlocks  = BlocksOn(free_lists)
  /\ TypeOK' => FreeBlocks' = BlocksOn(free_lists')
BY FreeBlocksOn DEF TypeOK, FreeBlocks, Lists

\* The pieces, from the variables.
LEMMA PiecesOf ==
  /\ TypeOK  => Pieces  = PieceSet(BlocksOn(free_lists), held, InHand)
  /\ TypeOK' => Pieces' = PieceSet(BlocksOn(free_lists'), held', InHand')
BY FreeOf DEF Pieces, PieceSet

\* The block in hand, from the variables.
LEMMA InHandOf ==
  /\ pc = "add" => InHand = {MkBlock(blk, lvl)}
  /\ pc # "add" => InHand = {}
  /\ pc' = "add" => InHand' = {MkBlock(blk', lvl')}
  /\ pc' # "add" => InHand' = {}
BY DEF InHand, MkBlock

\* A step that leaves the lists, the held blocks and the hand alone keeps them.
LEMMA KeptSame ==
  ASSUME IInv, TypeOK', free_lists' = free_lists, held' = held, InHand' = InHand
  PROVE  Kept
<1>1. Pieces' = Pieces
  BY PiecesOf DEF IInv
<1> QED BY <1>1 DEF Kept, IInv, AllInjective, PiecesApart, YieldIn

\* A step that replaces one piece by another one with the same frames.
LEMMA KeptMove ==
  ASSUME PiecesApart(Pieces), AllInjective(free_lists'),
         NEW r \in Pieces, NEW n, Yield(n[2]) = Yield(r[2]),
         Pieces' = (Pieces \ {r}) \union {n}
  PROVE  Kept
<1>1. PICK P : P = Pieces
  OBVIOUS
<1>2. PiecesApart((P \ {r}) \union {n}) /\ YieldIn((P \ {r}) \union {n}) = YieldIn(P)
  BY <1>1, Move
<1> QED BY <1>1, <1>2 DEF Kept

\* The split of fill_free_list.
LEMMA KeptSplit ==
  ASSUME IInv, TypeOK', Split
  PROVE  Kept
<1>1. /\ free_lists \in Lists /\ AllInjective(free_lists)
      /\ lvl \in Orders /\ lvl < ALLOC_MAX_ORDER /\ lvl + 1 \in Orders /\ lvl + 1 # lvl
      /\ free_lists[lvl+1] # <<>>
      /\ free_lists[lvl] = <<>>
  <2>1. lvl \in Orders /\ lvl < ALLOC_MAX_ORDER /\ goal <= lvl /\ pc = "split"
    BY DEF IInv, TypeOK, Split
  <2>2. lvl <= lvl /\ lvl + 1 # lvl
    BY <2>1 DEF Orders
  <2>3. free_lists[lvl] = <<>>
    BY <2>1, <2>2 DEF IInv, EmptyBelow
  <2> QED BY <2>1, <2>2, <2>3, Sizes DEF IInv, TypeOK, Split, Lists
<1>2. PICK o \in Nat : o = Head(free_lists[lvl+1])
  BY <1>1, PopBlocks
<1>3. PICK b \in Nat :
        /\ b = Buddy(o, lvl)
        /\ Span(o, lvl) \union Span(b, lvl) = Span(o, lvl+1)
        /\ Span(o, lvl) \intersect Span(b, lvl) = {}
        /\ b # o
  <2>1. /\ Buddy(o, lvl) \in Nat
        /\ Span(o, lvl) \union Span(Buddy(o, lvl), lvl) = Span(o, lvl+1)
        /\ Span(o, lvl) \intersect Span(Buddy(o, lvl), lvl) = {}
        /\ o \in Span(o, lvl)
    BY <1>1, Halves, AlignFacts
  <2>2. Buddy(o, lvl) # o
    BY <2>1
  <2> QED BY <2>1, <2>2
<1>6. free_lists' = [free_lists EXCEPT ![lvl+1] = Tail(@), ![lvl] = <<b, o>>]
  BY <1>2, <1>3 DEF Split
<1>7. held' = held /\ InHand' = {} /\ InHand = {}
  BY InHandOf DEF Split, FillReturn
<1>8. /\ MkBlock(o, lvl+1) \in BlocksOn(free_lists)
      /\ BlocksOn(free_lists') =
           (BlocksOn(free_lists) \ {MkBlock(o, lvl+1)}) \union {MkBlock(b, lvl), MkBlock(o, lvl)}
      /\ AllInjective(free_lists')
  <2>1. PICK L \in Lists, j \in Orders, k \in Orders : L = free_lists /\ j = lvl + 1 /\ k = lvl
    BY <1>1
  <2>2. free_lists' = [L EXCEPT ![j] = Tail(@), ![k] = <<b, o>>]
    BY <1>6, <2>1, Zenon
  <2>5. /\ free_lists' \in Lists /\ free_lists'[j] = Tail(L[j]) /\ free_lists'[k] = <<b, o>>
        /\ \A i \in Orders \ {j, k} : free_lists'[i] = L[i]
    BY <2>2, <2>1, <1>1 DEF Lists, TypeOK
  <2>3. j # k /\ L[j] # <<>> /\ L[k] = <<>> /\ AllInjective(L) /\ o = Head(L[j]) /\ b # o
    BY <1>1, <1>2, <1>3, <2>1, Zenon
  <2>4. /\ MkBlock(o, j) \in BlocksOn(L)
        /\ BlocksOn(free_lists') = (BlocksOn(L) \ {MkBlock(o, j)}) \union {MkBlock(b, k), MkBlock(o, k)}
        /\ AllInjective(free_lists')
    BY <2>3, <2>5, SplitBlocks
  <2> QED BY <2>1, <2>4, Zenon
<1> DEFINE P == PieceSet(BlocksOn(free_lists), held, {})
           R == {<<"free", MkBlock(o, lvl+1)>>}
           N == {<<"free", MkBlock(b, lvl)>>, <<"free", MkBlock(o, lvl)>>}
<1>9. Pieces = P /\ PiecesApart(P)
  BY <1>7, PiecesOf DEF IInv
<1>10. Pieces' = (P \ R) \union N
  <2>1. Pieces' = PieceSet(BlocksOn(free_lists'), held, {})
    BY <1>7, PiecesOf
  <2>2. PieceSet((BlocksOn(free_lists) \ {MkBlock(o, lvl+1)}) \union {MkBlock(b, lvl), MkBlock(o, lvl)}, held, {})
          = (PieceSet(BlocksOn(free_lists), held, {}) \ {<<"free", MkBlock(o, lvl+1)>>})
              \union {<<"free", MkBlock(b, lvl)>>, <<"free", MkBlock(o, lvl)>>}
    BY DEF PieceSet
  <2> QED BY <1>8, <2>1, <2>2, Zenon
<1>11. R \subseteq P
  BY <1>8 DEF PieceSet
<1>12. /\ Yield(MkBlock(o, lvl+1)) = Span(o, lvl+1)
       /\ Yield(MkBlock(b, lvl)) = Span(b, lvl)
       /\ Yield(MkBlock(o, lvl)) = Span(o, lvl)
  BY DEF Yield, MkBlock
<1>13. YieldIn(N) = YieldIn(R)
  <2>1. YieldIn(N) = Yield(MkBlock(b, lvl)) \union Yield(MkBlock(o, lvl))
    BY DEF YieldIn
  <2>2. YieldIn(R) = Yield(MkBlock(o, lvl+1))
    BY DEF YieldIn
  <2> QED BY <2>1, <2>2, <1>3, <1>12
<1>14. PiecesApart(N)
  <2> SUFFICES ASSUME NEW p \in N, NEW q \in N, p # q
               PROVE  Yield(p[2]) \intersect Yield(q[2]) = {}
    BY DEF PiecesApart
  <2>1. \/ p[2] = MkBlock(b, lvl) /\ q[2] = MkBlock(o, lvl)
        \/ p[2] = MkBlock(o, lvl) /\ q[2] = MkBlock(b, lvl)
    OBVIOUS
  <2> QED BY <2>1, <1>3, <1>12
<1> HIDE DEF P, R, N
<1>15. PiecesApart((P \ R) \union N) /\ YieldIn((P \ R) \union N) = YieldIn(P)
  BY <1>9, <1>11, <1>13, <1>14, Replace
<1>16. PiecesApart(Pieces') /\ YieldIn(Pieces') = YieldIn(Pieces)
  BY <1>9, <1>10, <1>15
<1> QED BY <1>8, <1>16 DEF Kept, AllInjective, PiecesApart, YieldIn

\* allocate() takes the head of the list: the block changes hands.
LEMMA KeptTake ==
  ASSUME IInv, TypeOK', Take
  PROVE  Kept
<1>1. PICK L \in Lists, k \in Orders : L = free_lists /\ k = goal
  BY DEF IInv, TypeOK, Lists
<1>2. L[k] # <<>> /\ AllInjective(L)
  BY <1>1 DEF Take, IInv
<1>3. PICK s \in Nat, M \in Lists :
        /\ s = Head(L[k])
        /\ M = [L EXCEPT ![k] = Tail(@)]
        /\ MkBlock(s, k) \in BlocksOn(L)
        /\ BlocksOn(M) = BlocksOn(L) \ {MkBlock(s, k)}
        /\ AllInjective(M)
  BY <1>2, PopBlocks
<1>4. free_lists' = M /\ held' = held \union {MkBlock(s, k)}
  BY <1>1, <1>3 DEF Take, MkBlock
<1>5. InHand = {} /\ InHand' = {}
  BY InHandOf DEF Take, Return
<1>6. Pieces = PieceSet(BlocksOn(L), held, {}) /\ PiecesApart(Pieces)
  BY <1>1, <1>5, PiecesOf DEF IInv
<1>7. Pieces' = PieceSet(BlocksOn(L) \ {MkBlock(s, k)}, held \union {MkBlock(s, k)}, {})
  BY <1>3, <1>4, <1>5, PiecesOf
<1>8. Pieces' = (Pieces \ {<<"free", MkBlock(s, k)>>}) \union {<<"held", MkBlock(s, k)>>}
  BY <1>6, <1>7 DEF PieceSet
<1>9. <<"free", MkBlock(s, k)>> \in Pieces
  BY <1>3, <1>6 DEF PieceSet
<1>10. AllInjective(free_lists')
  BY <1>3, <1>4
<1> HIDE DEF MkBlock
<1> QED BY <1>6, <1>8, <1>9, <1>10, KeptMove

\* reserve() unlinks a block from the middle of its list.
LEMMA KeptReserve ==
  ASSUME IInv, TypeOK', NEW w \in Nat, NEW n \in Nat, n <= BlockSize[ALLOC_MAX_ORDER],
         ReserveExact(w, n)
  PROVE  Kept
<1>1. PICK L \in Lists, k \in Orders : L = free_lists /\ k = GetAllocOrder(n)
  BY RequestOrder DEF IInv, TypeOK, Lists
<1>2. PICK i \in DOMAIN L[k] : L[k][i] = Align(w, k) /\ free_lists' = [L EXCEPT ![k] = RemoveAt(@, i)]
  BY <1>1 DEF ReserveExact, FoundAt
<1>3. AllInjective(L)
  BY <1>1 DEF IInv
<1>4. PICK s \in Nat, M \in Lists :
        /\ s = L[k][i]
        /\ M = [L EXCEPT ![k] = RemoveAt(@, i)]
        /\ MkBlock(s, k) \in BlocksOn(L)
        /\ BlocksOn(M) = BlocksOn(L) \ {MkBlock(s, k)}
        /\ AllInjective(M)
  BY <1>3, UnlinkBlocks
<1>5. free_lists' = M /\ held' = held \union {MkBlock(s, k)}
  BY <1>1, <1>2, <1>4 DEF ReserveExact, MkBlock
<1>6. InHand = {} /\ InHand' = {}
  BY InHandOf DEF ReserveExact
<1>7. Pieces = PieceSet(BlocksOn(L), held, {}) /\ PiecesApart(Pieces)
  BY <1>1, <1>6, PiecesOf DEF IInv
<1>8. Pieces' = PieceSet(BlocksOn(L) \ {MkBlock(s, k)}, held \union {MkBlock(s, k)}, {})
  BY <1>4, <1>5, <1>6, PiecesOf
<1>9. Pieces' = (Pieces \ {<<"free", MkBlock(s, k)>>}) \union {<<"held", MkBlock(s, k)>>}
  BY <1>7, <1>8 DEF PieceSet
<1>10. <<"free", MkBlock(s, k)>> \in Pieces
  BY <1>4, <1>7 DEF PieceSet
<1>11. AllInjective(free_lists')
  BY <1>4, <1>5
<1> QED BY <1>7, <1>9, <1>10, <1>11, KeptMove

\* free() takes a block from the caller.
LEMMA KeptFree ==
  ASSUME IInv, TypeOK', NEW b \in held, Free(b)
  PROVE  Kept
<1>1. b \in Block /\ b = MkBlock(b.start, b.order)
  BY BlockFields DEF IInv, TypeOK
<1>2. free_lists' = free_lists /\ held' = held \ {b} /\ AllInjective(free_lists)
  BY DEF Free, IInv
<1>3. InHand = {} /\ InHand' = {b}
  BY <1>1, InHandOf DEF Free
<1>4. Pieces = PieceSet(BlocksOn(free_lists), held, {}) /\ PiecesApart(Pieces)
  BY <1>3, PiecesOf DEF IInv
<1>5. Pieces' = PieceSet(BlocksOn(free_lists), held \ {b}, {b})
  BY <1>2, <1>3, PiecesOf
<1>6. Pieces' = (Pieces \ {<<"held", b>>}) \union {<<"hand", b>>}
  BY <1>4, <1>5 DEF PieceSet
<1>7. <<"held", b>> \in Pieces
  BY <1>4 DEF PieceSet
<1>8. AllInjective(free_lists')
  BY <1>2
<1> QED BY <1>4, <1>6, <1>7, <1>8, KeptMove

\* add_free_list() pushes the block in hand, or the aligned one with the same
\* frames.
LEMMA KeptPush ==
  ASSUME IInv, TypeOK', pc = "add", NEW s \in Nat, Span(s, lvl) = Span(blk, lvl),
         free_lists' = [free_lists EXCEPT ![lvl] = Cons(s, @)],
         held' = held, InHand' = {}
  PROVE  Kept
<1>1. PICK L \in Lists, k \in Orders, t \in Nat : L = free_lists /\ k = lvl /\ t = blk
  BY DEF IInv, TypeOK, Lists
<1>2. InHand = {MkBlock(t, k)} /\ AllInjective(L)
  BY <1>1, InHandOf DEF IInv
<1>3. Pieces = PieceSet(BlocksOn(L), held, {MkBlock(t, k)}) /\ PiecesApart(Pieces)
  BY <1>1, <1>2, PiecesOf DEF IInv
<1>4. /\ Yield(MkBlock(s, k)) = Span(s, k)
      /\ Yield(MkBlock(t, k)) = Span(s, k)
  BY <1>1 DEF Yield, MkBlock
<1>5. MkBlock(s, k) \notin BlocksOn(L)
  <2> SUFFICES ASSUME MkBlock(s, k) \in BlocksOn(L) PROVE FALSE
    OBVIOUS
  <2>1. <<"free", MkBlock(s, k)>> \in Pieces /\ <<"hand", MkBlock(t, k)>> \in Pieces
    BY <1>3 DEF PieceSet
  <2>2. Span(s, k) \intersect Span(s, k) = {}
    BY <1>3, <1>4, <2>1 DEF PiecesApart
  <2>3. s \in Span(s, k)
    BY AlignFacts
  <2> QED BY <2>2, <2>3
<1>6. PICK M \in Lists :
        /\ M = [L EXCEPT ![k] = Cons(s, @)]
        /\ BlocksOn(M) = BlocksOn(L) \union {MkBlock(s, k)}
        /\ AllInjective(M)
  BY <1>2, <1>5, PushBlocks
<1>7. free_lists' = M
  BY <1>1, <1>6
<1>8. Pieces' = PieceSet(BlocksOn(L) \union {MkBlock(s, k)}, held, {})
  BY <1>6, <1>7, PiecesOf
<1>9. Pieces' = (Pieces \ {<<"hand", MkBlock(t, k)>>}) \union {<<"free", MkBlock(s, k)>>}
  BY <1>3, <1>8 DEF PieceSet
<1>10. <<"hand", MkBlock(t, k)>> \in Pieces
  BY <1>3 DEF PieceSet
<1>11. AllInjective(free_lists')
  BY <1>6, <1>7
<1> QED BY <1>3, <1>4, <1>9, <1>10, <1>11, KeptMove

\* add_free_list() merges the block in hand with its free buddy.
LEMMA KeptMerge ==
  ASSUME IInv, TypeOK', AddMerge
  PROVE  Kept
<1>1. PICK L \in Lists, k \in Orders, t \in Nat : L = free_lists /\ k = lvl /\ t = blk
  BY DEF IInv, TypeOK, Lists
<1>2. AllInjective(L) /\ k < ALLOC_MAX_ORDER /\ k + 1 \in Orders
  BY <1>1, Sizes DEF IInv, AddMerge
<1>3. PICK a \in Nat : a = Align(t, k) /\ Span(a, k) = Span(t, k)
  BY AlignFacts
<1>4. PICK s \in Nat :
        /\ s = Buddy(a, k)
        /\ Span(a, k) \union Span(s, k) = Span(a, k+1)
        /\ Span(a, k) \intersect Span(s, k) = {}
  BY <1>2, Halves
<1>5. PICK i \in DOMAIN L[k] : L[k][i] = s /\ free_lists' = [L EXCEPT ![k] = RemoveAt(@, i)]
  BY <1>1, <1>3, <1>4 DEF AddMerge, FoundAt
<1>6. PICK M \in Lists :
        /\ M = [L EXCEPT ![k] = RemoveAt(@, i)]
        /\ MkBlock(s, k) \in BlocksOn(L)
        /\ BlocksOn(M) = BlocksOn(L) \ {MkBlock(s, k)}
        /\ AllInjective(M)
  BY <1>2, <1>5, UnlinkBlocks
<1>7. free_lists' = M /\ held' = held
  BY <1>5, <1>6 DEF AddMerge
<1>8. InHand = {MkBlock(t, k)} /\ InHand' = {MkBlock(a, k+1)}
  BY <1>1, <1>3, InHandOf DEF AddMerge
<1> DEFINE P == PieceSet(BlocksOn(L), held, {MkBlock(t, k)})
           R == {<<"free", MkBlock(s, k)>>, <<"hand", MkBlock(t, k)>>}
           N == {<<"hand", MkBlock(a, k+1)>>}
<1>9. Pieces = P /\ PiecesApart(P)
  BY <1>1, <1>8, PiecesOf DEF IInv
<1>10. Pieces' = PieceSet(BlocksOn(L) \ {MkBlock(s, k)}, held, {MkBlock(a, k+1)})
  BY <1>6, <1>7, <1>8, PiecesOf
<1>11. Pieces' = (P \ R) \union N
  BY <1>10 DEF PieceSet
<1>12. R \subseteq P
  BY <1>6 DEF PieceSet
<1>13. /\ Yield(MkBlock(s, k)) = Span(s, k)
       /\ Yield(MkBlock(t, k)) = Span(a, k)
       /\ Yield(MkBlock(a, k+1)) = Span(a, k+1)
  BY <1>3 DEF Yield, MkBlock
<1>14. YieldIn(N) = YieldIn(R)
  <2>1. YieldIn(N) = Span(a, k+1)
    BY <1>13 DEF YieldIn
  <2>2. YieldIn(R) = Span(s, k) \union Span(a, k)
    BY <1>13 DEF YieldIn
  <2> QED BY <2>1, <2>2, <1>4
<1>15. PiecesApart(N)
  BY DEF PiecesApart
<1> HIDE DEF P, R, N
<1>16. PiecesApart((P \ R) \union N) /\ YieldIn((P \ R) \union N) = YieldIn(P)
  BY <1>9, <1>12, <1>14, <1>15, Replace
<1> QED BY <1>6, <1>7, <1>9, <1>11, <1>16 DEF Kept

(***************************************************************************)
(* Boot.                                                                   *)
(***************************************************************************)

\* The next block of initialize() is apart from all that are placed.
LEMMA NextApart ==
  ASSUME NEW m \in MemoryMaps, NEW r \in Nat \ {0}, NEW p \in Nat,
         r <= Len(m), p < RegionBlocks(m[r]), NEW c \in PlacedOf(m, r, p), Separate(m)
  PROVE  Yield(RegionBlock(m[r], p)) \intersect Yield(c) = {}
<1>1. PICK n \in Nat : n = Len(m) /\ DOMAIN m = 1..n /\ \A i \in 1..n : m[i] \in Region
  BY MapAssumption
<1>2. PICK i \in DOMAIN m : \E j \in Nat :
        /\ j < RegionBlocks(m[i])
        /\ i < r \/ (i = r /\ j < p)
        /\ c = RegionBlock(m[i], j)
  BY DEF PlacedOf
<1>3. PICK j \in Nat :
        /\ j < RegionBlocks(m[i])
        /\ i < r \/ (i = r /\ j < p)
        /\ c = RegionBlock(m[i], j)
  BY <1>2
<1>4. r \in DOMAIN m /\ RegionBlocks(m[i]) \in Nat /\ RegionBlocks(m[r]) \in Nat
  BY <1>1, RegionBlockType
<1>5. j \in 0..(RegionBlocks(m[i]) - 1) /\ p \in 0..(RegionBlocks(m[r]) - 1)
  BY <1>3, <1>4
<1>6. <<r, p>> # <<i, j>>
  BY <1>3
<1> QED BY <1>3, <1>4, <1>5, <1>6 DEF Separate

\* With nothing held, the frames of the pieces are those of the free blocks.
LEMMA FreeFrames ==
  ASSUME NEW F
  PROVE  YieldIn(PieceSet(F, {}, {})) = YieldOf(F)
<1>1. ASSUME NEW p \in PieceSet(F, {}, {}) PROVE p[2] \in F
  BY DEF PieceSet
<1>2. ASSUME NEW b \in F PROVE <<"free", b>> \in PieceSet(F, {}, {}) /\ <<"free", b>>[2] = b
  BY DEF PieceSet
<1>3. YieldIn(PieceSet(F, {}, {})) \subseteq YieldOf(F)
  BY <1>1 DEF YieldIn, YieldOf
<1>4. YieldOf(F) \subseteq YieldIn(PieceSet(F, {}, {}))
  BY <1>2 DEF YieldIn, YieldOf
<1> QED BY <1>3, <1>4

\* A free block has a frame.
LEMMA SomeFrame ==
  ASSUME NEW b \in Block
  PROVE  Yield(b) # {}
<1>1. b.start \in Nat /\ b.order \in Orders
  BY DEF Block
<1>2. b.start \in Span(b.start, b.order)
  BY <1>1, AlignFacts
<1> QED BY <1>2 DEF Yield

\* While the kernel boots, only the lists hold blocks.
LEMMA BootPieces ==
  ASSUME IInv, pc = "boot"
  PROVE  /\ free_lists \in Lists
         /\ BlocksOn(free_lists) = PlacedOf(mem_map, region, placed)
         /\ Pieces = PieceSet(BlocksOn(free_lists), {}, {})
         /\ mem_map \in MemoryMaps /\ mem_map \in Seq(Region) /\ Separate(mem_map)
         /\ region \in Nat \ {0} /\ placed \in Nat /\ Len(mem_map) \in Nat
<1>1. free_lists \in Lists /\ FreeBlocks = BlocksOn(free_lists)
  BY FreeBlocksOn DEF IInv, TypeOK, FreeBlocks, Lists
<1>2. held = {} /\ InHand = {}
  BY InHandOf DEF IInv, Booting
<1>3. mem_map \in MemoryMaps /\ mem_map \in Seq(Region) /\ Len(mem_map) \in Nat
  BY MapAssumption DEF IInv, TypeOK
<1>4. region \in Nat \ {0} /\ placed \in Nat
  BY <1>3 DEF IInv, TypeOK
<1> QED BY <1>1, <1>2, <1>3, <1>4, PiecesOf DEF IInv, Booting

\* initialize() pushes a block.
LEMMA InvBootBlock ==
  ASSUME IInv, TypeOK', BootBlock
  PROVE  IInv'
<1>1. PICK L \in Lists, m \in MemoryMaps, r \in Nat \ {0}, p \in Nat :
        L = free_lists /\ m = mem_map /\ r = region /\ p = placed
  BY BootPieces DEF BootBlock
<1>2. /\ m \in Seq(Region) /\ Len(m) \in Nat
      /\ r <= Len(m) /\ p < RegionBlocks(m[r])
      /\ BlocksOn(L) = PlacedOf(m, r, p)
      /\ Pieces = PieceSet(BlocksOn(L), {}, {})
      /\ AllInjective(L) /\ PiecesApart(Pieces) /\ Separate(m)
  BY <1>1, BootPieces DEF BootBlock, IInv
<1>3. PICK b \in Block : b = RegionBlock(m[r], p)
  BY <1>2, RegionBlockType
<1>4. PICK s \in Nat, k \in Orders : s = b.start /\ k = b.order /\ b = MkBlock(s, k)
  BY BlockFields
<1>5. \A c \in BlocksOn(L) : Yield(b) \intersect Yield(c) = {}
  BY <1>2, <1>3, NextApart
<1>6. MkBlock(s, k) \notin BlocksOn(L)
  <2>1. Yield(b) # {}
    BY SomeFrame
  <2> QED BY <1>4, <1>5, <2>1
<1>7. PICK M \in Lists :
        /\ M = [L EXCEPT ![k] = Cons(s, @)]
        /\ BlocksOn(M) = BlocksOn(L) \union {MkBlock(s, k)}
        /\ AllInjective(M)
  BY <1>2, <1>6, PushBlocks
<1>8. /\ free_lists' = M /\ mem_map' = m /\ region' = r /\ placed' = p + 1
      /\ held' = held /\ pc' = "boot" /\ pc = "boot"
  BY <1>1, <1>3, <1>4, <1>7 DEF BootBlock
<1>9. held' = {} /\ InHand' = {}
  BY <1>8, InHandOf DEF IInv, Booting
<1>10. FreeBlocks' = BlocksOn(M)
  BY <1>8, FreeOf
<1>11. Booting'
  <2>1. BlocksOn(M) = PlacedOf(m, r, p + 1)
    <3>1. PlacedOf(m, r, p + 1) = PlacedOf(m, r, p) \union {RegionBlock(m[r], p)}
      BY <1>2, Placing
    <3> QED BY <3>1, <1>2, <1>3, <1>4, <1>7
  <2>2. RegionBlocks(m[r]) \in Nat
    BY <1>2, RegionBlockType
  <2>3. p + 1 <= RegionBlocks(m[r])
    BY <1>2, <2>2
  <2> QED BY <1>8, <1>9, <1>10, <2>1, <2>3 DEF Booting
<1>12. Pieces' = PieceSet(BlocksOn(L), {}, {}) \union {<<"free", b>>}
  <2>1. Pieces' = PieceSet(BlocksOn(L) \union {b}, {}, {})
    BY <1>4, <1>7, <1>8, <1>9, PiecesOf
  <2> QED BY <2>1 DEF PieceSet
<1>13. PiecesApart(Pieces')
  <2> SUFFICES ASSUME NEW x \in Pieces', NEW y \in Pieces', x # y
               PROVE  Yield(x[2]) \intersect Yield(y[2]) = {}
    BY DEF PiecesApart
  <2>1. \A z \in Pieces : z[2] \in BlocksOn(L)
    BY <1>2 DEF PieceSet
  <2>2. CASE x \in Pieces /\ y \in Pieces
    BY <2>2, <1>2 DEF PiecesApart
  <2>3. CASE x \in Pieces /\ y = <<"free", b>>
    BY <2>1, <2>3, <1>5
  <2>4. CASE x = <<"free", b>> /\ y \in Pieces
    BY <2>1, <2>4, <1>5
  <2> QED BY <2>2, <2>3, <2>4, <1>2, <1>12
<1>14. EmptyBelow' /\ AllFrames' /\ Separate(mem_map')
  BY <1>2, <1>8 DEF EmptyBelow, AllFrames
<1> QED BY <1>7, <1>8, <1>11, <1>13, <1>14 DEF IInv, AllInjective, PiecesApart

\* initialize() goes on to the next region.
LEMMA InvBootRegion ==
  ASSUME IInv, TypeOK', BootRegion
  PROVE  IInv'
<1>1. PICK L \in Lists, m \in MemoryMaps, r \in Nat \ {0}, p \in Nat :
        L = free_lists /\ m = mem_map /\ r = region /\ p = placed
  BY BootPieces DEF BootRegion
<1>2. /\ m \in Seq(Region) /\ Len(m) \in Nat
      /\ r <= Len(m) /\ p = RegionBlocks(m[r])
      /\ BlocksOn(L) = PlacedOf(m, r, p)
      /\ Pieces = PieceSet(BlocksOn(L), {}, {})
  BY <1>1, BootPieces DEF BootRegion
<1>3. /\ free_lists' = free_lists /\ mem_map' = m /\ region' = r + 1 /\ placed' = 0
      /\ held' = held /\ pc' = "boot" /\ pc = "boot"
  BY <1>1 DEF BootRegion
<1>4. InHand = {} /\ InHand' = {}
  BY <1>3, InHandOf
<1>5. Kept
  BY <1>3, <1>4, KeptSame
<1>6. FreeBlocks' = PlacedOf(m, r + 1, 0)
  <2>1. PlacedOf(m, r + 1, 0) = PlacedOf(m, r, p)
    BY <1>2, Placing
  <2> QED BY <1>1, <1>2, <1>3, <2>1, FreeOf
<1>7. Booting'
  <2>1. r + 1 <= Len(m) => 0 <= RegionBlocks(m[r+1])
    BY <1>2, RegionBlockType
  <2> QED BY <1>3, <1>6, <2>1 DEF IInv, Booting
<1>8. AllFrames'
  <2> SUFFICES ASSUME r + 1 > Len(m) PROVE YieldIn(Pieces') = YieldOf(MapBlocks(m))
    BY <1>3 DEF AllFrames
  <2>1. BlocksOn(L) = MapBlocks(m)
    BY <1>2, Placing
  <2>2. YieldIn(PieceSet(BlocksOn(L), {}, {})) = YieldOf(BlocksOn(L))
    BY FreeFrames
  <2> QED BY <1>2, <1>5, <2>1, <2>2 DEF Kept
<1>9. EmptyBelow' /\ Separate(mem_map')
  BY <1>1, <1>3 DEF EmptyBelow, IInv
<1> QED BY <1>5, <1>7, <1>8, <1>9 DEF IInv, Kept, AllInjective, PiecesApart

(***************************************************************************)
(* The invariant is inductive.                                             *)
(***************************************************************************)

\* A step that keeps the pieces, after boot or at its end, keeps the invariant.
LEMMA InvKept ==
  ASSUME IInv, TypeOK', Kept, pc' # "boot", UNCHANGED boot, EmptyBelow'
  PROVE  IInv'
<1>1. Booting'
  BY DEF Booting
<1>2. AllFrames' /\ Separate(mem_map')
  BY DEF IInv, Kept, AllFrames, boot
<1> QED BY <1>1, <1>2 DEF IInv, Kept, AllInjective, PiecesApart

\* Every step of the code keeps the invariant.
LEMMA InvStep == IInv /\ [Next]_vars => IInv'
<1> SUFFICES ASSUME IInv, [Next]_vars PROVE IInv'
  OBVIOUS
<1>0. TypeOK'
  BY TypeStep DEF IInv
<1>e. EmptyBelow'
  BY EmptyStep DEF IInv
<1>same. ASSUME free_lists' = free_lists, held' = held, UNCHANGED boot,
                pc # "add", pc' \in {"idle", "fill", "split", "take", "halted", "lost"}
         PROVE  IInv'
  <2>1. InHand = {} /\ InHand' = {}
    BY <1>same, InHandOf
  <2> QED BY <1>0, <1>e, <1>same, <2>1, KeptSame, InvKept
<1>1. CASE BootBlock
  BY <1>0, <1>1, InvBootBlock
<1>2. CASE BootFault
  BY <1>2, <1>same DEF BootFault, Halt
<1>3. CASE BootRegion
  BY <1>0, <1>3, InvBootRegion
<1>4. CASE BootDone
  BY <1>4, <1>same DEF BootDone
<1>5. CASE FillDescend
  BY <1>0, <1>5, <1>same DEF FillDescend
<1>6. CASE FillStop
  BY <1>0, <1>6, <1>same DEF FillStop, FillReturn
<1>7. CASE Split
  <2>1. pc' # "boot" /\ UNCHANGED boot
    BY <1>7 DEF Split, FillReturn
  <2> QED BY <1>0, <1>e, <1>7, <2>1, KeptSplit, InvKept
<1>8. CASE SplitFault
  BY <1>8, <1>same DEF SplitFault, Halt
<1>9. CASE Take
  <2>1. pc' = "idle" /\ UNCHANGED boot
    BY <1>9 DEF Take, Return
  <2> QED BY <1>0, <1>e, <1>9, <2>1, KeptTake, InvKept
<1>10. CASE TakeFault
  BY <1>10, <1>same DEF TakeFault, Halt
<1>11. CASE AddTop
  <2>1. /\ pc = "add" /\ pc' = "idle" /\ UNCHANGED boot /\ held' = held
        /\ free_lists' = [free_lists EXCEPT ![lvl] = Cons(blk, @)]
    BY <1>11 DEF AddTop, Return
  <2>2. blk \in Nat /\ InHand' = {}
    BY <2>1, InHandOf DEF IInv, TypeOK
  <2>3. Kept
    BY <1>0, <2>1, <2>2, KeptPush
  <2> QED BY <1>0, <1>e, <2>1, <2>3, InvKept
<1>12. CASE AddMerge
  <2>1. pc' = "add" /\ UNCHANGED boot
    BY <1>12 DEF AddMerge
  <2> QED BY <1>0, <1>e, <1>12, <2>1, KeptMerge, InvKept
<1>13. CASE AddPush
  <2>1. /\ pc = "add" /\ pc' = "idle" /\ UNCHANGED boot /\ held' = held
        /\ free_lists' = [free_lists EXCEPT ![lvl] = Cons(Align(blk, lvl), @)]
    BY <1>13 DEF AddPush, Return
  <2>2. Align(blk, lvl) \in Nat /\ Span(Align(blk, lvl), lvl) = Span(blk, lvl) /\ InHand' = {}
    BY <2>1, InHandOf, AlignFacts DEF IInv, TypeOK
  <2>3. Kept
    BY <1>0, <2>1, <2>2, KeptPush
  <2> QED BY <1>0, <1>e, <2>1, <2>3, InvKept
<1>14. ASSUME NEW n \in Requests, Allocate(n) PROVE IInv'
  <2>1. pc' = "fill" /\ pc = "idle" /\ UNCHANGED <<free_lists, held>> /\ UNCHANGED boot
    BY <1>14 DEF Allocate
  <2> QED BY <2>1, <1>same
<1>15. ASSUME NEW n \in Requests, Refuse(n) PROVE IInv'
  BY <1>15, <1>same DEF Refuse, vars, boot
<1>16. ASSUME NEW b \in held, Free(b) PROVE IInv'
  <2>1. pc' = "add" /\ UNCHANGED boot
    BY <1>16 DEF Free
  <2> QED BY <1>0, <1>e, <1>16, <2>1, KeptFree, InvKept
<1>17. CASE FreeFault
  BY <1>17, <1>same DEF FreeFault, Halt
<1>18. ASSUME NEW r \in Reservations, ReserveExact(r[1], r[2]) PROVE IInv'
  <2>1. r[1] \in Nat /\ r[2] \in Nat /\ r[2] <= BlockSize[ALLOC_MAX_ORDER]
    BY RequestAssumption, OrderAssumption, BlockSizeAssumption DEF Orders
  <2>2. pc' = "idle" /\ UNCHANGED boot
    BY <1>18 DEF ReserveExact
  <2> QED BY <1>0, <1>e, <1>18, <2>1, <2>2, KeptReserve, InvKept
<1>19. ASSUME NEW r \in Reservations, ReserveAbsent(r[1], r[2]) PROVE IInv'
  BY <1>19, <1>same DEF ReserveAbsent, vars, boot
<1>20. ASSUME NEW r \in Reservations, ReserveLost(r[1], r[2]) PROVE IInv'
  BY <1>20, <1>same DEF ReserveLost
<1>21. CASE UNCHANGED vars
  <2>1. UNCHANGED <<mem_map, region, placed, free_lists, held, nodes, pc, lvl, goal, blk>>
    BY <1>21 DEF vars
  <2>2. FreeBlocks' = FreeBlocks /\ InHand' = InHand
    BY <2>1 DEF FreeBlocks, InHand
  <2>3. Kept
    BY <1>0, <2>1, <2>2, KeptSame
  <2>4. Booting'
    BY <2>1, <2>2 DEF IInv, Booting
  <2>5. AllFrames' /\ Separate(mem_map')
    BY <2>1, <2>3 DEF IInv, AllFrames, Kept
  <2> QED BY <1>0, <1>e, <2>3, <2>4, <2>5 DEF IInv, Kept, AllInjective, PiecesApart
<1>22. CASE Stopped
  BY <1>21, <1>22 DEF Stopped
<1> QED
  BY <1>1, <1>2, <1>3, <1>4, <1>5, <1>6, <1>7, <1>8, <1>9, <1>10, <1>11, <1>12,
     <1>13, <1>14, <1>15, <1>16, <1>17, <1>18, <1>19, <1>20, <1>21, <1>22
     DEF Next, Step

\* The invariant holds when the kernel starts.
LEMMA InvInit == Init /\ Separate(mem_map) => IInv
<1> SUFFICES ASSUME Init, Separate(mem_map) PROVE IInv
  OBVIOUS
<1>1. TypeOK
  <2>1. 0 \in Orders
    BY OrderAssumption DEF Orders
  <2>2. mem_map \in Seq(Region) /\ Len(mem_map) \in Nat
    BY MapAssumption DEF Init
  <2>3. free_lists \in [Orders -> Seq(Nat)]
    BY DEF Init
  <2> QED BY <2>1, <2>2, <2>3 DEF Init, TypeOK
<1>2. \A k \in Orders : free_lists[k] = <<>>
  BY DEF Init
<1>3. AllInjective(free_lists)
  <2>1. IsInjective(<<>>)
    BY DEF IsInjective
  <2> QED BY <1>2, <2>1 DEF AllInjective
<1>4. BlocksOn(free_lists) = {}
  <2>1. Range(<<>>) = {}
    BY DEF Range
  <2>2. ASSUME NEW b \in Block PROVE b.start \notin Range(free_lists[b.order])
    BY <1>2, <2>1 DEF Block
  <2> QED BY <2>2 DEF BlocksOn
<1>5. held = {} /\ InHand = {}
  BY InHandOf DEF Init
<1>6. Pieces = {}
  BY <1>1, <1>4, <1>5, PiecesOf DEF PieceSet
<1>7. PiecesApart(Pieces)
  BY <1>6 DEF PiecesApart
<1>8. mem_map \in Seq(Region) /\ Len(mem_map) \in Nat
  BY MapAssumption DEF Init
<1>9. PlacedOf(mem_map, 1, 0) = {}
  BY <1>8, Placing
<1>10. Booting
  <2>1. 1 <= Len(mem_map) => 0 <= RegionBlocks(mem_map[1])
    BY <1>8, RegionBlockType
  <2> QED BY <1>1, <1>4, <1>5, <1>9, <2>1, FreeOf DEF Booting, Init
<1>11. AllFrames
  <2> SUFFICES ASSUME 1 > Len(mem_map)
               PROVE  YieldIn(Pieces) = YieldOf(MapBlocks(mem_map))
    BY DEF Init, AllFrames
  <2>1. MapBlocks(mem_map) = {}
    BY <1>8, <1>9, Placing
  <2> QED BY <1>6, <2>1 DEF YieldIn, YieldOf
<1>12. EmptyBelow
  BY DEF Init, EmptyBelow
<1> QED BY <1>1, <1>3, <1>7, <1>10, <1>11, <1>12 DEF IInv

\* The inductive invariant holds in every reachable state, for each map no two
\* blocks of which become the same frames.
THEOREM Invariant == Spec => [](Separate(mem_map) => IInv)
<1>1. Init => (Separate(mem_map) => IInv)
  BY InvInit
<1>2. (Separate(mem_map) => IInv) /\ [Next]_vars => (Separate(mem_map) => IInv)'
  BY InvStep, MapStays
<1> QED BY <1>1, <1>2, PTL DEF Spec

(***************************************************************************)
(* Exact orders: what calls are given is what it is taken for.             *)
(***************************************************************************)

\* The blocks on lists L of order k and above start at multiples of 2^k.
ListsAligned(L, k) == \A j \in Orders : k <= j => \A s \in Range(L[j]) : Align(s, k) = s

\* So do all others.  The one in hand, of this very order, is aligned only when
\* it is pushed.
AlignedAt(k) ==
  /\ ListsAligned(free_lists, k)
  /\ \A b \in held : k <= b.order => Align(b.start, k) = b.start
  /\ pc = "add" /\ k < lvl => Align(blk, k) = blk

ExactAligned == \A k \in Orders : Exact(mem_map, k) => AlignedAt(k)

\* A list that a block is unlinked or popped from holds nothing new.
LEMMA UnlinkLess ==
  ASSUME NEW L \in Lists, NEW k \in Orders, NEW i \in DOMAIN L[k], AllInjective(L), NEW j \in Orders
  PROVE  Range([L EXCEPT ![k] = RemoveAt(@, i)][j]) \subseteq Range(L[j])
<1>1. L[k] \in Seq(Nat) /\ IsInjective(L[k])
  BY DEF Lists, AllInjective
<1>2. PICK n \in Nat : n = Len(L[k]) /\ i \in 1..n
  BY <1>1, SeqFunction
<1>3. Range(RemoveAt(L[k], i)) \subseteq Range(L[k])
  BY <1>1, <1>2, UnlinkList
<1>4. [L EXCEPT ![k] = RemoveAt(@, i)][j] = IF j = k THEN RemoveAt(L[k], i) ELSE L[j]
  BY DEF Lists
<1> QED BY <1>3, <1>4

LEMMA PopLess ==
  ASSUME NEW L \in Lists, NEW k \in Orders, L[k] # <<>>, AllInjective(L), NEW j \in Orders
  PROVE  Range([L EXCEPT ![k] = Tail(@)][j]) \subseteq Range(L[j])
<1>1. L[k] \in Seq(Nat) /\ IsInjective(L[k])
  BY DEF Lists, AllInjective
<1>2. Range(Tail(L[k])) \subseteq Range(L[k])
  BY <1>1, PopList
<1>3. [L EXCEPT ![k] = Tail(@)][j] = IF j = k THEN Tail(L[k]) ELSE L[j]
  BY DEF Lists
<1> QED BY <1>2, <1>3

\* Lists that lose blocks, or gain aligned ones, stay aligned.
LEMMA AlignedKept ==
  ASSUME NEW L, NEW M, NEW k, ListsAligned(L, k),
         \A j \in Orders : \A s \in Range(M[j]) :
           s \in Range(L[j]) \/ (k <= j => Align(s, k) = s)
  PROVE  ListsAligned(M, k)
BY DEF ListsAligned

\* A block is pushed.
LEMMA PushAligned ==
  ASSUME NEW L \in Lists, NEW k, NEW j \in Orders, NEW a \in Nat, ListsAligned(L, k),
         k <= j => Align(a, k) = a
  PROVE  ListsAligned([L EXCEPT ![j] = Cons(a, @)], k)
<1>1. L[j] \in Seq(Nat)
  BY DEF Lists
<1>2. Range(Cons(a, L[j])) = Range(L[j]) \union {a}
  BY <1>1, PushList
<1>3. \A i \in Orders : [L EXCEPT ![j] = Cons(a, @)][i] = IF i = j THEN Cons(a, L[j]) ELSE L[i]
  BY DEF Lists
<1> DEFINE M == [L EXCEPT ![j] = Cons(a, @)]
<1>4. \A i \in Orders : \A s \in Range(M[i]) :
        s \in Range(L[i]) \/ (k <= i => Align(s, k) = s)
  BY <1>2, <1>3
<1> HIDE DEF M
<1>5. ListsAligned(M, k)
  BY <1>4, AlignedKept
<1> QED BY <1>5 DEF M

\* While the kernel boots the blocks are some of the map's.
LEMMA PlacedIn ==
  ASSUME NEW m \in Seq(Region), NEW r, NEW p
  PROVE  PlacedOf(m, r, p) \subseteq MapBlocks(m)
<1> SUFFICES ASSUME NEW b \in PlacedOf(m, r, p) PROVE b \in MapBlocks(m)
  OBVIOUS
<1>1. PICK i \in DOMAIN m, j \in Nat : j < RegionBlocks(m[i]) /\ b = RegionBlock(m[i], j)
  BY DEF PlacedOf
<1>2. RegionBlocks(m[i]) \in Nat
  BY RegionBlockType
<1> QED BY <1>1, <1>2 DEF MapBlocks

\* Blocks are aligned for the orders the map is exact for, through every split
\* and merge.
LEMMA AlignedStep ==
  ASSUME IInv, IInv', [Next]_vars, NEW k \in Orders, Exact(mem_map, k), AlignedAt(k)
  PROVE  AlignedAt(k)'
<1>0. /\ free_lists \in Lists /\ AllInjective(free_lists) /\ ListsAligned(free_lists, k)
      /\ lvl \in Orders /\ goal \in Orders /\ blk \in Nat /\ held \subseteq Block
      /\ ALLOC_MAX_ORDER \in Nat /\ \A j \in Orders : j \in Nat /\ j <= ALLOC_MAX_ORDER
  <2>1. ALLOC_MAX_ORDER \in Nat /\ \A j \in Orders : j \in Nat /\ j <= ALLOC_MAX_ORDER
    BY OrderAssumption DEF Orders
  <2> QED BY <2>1 DEF IInv, TypeOK, AlignedAt, Lists
<1>1. k < ALLOC_MAX_ORDER
  BY DEF Exact
<1>same. ASSUME free_lists' = free_lists, held' = held, pc' # "add" PROVE AlignedAt(k)'
  BY <1>same DEF AlignedAt
<1>2. CASE BootBlock
  <2>1. PICK L \in Lists, m \in Seq(Region) : L = free_lists' /\ m = mem_map
    BY MapAssumption DEF IInv, TypeOK, Lists
  <2>2. pc' = "boot" /\ mem_map' = m
    BY <1>2, <2>1 DEF BootBlock
  <2>3. BlocksOn(L) = PlacedOf(m, region', placed') /\ held' = {}
    BY <2>1, <2>2, FreeOf DEF IInv, Booting
  <2>4. BlocksOn(L) \subseteq MapBlocks(mem_map)
    BY <2>1, <2>3, PlacedIn
  <2>5. ASSUME NEW j \in Orders, k <= j, NEW s \in Range(L[j]) PROVE Align(s, k) = s
    <3>1. s \in Nat
      BY SeqFunction DEF Lists, Range
    <3>2. MkBlock(s, j) \in MapBlocks(mem_map)
      BY <2>4, <3>1, BlockFields DEF BlocksOn
    <3> QED BY <2>5, <3>2 DEF Exact, MkBlock
  <2> QED BY <2>1, <2>2, <2>3, <2>5 DEF AlignedAt, ListsAligned
<1>3. CASE BootFault \/ BootRegion \/ BootDone \/ FreeFault \/ FillDescend \/ FillStop
  BY <1>3, <1>same DEF BootFault, BootRegion, BootDone, FreeFault, Halt, FillDescend, FillStop,
                       FillReturn
<1>4. CASE SplitFault \/ TakeFault
  BY <1>4, <1>same DEF SplitFault, TakeFault, Halt
<1>5. CASE Split
  <2>1. PICK o \in Nat, b \in Nat :
          /\ o = Head(free_lists[lvl+1]) /\ b = Buddy(o, lvl)
          /\ o \in Range(free_lists[lvl+1])
          /\ lvl + 1 \in Orders /\ lvl < ALLOC_MAX_ORDER /\ lvl + 1 # lvl
          /\ Range(Tail(free_lists[lvl+1])) \subseteq Range(free_lists[lvl+1])
    <3>1. lvl < ALLOC_MAX_ORDER /\ lvl + 1 \in Orders /\ lvl # lvl + 1
      BY <1>5, <1>0, OrderAssumption DEF Split, IInv, TypeOK, Orders
    <3>2. /\ free_lists[lvl+1] \in Seq(Nat) /\ free_lists[lvl+1] # <<>>
          /\ IsInjective(free_lists[lvl+1])
      BY <1>0, <1>5, <3>1 DEF Split, Lists, AllInjective
    <3>3. /\ Head(free_lists[lvl+1]) \in Nat
          /\ Head(free_lists[lvl+1]) \in Range(free_lists[lvl+1])
          /\ Range(Tail(free_lists[lvl+1])) \subseteq Range(free_lists[lvl+1])
      BY <3>2, PopList
    <3> QED BY <1>0, <3>1, <3>3, Halves
  <2>2. k <= lvl => Align(o, k) = o /\ Align(b, k) = b
    <3>1. k <= lvl => k <= lvl + 1
      BY <1>0
    <3>2. k <= lvl => Align(o, k) = o
      BY <1>0, <2>1, <3>1 DEF ListsAligned
    <3> QED BY <1>0, <2>1, <3>2, BuddyAligned
  <2>3. /\ free_lists'[lvl+1] = Tail(free_lists[lvl+1])
        /\ free_lists'[lvl] = <<b, o>>
        /\ \A j \in Orders \ {lvl, lvl+1} : free_lists'[j] = free_lists[j]
    BY <1>0, <1>5, <2>1 DEF Split, Lists
  <2>4. Range(<<b, o>>) = {b, o}
    <3>1. b # o
      BY <1>0, <2>1, Halves, AlignFacts
    <3> QED BY <3>1, PairList
  <2>5. ASSUME NEW j \in Orders, NEW s \in Range(free_lists'[j])
        PROVE  s \in Range(free_lists[j]) \/ (k <= j => Align(s, k) = s)
    <3>1. CASE j = lvl
      BY <3>1, <2>2, <2>3, <2>4
    <3>2. CASE j # lvl
      BY <3>2, <2>1, <2>3
    <3> QED BY <3>1, <3>2
  <2>6. ListsAligned(free_lists', k)
    BY <1>0, <2>5, AlignedKept
  <2>7. held' = held /\ pc' # "add"
    BY <1>5 DEF Split, FillReturn
  <2> QED BY <2>6, <2>7 DEF AlignedAt
<1>6. CASE Take
  <2>1. /\ free_lists' = [free_lists EXCEPT ![goal] = Tail(@)] /\ free_lists[goal] # <<>>
        /\ held' = held \union {MkBlock(Head(free_lists[goal]), goal)} /\ pc' = "idle"
    BY <1>6 DEF Take, Return, MkBlock
  <2>2. ListsAligned(free_lists', k)
    BY <1>0, <2>1, PopLess, AlignedKept
  <2>3. Head(free_lists[goal]) \in Range(free_lists[goal])
    <3>1. free_lists[goal] \in Seq(Nat)
      BY <1>0 DEF Lists
    <3> QED BY <2>1, <3>1, PopList
  <2>4. k <= goal => Align(Head(free_lists[goal]), k) = Head(free_lists[goal])
    BY <1>0, <2>3 DEF ListsAligned
  <2> QED BY <2>1, <2>2, <2>4 DEF AlignedAt, MkBlock
<1>7. CASE AddTop
  <2>1. /\ free_lists' = [free_lists EXCEPT ![lvl] = Cons(blk, @)] /\ held' = held /\ pc' = "idle"
        /\ Align(blk, k) = blk
    BY <1>1, <1>7 DEF AddTop, Return, AlignedAt
  <2>2. ListsAligned(free_lists', k)
    BY <1>0, <2>1, PushAligned
  <2> QED BY <2>1, <2>2 DEF AlignedAt
<1>8. CASE AddMerge
  <2>1. PICK i \in DOMAIN free_lists[lvl] :
          free_lists' = [free_lists EXCEPT ![lvl] = RemoveAt(@, i)]
    BY <1>8 DEF AddMerge
  <2>2. ListsAligned(free_lists', k)
    BY <1>0, <2>1, UnlinkLess, AlignedKept
  <2>3. lvl' = lvl + 1 /\ blk' = Align(blk, lvl) /\ held' = held
    BY <1>8 DEF AddMerge
  <2>4. Align(blk, lvl) \in Nat /\ Align(Align(blk, lvl), lvl) = Align(blk, lvl)
    BY <1>0, AlignFacts
  <2>5. k < lvl' => k <= lvl
    BY <1>0, <2>3
  <2>6. k < lvl' => Align(blk', k) = blk'
    BY <1>0, <2>3, <2>4, <2>5, AlignBelow
  <2> QED BY <2>2, <2>3, <2>6 DEF AlignedAt
<1>9. CASE AddPush
  <2>1. /\ free_lists' = [free_lists EXCEPT ![lvl] = Cons(Align(blk, lvl), @)]
        /\ held' = held /\ pc' = "idle"
    BY <1>9 DEF AddPush, Return
  <2>2. Align(blk, lvl) \in Nat /\ Align(Align(blk, lvl), lvl) = Align(blk, lvl)
    BY <1>0, AlignFacts
  <2>3. k <= lvl => Align(Align(blk, lvl), k) = Align(blk, lvl)
    BY <1>0, <2>2, AlignBelow
  <2>4. ListsAligned(free_lists', k)
    BY <1>0, <2>1, <2>2, <2>3, PushAligned
  <2> QED BY <2>1, <2>4 DEF AlignedAt
<1>10. ASSUME NEW n \in Requests, Allocate(n) \/ Refuse(n) PROVE AlignedAt(k)'
  BY <1>10 DEF Allocate, Refuse, vars, AlignedAt
<1>11. ASSUME NEW b \in held, Free(b) PROVE AlignedAt(k)'
  <2>1. free_lists' = free_lists /\ held' \subseteq held /\ blk' = b.start /\ lvl' = b.order
    BY <1>11 DEF Free
  <2>2. b.order \in Orders
    BY <1>0 DEF Block
  <2>3. k < b.order => k <= b.order
    BY <1>0, <2>2
  <2> QED BY <2>1, <2>3 DEF AlignedAt
<1>12. ASSUME NEW r \in Reservations, ReserveExact(r[1], r[2]) PROVE AlignedAt(k)'
  <2>1. r[1] \in Nat /\ r[2] \in Nat /\ r[2] <= BlockSize[ALLOC_MAX_ORDER]
    BY RequestAssumption, OrderAssumption, BlockSizeAssumption DEF Orders
  <2>2. PICK j \in Orders : j = GetAllocOrder(r[2])
    BY <2>1, RequestOrder
  <2>3. PICK i \in DOMAIN free_lists[j] :
          /\ free_lists' = [free_lists EXCEPT ![j] = RemoveAt(@, i)]
          /\ free_lists[j][i] = Align(r[1], j)
    BY <1>12, <2>2 DEF ReserveExact, FoundAt
  <2>4. ListsAligned(free_lists', k)
    <3>1. \A x \in Orders : Range(free_lists'[x]) \subseteq Range(free_lists[x])
      BY <1>0, <2>3, UnlinkLess
    <3> QED BY <1>0, <3>1, AlignedKept
  <2>5. k <= j => Align(Align(r[1], j), k) = Align(r[1], j)
    BY <1>0, <2>3 DEF ListsAligned, Range
  <2>6. held' = held \union {MkBlock(Align(r[1], j), j)} /\ pc' = "idle"
    BY <1>12, <2>2 DEF ReserveExact, MkBlock
  <2> QED BY <2>4, <2>5, <2>6 DEF AlignedAt, MkBlock
<1>13. ASSUME NEW r \in Reservations, ReserveAbsent(r[1], r[2]) \/ ReserveLost(r[1], r[2])
       PROVE AlignedAt(k)'
  BY <1>13 DEF ReserveAbsent, ReserveLost, vars, AlignedAt
<1>14. CASE Stopped \/ UNCHANGED vars
  BY <1>14 DEF Stopped, vars, AlignedAt
<1> QED BY <1>2, <1>3, <1>4, <1>5, <1>6, <1>7, <1>8, <1>9, <1>10, <1>11, <1>12, <1>13, <1>14
        DEF Next, Step

\* All blocks are aligned for the orders that the map is exact for.
THEOREM StaysAligned == Spec => [](Separate(mem_map) => ExactAligned)
<1>1. Init => ExactAligned
  <2> SUFFICES ASSUME Init PROVE ExactAligned
    OBVIOUS
  <2>1. Range(<<>>) = {}
    BY DEF Range
  <2> QED BY <2>1 DEF Init, ExactAligned, AlignedAt, ListsAligned
<1>2. ASSUME Separate(mem_map) => IInv, (Separate(mem_map) => IInv)',
             Separate(mem_map) => ExactAligned, [Next]_vars
      PROVE  (Separate(mem_map) => ExactAligned)'
  <2> SUFFICES ASSUME Separate(mem_map), NEW k \in Orders, Exact(mem_map, k)
               PROVE  AlignedAt(k)'
    BY MapStays, <1>2 DEF ExactAligned
  <2> QED BY <1>2, MapStays, AlignedStep DEF ExactAligned
<1> QED BY <1>1, <1>2, Invariant, PTL DEF Spec

\* A block of an exact order that a caller has becomes what he takes it for.
LEMMA ExactExtent ==
  ASSUME IInv, ExactAligned, NEW b \in held, Exact(mem_map, b.order)
  PROVE  Extent(b) = Yield(b)
<1>1. b.order \in Orders
  BY DEF IInv, TypeOK, Block
<1>2. b.order <= b.order
  BY <1>1 DEF Orders
<1>3. Align(b.start, b.order) = b.start
  BY <1>1, <1>2 DEF ExactAligned, AlignedAt
<1> QED BY <1>3 DEF Extent, Yield, Span

\* No frame is in two hands or both free and held, through every split and
\* every merge, for all orders and maps whose blocks are exact.
THEOREM Exclusive == Spec => []NoOverlap
<1>1. ASSUME Separate(mem_map) => IInv, Separate(mem_map) => ExactAligned PROVE NoOverlap
  <2> SUFFICES ASSUME IInv, ExactAligned, NEW b \in held, Exact(mem_map, b.order)
               PROVE  /\ \A c \in held \ {b} :
                           Exact(mem_map, c.order) => Extent(b) \intersect Extent(c) = {}
                      /\ Extent(b) \intersect YieldOf(FreeBlocks \union InHand) = {}
    BY <1>1 DEF NoOverlap
  <2>1. ASSUME NEW p \in Pieces, p # <<"held", b>> PROVE Extent(b) \intersect Yield(p[2]) = {}
    <3>1. <<"held", b>> \in Pieces /\ Extent(b) = Yield(b)
      BY ExactExtent DEF Pieces
    <3> QED BY <2>1, <3>1 DEF IInv, PiecesApart
  <2>2. ASSUME NEW c \in held \ {b}, Exact(mem_map, c.order)
        PROVE  Extent(b) \intersect Extent(c) = {}
    <3>1. <<"held", c>> \in Pieces /\ <<"held", c>> # <<"held", b>> /\ Extent(c) = Yield(c)
      BY <2>2, ExactExtent DEF Pieces
    <3> QED BY <2>1, <3>1
  <2>3. ASSUME NEW c \in FreeBlocks \union InHand PROVE Extent(b) \intersect Yield(c) = {}
    <3>1. PICK x \in {"free", "hand"} : <<x, c>> \in Pieces
      BY DEF Pieces
    <3> QED BY <2>1, <3>1
  <2> QED BY <2>2, <2>3 DEF YieldOf
<1> QED BY <1>1, Invariant, StaysAligned, PTL

\* No frame of an aligned map's blocks is ever lost.
THEOREM Conserved == Spec => []Conservation
<1>1. ASSUME TypeOK, Separate(mem_map) => IInv, Separate(mem_map) => ExactAligned
      PROVE  Conservation
  <2> SUFFICES ASSUME Aligned(mem_map), region > Len(mem_map),
                      \A b \in held : b.order < ALLOC_MAX_ORDER
               PROVE  ExtentOf(held) \union YieldOf(FreeBlocks \union InHand) =
                        ExtentOf(MapBlocks(mem_map))
    BY DEF Conservation
  <2>1. /\ \A b \in MapBlocks(mem_map) : Extent(b) = Yield(b)
        /\ \A k \in Orders : k < ALLOC_MAX_ORDER => Exact(mem_map, k)
        /\ IInv /\ ExactAligned
    BY <1>1, AlignedMap DEF TypeOK
  <2>2. ASSUME NEW b \in held PROVE Extent(b) = Yield(b)
    <3>1. b.order \in Orders
      BY <1>1 DEF TypeOK, Block
    <3> QED BY <2>1, <3>1, ExactExtent
  <2>3. ExtentOf(held) = YieldOf(held)
    BY <2>2 DEF YieldOf, ExtentOf
  <2>4. ExtentOf(MapBlocks(mem_map)) = YieldOf(MapBlocks(mem_map))
    BY <2>1 DEF YieldOf, ExtentOf
  <2>5. YieldIn(Pieces) = YieldOf(held) \union YieldOf(FreeBlocks \union InHand)
    <3> DEFINE All == YieldOf(held) \union YieldOf(FreeBlocks \union InHand)
    <3>1. \A p \in Pieces : p[2] \in held \/ p[2] \in FreeBlocks \union InHand
      BY DEF Pieces
    <3>2. \A b \in held \union (FreeBlocks \union InHand) : \E x \in {"free", "held", "hand"} :
            <<x, b>> \in Pieces /\ <<x, b>>[2] = b
      BY DEF Pieces
    <3>3. YieldIn(Pieces) \subseteq All
      BY <3>1 DEF YieldIn, YieldOf
    <3>4. All \subseteq YieldIn(Pieces)
      BY <3>2 DEF YieldIn, YieldOf
    <3> HIDE DEF All
    <3>5. YieldIn(Pieces) = All
      BY <3>3, <3>4
    <3> QED BY <3>5 DEF All
  <2>6. YieldIn(Pieces) = YieldOf(MapBlocks(mem_map))
    BY <2>1 DEF IInv, AllFrames
  <2> QED BY <2>3, <2>4, <2>5, <2>6
<1> QED BY <1>1, TypeCorrect, Invariant, StaysAligned, PTL

(***************************************************************************)
(* The buddy allocator implements FrameAllocator: seen as sets of frames,  *)
(* the calls of physical_mem.cpp take a free extent or give one back, each *)
(* in one step, and every other step of them is invisible.                 *)
(***************************************************************************)

\* Calls are served only after initialize() has been through the whole map.
Serving ==
  pc \in {"idle", "fill", "split", "take", "add", "lost"} => region > Len(mem_map)

\* No call begins before BootDone, and the map stays read.
LEMMA ServingStep == Serving /\ [Next]_vars => Serving'
<1> SUFFICES ASSUME Serving, [Next]_vars PROVE Serving'
  OBVIOUS
<1> USE DEF Serving, boot
<1>1. CASE BootBlock \/ BootFault \/ BootRegion \/ BootDone
  BY <1>1 DEF BootBlock, BootFault, BootRegion, BootDone, Halt
<1>2. CASE FillDescend \/ FillStop \/ Split \/ SplitFault \/ Take \/ TakeFault
  BY <1>2 DEF FillDescend, FillStop, FillReturn, Split, SplitFault, Take, TakeFault, Halt, Return
<1>3. CASE AddTop \/ AddMerge \/ AddPush \/ FreeFault \/ Stopped \/ UNCHANGED vars
  BY <1>3 DEF AddTop, AddMerge, AddPush, FreeFault, Stopped, Halt, Return, vars
<1>4. ASSUME NEW n \in Requests, Allocate(n) \/ Refuse(n) PROVE Serving'
  BY <1>4 DEF Allocate, Refuse, vars
<1>5. ASSUME NEW b \in held, Free(b) PROVE Serving'
  BY <1>5 DEF Free
<1>6. ASSUME NEW r \in Reservations,
             \/ ReserveExact(r[1], r[2])
             \/ ReserveAbsent(r[1], r[2])
             \/ ReserveLost(r[1], r[2])
      PROVE Serving'
  BY <1>6 DEF ReserveExact, ReserveAbsent, ReserveLost, vars
<1> QED BY <1>1, <1>2, <1>3, <1>4, <1>5, <1>6 DEF Next, Step

\* Callers have, and ask for, blocks of orders that the map is exact for.
HeldServed ==
  /\ \A b \in held : Exact(mem_map, b.order)
  /\ pc \in {"fill", "split", "take"} => Exact(mem_map, goal)

\* The orders are those of the calls.
LEMMA HeldServedStep ==
  ASSUME ServedExactly, TypeOK, HeldServed, [Next]_vars
  PROVE  HeldServed'
<1>0. mem_map \in MemoryMaps /\ mem_map' = mem_map
  BY MapStays DEF TypeOK
<1>1. ASSUME held' \subseteq held, goal' = goal, pc' \in {"fill", "split", "take"} => pc \in {"fill", "split", "take"}
      PROVE  HeldServed'
  BY <1>0, <1>1 DEF HeldServed
<1>2. CASE BootBlock \/ BootFault \/ BootRegion \/ BootDone
  BY <1>2, <1>1 DEF BootBlock, BootFault, BootRegion, BootDone, Halt
<1>3. CASE FillDescend \/ FillStop \/ Split \/ SplitFault \/ TakeFault
  BY <1>3, <1>1 DEF FillDescend, FillStop, FillReturn, Split, SplitFault, TakeFault, Halt
<1>4. CASE Take
  <2>1. held' = held \union {MkBlock(Head(free_lists[goal]), goal)} /\ pc' = "idle" /\ pc = "take"
    BY <1>4 DEF Take, Return, MkBlock
  <2>2. MkBlock(Head(free_lists[goal]), goal).order = goal
    BY DEF MkBlock
  <2> QED BY <1>0, <2>1, <2>2 DEF HeldServed
<1>5. CASE AddMerge \/ FreeFault \/ Stopped \/ UNCHANGED vars
  BY <1>5, <1>1 DEF AddMerge, FreeFault, Stopped, Halt, vars
<1>6. CASE AddTop \/ AddPush
  BY <1>0, <1>6 DEF AddTop, AddPush, Return, HeldServed
<1>7. ASSUME NEW n \in Requests, Allocate(n) PROVE HeldServed'
  <2>1. n <= BlockSize[ALLOC_MAX_ORDER] /\ goal' = GetAllocOrder(n) /\ held' = held
    BY <1>7 DEF Allocate
  <2>2. Exact(mem_map, GetAllocOrder(n))
    BY <1>0, <2>1 DEF ServedExactly
  <2> QED BY <1>0, <2>1, <2>2 DEF HeldServed
<1>8. ASSUME NEW n \in Requests, Refuse(n) PROVE HeldServed'
  BY <1>8, <1>1 DEF Refuse, vars
<1>9. ASSUME NEW b \in held, Free(b) PROVE HeldServed'
  BY <1>9, <1>1 DEF Free
<1>10. ASSUME NEW r \in Reservations, ReserveExact(r[1], r[2]) PROVE HeldServed'
  <2>1. r[2] \in {x[2] : x \in Reservations} /\ r[2] <= BlockSize[ALLOC_MAX_ORDER]
    BY RequestAssumption, OrderAssumption, BlockSizeAssumption DEF Orders
  <2>2. Exact(mem_map, GetAllocOrder(r[2]))
    BY <1>0, <2>1 DEF ServedExactly
  <2>3. /\ held' = held \union {MkBlock(Align(r[1], GetAllocOrder(r[2])), GetAllocOrder(r[2]))}
        /\ pc' = pc /\ goal' = goal
    BY <1>10 DEF ReserveExact, MkBlock
  <2>4. MkBlock(Align(r[1], GetAllocOrder(r[2])), GetAllocOrder(r[2])).order = GetAllocOrder(r[2])
    BY DEF MkBlock
  <2> QED BY <1>0, <2>2, <2>3, <2>4 DEF HeldServed
<1>11. ASSUME NEW r \in Reservations, ReserveAbsent(r[1], r[2]) \/ ReserveLost(r[1], r[2])
       PROVE  HeldServed'
  BY <1>11, <1>1 DEF ReserveAbsent, ReserveLost, vars
<1> QED BY <1>2, <1>3, <1>4, <1>5, <1>6, <1>7, <1>8, <1>9, <1>10, <1>11 DEF Next, Step

\* What every block of H becomes is what its caller has.
AsGiven(H) == \A b \in H : Extent(b) = Yield(b)

\* So it is for the calls of exact orders.
LEMMA HeldAsGiven == IInv /\ ExactAligned /\ HeldServed => AsGiven(held)
BY ExactExtent DEF HeldServed, AsGiven

(***************************************************************************)
(* The free frames.                                                        *)
(***************************************************************************)

\* What is neither held nor outside the map is free: the frames of the free
\* blocks and of the one in hand, when the pieces are apart.
LEMMA FreeIs ==
  ASSUME NEW F, NEW H, NEW I, PiecesApart(PieceSet(F, H, I))
  PROVE  YieldOf(F \union I) = YieldIn(PieceSet(F, H, I)) \ YieldOf(H)
<1> DEFINE P == PieceSet(F, H, I)
<1>1. \A b \in F : <<"free", b>> \in P
  BY DEF PieceSet
<1>2. \A b \in I : <<"hand", b>> \in P
  BY DEF PieceSet
<1>3. \A b \in H : <<"held", b>> \in P
  BY DEF PieceSet
<1>4. \A p \in P : \/ p[2] \in F \/ p[2] \in I \/ p[2] \in H
  BY DEF PieceSet
<1> HIDE DEF P
<1>5. ASSUME NEW b \in F \union I, NEW c \in H
      PROVE  Yield(b) \intersect Yield(c) = {}
  <2>1. PICK x \in {"free", "hand"} : <<x, b>> \in P
    BY <1>1, <1>2
  <2>2. <<x, b>> # <<"held", c>> /\ <<"held", c>> \in P
    BY <1>3
  <2> QED BY <2>1, <2>2 DEF PiecesApart, P
<1>6. ASSUME NEW f \in YieldOf(F \union I)
      PROVE  f \in YieldIn(P) /\ f \notin YieldOf(H)
  <2>1. PICK b \in F \union I : f \in Yield(b)
    BY DEF YieldOf
  <2>2. PICK x \in {"free", "hand"} : <<x, b>> \in P
    BY <1>1, <1>2
  <2> QED BY <2>1, <2>2, <1>5 DEF YieldIn, YieldOf
<1>7. ASSUME NEW f \in YieldIn(P), f \notin YieldOf(H)
      PROVE  f \in YieldOf(F \union I)
  <2>1. PICK p \in P : f \in Yield(p[2])
    BY DEF YieldIn
  <2> QED BY <2>1, <1>4, <1>7 DEF YieldOf
<1> QED BY <1>6, <1>7 DEF P

\* Held blocks share no frame, and each has one.
HeldApart(H) == \A b, c \in H : b # c => Yield(b) \intersect Yield(c) = {}

\* allocate() and reserve() on the frames: what is held grows by the block.
LEMMA HeldTakes ==
  ASSUME NEW H, NEW b
  PROVE  /\ YieldOf(H \union {b}) = YieldOf(H) \union Yield(b)
         /\ {Extent(c) : c \in H \union {b}} = {Extent(c) : c \in H} \union {Extent(b)}
BY DEF YieldOf

\* free() on the frames: the block's extent, and no other, leaves.
LEMMA HeldGives ==
  ASSUME NEW H \in SUBSET Block, NEW b \in H, HeldApart(H), AsGiven(H)
  PROVE  /\ YieldOf(H \ {b}) = YieldOf(H) \ Yield(b)
         /\ {Extent(c) : c \in H \ {b}} = {Extent(c) : c \in H} \ {Extent(b)}
         /\ Yield(b) \subseteq YieldOf(H)
<1>0. \A c \in H \ {b} : Yield(c) # Yield(b)
  BY SomeFrame DEF HeldApart
<1>1. \A c \in H \ {b} : Extent(c) # Extent(b)
  BY <1>0 DEF AsGiven
<1>2. {Extent(c) : c \in H \ {b}} = {Extent(c) : c \in H} \ {Extent(b)}
  BY <1>1
<1>3. YieldOf(H \ {b}) = YieldOf(H) \ Yield(b)
  BY DEF YieldOf, HeldApart
<1> QED BY <1>2, <1>3 DEF YieldOf

\* A block within the map is an extent of the abstract allocator.
LEMMA BlockExtent ==
  ASSUME NEW m \in MemoryMaps, NEW b \in Block, Yield(b) \subseteq YieldOf(MapBlocks(m))
  PROVE  Yield(b) \in Extents
<1>1. b.start \in Nat /\ b.order \in Orders
  BY DEF Block
<1>2. b.start \in Yield(b)
  BY <1>1, AlignFacts DEF Yield
<1>3. b.start \in UNION {YieldOf(MapBlocks(n)) : n \in MemoryMaps}
  BY <1>2
<1> QED BY <1>1, <1>3 DEF Extents, Yield

\* The free frames of a state after boot, before and after a step.
LEMMA FreeNow ==
  /\ IInv /\ region > Len(mem_map) =>
       YieldOf(FreeBlocks \union InHand) = YieldOf(MapBlocks(mem_map)) \ YieldOf(held)
  /\ IInv' /\ region' > Len(mem_map') =>
       YieldOf(FreeBlocks' \union InHand') = YieldOf(MapBlocks(mem_map')) \ YieldOf(held')
<1>1. ASSUME IInv, region > Len(mem_map)
      PROVE  YieldOf(FreeBlocks \union InHand) = YieldOf(MapBlocks(mem_map)) \ YieldOf(held)
  <2>1. Pieces = PieceSet(FreeBlocks, held, InHand)
    BY DEF Pieces, PieceSet
  <2> QED BY <1>1, <2>1, FreeIs DEF IInv, AllFrames
<1>2. ASSUME IInv', region' > Len(mem_map')
      PROVE  YieldOf(FreeBlocks' \union InHand') = YieldOf(MapBlocks(mem_map')) \ YieldOf(held')
  <2>1. Pieces' = PieceSet(FreeBlocks', held', InHand')
    BY DEF Pieces, PieceSet
  <2>2. PiecesApart(Pieces') /\ YieldIn(Pieces') = YieldOf(MapBlocks(mem_map'))
    BY <1>2 DEF IInv, AllFrames, PiecesApart, YieldIn
  <2> QED BY <2>1, <2>2, FreeIs
<1> QED BY <1>1, <1>2

(***************************************************************************)
(* Each step of the code is a step of the abstract allocator, or none.     *)
(***************************************************************************)

\* A step of initialize() that pushes a block adds its memory.
LEMMA BootAdds ==
  ASSUME IInv, IInv', BootBlock
  PROVE  \E E \in Extents : Allocator!AddMemory(E)
<1>1. PICK m \in MemoryMaps, r \in Nat \ {0}, p \in Nat :
        m = mem_map /\ r = region /\ p = placed
  BY BootPieces DEF BootBlock
<1>2. /\ m \in Seq(Region) /\ Len(m) \in Nat
      /\ r <= Len(m) /\ p < RegionBlocks(m[r])
      /\ FreeBlocks = PlacedOf(m, r, p)
      /\ held = {} /\ InHand = {} /\ Separate(m)
  BY <1>1, BootPieces, InHandOf DEF BootBlock, IInv, Booting
<1>3. PICK b \in Block : b = RegionBlock(m[r], p)
  BY <1>2, RegionBlockType
<1>4. mem_map' = m /\ region' = r /\ placed' = p + 1 /\ held' = {} /\ pc' = "boot" /\ pc = "boot"
  BY <1>1, <1>2 DEF BootBlock
<1>5. FreeBlocks' = PlacedOf(m, r, p) \union {b}
  <2>1. FreeBlocks' = PlacedOf(m, r, p + 1)
    BY <1>4 DEF IInv, Booting
  <2> QED BY <2>1, <1>2, <1>3, Placing
<1>6. InHand' = {}
  BY <1>4, InHandOf
<1>7. b \in MapBlocks(m)
  BY <1>2, <1>3, RegionBlockType DEF MapBlocks
<1>8. Yield(b) \in Extents
  BY <1>7, BlockExtent DEF YieldOf
<1>9. Yield(b) \intersect YieldOf(PlacedOf(m, r, p)) = {}
  <2>1. \A c \in PlacedOf(m, r, p) : Yield(b) \intersect Yield(c) = {}
    BY <1>2, <1>3, NextApart
  <2> QED BY <2>1 DEF YieldOf
<1>10. YieldOf(PlacedOf(m, r, p) \union {b}) = YieldOf(PlacedOf(m, r, p)) \union Yield(b)
  BY DEF YieldOf
<1>11. /\ FreeBlocks \union InHand = PlacedOf(m, r, p)
       /\ FreeBlocks' \union InHand' = PlacedOf(m, r, p) \union {b}
  BY <1>2, <1>5, <1>6
<1>12. Allocator!AddMemory(Yield(b))
  BY <1>2, <1>4, <1>9, <1>10, <1>11 DEF Allocator!AddMemory
<1> QED BY <1>8, <1>12

\* A step that hands no block over is invisible, wherever the splits and the
\* merges move the frames.
LEMMA ServeSame ==
  ASSUME IInv, IInv', region > Len(mem_map), pc # "boot", pc' # "boot",
         UNCHANGED boot, held' = held
  PROVE  UNCHANGED Allocator!vars
<1>1. YieldOf(FreeBlocks' \union InHand') = YieldOf(FreeBlocks \union InHand)
  BY FreeNow DEF boot
<1> QED BY <1>1 DEF Allocator!vars, boot

\* A block that leaves the lists for a caller is an extent that is taken.
LEMMA ServeTake ==
  ASSUME IInv, IInv', region > Len(mem_map), pc # "boot", pc' # "boot",
         UNCHANGED boot, NEW b \in Block, b \in FreeBlocks, held' = held \union {b},
         AsGiven(held')
  PROVE  \E E \in Extents : Allocator!Take(E)
<1>1. /\ YieldOf(FreeBlocks \union InHand) = YieldOf(MapBlocks(mem_map)) \ YieldOf(held)
      /\ YieldOf(FreeBlocks' \union InHand') = YieldOf(MapBlocks(mem_map)) \ YieldOf(held')
  BY FreeNow DEF boot
<1>2. Yield(b) \subseteq YieldOf(FreeBlocks \union InHand)
  BY DEF YieldOf
<1>3. Yield(b) \in Extents
  BY <1>1, <1>2, BlockExtent DEF IInv, TypeOK
<1>4. /\ YieldOf(FreeBlocks' \union InHand') = YieldOf(FreeBlocks \union InHand) \ Yield(b)
      /\ {Extent(c) : c \in held'} = {Extent(c) : c \in held} \union {Extent(b)}
  <2>1. PICK H : H = held
    OBVIOUS
  <2>2. /\ YieldOf(H \union {b}) = YieldOf(H) \union Yield(b)
        /\ {Extent(c) : c \in H \union {b}} = {Extent(c) : c \in H} \union {Extent(b)}
    BY HeldTakes
  <2>3. held' = H \union {b}
    BY <2>1
  <2>4. {Extent(c) : c \in held'} = {Extent(c) : c \in held} \union {Extent(b)}
    BY <2>1, <2>2, <2>3, Zenon
  <2>5. YieldOf(held') = YieldOf(held) \union Yield(b)
    BY <2>1, <2>2, <2>3, Zenon
  <2> QED BY <1>1, <2>4, <2>5
<1>5. Extent(b) = Yield(b)
  BY DEF AsGiven
<1>6. Allocator!Take(Yield(b))
  BY <1>2, <1>4, <1>5 DEF Allocator!Take, boot
<1> QED BY <1>3, <1>6

\* A block that a caller returns is an extent that is given back.
LEMMA ServeGive ==
  ASSUME IInv, IInv', region > Len(mem_map), pc # "boot", pc' # "boot",
         UNCHANGED boot, NEW b \in held, held' = held \ {b}, AsGiven(held)
  PROVE  \E E \in Extents : Allocator!Give(E)
<1>1. /\ YieldOf(FreeBlocks \union InHand) = YieldOf(MapBlocks(mem_map)) \ YieldOf(held)
      /\ YieldOf(FreeBlocks' \union InHand') = YieldOf(MapBlocks(mem_map)) \ YieldOf(held')
  BY FreeNow DEF boot
<1>2. held \in SUBSET Block /\ mem_map \in MemoryMaps
  BY DEF IInv, TypeOK
<1>3. \A c \in held : <<"held", c>> \in Pieces
  BY DEF Pieces
<1>4. HeldApart(held)
  <2> SUFFICES ASSUME NEW c \in held, NEW d \in held, c # d
               PROVE  Yield(c) \intersect Yield(d) = {}
    BY DEF HeldApart
  <2>1. <<"held", c>> # <<"held", d>>
    OBVIOUS
  <2> QED BY <1>3, <2>1 DEF IInv, PiecesApart
<1>5. Yield(b) \subseteq YieldOf(MapBlocks(mem_map))
  <2>1. Yield(b) \subseteq YieldIn(Pieces)
    <3>1. \A p \in Pieces : Yield(p[2]) \subseteq YieldIn(Pieces)
      BY DEF YieldIn
    <3>2. <<"held", b>>[2] = b
      OBVIOUS
    <3> QED BY <1>3, <3>1, <3>2
  <2> QED BY <2>1 DEF IInv, AllFrames
<1>6. Yield(b) \in Extents
  BY <1>2, <1>5, BlockExtent
<1>7. /\ YieldOf(held') = YieldOf(held) \ Yield(b)
      /\ {Extent(c) : c \in held'} = {Extent(c) : c \in held} \ {Extent(b)}
      /\ Yield(b) \subseteq YieldOf(held)
  BY <1>2, <1>4, HeldGives
<1>8. YieldOf(FreeBlocks' \union InHand') = YieldOf(FreeBlocks \union InHand) \union Yield(b)
  BY <1>1, <1>5, <1>7
<1>9. Extent(b) = Yield(b) /\ Extent(b) \in {Extent(c) : c \in held}
  BY DEF AsGiven
<1>10. Allocator!Give(Yield(b))
  BY <1>7, <1>8, <1>9 DEF Allocator!Give, boot
<1> QED BY <1>6, <1>10

\* The state the kernel starts in.
LEMMA AbstractInit == Init => Allocator!Init
<1> SUFFICES ASSUME Init PROVE Allocator!Init
  OBVIOUS
<1>1. held = {} /\ pc = "boot" /\ InHand = {}
  BY InHandOf DEF Init
<1>2. FreeBlocks = {}
  <2>1. Range(<<>>) = {}
    BY DEF Range
  <2> QED BY <2>1 DEF Init, FreeBlocks
<1>3. YieldOf({}) = {}
  BY DEF YieldOf
<1>4. FreeBlocks \union InHand = {}
  BY <1>1, <1>2
<1> QED BY <1>1, <1>3, <1>4 DEF Allocator!Init

\* allocate() hands over the head of the list.
LEMMA TakeGives ==
  ASSUME IInv, Take
  PROVE  \E b \in Block : b \in FreeBlocks /\ held' = held \union {b}
<1>1. free_lists \in Lists /\ goal \in Orders /\ free_lists[goal] # <<>>
  BY DEF IInv, TypeOK, Lists, Take
<1>2. /\ Head(free_lists[goal]) \in Nat
      /\ MkBlock(Head(free_lists[goal]), goal) \in BlocksOn(free_lists)
  BY <1>1, PopBlocks DEF IInv
<1>3. MkBlock(Head(free_lists[goal]), goal) \in Block
  BY <1>1, <1>2, BlockFields
<1> QED BY <1>2, <1>3, FreeOf DEF IInv, Take, MkBlock

\* reserve() hands over the block it has found on its list.
LEMMA ReserveGives ==
  ASSUME IInv, NEW w \in Nat, NEW n \in Nat, n <= BlockSize[ALLOC_MAX_ORDER],
         ReserveExact(w, n)
  PROVE  \E b \in Block : b \in FreeBlocks /\ held' = held \union {b}
<1>1. PICK L \in Lists, k \in Orders : L = free_lists /\ k = GetAllocOrder(n)
  BY RequestOrder DEF IInv, TypeOK, Lists
<1>2. PICK i \in DOMAIN L[k] : L[k][i] = Align(w, k)
  BY <1>1 DEF ReserveExact, FoundAt
<1>3. MkBlock(Align(w, k), k) \in BlocksOn(L)
  BY <1>1, <1>2, UnlinkBlocks DEF IInv
<1>4. MkBlock(Align(w, k), k) \in Block
  BY AlignFacts, BlockFields
<1>5. held' = held \union {MkBlock(Align(w, k), k)}
  BY <1>1 DEF ReserveExact, MkBlock
<1> QED BY <1>1, <1>3, <1>4, <1>5, FreeOf DEF IInv

\* A step of the code is a step of the abstract allocator, or leaves it alone.
LEMMA AbstractStep ==
  ASSUME IInv, IInv', Serving, AsGiven(held), AsGiven(held'), [Next]_vars
  PROVE  [Allocator!Next]_(Allocator!vars)
<1>boot. ASSUME free_lists' = free_lists, pc = "boot", pc' # "add"
         PROVE  FreeBlocks' = FreeBlocks /\ InHand' = InHand
  <2>1. InHand = {} /\ InHand' = {}
    BY <1>boot, InHandOf
  <2> QED BY <1>boot, <2>1 DEF FreeBlocks
<1>same. ASSUME held' = held, UNCHANGED boot, pc' # "boot",
                pc \in {"idle", "fill", "split", "take", "add", "lost"}
         PROVE  UNCHANGED Allocator!vars
  BY <1>same, ServeSame DEF Serving
<1>1. CASE BootBlock
  BY <1>1, BootAdds DEF Allocator!Next
<1>2. CASE BootFault
  <2>1. FreeBlocks' = FreeBlocks /\ InHand' = InHand
    BY <1>2, <1>boot DEF BootFault, Halt
  <2>2. /\ held' = held /\ mem_map' = mem_map /\ region' = region
        /\ ~(region > Len(mem_map))
    BY <1>2 DEF BootFault, Halt, boot, IInv, TypeOK
  <2> QED BY <2>1, <2>2 DEF Allocator!vars
<1>3. CASE BootRegion
  <2>1. FreeBlocks' = FreeBlocks /\ InHand' = InHand
    BY <1>3, <1>boot DEF BootRegion
  <2>2. held' = held /\ pc = "boot" /\ pc' = "boot"
    BY <1>3 DEF BootRegion
  <2> QED BY <2>1, <2>2 DEF Allocator!vars
<1>4. CASE BootDone
  <2>1. InHand = {} /\ InHand' = {} /\ FreeBlocks' = FreeBlocks
    BY <1>4, InHandOf DEF BootDone, FreeBlocks
  <2>2. Allocator!Open
    BY <1>4, <2>1 DEF BootDone, boot, Allocator!Open
  <2> QED BY <2>2 DEF Allocator!Next
<1>5. CASE FillDescend \/ FillStop \/ Split \/ SplitFault \/ TakeFault
  BY <1>5, <1>same DEF FillDescend, FillStop, FillReturn, Split, SplitFault, TakeFault, Halt
<1>6. CASE Take
  <2>1. region > Len(mem_map) /\ pc # "boot" /\ pc' # "boot" /\ UNCHANGED boot
    BY <1>6 DEF Take, Return, Serving
  <2> QED BY <1>6, <2>1, TakeGives, ServeTake DEF Allocator!Next
<1>7. CASE AddTop \/ AddMerge \/ AddPush \/ FreeFault
  BY <1>7, <1>same DEF AddTop, AddMerge, AddPush, FreeFault, Halt, Return
<1>8. ASSUME NEW n \in Requests, Allocate(n) PROVE UNCHANGED Allocator!vars
  BY <1>8, <1>same DEF Allocate
<1>9. ASSUME NEW b \in held, Free(b) PROVE [Allocator!Next]_(Allocator!vars)
  <2>1. /\ region > Len(mem_map) /\ pc # "boot" /\ pc' # "boot" /\ UNCHANGED boot
        /\ held' = held \ {b}
    BY <1>9 DEF Free, Serving
  <2> QED BY <2>1, ServeGive DEF Allocator!Next
<1>10. ASSUME NEW r \in Reservations, ReserveExact(r[1], r[2])
       PROVE  [Allocator!Next]_(Allocator!vars)
  <2>1. r[1] \in Nat /\ r[2] \in Nat /\ r[2] <= BlockSize[ALLOC_MAX_ORDER]
    BY RequestAssumption, OrderAssumption, BlockSizeAssumption DEF Orders
  <2>2. region > Len(mem_map) /\ pc # "boot" /\ pc' # "boot" /\ UNCHANGED boot
    BY <1>10 DEF ReserveExact, Serving, boot
  <2>3. PICK b \in Block : b \in FreeBlocks /\ held' = held \union {b}
    BY <1>10, <2>1, ReserveGives
  <2> QED BY <2>2, <2>3, ServeTake DEF Allocator!Next
<1>11. ASSUME NEW r \in Reservations, ReserveLost(r[1], r[2]) PROVE UNCHANGED Allocator!vars
  BY <1>11, <1>same DEF ReserveLost
<1>12. CASE UNCHANGED vars
  <2>1. UNCHANGED <<mem_map, region, free_lists, held, pc, lvl, blk>>
    BY <1>12 DEF vars
  <2>2. FreeBlocks' = FreeBlocks /\ InHand' = InHand
    BY <2>1 DEF FreeBlocks, InHand
  <2> QED BY <2>1, <2>2 DEF Allocator!vars
<1>13. CASE Stopped \/ (\E n \in Requests : Refuse(n))
            \/ (\E r \in Reservations : ReserveAbsent(r[1], r[2]))
  BY <1>12, <1>13 DEF Stopped, Refuse, ReserveAbsent
<1> QED
  BY <1>1, <1>2, <1>3, <1>4, <1>5, <1>6, <1>7, <1>8, <1>9, <1>10, <1>11, <1>12, <1>13
     DEF Next, Step

\* The buddy allocator implements FrameAllocator, when every call is for an
\* order that the maps have exact blocks for: through its splits, merges and
\* searches no frame is handed out twice and none is lost, and each call of
\* allocate(), reserve() and free() takes effect in one step.
THEOREM Refinement == ASSUME ServedExactly PROVE Spec => Implements
<1>1. Init => Serving /\ HeldServed
  BY DEF Init, Serving, HeldServed
<1>2. TypeOK => Separate(mem_map)
  BY DEF TypeOK, ServedExactly
<1>3. Spec => [](IInv /\ ExactAligned)
  BY <1>2, TypeCorrect, Invariant, StaysAligned, PTL
<1>4. TypeOK /\ HeldServed /\ [Next]_vars => HeldServed'
  BY HeldServedStep
<1>5. Spec => [](Serving /\ HeldServed)
  BY <1>1, <1>4, TypeCorrect, ServingStep, PTL DEF Spec
<1>6. Spec => []AsGiven(held)
  BY <1>3, <1>5, HeldAsGiven, PTL
<1>7. IInv /\ IInv' /\ Serving /\ AsGiven(held) /\ AsGiven(held)' /\ [Next]_vars
        => [Allocator!Next]_(Allocator!vars)
  BY AbstractStep
<1> QED BY <1>3, <1>5, <1>6, <1>7, AbstractInit, PTL DEF Spec, Implements, Allocator!Spec
=============================================================================

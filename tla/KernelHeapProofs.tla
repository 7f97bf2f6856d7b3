-------------------------- MODULE KernelHeapProofs --------------------------
(***************************************************************************)
(* Proofs about the kernel's heap: within the regime that keeps slots in   *)
(* the first half-words of the bitmaps, no chunk that is handed out        *)
(* overlaps another one, a header or a descriptor, and every page's count  *)
(* and capacity are what they should be.                                   *)
(***************************************************************************)
EXTENDS KernelHeap, FiniteSetTheorems, WellFoundedInduction, TLAPS

(***************************************************************************)
(* Arithmetic.                                                             *)
(***************************************************************************)

\* The widths, in half-words.
LEMMA Widths ==
  /\ IntBits \in Nat /\ IntBits >= 4 /\ WordBits = 2 * IntBits /\ Units = 8 * IntBits
  /\ Scale \in Nat /\ IntBits = 2 * Scale /\ Units = 16 * Scale
  /\ InitPages = IntBits /\ EmergPages = IntBits
  /\ Head0 = IntBits - 2 /\ Head1 = IntBits - 1
BY WidthAssumption DEF Units, Head0, Head1

\* A set of numbers that is not empty has a least one.
LEMMA LeastElement ==
  ASSUME NEW T \in SUBSET Nat, T # {}
  PROVE  Min(T) \in T /\ \A y \in T : Min(T) <= y
<1> DEFINE R == OpToRel(<, Nat)
<1>1. IsWellFoundedOn(R, Nat)
  BY NatLessThanWellFounded
<1>2. \A x, y \in Nat : x < y => <<x, y>> \in R
  BY DEF OpToRel
<1> HIDE DEF R
<1>3. PICK x \in T : \A y \in T : ~(<<y, x>> \in R)
  BY <1>1, WFMin
<1>4. \A y \in T : ~(y < x)
  BY <1>2, <1>3
<1>5. x \in T /\ \A y \in T : x <= y
  BY <1>4
<1> QED BY <1>5 DEF Min

\* What is known to be the least element is Min.
LEMMA MinIs ==
  ASSUME NEW T \in SUBSET Nat, NEW x \in T, \A y \in T : x <= y
  PROVE  Min(T) = x
<1>1. Min(T) \in T /\ \A y \in T : Min(T) <= y
  BY LeastElement
<1>2. Min(T) <= x /\ x <= Min(T) /\ Min(T) \in Nat /\ x \in Nat
  BY <1>1
<1> HIDE DEF Min
<1> QED BY <1>2

\* Division with remainder: the quotient and the remainder are unique.
LEMMA DivisionIs ==
  ASSUME NEW S \in Nat \ {0}, NEW q \in Nat, NEW r \in 0..(S-1)
  PROVE  ((q * S) + r) \div S = q /\ ((q * S) + r) % S = r
<1> DEFINE n == (q * S) + r
           d == n \div S
           m == n % S
<1>1. n \in Nat /\ d \in Nat /\ m \in 0..(S-1) /\ n = (S * d) + m
  OBVIOUS
<1>2. S * (q - d) = m - r
  BY <1>1
<1> HIDE DEF n, d, m
<1>3. ~(q - d >= 1)
  <2>1. q - d >= 1 => S * (q - d) >= S
    BY <1>1
  <2> QED BY <1>1, <1>2, <2>1
<1>4. ~(q - d <= -1)
  <2>1. q - d <= -1 => S * (q - d) <= -S
    BY <1>1
  <2> QED BY <1>1, <1>2, <2>1
<1>5. q = d
  BY <1>1, <1>3, <1>4
<1>6. m = r
  BY <1>1, <1>2, <1>5
<1> QED BY <1>5, <1>6 DEF n, d, m

LEMMA Division ==
  ASSUME NEW n \in Nat, NEW S \in Nat \ {0}
  PROVE  n \div S \in Nat /\ n % S \in 0..(S-1) /\ n = (S * (n \div S)) + (n % S)
OBVIOUS

\* The powers of two, and the sizes they give chunks.
LEMMA Powers ==
  /\ 2^0 = 1 /\ 2^1 = 2
  /\ \A k \in Orders : 2^k \in Nat \ {0} /\ 2^(k+1) = 2 * 2^k
  /\ \A k \in Orders \ {0, 1} : 2^k >= 4
<1>1. \A k \in Orders : 2^k \in Nat \ {0} /\ 2^(k+1) = 2 * 2^k
  BY PowerAssumption, PageAssumption DEF Orders
<1>2. 2^0 = 1 /\ 2^1 = 2 /\ 2^2 = 4
  OBVIOUS
<1> DEFINE T == {k \in Orders \ {0, 1} : ~(2^k >= 4)}
<1>3. T = {}
  <2> SUFFICES ASSUME T # {} PROVE FALSE
    OBVIOUS
  <2>1. T \in SUBSET Nat
    BY DEF Orders
  <2>2. PICK k \in T : \A y \in T : k <= y
    BY <2>1, LeastElement
  <2>3. k \in Nat /\ k >= 2 /\ k \in Orders /\ 2^k < 4
    BY <2>2, <1>1 DEF Orders
  <2>4. k # 2
    <3>1. k = 2 => 2^k = 2^2
      BY Zenon
    <3> QED BY <3>1, <1>2, <2>3
  <2>5. k - 1 \in Orders \ {0, 1} /\ k - 1 \notin T
    BY <2>2, <2>3, <2>4, PageAssumption DEF Orders
  <2>6. 2^(k-1) >= 4 /\ 2^((k-1)+1) = 2 * 2^(k-1) /\ 2^(k-1) \in Nat
    BY <2>5, <1>1
  <2>7. (k - 1) + 1 = k
    BY <2>3
  <2> QED BY <2>3, <2>6, <2>7
<1>4. \A k \in Orders \ {0, 1} : 2^k >= 4
  BY <1>3
<1> QED BY <1>1, <1>2, <1>4

\* A page of order k is divided into Slots(k) chunks.
LEMMA SlotsFit ==
  /\ Slots(0) = Units /\ Slots(1) = 4 * IntBits
  /\ \A k \in Orders : /\ Slots(k) \in Nat
                       /\ \A s \in 0..(Slots(k) - 1) :
                            /\ s * 2^k \in Nat
                            /\ (s * 2^k) + 2^k <= Units
                            /\ s < Units
<1>1. \A k \in Orders : Slots(k) \in Nat /\ Slots(k) * 2^k <= Units
  <2> SUFFICES ASSUME NEW k \in Orders PROVE Slots(k) \in Nat /\ Slots(k) * 2^k <= Units
    OBVIOUS
  <2>1. 2^k \in Nat \ {0} /\ Units \in Nat
    BY Powers, Widths
  <2>2. PICK S \in Nat \ {0} : S = 2^k
    BY <2>1
  <2>3. Units \div S \in Nat /\ Units % S \in 0..(S-1) /\ Units = (S * (Units \div S)) + (Units % S)
    BY <2>1, <2>2, Division
  <2>4. (Units \div S) * S <= Units
    BY <2>1, <2>2, <2>3
  <2> QED BY <2>2, <2>3, <2>4 DEF Slots
<1>2. \A k \in Orders : \A s \in 0..(Slots(k) - 1) :
        s * 2^k \in Nat /\ (s * 2^k) + 2^k <= Units /\ s < Units
  <2> SUFFICES ASSUME NEW k \in Orders, NEW s \in 0..(Slots(k) - 1)
               PROVE s * 2^k \in Nat /\ (s * 2^k) + 2^k <= Units /\ s < Units
    OBVIOUS
  <2>1. PICK S \in Nat \ {0} : S = 2^k
    BY Powers
  <2>2. PICK m \in Nat : m = Slots(k) /\ m * S <= Units
    BY <1>1, <2>1
  <2>3. s \in Nat /\ s + 1 <= m
    BY <2>2
  <2>4. (s + 1) * S <= m * S
    BY <2>1, <2>2, <2>3
  <2>5. (s + 1) * S = (s * S) + S /\ s * S \in Nat
    BY <2>1, <2>3
  <2>6. s + 1 <= (s + 1) * S
    BY <2>1, <2>3
  <2> QED BY <2>1, <2>2, <2>3, <2>4, <2>5, <2>6, Widths
<1>3. Slots(0) = Units /\ Slots(1) = 4 * IntBits
  <2>1. Slots(0) = Units \div 1 /\ Slots(1) = (8 * IntBits) \div 2
    BY Widths, Powers DEF Slots
  <2> QED BY <2>1, Widths
<1> QED BY <1>1, <1>2, <1>3

\* An address in page p is found in page p.
LEMMA PlaceOf ==
  ASSUME NEW p \in Nat, NEW x \in 0..(Units - 1)
  PROVE  PageOf((p * Units) + x) = p
BY Widths, DivisionIs DEF PageOf

\* Pages do not overlap.
LEMMA PagesApart ==
  ASSUME NEW p \in Nat, NEW q \in Nat, NEW x \in 0..(Units - 1), NEW y \in 0..(Units - 1),
         (p * Units) + x = (q * Units) + y
  PROVE  p = q /\ x = y
<1>1. p = q
  BY PlaceOf
<1> QED BY <1>1, Widths

\* A chunk that fits in a page is found in that page.
LEMMA ChunkPlace ==
  ASSUME NEW p \in Nat, NEW k \in Orders, NEW s \in 0..(Slots(k) - 1)
  PROVE  /\ Chunk(p, s, k).order = k
         /\ Chunk(p, s, k).address \in Nat
         /\ Chunk(p, s, k).address = (p * Units) + (s * 2^k)
         /\ PageOf(Chunk(p, s, k).address) = p
<1>1. s * 2^k \in 0..(Units - 1) /\ 2^k \in Nat \ {0}
  BY SlotsFit, Powers, Widths
<1>2. PICK x \in 0..(Units - 1) : x = s * 2^k
  BY <1>1
<1>3. PageOf((p * Units) + x) = p /\ (p * Units) + x \in Nat
  BY PlaceOf, Widths
<1> QED BY <1>2, <1>3 DEF Chunk, ChunkAddress

(***************************************************************************)
(* The bits of a slot.                                                     *)
(***************************************************************************)

\* The bits of slot t of the word that begins at bit f.
HalfOf(t)    == IF t < IntBits THEN t ELSE t - IntBits
BitsAt(f, t) == IF HalfOf(t) = IntBits - 1
                THEN (f + HalfOf(t))..(f + WordBits - 1) ELSE {f + HalfOf(t)}

LEMMA WordMask ==
  ASSUME NEW w \in Nat, NEW t \in 0..(WordBits - 1)
  PROVE  Mask((w * WordBits) + t) = BitsAt(w * WordBits, t)
<1>1. PICK f \in Nat : f = w * WordBits
  BY Widths
<1>2. (f + t) % WordBits = t
  BY <1>1, DivisionIs, Widths
<1>3. t % IntBits = HalfOf(t)
  <2>1. CASE t < IntBits
    <3>1. ((0 * IntBits) + t) % IntBits = t
      BY <2>1, DivisionIs, Widths
    <3> QED BY <3>1, <2>1, Widths DEF HalfOf
  <2>2. CASE ~(t < IntBits)
    <3>1. ((1 * IntBits) + (t - IntBits)) % IntBits = t - IntBits
      BY <2>2, DivisionIs, Widths
    <3> QED BY <3>1, <2>2, Widths DEF HalfOf
  <2> QED BY <2>1, <2>2
<1>4. (f + t) - t = f
  BY Widths
<1>5. Mask(f + t) = BitsAt(f, t)
  BY <1>2, <1>3, <1>4 DEF Mask, BitsAt
<1> QED BY <1>1, <1>5

\* The bits of a slot in either of the first two words: a slot in the lower
\* half of a word has one bit, the last one the whole upper half, and the slots
\* of the upper half have the bits of the lower half.
LEMMA Masks ==
  /\ \A t \in 0..(IntBits - 2) : Mask(t) = {t} /\ Mask(WordBits + t) = {WordBits + t}
  /\ Mask(IntBits - 1) = (IntBits - 1)..(WordBits - 1)
  /\ Mask(WordBits + IntBits - 1) = (WordBits + IntBits - 1)..((2 * WordBits) - 1)
  /\ \A t \in IntBits..(WordBits - 1) :
       Mask(t) = Mask(t - IntBits) /\ Mask(WordBits + t) = Mask(WordBits + t - IntBits)
<1>1. \A t \in 0..(WordBits - 1) : Mask(t) = BitsAt(0, t)
  <2> SUFFICES ASSUME NEW t \in 0..(WordBits - 1) PROVE Mask(t) = BitsAt(0, t)
    OBVIOUS
  <2>1. 0 \in Nat /\ (0 * WordBits) + t = t /\ 0 * WordBits = 0
    BY Widths
  <2>2. Mask((0 * WordBits) + t) = BitsAt(0 * WordBits, t)
    BY <2>1, WordMask
  <2> QED BY <2>1, <2>2
<1>2. \A t \in 0..(WordBits - 1) : Mask(WordBits + t) = BitsAt(WordBits, t)
  <2> SUFFICES ASSUME NEW t \in 0..(WordBits - 1) PROVE Mask(WordBits + t) = BitsAt(WordBits, t)
    OBVIOUS
  <2>1. 1 \in Nat /\ 1 * WordBits = WordBits
    BY Widths
  <2>2. Mask((1 * WordBits) + t) = BitsAt(1 * WordBits, t)
    BY <2>1, WordMask
  <2> QED BY <2>1, <2>2
<1>3. ASSUME NEW t \in 0..(IntBits - 2) PROVE Mask(t) = {t} /\ Mask(WordBits + t) = {WordBits + t}
  <2>1. t \in 0..(WordBits - 1) /\ HalfOf(t) = t /\ t # IntBits - 1 /\ 0 + t = t
    BY Widths DEF HalfOf
  <2>2. BitsAt(0, t) = {t} /\ BitsAt(WordBits, t) = {WordBits + t}
    BY <2>1 DEF BitsAt
  <2> QED BY <1>1, <1>2, <2>1, <2>2
<1>4. Mask(IntBits - 1) = (IntBits - 1)..(WordBits - 1)
  BY <1>1, Widths DEF BitsAt, HalfOf
<1>5. Mask(WordBits + IntBits - 1) = (WordBits + IntBits - 1)..((2 * WordBits) - 1)
  <2>1. IntBits - 1 \in 0..(WordBits - 1) /\ WordBits + IntBits - 1 = WordBits + (IntBits - 1)
        /\ WordBits + WordBits - 1 = (2 * WordBits) - 1
    BY Widths
  <2>2. BitsAt(WordBits, IntBits - 1) = (WordBits + (IntBits - 1))..(WordBits + WordBits - 1)
    BY Widths DEF BitsAt, HalfOf
  <2> QED BY <1>2, <2>1, <2>2
<1>6. ASSUME NEW t \in IntBits..(WordBits - 1)
      PROVE  Mask(t) = Mask(t - IntBits) /\ Mask(WordBits + t) = Mask(WordBits + t - IntBits)
  <2>1. t \in 0..(WordBits - 1) /\ t - IntBits \in 0..(WordBits - 1)
        /\ WordBits + t - IntBits = WordBits + (t - IntBits)
    BY Widths
  <2>2. HalfOf(t) = HalfOf(t - IntBits)
    BY <2>1, Widths DEF HalfOf
  <2>3. BitsAt(0, t) = BitsAt(0, t - IntBits) /\ BitsAt(WordBits, t) = BitsAt(WordBits, t - IntBits)
    BY <2>2 DEF BitsAt
  <2> QED BY <1>1, <1>2, <2>1, <2>3
<1> QED BY <1>3, <1>4, <1>5, <1>6

\* No slot has bits outside the bitmap, or none.
LEMMA MaskType ==
  ASSUME NEW s \in 0..(Units - 1)
  PROVE  Mask(s) \subseteq 0..(Units - 1) /\ Mask(s) # {}
<1> DEFINE t == s % WordBits
           f == s - t
           r == t % IntBits
           q == s \div WordBits
<1>1. q \in Nat /\ t \in 0..(WordBits - 1) /\ s = (WordBits * q) + t
  <2>1. s \in Nat /\ WordBits \in Nat \ {0}
    BY Widths
  <2> QED BY <2>1, Division
<1>2. r \in 0..(IntBits - 1)
  BY <1>1, Widths
<1>3. q <= 3
  <2>1. q >= 4 => WordBits * q >= WordBits * 4
    BY <1>1, Widths
  <2> QED BY <1>1, <2>1, Widths
<1>4. f = WordBits * q
  BY <1>1, Widths
<1>5. f \in 0..(3 * WordBits)
  BY <1>1, <1>3, <1>4, Widths
<1>6. Mask(s) = IF r = IntBits - 1 THEN (f + r)..(f + WordBits - 1) ELSE {f + r}
  BY DEF Mask
<1> HIDE DEF f, r, t, q
<1>7. f + r \in Mask(s)
  BY <1>6, <1>5, <1>2, Widths
<1>8. CASE r = IntBits - 1
  <2>1. Mask(s) = (f + r)..(f + WordBits - 1)
    BY <1>6, <1>8
  <2>2. f + r >= 0 /\ f + WordBits - 1 <= Units - 1 /\ f \in Int /\ r \in Int
    BY <1>5, <1>2, Widths
  <2> QED BY <2>1, <2>2, <1>7, Widths
<1>9. CASE r # IntBits - 1
  BY <1>6, <1>9, <1>5, <1>2, Widths
<1> QED BY <1>8, <1>9

(***************************************************************************)
(* The slots of pages of order 0 and 1 in the first half-words.            *)
(***************************************************************************)

\* The first half-words of the two words kfree() finds again, less the header;
\* for order 1, of the one word.
Low        == (3..(IntBits - 1)) \union ((WordBits + 3)..(WordBits + IntBits - 1))
High       == 2..(IntBits - 1)
HeaderBits == (0..2) \union (WordBits..(WordBits + 2))

LEMMA LowMask ==
  ASSUME NEW s \in Low \union HeaderBits \union High \union (0..1)
  PROVE  Mask(s) = IF s = IntBits - 1 THEN (IntBits - 1)..(WordBits - 1)
                   ELSE IF s = WordBits + IntBits - 1
                        THEN (WordBits + IntBits - 1)..((2 * WordBits) - 1)
                        ELSE {s}
<1>1. CASE s < IntBits - 1
  <2>1. s \in 0..(IntBits - 2)
    BY <1>1, Widths DEF Low, High, HeaderBits
  <2> QED BY <2>1, Masks, Widths
<1>2. CASE s = IntBits - 1
  BY <1>2, Masks
<1>3. CASE s > IntBits - 1 /\ s # WordBits + IntBits - 1
  <2>1. PICK t \in 0..(IntBits - 2) : s = WordBits + t
    <3>1. s - WordBits \in 0..(IntBits - 2) /\ s = WordBits + (s - WordBits)
      BY <1>3, Widths DEF Low, High, HeaderBits
    <3> QED BY <3>1
  <2>2. Mask(s) = {s}
    BY <2>1, Masks
  <2> QED BY <2>2, <1>3, Widths
<1>4. CASE s = WordBits + IntBits - 1
  BY <1>4, Masks, Widths
<1>5. s \in Int
  BY Widths DEF Low, High, HeaderBits
<1> QED BY <1>1, <1>2, <1>3, <1>4, <1>5, Widths

LEMMA LowMasks ==
  /\ \A s \in Low : s \in Mask(s) /\ Mask(s) \intersect HeaderBits = {}
                    /\ s \in 0..((2 * WordBits) - 1) /\ s \in 0..(Slots(0) - 1)
  /\ \A s, t \in Low : s # t => Mask(s) \intersect Mask(t) = {}
  /\ \A s \in HeaderBits : s \in Mask(s)
  /\ \A s \in High : s \in Mask(s) /\ Mask(s) \intersect (0..1) = {} /\ s \in 0..(Slots(1) - 1)
  /\ \A s, t \in High : s # t => Mask(s) \intersect Mask(t) = {}
  /\ \A s \in 0..1 : s \in Mask(s)
<1>1. ASSUME NEW s \in Low \union HeaderBits \union High \union (0..1)
      PROVE  s \in Mask(s) /\ s \in Nat
  BY LowMask, Widths DEF Low, High, HeaderBits
<1>2. ASSUME NEW s \in Low
      PROVE  /\ Mask(s) \intersect HeaderBits = {}
             /\ s \in 0..((2 * WordBits) - 1) /\ s \in 0..(Slots(0) - 1)
  BY LowMask, Widths, SlotsFit DEF Low, HeaderBits
<1>3. ASSUME NEW s \in Low, NEW t \in Low, s # t
      PROVE  Mask(s) \intersect Mask(t) = {}
  BY <1>3, LowMask, Widths DEF Low
<1>4. ASSUME NEW s \in High
      PROVE  Mask(s) \intersect (0..1) = {} /\ s \in 0..(Slots(1) - 1)
  BY LowMask, Widths, SlotsFit DEF High
<1>5. ASSUME NEW s \in High, NEW t \in High, s # t
      PROVE  Mask(s) \intersect Mask(t) = {}
  BY <1>5, LowMask, Widths DEF High
<1> QED BY <1>1, <1>2, <1>3, <1>4, <1>5

(***************************************************************************)
(* Headers.                                                                *)
(***************************************************************************)

\* A page header, its count not bounded yet.
PageHeader == [bitmap : SUBSET (0..(Units - 1)), order : Orders, count : Int]

LEMMA OpenSlotIs ==
  ASSUME NEW h \in PageHeader, OpenSlots(h) # {}
  PROVE  /\ OpenSlot(h) \in OpenSlots(h)
         /\ OpenSlot(h) \in 0..(Slots(h.order) - 1)
         /\ Mask(OpenSlot(h)) \intersect h.bitmap = {}
         /\ \A s \in OpenSlots(h) : OpenSlot(h) <= s
<1>1. OpenSlots(h) \in SUBSET Nat
  BY SlotsFit DEF OpenSlots, PageHeader
<1>2. OpenSlot(h) \in OpenSlots(h) /\ \A s \in OpenSlots(h) : OpenSlot(h) <= s
  BY <1>1, LeastElement DEF OpenSlot
<1>3. OpenSlot(h) \in 0..(Slots(h.order) - 1) /\ Mask(OpenSlot(h)) \intersect h.bitmap = {}
  BY <1>2 DEF OpenSlots
<1> QED BY <1>2, <1>3

LEMMA TakenIs ==
  ASSUME NEW h \in PageHeader, OpenSlots(h) # {}
  PROVE  /\ Taken(h) \in PageHeader
         /\ Taken(h) = [bitmap |-> h.bitmap \union Mask(OpenSlot(h)),
                        order |-> h.order, count |-> h.count + 1]
<1>1. OpenSlot(h) \in 0..(Units - 1)
  BY OpenSlotIs, SlotsFit, Widths DEF PageHeader
<1>2. Mask(OpenSlot(h)) \subseteq 0..(Units - 1)
  BY <1>1, MaskType
<1>3. Taken(h) = [bitmap |-> h.bitmap \union Mask(OpenSlot(h)),
                  order |-> h.order, count |-> h.count + 1]
  <2>1. Marked(h) = [bitmap |-> h.bitmap \union Mask(OpenSlot(h)),
                     order |-> h.order, count |-> h.count]
    BY DEF Marked, PageHeader
  <2> QED BY <2>1 DEF Taken
<1> QED BY <1>2, <1>3 DEF PageHeader

LEMMA FreedIs ==
  ASSUME NEW h \in PageHeader, NEW s
  PROVE  /\ Freed(h, s) \in PageHeader
         /\ Freed(h, s) = [bitmap |-> h.bitmap \ Mask(s),
                           order |-> h.order, count |-> h.count - 1]
<1> DEFINE g == [h EXCEPT !.bitmap = h.bitmap \ Mask(s)]
<1>1. g = [bitmap |-> h.bitmap \ Mask(s), order |-> h.order, count |-> h.count]
  BY DEF PageHeader
<1>2. Freed(h, s) = [g EXCEPT !.count = h.count - 1]
  BY DEF Freed
<1> HIDE DEF g
<1>3. Freed(h, s) = [bitmap |-> h.bitmap \ Mask(s), order |-> h.order, count |-> h.count - 1]
  BY <1>1, <1>2
<1> QED BY <1>3 DEF PageHeader

\* An order-0 page with a slot of Low to give gives the first one, whatever the
\* slots beyond are.
LEMMA FirstLow ==
  ASSUME NEW h \in PageHeader, h.order = 0, HeaderBits \subseteq h.bitmap,
         NEW l \in Low, Mask(l) \intersect h.bitmap = {}
  PROVE  /\ OpenSlots(h) # {}
         /\ OpenSlot(h) \in Low
         /\ Mask(OpenSlot(h)) \intersect h.bitmap = {}
<1>1. l \in OpenSlots(h)
  BY LowMasks DEF OpenSlots
<1> DEFINE m == OpenSlot(h)
<1>2. m \in OpenSlots(h) /\ m \in 0..(Units - 1) /\ Mask(m) \intersect h.bitmap = {}
      /\ m <= l /\ \A s \in OpenSlots(h) : m <= s
  BY <1>1, OpenSlotIs, SlotsFit
<1>3. l \in 0..((2 * WordBits) - 1)
  BY LowMasks
<1> HIDE DEF m
<1>4. m \in 0..((2 * WordBits) - 1)
  BY <1>2, <1>3, Widths
<1>5. m \notin HeaderBits
  BY <1>2, LowMasks
<1>6. ASSUME NEW t \in IntBits..(WordBits - 1), m = t \/ m = WordBits + t
      PROVE  FALSE
  <2>1. Mask(m) = Mask(m - IntBits)
    <3>1. CASE m = t
      BY <3>1, Masks
    <3>2. CASE m = WordBits + t
      <4>1. m - IntBits = WordBits + t - IntBits
        BY <3>2, <1>4, Widths
      <4> QED BY <3>2, <4>1, Masks
    <3> QED BY <1>6, <3>1, <3>2
  <2>2. m - IntBits \in 0..(Slots(0) - 1) /\ m - IntBits < m
    BY <1>6, <1>4, SlotsFit, Widths
  <2>3. m - IntBits \in OpenSlots(h)
    BY <2>1, <2>2, <1>2 DEF OpenSlots
  <2> QED BY <2>2, <2>3, <1>2, <1>4, Widths
<1>7. m \in Low
  <2>1. ~(m \in IntBits..(WordBits - 1))
    BY <1>6
  <2>2. ~(m - WordBits \in IntBits..(WordBits - 1))
    <3>1. m = WordBits + (m - WordBits)
      BY <1>4, Widths
    <3> QED BY <1>6, <3>1
  <2> QED BY <2>1, <2>2, <1>4, <1>5, Widths DEF Low, HeaderBits
<1> QED BY <1>1, <1>2, <1>7 DEF m

LEMMA FirstHigh ==
  ASSUME NEW h \in PageHeader, h.order = 1, 0..1 \subseteq h.bitmap,
         NEW l \in High, Mask(l) \intersect h.bitmap = {}
  PROVE  /\ OpenSlots(h) # {}
         /\ OpenSlot(h) \in High
         /\ Mask(OpenSlot(h)) \intersect h.bitmap = {}
<1>1. l \in OpenSlots(h)
  BY LowMasks DEF OpenSlots
<1> DEFINE m == OpenSlot(h)
<1>2. m \in OpenSlots(h) /\ m \in 0..(Slots(1) - 1) /\ Mask(m) \intersect h.bitmap = {} /\ m <= l
  BY <1>1, OpenSlotIs
<1> HIDE DEF m
<1>3. m \notin 0..1
  BY <1>2, LowMasks
<1>4. m \in High
  BY <1>2, <1>3, SlotsFit, Widths DEF High
<1> QED BY <1>1, <1>2, <1>4 DEF m

(***************************************************************************)
(* The page that gives chunks of order 0.                                  *)
(***************************************************************************)

\* Of each slot all the bits are set or none.
Whole(h, S) == \A s \in S : Mask(s) \subseteq h.bitmap \/ Mask(s) \intersect h.bitmap = {}
Open(h, S)  == {s \in S : s \notin h.bitmap}

\* A slot is in use for a chunk of C, or for a descriptor of D.
Used(C, D, s) == Chunk(Head0, s, 0) \in C \/ ChunkAddress(Head0, s, 0) \in D

\* kfree() clears the bit of the first word for a chunk of either word. Of the
\* two slots with the same place in their words one is in use, and both are
\* marked; or none is, and at most one is open.
Paired(h, C, D) ==
  \A r \in 3..(IntBits - 1) :
    /\ Used(C, D, r) \/ Used(C, D, WordBits + r) => r \in h.bitmap /\ WordBits + r \in h.bitmap
    /\ ~(Used(C, D, r) /\ Used(C, D, WordBits + r))
    /\ r \in h.bitmap \/ WordBits + r \in h.bitmap

\* The page with header h of which C are the chunks in callers' hands; D are
\* all descriptors, F the pages that the heap has yet to get.
Page0(h, C, D, F) ==
  /\ h \in PageHeader /\ h.order = 0
  /\ HeaderBits \subseteq h.bitmap
  /\ Whole(h, Low)
  /\ C \subseteq {Chunk(Head0, s, 0) : s \in Low}
  /\ D \subseteq (0..((Head0 * Units) - 1)) \union {ChunkAddress(Head0, s, 0) : s \in Low}
  /\ \A s \in Low : ~(Chunk(Head0, s, 0) \in C /\ ChunkAddress(Head0, s, 0) \in D)
  /\ Paired(h, C, D)
  /\ Cardinality(C) + Cardinality(NewPages \ F) + Cardinality(Open(h, Low)) = IntBits - 3

LEMMA LowFinite ==
  /\ IsFiniteSet(Low) /\ IsFiniteSet(High)
  /\ \A C : C \subseteq {Chunk(Head0, s, 0) : s \in Low} => IsFiniteSet(C)
  /\ \A C : C \subseteq {Chunk(Head1, s, 1) : s \in High} => IsFiniteSet(C)
<1>1. IsFiniteSet(0..Units) /\ Low \subseteq 0..Units /\ High \subseteq 0..Units
  BY FS_Interval, Widths DEF Low, High
<1>2. IsFiniteSet(Low) /\ IsFiniteSet(High)
  BY <1>1, FS_Subset
<1>3. IsFiniteSet({Chunk(Head0, s, 0) : s \in Low}) /\ IsFiniteSet({Chunk(Head1, s, 1) : s \in High})
  <2>1. ASSUME NEW p \in Nat, NEW k \in Nat, NEW S, IsFiniteSet(S)
        PROVE  IsFiniteSet({Chunk(p, s, k) : s \in S})
    <3> DEFINE f == [s \in S |-> Chunk(p, s, k)]
               T == {Chunk(p, s, k) : s \in S}
    <3>1. f \in Surjection(S, T)
      BY DEF Surjection
    <3> QED BY <2>1, <3>1, FS_Surjection
  <2> QED BY <1>2, <2>1, Widths
<1> QED BY <1>2, <1>3, FS_Subset

LEMMA LowAddress ==
  /\ \A s \in Low \union High : ChunkAddress(Head0, s, 0) = (Head0 * Units) + s
                                /\ Chunk(Head0, s, 0).address = (Head0 * Units) + s
  /\ \A s, t \in Low : ChunkAddress(Head0, s, 0) = ChunkAddress(Head0, t, 0) => s = t
  /\ \A s, t \in Low : Chunk(Head0, s, 0) = Chunk(Head0, t, 0) => s = t
<1>1. Head0 * Units \in Nat /\ \A s \in Low \union High : s \in Nat
  BY Widths DEF Low, High
<1>2. \A s \in Low \union High : ChunkAddress(Head0, s, 0) = (Head0 * Units) + s
  BY <1>1, Powers DEF ChunkAddress
<1>3. \A s, t \in Low : ChunkAddress(Head0, s, 0) = ChunkAddress(Head0, t, 0) => s = t
  BY <1>1, <1>2
<1> QED BY <1>2, <1>3 DEF Chunk

\* A slot of Low is marked or open as a whole.
LEMMA OpenLow ==
  ASSUME NEW h, Whole(h, Low), NEW s \in Low
  PROVE  s \notin h.bitmap <=> Mask(s) \intersect h.bitmap = {}
BY LowMasks DEF Whole

\* Marking a slot of Low marks that slot and no other; clearing it, likewise.
LEMMA MarkLow ==
  ASSUME NEW h, NEW g, Whole(h, Low), HeaderBits \subseteq h.bitmap, NEW m \in Low,
         \/ g.bitmap = h.bitmap \union Mask(m)
         \/ g.bitmap = h.bitmap \ Mask(m)
  PROVE  /\ Whole(g, Low) /\ HeaderBits \subseteq g.bitmap
         /\ \A s \in Low : s # m => (s \in g.bitmap <=> s \in h.bitmap)
         /\ m \in g.bitmap <=> g.bitmap = h.bitmap \union Mask(m)
<1>1. \A s \in Low : s # m => Mask(s) \intersect Mask(m) = {}
  BY LowMasks
<1>2. m \in Mask(m) /\ Mask(m) \intersect HeaderBits = {} /\ \A s \in Low : s \in Mask(s)
  BY LowMasks
<1>3. \A s \in Low : s # m => (s \in g.bitmap <=> s \in h.bitmap)
  BY <1>1, <1>2
<1>4. HeaderBits \subseteq g.bitmap
  BY <1>2
<1>5. Whole(g, Low)
  BY <1>1, <1>2 DEF Whole
<1>6. m \in g.bitmap <=> g.bitmap = h.bitmap \union Mask(m)
  BY <1>2
<1> QED BY <1>3, <1>4, <1>5, <1>6

LEMMA HasOpen0 ==
  ASSUME NEW h, NEW C, NEW D, NEW F, Page0(h, C, D, F),
         Cardinality(C) + Cardinality(NewPages \ F) < IntBits - 3
  PROVE  /\ OpenSlots(h) # {}
         /\ OpenSlot(h) \in Low /\ OpenSlot(h) \notin h.bitmap
         /\ ~Used(C, D, OpenSlot(h))
         /\ IsFiniteSet(C)
<1>1. IsFiniteSet(C) /\ IsFiniteSet(Open(h, Low)) /\ IsFiniteSet(NewPages \ F)
  BY LowFinite, FS_Subset, FS_Difference, PageAssumption DEF Page0, Open
<1>2. Cardinality(Open(h, Low)) # 0
  <2>1. Cardinality(C) + Cardinality(NewPages \ F) + Cardinality(Open(h, Low)) = IntBits - 3
    BY DEF Page0
  <2>2. Cardinality(C) \in Nat /\ Cardinality(NewPages \ F) \in Nat
    BY <1>1, FS_CardinalityType
  <2> QED BY <2>1, <2>2, Widths
<1>3. PICK l \in Low : l \notin h.bitmap
  BY <1>1, <1>2, FS_EmptySet DEF Open
<1>4. Mask(l) \intersect h.bitmap = {}
  BY <1>3, OpenLow DEF Page0
<1>5. OpenSlots(h) # {} /\ OpenSlot(h) \in Low /\ Mask(OpenSlot(h)) \intersect h.bitmap = {}
  BY <1>3, <1>4, FirstLow DEF Page0
<1>6. OpenSlot(h) \notin h.bitmap
  BY <1>5, LowMasks
<1>7. \A s \in Low : Used(C, D, s) => s \in h.bitmap
  <2> SUFFICES ASSUME NEW s \in Low, Used(C, D, s) PROVE s \in h.bitmap
    OBVIOUS
  <2>1. s \in 3..(IntBits - 1) \/ (s - WordBits \in 3..(IntBits - 1) /\ s = WordBits + (s - WordBits))
    BY Widths DEF Low
  <2> QED BY <2>1 DEF Page0, Paired
<1> QED BY <1>1, <1>5, <1>6, <1>7

\* A slot that is given: the pairing after it is marked and put to use.
LEMMA PairTake ==
  ASSUME NEW h, NEW g, NEW C, NEW D, NEW E, NEW G, NEW m \in Low,
         Paired(h, C, D), m \notin h.bitmap, m \in g.bitmap,
         \A s \in Low : s # m => (s \in g.bitmap <=> s \in h.bitmap),
         \A s \in Low : Used(E, G, s) => Used(C, D, s) \/ s = m
  PROVE  Paired(g, E, G)
<1> SUFFICES ASSUME NEW r \in 3..(IntBits - 1)
             PROVE  /\ Used(E, G, r) \/ Used(E, G, WordBits + r) => r \in g.bitmap /\ WordBits + r \in g.bitmap
                    /\ ~(Used(E, G, r) /\ Used(E, G, WordBits + r))
                    /\ r \in g.bitmap \/ WordBits + r \in g.bitmap
  BY DEF Paired
<1>1. r \in Low /\ WordBits + r \in Low /\ r # WordBits + r
  BY Widths DEF Low
<1>2. /\ Used(C, D, r) \/ Used(C, D, WordBits + r) => r \in h.bitmap /\ WordBits + r \in h.bitmap
      /\ ~(Used(C, D, r) /\ Used(C, D, WordBits + r))
      /\ r \in h.bitmap \/ WordBits + r \in h.bitmap
  BY DEF Paired
<1> QED BY <1>1, <1>2

\* A slot that is given back: the pairing after the bit of the first word is clear.
LEMMA PairFree ==
  ASSUME NEW h, NEW g, NEW C, NEW D, NEW E, NEW r \in 3..(IntBits - 1), NEW s \in {r, WordBits + r},
         Paired(h, C, D), Used(C, D, s), r \notin g.bitmap,
         \A t \in Low : t # r => (t \in g.bitmap <=> t \in h.bitmap),
         \A t \in Low : Used(E, D, t) => Used(C, D, t) /\ t # s
  PROVE  Paired(g, E, D)
<1> SUFFICES ASSUME NEW q \in 3..(IntBits - 1)
             PROVE  /\ Used(E, D, q) \/ Used(E, D, WordBits + q) => q \in g.bitmap /\ WordBits + q \in g.bitmap
                    /\ ~(Used(E, D, q) /\ Used(E, D, WordBits + q))
                    /\ q \in g.bitmap \/ WordBits + q \in g.bitmap
  BY DEF Paired
<1>1. q \in Low /\ WordBits + q \in Low /\ q # WordBits + q /\ WordBits + q # r /\ r \in Low
      /\ (WordBits + q = WordBits + r => q = r) /\ WordBits + r # q
  BY Widths DEF Low
<1>2. /\ Used(C, D, q) \/ Used(C, D, WordBits + q) => q \in h.bitmap /\ WordBits + q \in h.bitmap
      /\ ~(Used(C, D, q) /\ Used(C, D, WordBits + q))
      /\ q \in h.bitmap \/ WordBits + q \in h.bitmap
  BY DEF Paired
<1> QED BY <1>1, <1>2

LEMMA TakeLow ==
  ASSUME NEW h, NEW C, NEW D, NEW F, Page0(h, C, D, F),
         Cardinality(C) + Cardinality(NewPages \ F) < IntBits - 3
  PROVE  LET g == Taken(h)
             m == OpenSlot(h)
         IN  /\ g \in PageHeader /\ g.order = 0 /\ HeaderBits \subseteq g.bitmap /\ Whole(g, Low)
             /\ m \in g.bitmap /\ \A s \in Low : s # m => (s \in g.bitmap <=> s \in h.bitmap)
             /\ Cardinality(Open(g, Low)) = Cardinality(Open(h, Low)) - 1
             /\ g.count = h.count + 1
<1> DEFINE g == Taken(h)
           m == OpenSlot(h)
<1>1. OpenSlots(h) # {} /\ m \in Low /\ m \notin h.bitmap
  BY HasOpen0
<1>2. /\ g \in PageHeader
      /\ g.bitmap = h.bitmap \union Mask(m) /\ g.order = h.order /\ g.count = h.count + 1
  BY <1>1, TakenIs DEF Page0
<1> HIDE DEF g, m
<1>3. /\ Whole(g, Low) /\ HeaderBits \subseteq g.bitmap /\ m \in g.bitmap
      /\ \A s \in Low : s # m => (s \in g.bitmap <=> s \in h.bitmap)
  BY <1>1, <1>2, MarkLow DEF Page0
<1>4. Open(g, Low) = Open(h, Low) \ {m} /\ m \in Open(h, Low)
  BY <1>1, <1>3 DEF Open
<1>5. IsFiniteSet(Open(h, Low))
  BY LowFinite, FS_Subset DEF Open
<1>6. Cardinality(Open(g, Low)) = Cardinality(Open(h, Low)) - 1
  BY <1>4, <1>5, FS_RemoveElement
<1> QED BY <1>2, <1>3, <1>6 DEF Page0, g, m

\* kmalloc() takes a chunk of the page.
LEMMA Take0 ==
  ASSUME NEW h, NEW C, NEW D, NEW F, Page0(h, C, D, F),
         Cardinality(C) + Cardinality(NewPages \ F) < IntBits - 3
  PROVE  LET c == Chunk(Head0, OpenSlot(h), 0)
         IN  c \notin C /\ Page0(Taken(h), C \union {c}, D, F)
<1> DEFINE g == Taken(h)
           m == OpenSlot(h)
           c == Chunk(Head0, m, 0)
           E == C \union {c}
<1>1. m \in Low /\ m \notin h.bitmap /\ ~Used(C, D, m) /\ IsFiniteSet(C)
  BY HasOpen0
<1>2. /\ g \in PageHeader /\ g.order = 0 /\ HeaderBits \subseteq g.bitmap /\ Whole(g, Low)
      /\ m \in g.bitmap /\ \A s \in Low : s # m => (s \in g.bitmap <=> s \in h.bitmap)
      /\ Cardinality(Open(g, Low)) = Cardinality(Open(h, Low)) - 1
  BY TakeLow
<1> HIDE DEF g, m
<1>3. c \notin C /\ ChunkAddress(Head0, m, 0) \notin D
  BY <1>1 DEF Used
<1>4. Cardinality(E) = Cardinality(C) + 1
  BY <1>1, <1>3, FS_AddElement
<1>5. \A s \in Low : Used(E, D, s) => Used(C, D, s) \/ s = m
  BY <1>1, LowAddress DEF Used
<1>6. Paired(g, E, D)
  BY <1>1, <1>2, <1>5, PairTake DEF Page0
<1>7. \A s \in Low : ~(Chunk(Head0, s, 0) \in E /\ ChunkAddress(Head0, s, 0) \in D)
  BY <1>1, <1>3, LowAddress DEF Page0
<1>8. E \subseteq {Chunk(Head0, s, 0) : s \in Low}
  BY <1>1 DEF Page0
<1>9. Cardinality(E) + Cardinality(NewPages \ F) + Cardinality(Open(g, Low)) = IntBits - 3
  <2>1. IsFiniteSet(NewPages \ F) /\ IsFiniteSet(Open(h, Low))
    BY LowFinite, FS_Subset, FS_Difference, PageAssumption DEF Open
  <2>2. Cardinality(NewPages \ F) \in Nat /\ Cardinality(Open(h, Low)) \in Nat /\ Cardinality(C) \in Nat
    BY <1>1, <2>1, FS_CardinalityType
  <2> QED BY <1>2, <1>4, <2>2, Widths DEF Page0
<1> HIDE DEF E
<1>10. Page0(g, E, D, F)
  BY <1>2, <1>6, <1>7, <1>8, <1>9 DEF Page0
<1> QED BY <1>3, <1>10 DEF g, m, E

\* malloc_prepare_new_page() takes a chunk for the descriptor of the page q.
LEMMA Describe0 ==
  ASSUME NEW h, NEW C, NEW D, NEW F, Page0(h, C, D, F),
         Cardinality(C) + Cardinality(NewPages \ F) < IntBits - 3,
         NEW q \in NewPages, q \in F
  PROVE  Page0(Taken(h), C, D \union {ChunkAddress(Head0, OpenSlot(h), 0)}, F \ {q})
<1> DEFINE g == Taken(h)
           m == OpenSlot(h)
           G == D \union {ChunkAddress(Head0, m, 0)}
<1>1. m \in Low /\ m \notin h.bitmap /\ ~Used(C, D, m) /\ IsFiniteSet(C)
  BY HasOpen0
<1>2. /\ g \in PageHeader /\ g.order = 0 /\ HeaderBits \subseteq g.bitmap /\ Whole(g, Low)
      /\ m \in g.bitmap /\ \A s \in Low : s # m => (s \in g.bitmap <=> s \in h.bitmap)
      /\ Cardinality(Open(g, Low)) = Cardinality(Open(h, Low)) - 1
  BY TakeLow
<1> HIDE DEF g, m
<1>3. Chunk(Head0, m, 0) \notin C
  BY <1>1 DEF Used
<1>4. \A s \in Low : Used(C, G, s) => Used(C, D, s) \/ s = m
  BY <1>1, LowAddress DEF Used
<1>5. Paired(g, C, G)
  BY <1>1, <1>2, <1>4, PairTake DEF Page0
<1>6. \A s \in Low : ~(Chunk(Head0, s, 0) \in C /\ ChunkAddress(Head0, s, 0) \in G)
  BY <1>1, <1>3, LowAddress DEF Page0
<1>7. G \subseteq (0..((Head0 * Units) - 1)) \union {ChunkAddress(Head0, s, 0) : s \in Low}
  BY <1>1 DEF Page0
<1>8. NewPages \ (F \ {q}) = (NewPages \ F) \union {q} /\ q \notin NewPages \ F
  OBVIOUS
<1>9. Cardinality(C) + Cardinality(NewPages \ (F \ {q})) + Cardinality(Open(g, Low)) = IntBits - 3
  <2>1. IsFiniteSet(NewPages \ F) /\ IsFiniteSet(Open(h, Low))
    BY LowFinite, FS_Subset, FS_Difference, PageAssumption DEF Open
  <2>2. Cardinality(NewPages \ F) \in Nat /\ Cardinality(Open(h, Low)) \in Nat /\ Cardinality(C) \in Nat
    BY <1>1, <2>1, FS_CardinalityType
  <2>3. Cardinality(NewPages \ (F \ {q})) = Cardinality(NewPages \ F) + 1
    BY <1>8, <2>1, FS_AddElement
  <2>4. Cardinality(C) + Cardinality(NewPages \ F) + Cardinality(Open(h, Low)) = IntBits - 3
    BY DEF Page0
  <2> QED BY <1>2, <2>2, <2>3, <2>4, Widths
<1>10. C \subseteq {Chunk(Head0, s, 0) : s \in Low}
  BY DEF Page0
<1> HIDE DEF G
<1>11. Page0(g, C, G, F \ {q})
  BY <1>2, <1>5, <1>6, <1>7, <1>9, <1>10 DEF Page0
<1> QED BY <1>11 DEF g, m, G

\* The slot that kfree() clears is the one of the same place in the first word.
LEMMA FreedLow ==
  ASSUME NEW h, h.order = 0, NEW s \in Low
  PROVE  LET r == FreedSlot(Chunk(Head0, s, 0).address, h)
         IN  r \in 3..(IntBits - 1) /\ s \in {r, WordBits + r}
<1>1. PICK r \in 3..(IntBits - 1), w \in {0, 1} : s = (w * WordBits) + r
  <2>1. s \in 3..(IntBits - 1) => s = (0 * WordBits) + s
    BY Widths
  <2>2. s \notin 3..(IntBits - 1) => /\ s - WordBits \in 3..(IntBits - 1)
                                     /\ s = (1 * WordBits) + (s - WordBits)
    BY Widths DEF Low
  <2> QED BY <2>1, <2>2
<1>2. Chunk(Head0, s, 0).address = (Head0 * Units) + s
  BY LowAddress
<1>3. PICK q \in Nat : q = (4 * Head0) + w
  BY Widths
<1>4. (Head0 * Units) + s = (q * WordBits) + r
  BY <1>1, <1>3, Widths DEF Units
<1>5. ((q * WordBits) + r) % WordBits = r
  BY DivisionIs, Widths
<1>6. FreedSlot(Chunk(Head0, s, 0).address, h) = r \div 1
  BY <1>2, <1>4, <1>5, Powers DEF FreedSlot
<1>7. r \div 1 = r
  BY Widths
<1>8. s \in {r, WordBits + r}
  BY <1>1, Widths
<1> QED BY <1>6, <1>7, <1>8

\* kfree() gives a chunk of the page back.
LEMMA Free0 ==
  ASSUME NEW h, NEW C, NEW D, NEW F, Page0(h, C, D, F), NEW c \in C
  PROVE  LET g == Freed(h, FreedSlot(c.address, h))
         IN  Page0(g, C \ {c}, D, F) /\ g.count = h.count - 1
<1> DEFINE r == FreedSlot(c.address, h)
           g == Freed(h, r)
           E == C \ {c}
<1>1. PICK s \in Low : c = Chunk(Head0, s, 0)
  BY DEF Page0
<1>2. r \in 3..(IntBits - 1) /\ s \in {r, WordBits + r}
  BY <1>1, FreedLow DEF Page0
<1>3. /\ g \in PageHeader
      /\ g.bitmap = h.bitmap \ Mask(r) /\ g.order = h.order /\ g.count = h.count - 1
  BY FreedIs DEF Page0
<1> HIDE DEF g, r
<1>4. Used(C, D, s) /\ r \in Low /\ r \in h.bitmap
  <2>1. Used(C, D, s)
    BY <1>1 DEF Used
  <2>2. r \in h.bitmap
    BY <1>2, <2>1 DEF Page0, Paired
  <2> QED BY <1>2, <2>1, <2>2 DEF Low
<1>5. /\ Whole(g, Low) /\ HeaderBits \subseteq g.bitmap
      /\ \A t \in Low : t # r => (t \in g.bitmap <=> t \in h.bitmap)
  BY <1>3, <1>4, MarkLow DEF Page0
<1>6. r \notin g.bitmap
  BY <1>3, <1>4, LowMasks
<1>7. \A t \in Low : Used(E, D, t) => Used(C, D, t) /\ t # s
  <2> SUFFICES ASSUME NEW t \in Low, Used(E, D, t) PROVE Used(C, D, t) /\ t # s
    OBVIOUS
  <2>1. Used(C, D, t)
    BY DEF Used
  <2>2. Chunk(Head0, s, 0) \notin E /\ ChunkAddress(Head0, s, 0) \notin D
    BY <1>1 DEF Page0
  <2> QED BY <2>1, <2>2 DEF Used
<1>8. Paired(g, E, D)
  <2>1. Paired(h, C, D)
    BY DEF Page0
  <2> HIDE DEF E
  <2> QED BY <1>2, <1>4, <1>5, <1>6, <1>7, <2>1, PairFree
<1>9. Open(g, Low) = Open(h, Low) \union {r} /\ r \notin Open(h, Low)
  BY <1>4, <1>5, <1>6 DEF Open
<1>10. Cardinality(E) + Cardinality(NewPages \ F) + Cardinality(Open(g, Low)) = IntBits - 3
  <2>1. IsFiniteSet(C) /\ IsFiniteSet(NewPages \ F) /\ IsFiniteSet(Open(h, Low))
    BY LowFinite, FS_Subset, FS_Difference, PageAssumption DEF Open, Page0
  <2>2. Cardinality(NewPages \ F) \in Nat /\ Cardinality(Open(h, Low)) \in Nat /\ Cardinality(C) \in Nat
    BY <2>1, FS_CardinalityType
  <2>3. Cardinality(E) = Cardinality(C) - 1
    BY <2>1, FS_RemoveElement
  <2>4. Cardinality(Open(g, Low)) = Cardinality(Open(h, Low)) + 1
    BY <1>9, <2>1, FS_AddElement
  <2>5. Cardinality(C) + Cardinality(NewPages \ F) + Cardinality(Open(h, Low)) = IntBits - 3
    BY DEF Page0
  <2> QED BY <2>2, <2>3, <2>4, <2>5, Widths
<1>11. /\ E \subseteq {Chunk(Head0, t, 0) : t \in Low}
       /\ \A t \in Low : ~(Chunk(Head0, t, 0) \in E /\ ChunkAddress(Head0, t, 0) \in D)
       /\ D \subseteq (0..((Head0 * Units) - 1)) \union {ChunkAddress(Head0, t, 0) : t \in Low}
       /\ h.order = 0
  BY DEF Page0
<1> HIDE DEF E
<1>12. Page0(g, E, D, F)
  BY <1>3, <1>5, <1>8, <1>10, <1>11 DEF Page0
<1> QED BY <1>3, <1>12 DEF g, r, E

(***************************************************************************)
(* The page that gives chunks of order 1.                                  *)
(***************************************************************************)

\* Here the bit that kfree() clears is the one that was set.
Page1(h, C) ==
  /\ h \in PageHeader /\ h.order = 1
  /\ 0..1 \subseteq h.bitmap
  /\ Whole(h, High)
  /\ C \subseteq {Chunk(Head1, s, 1) : s \in High}
  /\ \A s \in High : Chunk(Head1, s, 1) \in C => s \in h.bitmap
  /\ Cardinality(C) + Cardinality(Open(h, High)) = IntBits - 2

LEMMA HighAddress ==
  /\ \A s \in High : Chunk(Head1, s, 1).address = (Head1 * Units) + (2 * s)
  /\ \A s, t \in High : Chunk(Head1, s, 1) = Chunk(Head1, t, 1) => s = t
<1>1. Head1 * Units \in Nat /\ \A s \in High : s \in Nat /\ s * 2 = 2 * s
  BY Widths DEF High
<1>2. \A s \in High : Chunk(Head1, s, 1).address = (Head1 * Units) + (2 * s)
  BY <1>1, Powers DEF ChunkAddress, Chunk
<1> QED BY <1>1, <1>2

\* Marking a slot of High marks that slot and no other; clearing it, likewise.
LEMMA MarkHigh ==
  ASSUME NEW h, NEW g, Whole(h, High), 0..1 \subseteq h.bitmap, NEW m \in High,
         \/ g.bitmap = h.bitmap \union Mask(m)
         \/ g.bitmap = h.bitmap \ Mask(m)
  PROVE  /\ Whole(g, High) /\ 0..1 \subseteq g.bitmap
         /\ \A s \in High : s # m => (s \in g.bitmap <=> s \in h.bitmap)
<1>1. \A s \in High : s # m => Mask(s) \intersect Mask(m) = {}
  BY LowMasks
<1>2. m \in Mask(m) /\ Mask(m) \intersect (0..1) = {} /\ \A s \in High : s \in Mask(s)
  BY LowMasks
<1>3. \A s \in High : s # m => (s \in g.bitmap <=> s \in h.bitmap)
  BY <1>1, <1>2
<1>4. 0..1 \subseteq g.bitmap
  BY <1>2
<1>5. Whole(g, High)
  BY <1>1, <1>2 DEF Whole
<1> QED BY <1>3, <1>4, <1>5

\* kmalloc() takes a chunk of the page.
LEMMA Take1 ==
  ASSUME NEW h, NEW C, Page1(h, C), Cardinality(C) < IntBits - 2
  PROVE  LET c == Chunk(Head1, OpenSlot(h), 1)
         IN  /\ OpenSlots(h) # {} /\ OpenSlot(h) \in High
             /\ c \notin C /\ Page1(Taken(h), C \union {c}) /\ Taken(h).count = h.count + 1
<1> DEFINE g == Taken(h)
           m == OpenSlot(h)
           c == Chunk(Head1, m, 1)
           E == C \union {c}
<1>1. IsFiniteSet(C) /\ IsFiniteSet(Open(h, High))
      /\ Cardinality(C) \in Nat /\ Cardinality(Open(h, High)) \in Nat
      /\ Cardinality(C) + Cardinality(Open(h, High)) = IntBits - 2
  BY LowFinite, FS_Subset, FS_CardinalityType DEF Page1, Open
<1>2. PICK l \in High : l \notin h.bitmap
  <2>1. Cardinality(Open(h, High)) # 0
    BY <1>1, Widths
  <2> QED BY <1>1, <2>1, FS_EmptySet DEF Open
<1>3. Mask(l) \intersect h.bitmap = {}
  BY <1>2, LowMasks DEF Page1, Whole
<1>4. OpenSlots(h) # {} /\ m \in High /\ Mask(m) \intersect h.bitmap = {}
  BY <1>2, <1>3, FirstHigh DEF Page1
<1>5. /\ g \in PageHeader
      /\ g.bitmap = h.bitmap \union Mask(m) /\ g.order = h.order /\ g.count = h.count + 1
  BY <1>4, TakenIs DEF Page1
<1> HIDE DEF g, m
<1>6. m \notin h.bitmap /\ m \in g.bitmap
  BY <1>4, <1>5, LowMasks
<1>7. /\ Whole(g, High) /\ 0..1 \subseteq g.bitmap
      /\ \A s \in High : s # m => (s \in g.bitmap <=> s \in h.bitmap)
  BY <1>4, <1>5, MarkHigh DEF Page1
<1>8. c \notin C
  BY <1>4, <1>6 DEF Page1
<1>9. E \subseteq {Chunk(Head1, s, 1) : s \in High}
  BY <1>4 DEF Page1
<1>10. \A s \in High : Chunk(Head1, s, 1) \in E => s \in g.bitmap
  BY <1>4, <1>6, <1>7, HighAddress DEF Page1
<1>11. Cardinality(E) + Cardinality(Open(g, High)) = IntBits - 2
  <2>1. Open(g, High) = Open(h, High) \ {m} /\ m \in Open(h, High)
    BY <1>4, <1>6, <1>7 DEF Open
  <2>2. Cardinality(Open(g, High)) = Cardinality(Open(h, High)) - 1
    BY <1>1, <2>1, FS_RemoveElement
  <2>3. Cardinality(E) = Cardinality(C) + 1
    BY <1>1, <1>8, FS_AddElement
  <2> QED BY <1>1, <2>2, <2>3, Widths
<1> HIDE DEF E
<1>12. Page1(g, E)
  BY <1>5, <1>7, <1>9, <1>10, <1>11 DEF Page1
<1> QED BY <1>4, <1>5, <1>8, <1>12 DEF g, m, E

\* kfree() gives a chunk of the page back.
LEMMA Free1 ==
  ASSUME NEW h, NEW C, Page1(h, C), NEW c \in C
  PROVE  LET g == Freed(h, FreedSlot(c.address, h))
         IN  Page1(g, C \ {c}) /\ g.count = h.count - 1
<1> DEFINE r == FreedSlot(c.address, h)
           g == Freed(h, r)
           E == C \ {c}
<1>1. PICK s \in High : c = Chunk(Head1, s, 1)
  BY DEF Page1
<1>2. r = s
  <2>1. c.address = (Head1 * Units) + (2 * s)
    BY <1>1, HighAddress
  <2>2. PICK q \in Nat : q = 4 * Head1
    BY Widths
  <2>3. (Head1 * Units) + (2 * s) = (q * WordBits) + (2 * s)
    BY <2>2, Widths DEF Units
  <2>4. 2 * s \in 0..(WordBits - 1)
    BY Widths DEF High
  <2>5. ((q * WordBits) + (2 * s)) % WordBits = 2 * s
    <3>1. PICK t \in 0..(WordBits - 1) : t = 2 * s
      BY <2>4
    <3>2. ((q * WordBits) + t) % WordBits = t
      BY DivisionIs, Widths
    <3> QED BY <3>1, <3>2
  <2>6. r = (2 * s) \div 2
    BY <2>1, <2>3, <2>5, Powers DEF FreedSlot, Page1
  <2>7. s \in Nat
    BY Widths DEF High
  <2> QED BY <2>6, <2>7
<1>3. /\ g \in PageHeader
      /\ g.bitmap = h.bitmap \ Mask(s) /\ g.order = h.order /\ g.count = h.count - 1
  BY <1>2, FreedIs DEF Page1
<1> HIDE DEF g, r
<1>4. s \in h.bitmap /\ s \notin g.bitmap
  BY <1>1, <1>3, LowMasks DEF Page1
<1>5. /\ Whole(g, High) /\ 0..1 \subseteq g.bitmap
      /\ \A t \in High : t # s => (t \in g.bitmap <=> t \in h.bitmap)
  BY <1>3, MarkHigh DEF Page1
<1>6. \A t \in High : Chunk(Head1, t, 1) \in E => t \in g.bitmap
  BY <1>1, <1>5 DEF Page1
<1>7. Cardinality(E) + Cardinality(Open(g, High)) = IntBits - 2
  <2>1. IsFiniteSet(C) /\ IsFiniteSet(Open(h, High))
        /\ Cardinality(C) \in Nat /\ Cardinality(Open(h, High)) \in Nat
        /\ Cardinality(C) + Cardinality(Open(h, High)) = IntBits - 2
    BY LowFinite, FS_Subset, FS_CardinalityType DEF Page1, Open
  <2>2. Open(g, High) = Open(h, High) \union {s} /\ s \notin Open(h, High)
    BY <1>4, <1>5 DEF Open
  <2>3. Cardinality(Open(g, High)) = Cardinality(Open(h, High)) + 1
    BY <2>1, <2>2, FS_AddElement
  <2>4. Cardinality(E) = Cardinality(C) - 1
    BY <2>1, FS_RemoveElement
  <2> QED BY <2>1, <2>3, <2>4, Widths
<1>8. E \subseteq {Chunk(Head1, t, 1) : t \in High}
  BY DEF Page1
<1> HIDE DEF E
<1>9. Page1(g, E)
  BY <1>3, <1>5, <1>6, <1>7, <1>8 DEF Page1
<1> QED BY <1>3, <1>9 DEF g, r, E

(***************************************************************************)
(* The invariant while calls are made.                                     *)
(***************************************************************************)

\* What keeps every chunk that is given in the first half-words of the pages of
\* orders 0 and 1: no more is held at once than they mark, and a new page
\* has, of what its frame held, a slot open.
Regime ==
  /\ MaxLive[0] + Cardinality(NewPages) <= IntBits - 3
  /\ MaxLive[1] <= IntBits - 2
  /\ \A left \in Leftovers : \A k \in Orders \ {0, 1} :
       OpenSlots(Prepared([bitmap |-> left, order |-> 0, count |-> 0], k)) # {}

OnPage(L, p) == {c \in L : PageOf(c.address) = p}

\* A page beyond the initial ones is made for one chunk, which is all that it
\* ever gives.
PagesN(H, L, F) ==
  /\ \A c \in L : c.order \notin {0, 1} =>
       \E q \in NewPages \ F : \E k \in Orders \ {0, 1} : \E s \in 1..(Slots(k) - 1) :
         c = Chunk(q, s, k) /\ H[q].order = k
  /\ \A c, d \in L : c.order \notin {0, 1} /\ PageOf(c.address) = PageOf(d.address) => c = d

Counted == \A p \in Pages : header[p].count = Cardinality(OnPage(live, p)) + DescriptorsFrom(p)

HeadsAre(a, b) ==
  /\ lists \in [Orders -> Seq(InitSpace)]
  /\ lists[0] # <<>> /\ lists[0][1] = a
  /\ lists[1] # <<>> /\ lists[1][1] = b
  /\ \A k \in Orders \ {0, 1} : lists[k] = <<>>

Heap ==
  /\ header \in [Pages -> PageHeader]
  /\ HeadsAre(Head0, Head1)
  /\ desc \subseteq Nat /\ clobbered \subseteq 0..(Head0 - 1) /\ fresh \subseteq NewPages
  /\ IsFiniteSet(live)
  /\ Page0(header[Head0], LiveOf(0), desc, fresh)
  /\ Page1(header[Head1], LiveOf(1))
  /\ PagesN(header, live, fresh)
  /\ Counted
  /\ \A k \in {0, 1} : Cardinality(LiveOf(k)) <= MaxLive[k]

\* A page is only ever missing for an order that has no list.
Control ==
  /\ phase \in {"up", "page", "fault", "prepare", "stop"}
  /\ phase = "page" => MayHold(1)
  /\ phase \in {"page", "fault", "prepare"} => pending \in Orders \ {0, 1}
  /\ phase = "fault" => frames \in 1..MaxFrames
  /\ pending \in Orders /\ frames \in 0..MaxFrames

LEMMA PageTypes ==
  /\ Head0 \in Pages /\ Head1 \in Pages /\ Head0 \in InitSpace /\ Head1 \in InitSpace /\ Head0 # Head1
  /\ Head0 # 0 /\ Head1 # 0 /\ 0 \in Pages /\ 0 \in InitSpace
  /\ \A p \in Pages : p \in Nat
  /\ \A q \in NewPages : q \in Pages /\ q \in Nat /\ q \notin InitSpace
  /\ 0 \in Orders /\ 1 \in Orders /\ Orders \subseteq Nat
BY Widths, PageAssumption DEF Pages, InitSpace, Orders

\* Where a chunk in a caller's hands is.
LEMMA Places ==
  ASSUME Heap, NEW c \in live
  PROVE  \/ \E s \in Low : c = Chunk(Head0, s, 0)
         \/ \E s \in High : c = Chunk(Head1, s, 1)
         \/ \E q \in NewPages \ fresh : \E k \in Orders \ {0, 1} : \E s \in 1..(Slots(k) - 1) :
              c = Chunk(q, s, k) /\ header[q].order = k
<1>1. CASE c.order = 0
  <2>1. c \in LiveOf(0) /\ LiveOf(0) \subseteq {Chunk(Head0, s, 0) : s \in Low}
    BY <1>1 DEF LiveOf, Heap, Page0
  <2> QED BY <2>1
<1>2. CASE c.order = 1
  <2>1. c \in LiveOf(1) /\ LiveOf(1) \subseteq {Chunk(Head1, s, 1) : s \in High}
    BY <1>2 DEF LiveOf, Heap, Page1
  <2> QED BY <2>1
<1>3. CASE c.order \notin {0, 1}
  BY <1>3 DEF Heap, PagesN
<1> QED BY <1>1, <1>2, <1>3

LEMMA PlacePage ==
  /\ \A s \in Low : PageOf(Chunk(Head0, s, 0).address) = Head0 /\ Chunk(Head0, s, 0).order = 0
  /\ \A s \in High : PageOf(Chunk(Head1, s, 1).address) = Head1 /\ Chunk(Head1, s, 1).order = 1
  /\ \A q \in NewPages : \A k \in Orders \ {0, 1} : \A s \in 1..(Slots(k) - 1) :
       PageOf(Chunk(q, s, k).address) = q /\ Chunk(q, s, k).order = k
<1>1. \A s \in Low : s \in 0..(Slots(0) - 1)
  BY LowMasks
<1>2. \A s \in High : s \in 0..(Slots(1) - 1)
  BY LowMasks
<1>3. \A k \in Orders : \A s \in 1..(Slots(k) - 1) : s \in 0..(Slots(k) - 1)
  BY SlotsFit
<1> QED BY <1>1, <1>2, <1>3, ChunkPlace, PageTypes

LEMMA OnPages ==
  ASSUME Heap
  PROVE  /\ OnPage(live, Head0) = LiveOf(0)
         /\ OnPage(live, Head1) = LiveOf(1)
         /\ \A p \in InitSpace \ {Head0, Head1} : OnPage(live, p) = {}
         /\ \A q \in fresh : OnPage(live, q) = {}
         /\ \A q \in NewPages : Cardinality(OnPage(live, q)) \in {0, 1}
<1>1. ASSUME NEW c \in live
      PROVE  /\ c.order \in Orders /\ PageOf(c.address) \in Pages
             /\ c.order = 0 <=> PageOf(c.address) = Head0
             /\ c.order = 1 <=> PageOf(c.address) = Head1
             /\ PageOf(c.address) \in {Head0, Head1} \union (NewPages \ fresh)
  <2>1. CASE \E s \in Low : c = Chunk(Head0, s, 0)
    BY <2>1, PlacePage, PageTypes
  <2>2. CASE \E s \in High : c = Chunk(Head1, s, 1)
    BY <2>2, PlacePage, PageTypes
  <2>3. CASE \E q \in NewPages \ fresh : \E k \in Orders \ {0, 1} : \E s \in 1..(Slots(k) - 1) :
               c = Chunk(q, s, k) /\ header[q].order = k
    BY <2>3, PlacePage, PageTypes
  <2> QED BY <2>1, <2>2, <2>3, Places
<1>2. OnPage(live, Head0) = LiveOf(0) /\ OnPage(live, Head1) = LiveOf(1)
  BY <1>1 DEF OnPage, LiveOf
<1>3. \A p \in InitSpace \ {Head0, Head1} : OnPage(live, p) = {}
  BY <1>1, PageTypes DEF OnPage
<1>4. \A q \in fresh : OnPage(live, q) = {}
  BY <1>1, PageTypes DEF OnPage, Heap
<1>5. ASSUME NEW q \in NewPages
      PROVE  Cardinality(OnPage(live, q)) \in {0, 1}
  <2>1. CASE OnPage(live, q) = {}
    BY <2>1, FS_EmptySet
  <2>2. CASE OnPage(live, q) # {}
    <3>1. PICK c \in live : PageOf(c.address) = q
      BY <2>2 DEF OnPage
    <3>2. c.order \notin {0, 1}
      BY <1>1, <3>1, PageTypes
    <3>3. OnPage(live, q) = {c}
      BY <3>1, <3>2 DEF OnPage, Heap, PagesN
    <3> QED BY <3>3, FS_Singleton
  <2> QED BY <2>1, <2>2
<1> QED BY <1>2, <1>3, <1>4, <1>5

\* How far the counts of the pages go.
LEMMA CountBounds ==
  ASSUME Heap
  PROVE  /\ \A p \in Pages : header[p].count \in 0..Units
         /\ header[Head0].count \in IntBits..((2 * IntBits) - 3)
         /\ header[Head1].count \in 0..(IntBits - 2)
         /\ \A p \in InitSpace \ {Head0} : header[p].count <= IntBits
<1>1. IsFiniteSet(NewPages \ fresh) /\ Cardinality(NewPages \ fresh) \in Nat
  BY PageAssumption, FS_Difference, FS_CardinalityType
<1>2. LiveOf(0) \subseteq live /\ LiveOf(1) \subseteq live
  BY DEF LiveOf
<1>3. Cardinality(LiveOf(0)) \in Nat /\ Cardinality(LiveOf(1)) \in Nat
  BY <1>2, FS_Subset, FS_CardinalityType DEF Heap
<1>4. Cardinality(LiveOf(0)) + Cardinality(NewPages \ fresh) <= IntBits - 3
  <2>1. IsFiniteSet(Open(header[Head0], Low))
    BY LowFinite, FS_Subset DEF Open
  <2>2. Cardinality(Open(header[Head0], Low)) \in Nat
    BY <2>1, FS_CardinalityType
  <2>3. Cardinality(LiveOf(0)) + Cardinality(NewPages \ fresh) + Cardinality(Open(header[Head0], Low)) = IntBits - 3
    BY DEF Heap, Page0
  <2> QED BY <1>1, <1>3, <2>2, <2>3, Widths
<1>5. Cardinality(LiveOf(1)) <= IntBits - 2
  <2>1. IsFiniteSet(Open(header[Head1], High))
    BY LowFinite, FS_Subset DEF Open
  <2>2. Cardinality(Open(header[Head1], High)) \in Nat
    BY <2>1, FS_CardinalityType
  <2>3. Cardinality(LiveOf(1)) + Cardinality(Open(header[Head1], High)) = IntBits - 2
    BY DEF Heap, Page1
  <2> QED BY <1>3, <2>2, <2>3, Widths
<1>6. \A p \in Pages : header[p].count = Cardinality(OnPage(live, p)) + DescriptorsFrom(p)
  BY DEF Heap, Counted
<1>7. header[Head0].count \in IntBits..((2 * IntBits) - 3)
  <2>1. header[Head0].count = Cardinality(LiveOf(0)) + (IntBits + Cardinality(NewPages \ fresh))
    BY <1>6, OnPages, PageTypes, Widths DEF DescriptorsFrom
  <2> QED BY <1>1, <1>3, <1>4, <2>1, Widths
<1>8. header[Head1].count \in 0..(IntBits - 2)
  <2>1. header[Head1].count = Cardinality(LiveOf(1)) + 0
    BY <1>6, OnPages, PageTypes, Widths DEF DescriptorsFrom
  <2> QED BY <1>3, <1>5, <2>1, Widths
<1>9. ASSUME NEW p \in InitSpace \ {Head0, Head1}
      PROVE  header[p].count \in 0..IntBits
  <2>1. p \in Pages /\ Cardinality(OnPage(live, p)) = 0
    BY <1>9, OnPages, FS_EmptySet DEF Pages
  <2>2. DescriptorsFrom(p) \in {0, IntBits}
    BY <1>9, Widths DEF DescriptorsFrom
  <2> QED BY <1>6, <2>1, <2>2, Widths
<1>10. ASSUME NEW q \in NewPages
       PROVE  header[q].count \in 0..1
  <2>1. DescriptorsFrom(q) = 0
    BY PageTypes DEF DescriptorsFrom
  <2> QED BY <1>6, <2>1, OnPages, PageTypes
<1>11. \A p \in Pages : p \in NewPages \/ p \in InitSpace \ {Head0, Head1} \/ p = Head0 \/ p = Head1
  BY DEF Pages
<1> QED BY <1>7, <1>8, <1>9, <1>10, <1>11, Widths

(***************************************************************************)
(* kmalloc() from a listed page, and kfree().                              *)
(***************************************************************************)

LEMMA AddCount ==
  ASSUME NEW L, IsFiniteSet(L), NEW c, c \notin L, NEW p
  PROVE  /\ Cardinality(OnPage(L, p)) \in Nat
         /\ Cardinality(OnPage(L \union {c}, p))
              = Cardinality(OnPage(L, p)) + (IF PageOf(c.address) = p THEN 1 ELSE 0)
<1>1. IsFiniteSet(OnPage(L, p)) /\ Cardinality(OnPage(L, p)) \in Nat
  BY FS_Subset, FS_CardinalityType DEF OnPage
<1>2. CASE PageOf(c.address) = p
  <2>1. OnPage(L \union {c}, p) = OnPage(L, p) \union {c} /\ c \notin OnPage(L, p)
    BY <1>2 DEF OnPage
  <2> QED BY <1>1, <1>2, <2>1, FS_AddElement
<1>3. CASE PageOf(c.address) # p
  <2>1. OnPage(L \union {c}, p) = OnPage(L, p)
    BY <1>3 DEF OnPage
  <2> QED BY <1>1, <1>3, <2>1
<1> QED BY <1>1, <1>2, <1>3

LEMMA DropCount ==
  ASSUME NEW L, IsFiniteSet(L), NEW c, c \in L, NEW p
  PROVE  /\ Cardinality(OnPage(L, p)) \in Nat
         /\ Cardinality(OnPage(L \ {c}, p))
              = Cardinality(OnPage(L, p)) - (IF PageOf(c.address) = p THEN 1 ELSE 0)
<1>1. IsFiniteSet(OnPage(L, p)) /\ Cardinality(OnPage(L, p)) \in Nat
  BY FS_Subset, FS_CardinalityType DEF OnPage
<1>2. CASE PageOf(c.address) = p
  <2>1. OnPage(L \ {c}, p) = OnPage(L, p) \ {c} /\ c \in OnPage(L, p)
    BY <1>2 DEF OnPage
  <2> QED BY <1>1, <1>2, <2>1, FS_RemoveElement
<1>3. CASE PageOf(c.address) # p
  <2>1. OnPage(L \ {c}, p) = OnPage(L, p)
    BY <1>3 DEF OnPage
  <2> QED BY <1>1, <1>3, <2>1
<1> QED BY <1>1, <1>2, <1>3

\* The pages in front of the lists have room, and no other list has pages.
LEMMA ListHeads ==
  ASSUME Heap
  PROVE  /\ \A k \in Orders \ {0, 1} : DOMAIN lists[k] = {}
         /\ 1 \in DOMAIN lists[0] /\ lists[0][1] = Head0 /\ Picked(0, 1)
         /\ 1 \in DOMAIN lists[1] /\ lists[1][1] = Head1 /\ Picked(1, 1)
         /\ \A j \in DOMAIN lists[0] : Picked(0, j) => j = 1
         /\ \A j \in DOMAIN lists[1] : Picked(1, j) => j = 1
         /\ ~Full(0) /\ ~Full(1)
         /\ \A k \in Orders : \A j \in DOMAIN lists[k] : j \in Nat /\ j >= 1 /\ lists[k][j] \in InitSpace
<1>1. \A k \in Orders : lists[k] \in Seq(InitSpace)
  BY DEF Heap, HeadsAre
<1>2. \A k \in Orders \ {0, 1} : DOMAIN lists[k] = {}
  BY DEF Heap, HeadsAre
<1>3. \A k \in Orders : \A j \in DOMAIN lists[k] : j \in Nat /\ j >= 1 /\ lists[k][j] \in InitSpace
  BY <1>1
<1>4. \A k \in {0, 1} : 1 \in DOMAIN lists[k]
  <2>1. \A k \in {0, 1} : lists[k] \in Seq(InitSpace) /\ lists[k] # <<>>
    BY <1>1, PageTypes DEF Heap, HeadsAre
  <2> QED BY <2>1
<1>5. lists[0][1] = Head0 /\ lists[1][1] = Head1
  BY DEF Heap, HeadsAre
<1>6. header[Head0].count < Slots(0) - 1 /\ header[Head1].count < Slots(1) - 1
  BY CountBounds, SlotsFit, Widths
<1>7. \A l : l \notin 1..(1 - 1)
  OBVIOUS
<1>8. Picked(0, 1) /\ Picked(1, 1)
  BY <1>4, <1>5, <1>6, <1>7 DEF Picked, FirstBelow
<1>9. ASSUME NEW k \in {0, 1}, NEW j \in DOMAIN lists[k], Picked(k, j)
      PROVE  j = 1
  <2>1. k \in Orders /\ j \in Nat /\ j >= 1
    BY <1>3, PageTypes
  <2>2. j # 1 => 1 \in 1..(j - 1)
    BY <2>1
  <2>3. j # 1 => header[lists[k][1]].count >= Slots(k) - 1
    BY <1>9, <2>2 DEF Picked, FirstBelow
  <2>4. header[lists[k][1]].count < Slots(k) - 1
    BY <1>5, <1>6
  <2>5. header[lists[k][1]].count \in Int /\ Slots(k) - 1 \in Int
    BY <1>5, CountBounds, SlotsFit, Widths
  <2> QED BY <2>3, <2>4, <2>5
<1>10. ~Full(0) /\ ~Full(1)
  BY <1>4, <1>8 DEF Full
<1> QED BY <1>2, <1>3, <1>4, <1>5, <1>8, <1>9, <1>10

HeadPage(k) == IF k = 0 THEN Head0 ELSE Head1

LEMMA TakeFrom ==
  ASSUME Heap, NEW k \in Orders, TakeChunk(k)
  PROVE  /\ k \in {0, 1}
         /\ header' = [header EXCEPT ![HeadPage(k)] = Taken(@)]
         /\ live' = live \union {Chunk(HeadPage(k), OpenSlot(header[HeadPage(k)]), k)}
<1>1. PICK j \in DOMAIN lists[k] :
        /\ Picked(k, j)
        /\ LET p == lists[k][j]
           IN  \E s \in IF p \in clobbered THEN 0..(Slots(k) - 1) ELSE {OpenSlot(header[p])} :
                 /\ header' = [header EXCEPT ![p] = Taken(@)]
                 /\ live' = live \union {Chunk(p, s, k)}
  BY DEF TakeChunk
<1>2. k \in {0, 1}
  BY <1>1, ListHeads
<1>3. lists[k][j] = HeadPage(k)
  <2>1. j = 1
    BY <1>1, <1>2, ListHeads
  <2> QED BY <1>2, <2>1, ListHeads DEF HeadPage
<1>4. HeadPage(k) \notin clobbered
  BY <1>2, Widths DEF Heap, HeadPage
<1> QED BY <1>1, <1>2, <1>3, <1>4

LEMMA WithinRegime ==
  ASSUME Heap, Regime
  PROVE  /\ MayHold(0) => Cardinality(LiveOf(0)) + Cardinality(NewPages \ fresh) < IntBits - 3
         /\ MayHold(1) => Cardinality(LiveOf(1)) < IntBits - 2
         /\ fresh # {} => Cardinality(LiveOf(0)) + Cardinality(NewPages \ fresh) < IntBits - 3
         /\ Cardinality(LiveOf(0)) \in Nat /\ Cardinality(LiveOf(1)) \in Nat
<1>1. IsFiniteSet(NewPages) /\ Cardinality(NewPages) \in Nat
  BY PageAssumption, FS_CardinalityType
<1>2. Cardinality(NewPages \ fresh) \in Nat /\ Cardinality(NewPages \ fresh) <= Cardinality(NewPages)
  BY <1>1, FS_Subset, FS_Difference, FS_CardinalityType
<1>3. fresh # {} => Cardinality(NewPages \ fresh) < Cardinality(NewPages)
  <2> SUFFICES ASSUME fresh # {} PROVE Cardinality(NewPages \ fresh) < Cardinality(NewPages)
    OBVIOUS
  <2>1. PICK q : q \in fresh
    OBVIOUS
  <2>2. q \in NewPages /\ NewPages \ fresh \subseteq NewPages \ {q}
    BY <2>1 DEF Heap
  <2>3. Cardinality(NewPages \ {q}) = Cardinality(NewPages) - 1 /\ IsFiniteSet(NewPages \ {q})
    BY <1>1, <2>2, FS_RemoveElement
  <2>4. Cardinality(NewPages \ fresh) <= Cardinality(NewPages \ {q})
    BY <2>2, <2>3, FS_Subset
  <2> QED BY <1>1, <1>2, <2>3, <2>4
<1>4. LiveOf(0) \subseteq live /\ LiveOf(1) \subseteq live
  BY DEF LiveOf
<1>5. Cardinality(LiveOf(0)) \in Nat /\ Cardinality(LiveOf(1)) \in Nat
  BY <1>4, FS_Subset, FS_CardinalityType DEF Heap
<1>6. MaxLive[0] \in Nat /\ MaxLive[1] \in Nat
  BY PageAssumption, PageTypes
<1>7. Cardinality(LiveOf(0)) <= MaxLive[0]
  BY DEF Heap
<1>8. /\ MaxLive[0] + Cardinality(NewPages) <= IntBits - 3
      /\ MaxLive[1] <= IntBits - 2
  BY DEF Regime
<1> QED BY <1>1, <1>2, <1>3, <1>5, <1>6, <1>7, <1>8, Widths DEF MayHold

\* A chunk that is taken leaves the heap in order.
LEMMA TakeHeap ==
  ASSUME Heap, Regime, NEW k \in Orders, MayHold(k), TakeChunk(k),
         UNCHANGED <<lists, desc, clobbered, fresh>>
  PROVE  /\ Heap'
         /\ \A l \in {0, 1} \ {k} : LiveOf(l)' = LiveOf(l)
         /\ k \in {0, 1}
<1> DEFINE p == HeadPage(k)
           s == OpenSlot(header[p])
           c == Chunk(p, s, k)
<1>1. /\ k \in {0, 1}
      /\ header' = [header EXCEPT ![p] = Taken(@)]
      /\ live' = live \union {c}
  BY TakeFrom
<1>2. /\ c.order = k
      /\ header \in [Pages -> PageHeader] /\ p \in Pages
      /\ fresh' = fresh /\ desc' = desc /\ lists' = lists /\ clobbered' = clobbered
  BY PageTypes DEF Chunk, Heap, HeadPage
<1>3. LiveOf(k)' = LiveOf(k) \union {c} /\ \A l \in {0, 1} \ {k} : LiveOf(l)' = LiveOf(l)
  BY <1>1, <1>2 DEF LiveOf
<1>4. /\ Taken(header[p]) \in PageHeader /\ Taken(header[p]).count = header[p].count + 1
      /\ Taken(header[p]).order = header[p].order
      /\ c \notin LiveOf(k)
      /\ PageOf(c.address) = p
      /\ k = 0 => Page0(Taken(header[Head0]), LiveOf(0) \union {c}, desc, fresh)
      /\ k = 1 => Page1(Taken(header[Head1]), LiveOf(1) \union {c})
  <2>1. CASE k = 0
    <3>1. Page0(header[Head0], LiveOf(0), desc, fresh) /\ p = Head0
      BY <2>1 DEF Heap, HeadPage
    <3>2. Cardinality(LiveOf(0)) + Cardinality(NewPages \ fresh) < IntBits - 3
      BY <2>1, WithinRegime
    <3>3. c \notin LiveOf(0) /\ Page0(Taken(header[Head0]), LiveOf(0) \union {c}, desc, fresh)
      BY <2>1, <3>1, <3>2, Take0
    <3>4. s \in Low /\ OpenSlots(header[p]) # {}
      BY <3>1, <3>2, HasOpen0
    <3>5. /\ Taken(header[p]) \in PageHeader /\ Taken(header[p]).count = header[p].count + 1
          /\ Taken(header[p]).order = header[p].order
      BY <3>4, <1>2, TakenIs
    <3> QED BY <2>1, <3>1, <3>3, <3>4, <3>5, PlacePage
  <2>2. CASE k = 1
    <3>1. Page1(header[Head1], LiveOf(1)) /\ p = Head1
      BY <2>2 DEF Heap, HeadPage
    <3>2. Cardinality(LiveOf(1)) < IntBits - 2
      BY <2>2, WithinRegime
    <3>3. c \notin LiveOf(1) /\ Page1(Taken(header[Head1]), LiveOf(1) \union {c})
          /\ s \in High /\ OpenSlots(header[p]) # {}
      BY <2>2, <3>1, <3>2, Take1
    <3>4. /\ Taken(header[p]) \in PageHeader /\ Taken(header[p]).count = header[p].count + 1
          /\ Taken(header[p]).order = header[p].order
      BY <3>3, <1>2, TakenIs
    <3> QED BY <2>2, <3>1, <3>3, <3>4, PlacePage
  <2> QED BY <1>1, <2>1, <2>2
<1>5. c \notin live
  BY <1>2, <1>4 DEF LiveOf
<1> HIDE DEF c, s
<1>6. /\ header' \in [Pages -> PageHeader] /\ header'[p] = Taken(header[p])
      /\ \A q \in Pages : q # p => header'[q] = header[q]
      /\ \A q \in Pages : header'[q].order = header[q].order
  BY <1>1, <1>2, <1>4
<1>7. Page0(header'[Head0], LiveOf(0)', desc', fresh') /\ Page1(header'[Head1], LiveOf(1)')
  <2>1. Page0(header[Head0], LiveOf(0), desc, fresh) /\ Page1(header[Head1], LiveOf(1))
    BY DEF Heap
  <2>2. CASE k = 0
    <3>1. header'[Head0] = Taken(header[Head0]) /\ header'[Head1] = header[Head1]
      BY <1>6, <2>2, PageTypes DEF HeadPage
    <3> QED BY <1>2, <1>3, <1>4, <2>1, <2>2, <3>1
  <2>3. CASE k = 1
    <3>1. header'[Head1] = Taken(header[Head1]) /\ header'[Head0] = header[Head0]
      BY <1>6, <2>3, PageTypes DEF HeadPage
    <3> QED BY <1>2, <1>3, <1>4, <2>1, <2>3, <3>1
  <2> QED BY <1>1, <2>2, <2>3
<1>8. PagesN(header', live', fresh')
  <2>1. ASSUME NEW x \in live', x.order \notin {0, 1}
        PROVE  x \in live /\ x # c
    BY <1>1, <1>2, <2>1
  <2>2. ASSUME NEW x \in live', x.order \notin {0, 1}
        PROVE  \E q \in NewPages \ fresh' : \E l \in Orders \ {0, 1} : \E t \in 1..(Slots(l) - 1) :
                 x = Chunk(q, t, l) /\ header'[q].order = l
    BY <2>1, <2>2, <1>2, <1>6, PageTypes DEF Heap, PagesN
  <2>3. ASSUME NEW x \in live', NEW y \in live', x.order \notin {0, 1},
               PageOf(x.address) = PageOf(y.address)
        PROVE  x = y
    <3>1. x \in live
      BY <2>1, <2>3
    <3>2. PageOf(x.address) \in NewPages
      <4>1. PICK q \in NewPages \ fresh : \E l \in Orders \ {0, 1} : \E t \in 1..(Slots(l) - 1) : x = Chunk(q, t, l)
        BY <3>1, <2>3 DEF Heap, PagesN
      <4> QED BY <4>1, PlacePage
    <3>3. p \in InitSpace
      BY PageTypes DEF HeadPage
    <3>4. y # c
      BY <2>3, <3>2, <3>3, <1>4, PageTypes
    <3>5. y \in live
      BY <3>4, <1>1
    <3> QED BY <3>1, <3>5, <2>3 DEF Heap, PagesN
  <2> QED BY <2>2, <2>3 DEF PagesN
<1>9. Counted'
  <2> SUFFICES ASSUME NEW q \in Pages
               PROVE header'[q].count = Cardinality(OnPage(live', q)) + DescriptorsFrom(q)'
    BY DEF Counted
  <2>1. header[q].count = Cardinality(OnPage(live, q)) + DescriptorsFrom(q)
    BY DEF Heap, Counted
  <2>2. DescriptorsFrom(q)' = DescriptorsFrom(q)
    BY <1>2 DEF DescriptorsFrom
  <2>3. /\ Cardinality(OnPage(live, q)) \in Nat
        /\ Cardinality(OnPage(live', q)) = Cardinality(OnPage(live, q)) + (IF PageOf(c.address) = q THEN 1 ELSE 0)
    BY <1>1, <1>5, AddCount DEF Heap
  <2>4. header'[q].count = header[q].count + (IF PageOf(c.address) = q THEN 1 ELSE 0)
    <3>1. header[q].count \in Int
      BY <1>2 DEF PageHeader
    <3> QED BY <1>4, <1>6, <3>1
  <2>5. DescriptorsFrom(q) \in Int
    <3>1. header[q].count \in Int
      BY <1>2 DEF PageHeader
    <3>2. IsFiniteSet(NewPages \ fresh)
      BY PageAssumption, FS_Difference
    <3>3. Cardinality(NewPages \ fresh) \in Nat
      BY <3>2, FS_CardinalityType
    <3> QED BY <3>3, Widths DEF DescriptorsFrom
  <2> QED BY <2>1, <2>2, <2>3, <2>4, <2>5
<1>10. \A l \in {0, 1} : Cardinality(LiveOf(l)') <= MaxLive[l]
  <2>1. LiveOf(k) \subseteq live /\ IsFiniteSet(live)
    BY DEF LiveOf, Heap
  <2>2. IsFiniteSet(LiveOf(k)) /\ Cardinality(LiveOf(k)) \in Nat
    BY <2>1, FS_Subset, FS_CardinalityType
  <2>3. Cardinality(LiveOf(k)') = Cardinality(LiveOf(k)) + 1
    BY <1>3, <1>4, <2>2, FS_AddElement
  <2>4. MaxLive[k] \in Nat
    BY PageAssumption
  <2>5. Cardinality(LiveOf(k)') <= MaxLive[k]
    BY <2>2, <2>3, <2>4 DEF MayHold
  <2> QED BY <1>3, <2>5 DEF Heap
<1>11. IsFiniteSet(live')
  BY <1>1, FS_AddElement DEF Heap
<1>12. HeadsAre(Head0, Head1)'
  BY <1>2 DEF Heap, HeadsAre, Head0, Head1
<1>13. desc' \subseteq Nat /\ clobbered' \subseteq 0..(Head0 - 1) /\ fresh' \subseteq NewPages
  BY <1>2 DEF Heap
<1>14. Heap'
  BY <1>6, <1>7, <1>8, <1>9, <1>10, <1>11, <1>12, <1>13 DEF Heap
<1> QED BY <1>1, <1>3, <1>14

\* ... and so does one that is given back.
LEMMA FreeHeap ==
  ASSUME Heap, NEW c \in live, FreeChunk(c), UNCHANGED <<lists, desc, clobbered, fresh>>
  PROVE  Heap' /\ \A l \in {0, 1} : l # c.order => LiveOf(l)' = LiveOf(l)
<1> DEFINE p == PageOf(c.address)
           g == Freed(header[p], FreedSlot(c.address, header[p]))
<1>1. /\ live' = live \ {c}
      /\ header' = [header EXCEPT ![p] = g]
  <2>1. header' = [header EXCEPT ![p] = Freed(header[p], FreedSlot(c.address, header[p]))]
    BY DEF FreeChunk
  <2> QED BY <2>1 DEF FreeChunk
<1>2. header \in [Pages -> PageHeader]
      /\ fresh' = fresh /\ desc' = desc /\ lists' = lists /\ clobbered' = clobbered
  BY DEF Heap
<1>3. \A l \in {0, 1} : LiveOf(l)' = IF l = c.order THEN LiveOf(l) \ {c} ELSE LiveOf(l)
  BY <1>1 DEF LiveOf
<1>4. /\ p \in Pages
      /\ p = Head0 <=> c.order = 0
      /\ p = Head1 <=> c.order = 1
  <2>1. CASE \E s \in Low : c = Chunk(Head0, s, 0)
    BY <2>1, PlacePage, PageTypes
  <2>2. CASE \E s \in High : c = Chunk(Head1, s, 1)
    BY <2>2, PlacePage, PageTypes
  <2>3. CASE \E q \in NewPages \ fresh : \E k \in Orders \ {0, 1} : \E s \in 1..(Slots(k) - 1) :
               c = Chunk(q, s, k) /\ header[q].order = k
    BY <2>3, PlacePage, PageTypes
  <2> QED BY <2>1, <2>2, <2>3, Places
<1>5. g \in PageHeader /\ g.order = header[p].order /\ g.count = header[p].count - 1
  BY <1>2, <1>4, FreedIs
<1>6. c.order = 0 => Page0(g, LiveOf(0) \ {c}, desc, fresh)
  <2> SUFFICES ASSUME c.order = 0 PROVE Page0(g, LiveOf(0) \ {c}, desc, fresh)
    OBVIOUS
  <2>1. c \in LiveOf(0) /\ p = Head0
    BY <1>4 DEF LiveOf
  <2>2. Page0(header[Head0], LiveOf(0), desc, fresh)
    BY DEF Heap
  <2> QED BY <2>1, <2>2, Free0
<1>7. c.order = 1 => Page1(g, LiveOf(1) \ {c})
  <2> SUFFICES ASSUME c.order = 1 PROVE Page1(g, LiveOf(1) \ {c})
    OBVIOUS
  <2>1. c \in LiveOf(1) /\ p = Head1
    BY <1>4 DEF LiveOf
  <2>2. Page1(header[Head1], LiveOf(1))
    BY DEF Heap
  <2> QED BY <2>1, <2>2, Free1
<1> HIDE DEF g
<1>8. /\ header' \in [Pages -> PageHeader] /\ header'[p] = g
      /\ \A q \in Pages : q # p => header'[q] = header[q]
      /\ \A q \in Pages : header'[q].order = header[q].order
  BY <1>1, <1>2, <1>4, <1>5
<1> HIDE DEF p
<1>9. Page0(header'[Head0], LiveOf(0)', desc', fresh')
  <2>1. CASE c.order = 0
    BY <1>2, <1>3, <1>4, <1>6, <1>8, <2>1
  <2>2. CASE c.order # 0
    BY <1>2, <1>3, <1>4, <1>8, <2>2, PageTypes DEF Heap
  <2> QED BY <2>1, <2>2
<1>10. Page1(header'[Head1], LiveOf(1)')
  <2>1. CASE c.order = 1
    BY <1>2, <1>3, <1>4, <1>7, <1>8, <2>1
  <2>2. CASE c.order # 1
    BY <1>2, <1>3, <1>4, <1>8, <2>2, PageTypes DEF Heap
  <2> QED BY <2>1, <2>2
<1>11. PagesN(header', live', fresh')
  <2>1. \A x \in live' : x \in live
    BY <1>1
  <2>2. \A q \in NewPages : header'[q].order = header[q].order
    BY <1>8, PageTypes
  <2> QED BY <2>1, <2>2, <1>2 DEF Heap, PagesN
<1>12. Counted'
  <2> SUFFICES ASSUME NEW q \in Pages
               PROVE header'[q].count = Cardinality(OnPage(live', q)) + DescriptorsFrom(q)'
    BY DEF Counted
  <2>1. header[q].count = Cardinality(OnPage(live, q)) + DescriptorsFrom(q)
    BY DEF Heap, Counted
  <2>2. DescriptorsFrom(q)' = DescriptorsFrom(q)
    BY <1>2 DEF DescriptorsFrom
  <2>3. /\ Cardinality(OnPage(live, q)) \in Nat
        /\ Cardinality(OnPage(live', q)) = Cardinality(OnPage(live, q)) - (IF p = q THEN 1 ELSE 0)
    BY <1>1, DropCount DEF Heap, p
  <2>4. header'[q].count = header[q].count - (IF p = q THEN 1 ELSE 0)
    <3>1. header[q].count \in Int
      BY <1>2 DEF PageHeader
    <3> QED BY <1>5, <1>8, <3>1
  <2>5. DescriptorsFrom(q) \in Int
    <3>1. IsFiniteSet(NewPages \ fresh)
      BY PageAssumption, FS_Difference
    <3>2. Cardinality(NewPages \ fresh) \in Nat
      BY <3>1, FS_CardinalityType
    <3> QED BY <3>2, Widths DEF DescriptorsFrom
  <2> QED BY <2>1, <2>2, <2>3, <2>4, <2>5
<1>13. \A l \in {0, 1} : Cardinality(LiveOf(l)') <= MaxLive[l]
  <2> SUFFICES ASSUME NEW l \in {0, 1} PROVE Cardinality(LiveOf(l)') <= MaxLive[l]
    OBVIOUS
  <2>1. LiveOf(l) \subseteq live /\ IsFiniteSet(live)
    BY DEF LiveOf, Heap
  <2>2. LiveOf(l)' \subseteq LiveOf(l) /\ IsFiniteSet(LiveOf(l))
    BY <1>3, <2>1, FS_Subset
  <2>3. Cardinality(LiveOf(l)') <= Cardinality(LiveOf(l)) /\ IsFiniteSet(LiveOf(l)')
    BY <2>2, FS_Subset
  <2>4. Cardinality(LiveOf(l)') \in Nat /\ Cardinality(LiveOf(l)) \in Nat /\ MaxLive[l] \in Nat
    BY <2>2, <2>3, FS_CardinalityType, PageAssumption, PageTypes
  <2> QED BY <2>3, <2>4 DEF Heap
<1>14. IsFiniteSet(live')
  BY <1>1, FS_Subset DEF Heap
<1>15. HeadsAre(Head0, Head1)'
  BY <1>2 DEF Heap, HeadsAre, Head0, Head1
<1>16. desc' \subseteq Nat /\ clobbered' \subseteq 0..(Head0 - 1) /\ fresh' \subseteq NewPages
  BY <1>2 DEF Heap
<1>17. Heap'
  BY <1>8, <1>9, <1>10, <1>11, <1>12, <1>13, <1>14, <1>15, <1>16 DEF Heap
<1> QED BY <1>3, <1>17

(***************************************************************************)
(* A new page.                                                             *)
(***************************************************************************)

\* malloc_allocate_descriptor() takes the page in front of the list.
LEMMA MostUsedHead ==
  ASSUME Heap, NEW p \in InitSpace, MostUsed(p)
  PROVE  p = Head0
<1>1. PICK j \in DOMAIN lists[0] :
        /\ p = lists[0][j]
        /\ \A l \in DOMAIN lists[0] :
             /\ header[lists[0][l]].count <= header[p].count
             /\ l < j => header[lists[0][l]].count < header[p].count
  BY DEF MostUsed
<1>2. 1 \in DOMAIN lists[0] /\ lists[0][1] = Head0 /\ j \in Nat /\ j >= 1
  BY ListHeads, PageTypes
<1>3. j # 1 => header[Head0].count < header[p].count
  BY <1>1, <1>2
<1>4. p # Head0 => header[p].count <= header[Head0].count
  <2>1. /\ header[Head0].count \in IntBits..((2 * IntBits) - 3)
        /\ p # Head0 => header[p].count <= IntBits
        /\ header[p].count \in 0..Units
    BY CountBounds DEF Pages
  <2> QED BY <2>1, Widths
<1>5. header[p].count \in Int /\ header[Head0].count \in Int
  BY CountBounds, PageTypes DEF Pages
<1> QED BY <1>1, <1>2, <1>3, <1>4, <1>5

\* The header of a new page, whatever its frame held.
LEMMA NewHeader ==
  ASSUME Regime, NEW h \in PageHeader, NEW k \in Orders \ {0, 1}, NEW left \in Leftovers
  PROVE  LET hq == Prepared([h EXCEPT !.bitmap = left], k)
         IN  /\ hq \in PageHeader /\ hq.order = k /\ hq.count = 0
             /\ OpenSlots(hq) # {}
             /\ OpenSlot(hq) \in 1..(Slots(k) - 1)
<1> DEFINE hq == Prepared([h EXCEPT !.bitmap = left], k)
<1>1. hq = [bitmap |-> left \union {0}, order |-> k, count |-> 0]
  <2>1. [h EXCEPT !.bitmap = left].bitmap = left
    BY DEF PageHeader
  <2>2. Reserved(k) = 0..0
    BY DEF Reserved
  <2>3. 0..0 = {0}
    OBVIOUS
  <2> QED BY <2>1, <2>2, <2>3 DEF Prepared
<1>2. Prepared([bitmap |-> left, order |-> 0, count |-> 0], k) = hq
  <2>1. Reserved(k) = 0..0
    BY DEF Reserved
  <2>2. 0..0 = {0}
    OBVIOUS
  <2> QED BY <1>1, <2>1, <2>2 DEF Prepared
<1>3. OpenSlots(hq) # {}
  BY <1>2 DEF Regime
<1>4. hq \in PageHeader
  <2>1. left \subseteq 0..(Units - 1) /\ 0 \in 0..(Units - 1)
    BY PageAssumption, Widths
  <2> QED BY <1>1, <2>1 DEF PageHeader
<1> HIDE DEF hq
<1>5. OpenSlot(hq) \in 0..(Slots(k) - 1) /\ Mask(OpenSlot(hq)) \intersect hq.bitmap = {}
  BY <1>1, <1>3, <1>4, OpenSlotIs
<1>6. Mask(0) = {0}
  BY Masks, Widths
<1>7. OpenSlot(hq) # 0
  BY <1>1, <1>5, <1>6
<1>8. OpenSlot(hq) \in 1..(Slots(k) - 1)
  BY <1>5, <1>7, SlotsFit
<1> QED BY <1>1, <1>3, <1>4, <1>8 DEF hq

LEMMA PrepareHeap ==
  ASSUME Heap, Regime, pending \in Orders \ {0, 1}, KmallocPrepare
  PROVE  Heap' /\ \A l \in {0, 1} : LiveOf(l)' = LiveOf(l)
<1>1. PICK p \in InitSpace, q \in fresh, left \in Leftovers :
        /\ MostUsed(p)
        /\ LET hq == Prepared([header[q] EXCEPT !.bitmap = left], pending)
           IN  /\ header' = [header EXCEPT ![p] = Taken(@), ![q] = Taken(hq)]
               /\ live' = live \union {Chunk(q, OpenSlot(hq), pending)}
        /\ desc' = desc \union {ChunkAddress(p, OpenSlot(header[p]), 0)}
        /\ fresh' = fresh \ {q}
  BY DEF KmallocPrepare
<1>2. p = Head0 /\ q \in NewPages /\ q \in Pages /\ q # Head0 /\ q # Head1
      /\ header[q] \in PageHeader /\ header[Head0] \in PageHeader
      /\ header \in [Pages -> PageHeader]
      /\ lists' = lists /\ clobbered' = clobbered
  BY <1>1, MostUsedHead, PageTypes DEF Heap, KmallocPrepare
<1> DEFINE hq == Prepared([header[q] EXCEPT !.bitmap = left], pending)
           s == OpenSlot(hq)
           c == Chunk(q, s, pending)
<1>3. /\ hq \in PageHeader /\ hq.order = pending /\ hq.count = 0
      /\ OpenSlots(hq) # {} /\ s \in 1..(Slots(pending) - 1)
  BY <1>1, <1>2, NewHeader
<1>4. /\ Taken(hq) \in PageHeader /\ Taken(hq).order = pending /\ Taken(hq).count = 1
  BY <1>3, TakenIs
<1>5. header' = [[header EXCEPT ![Head0] = Taken(header[Head0])] EXCEPT ![q] = Taken(hq)]
      /\ live' = live \union {c}
  BY <1>1, <1>2
<1>6. PageOf(c.address) = q /\ c.order = pending
  BY <1>1, <1>2, <1>3, PlacePage
<1> HIDE DEF hq, s
<1>7. Cardinality(LiveOf(0)) + Cardinality(NewPages \ fresh) < IntBits - 3
  BY <1>1, WithinRegime
<1>8. Page0(Taken(header[Head0]), LiveOf(0), desc', fresh')
  <2>1. Page0(header[Head0], LiveOf(0), desc, fresh)
    BY DEF Heap
  <2> QED BY <1>1, <1>2, <1>7, <2>1, Describe0
<1>9. /\ Taken(header[Head0]) \in PageHeader
      /\ Taken(header[Head0]).count = header[Head0].count + 1
      /\ ChunkAddress(Head0, OpenSlot(header[Head0]), 0) \in Nat
  <2>1. Page0(header[Head0], LiveOf(0), desc, fresh)
    BY DEF Heap
  <2>2. OpenSlots(header[Head0]) # {} /\ OpenSlot(header[Head0]) \in Low
    BY <1>7, <2>1, HasOpen0
  <2>3. ChunkAddress(Head0, OpenSlot(header[Head0]), 0) = (Head0 * Units) + OpenSlot(header[Head0])
        /\ OpenSlot(header[Head0]) \in Nat
    BY <2>2, LowAddress, Widths DEF Low
  <2> QED BY <1>2, <2>2, <2>3, TakenIs, Widths
<1>10. /\ header' \in [Pages -> PageHeader]
       /\ header'[Head0] = Taken(header[Head0]) /\ header'[q] = Taken(hq)
       /\ \A r \in Pages : r # q /\ r # Head0 => header'[r] = header[r]
  BY <1>2, <1>4, <1>5, <1>9, PageTypes
<1>11. \A l \in {0, 1} : LiveOf(l)' = LiveOf(l)
  BY <1>5, <1>6 DEF LiveOf
<1>12. OnPage(live, q) = {} /\ c \notin live
  <2>1. OnPage(live, q) = {}
    BY <1>1, OnPages
  <2> QED BY <1>6, <2>1 DEF OnPage
<1>13. PagesN(header', live', fresh')
  <2>1. ASSUME NEW x \in live', x.order \notin {0, 1}
        PROVE  \E r \in NewPages \ fresh' : \E l \in Orders \ {0, 1} : \E t \in 1..(Slots(l) - 1) :
                 x = Chunk(r, t, l) /\ header'[r].order = l
    <3>1. CASE x = c
      <4>1. q \in NewPages \ fresh' /\ header'[q].order = pending
        BY <1>1, <1>2, <1>4, <1>10
      <4> QED BY <3>1, <4>1, <1>3
    <3>2. CASE x # c
      <4>1. x \in live
        BY <1>5, <3>2
      <4>2. PICK r \in NewPages \ fresh : \E l \in Orders \ {0, 1} : \E t \in 1..(Slots(l) - 1) :
              x = Chunk(r, t, l) /\ header[r].order = l
        BY <2>1, <4>1 DEF Heap, PagesN
      <4>3. r # q /\ r # Head0 /\ r \in Pages /\ r \in NewPages \ fresh'
        BY <1>1, <4>2, PageTypes
      <4>4. header'[r] = header[r]
        BY <1>10, <4>3
      <4> QED BY <4>2, <4>3, <4>4
    <3> QED BY <3>1, <3>2
  <2>2. ASSUME NEW x \in live', NEW y \in live', x.order \notin {0, 1},
               PageOf(x.address) = PageOf(y.address)
        PROVE  x = y
    <3>1. \A z \in live : PageOf(z.address) # q
      BY <1>12 DEF OnPage
    <3>2. (x = c /\ y = c) \/ (x \in live /\ y \in live)
      BY <2>2, <3>1, <1>5, <1>6
    <3> QED BY <2>2, <3>2 DEF Heap, PagesN
  <2> QED BY <2>1, <2>2 DEF PagesN
<1>14. Cardinality(NewPages \ fresh') = Cardinality(NewPages \ fresh) + 1
       /\ Cardinality(NewPages \ fresh) \in Nat
  <2>1. IsFiniteSet(NewPages \ fresh)
    BY PageAssumption, FS_Difference
  <2>2. NewPages \ fresh' = (NewPages \ fresh) \union {q} /\ q \notin NewPages \ fresh
    BY <1>1, <1>2
  <2> QED BY <2>1, <2>2, FS_AddElement, FS_CardinalityType
<1>15. Counted'
  <2> SUFFICES ASSUME NEW r \in Pages
               PROVE header'[r].count = Cardinality(OnPage(live', r)) + DescriptorsFrom(r)'
    BY DEF Counted
  <2>1. header[r].count = Cardinality(OnPage(live, r)) + DescriptorsFrom(r)
    BY DEF Heap, Counted
  <2>2. /\ Cardinality(OnPage(live, r)) \in Nat
        /\ Cardinality(OnPage(live', r)) = Cardinality(OnPage(live, r)) + (IF r = q THEN 1 ELSE 0)
    BY <1>5, <1>6, <1>12, AddCount DEF Heap
  <2>3. CASE r = Head0
    <3>1. DescriptorsFrom(r) = IntBits + Cardinality(NewPages \ fresh)
          /\ DescriptorsFrom(r)' = IntBits + Cardinality(NewPages \ fresh')
      BY <2>3, PageTypes, Widths DEF DescriptorsFrom
    <3> QED BY <1>2, <1>9, <1>10, <1>14, <2>1, <2>2, <2>3, <3>1, Widths
  <2>4. CASE r = q
    <3>1. DescriptorsFrom(r)' = 0
      BY <1>2, <2>4, PageTypes DEF DescriptorsFrom
    <3>2. Cardinality(OnPage(live, r)) = 0
      BY <1>12, <2>4, FS_EmptySet
    <3> QED BY <1>4, <1>10, <2>2, <2>4, <3>1, <3>2
  <2>5. CASE r # q /\ r # Head0
    <3>1. DescriptorsFrom(r)' = DescriptorsFrom(r)
      BY <2>5 DEF DescriptorsFrom
    <3> QED BY <1>10, <2>1, <2>2, <2>5, <3>1
  <2> QED BY <2>3, <2>4, <2>5
<1>16. /\ HeadsAre(Head0, Head1)' /\ IsFiniteSet(live')
       /\ desc' \subseteq Nat /\ clobbered' \subseteq 0..(Head0 - 1) /\ fresh' \subseteq NewPages
       /\ \A l \in {0, 1} : Cardinality(LiveOf(l)') <= MaxLive[l]
  <2>1. HeadsAre(Head0, Head1)'
    BY <1>2 DEF Heap, HeadsAre, Head0, Head1
  <2>2. IsFiniteSet(live')
    BY <1>5, FS_AddElement DEF Heap
  <2>3. desc' \subseteq Nat
    BY <1>1, <1>2, <1>9 DEF Heap
  <2> QED BY <1>1, <1>2, <1>11, <2>1, <2>2, <2>3 DEF Heap
<1>17. Page0(header'[Head0], LiveOf(0)', desc', fresh') /\ Page1(header'[Head1], LiveOf(1)')
  <2>1. header'[Head1] = header[Head1]
    BY <1>2, <1>10, PageTypes
  <2>2. Page1(header[Head1], LiveOf(1))
    BY DEF Heap
  <2>3. LiveOf(0)' = LiveOf(0) /\ LiveOf(1)' = LiveOf(1)
    BY <1>11
  <2> QED BY <1>8, <1>10, <2>1, <2>2, <2>3
<1>18. Heap'
  BY <1>10, <1>13, <1>15, <1>16, <1>17 DEF Heap
<1> QED BY <1>11, <1>18

(***************************************************************************)
(* The steps of calls.                                                     *)
(***************************************************************************)

LEMMA OrdersOf ==
  /\ OrderOf(BlockWords) = 0 /\ OrderOf(NodeWords) = 1
  /\ \A words \in Requests : OrderOf(words) \in Orders
<1>1. OrderOf(BlockWords) = 0
  BY DEF OrderOf, BlockWords
<1>2. OrderOf(NodeWords) = 1
  <2>1. 2^(1+1) <= 4 /\ 4 < 2^(1+2)
    OBVIOUS
  <2>2. ASSUME NEW k \in Orders, 2^(k+1) <= 4, 4 < 2^(k+2)
        PROVE  k = 1
    <3>1. k = 0 => FALSE
      <4>1. k = 0 => 2^(k+2) = 2^(0+2)
        BY Zenon
      <4>2. 2^(0+2) = 4
        OBVIOUS
      <4> QED BY <4>1, <4>2, <2>2
    <3>2. k \in Orders \ {0, 1} => FALSE
      <4>1. k \in Orders \ {0, 1} => 2^k >= 4 /\ 2^(k+1) = 2 * 2^k /\ 2^k \in Nat
        BY Powers
      <4> QED BY <4>1, <2>2
    <3> QED BY <3>1, <3>2
  <2>3. 1 \in Orders
    BY PageTypes
  <2>4. OrderOf(4) = CHOOSE k \in Orders : 2^(k+1) <= 4 /\ 4 < 2^(k+2)
    BY DEF OrderOf
  <2>5. \E k \in Orders : 2^(k+1) <= 4 /\ 4 < 2^(k+2)
    BY <2>1, <2>3, Zenon
  <2>6. OrderOf(4) \in Orders /\ 2^(OrderOf(4)+1) <= 4 /\ 4 < 2^(OrderOf(4)+2)
    BY <2>4, <2>5, Zenon
  <2>7. OrderOf(4) = 1
    BY <2>2, <2>6
  <2> QED BY <2>7 DEF NodeWords
<1>3. ASSUME NEW words \in Requests
      PROVE  OrderOf(words) \in Orders
  <2>1. words \in Nat /\ words <= 2^(MaxOrder+1) /\ MaxOrder \in Nat
    <3>1. 2^(MaxOrder+1) \in Nat
      BY PowerAssumption, PageAssumption
    <3> QED BY <3>1, PageAssumption
  <2>2. CASE words < 4
    BY <2>2, PageTypes DEF OrderOf
  <2>3. CASE ~(words < 4)
    <3> DEFINE T == {k \in Orders : words < 2^(k+2)}
    <3>1. MaxOrder \in T
      <4>1. 2^(MaxOrder+1) \in Nat \ {0} /\ 2^((MaxOrder+1)+1) = 2 * 2^(MaxOrder+1)
        BY PowerAssumption, PageAssumption
      <4>2. (MaxOrder+1)+1 = MaxOrder+2
        BY <2>1
      <4> QED BY <2>1, <4>1, <4>2 DEF Orders
    <3>2. PICK m \in T : \A k \in T : m <= k
      <4>1. T \in SUBSET Nat
        BY DEF Orders
      <4> QED BY <3>1, <4>1, LeastElement
    <3>3. m \in Nat /\ m \in Orders /\ words < 2^(m+2)
      BY <3>2 DEF Orders
    <3>4. 2^(m+1) <= words
      <4>1. CASE m = 0
        <5>1. m = 0 => 2^(m+1) = 2^(0+1)
          BY Zenon
        <5>2. 2^(0+1) = 2
          OBVIOUS
        <5> QED BY <4>1, <5>1, <5>2, <2>1, <2>3
      <4>2. CASE m # 0
        <5>1. m - 1 \in Orders /\ m - 1 \notin T
          <6>1. m - 1 \in Orders /\ ~(m <= m - 1)
            BY <2>1, <3>3, <4>2 DEF Orders
          <6> HIDE DEF T
          <6> QED BY <3>2, <6>1
        <5>2. (m - 1) + 2 = m + 1
          BY <3>3
        <5>3. 2^(m+1) \in Nat
          BY <3>3, PowerAssumption, PageAssumption DEF Orders
        <5> QED BY <5>1, <5>2, <5>3, <2>1
      <4> QED BY <4>1, <4>2
    <3>5. OrderOf(words) = CHOOSE k \in Orders : 2^(k+1) <= words /\ words < 2^(k+2)
      BY <2>3 DEF OrderOf
    <3>6. \E k \in Orders : 2^(k+1) <= words /\ words < 2^(k+2)
      BY <3>3, <3>4, Zenon
    <3> QED BY <3>5, <3>6, Zenon
  <2> QED BY <2>2, <2>3
<1> QED BY <1>1, <1>2, <1>3

\* The invariant of calls is inductive.
LEMMA CallStep ==
  ASSUME Heap, Control, Regime,
         \/ \E words \in Requests : Kmalloc(words) \/ KmallocNull(words) \/ KmallocPage(words)
         \/ \E c \in live : Kfree(c)
         \/ PageStep
         \/ KmallocStops
         \/ Stopped
         \/ UNCHANGED vars
  PROVE  Heap' /\ Control'
<1>1. ASSUME NEW words \in Requests, Kmalloc(words) PROVE Heap' /\ Control'
  <2>1. Heap'
    BY <1>1, OrdersOf, TakeHeap DEF Kmalloc, init_vars, page_vars
  <2>2. Control'
    BY <1>1 DEF Control, Kmalloc, page_vars
  <2> QED BY <2>1, <2>2
<1>2. ASSUME UNCHANGED vars PROVE Heap' /\ Control'
  BY <1>2 DEF vars, Heap, Control, HeadsAre, Head0, Head1, LiveOf, Counted, DescriptorsFrom, MayHold
<1>3. ASSUME NEW words \in Requests, KmallocPage(words) PROVE Heap' /\ Control'
  <2>1. UNCHANGED <<header, lists, live, desc, clobbered, fresh>>
    BY <1>3 DEF KmallocPage, init_vars
  <2>2. Heap'
    BY <2>1 DEF Heap, HeadsAre, Head0, Head1, LiveOf, Counted, DescriptorsFrom
  <2>3. OrderOf(words) \in Orders \ {0, 1}
    BY <1>3, OrdersOf, ListHeads DEF KmallocPage
  <2>4. MayHold(1)'
    BY <1>3, <2>1, OrdersOf DEF KmallocPage, MayHold, LiveOf
  <2>5. Control'
    BY <1>3, <2>3, <2>4 DEF Control, KmallocPage
  <2> QED BY <2>2, <2>5
<1>4. ASSUME NEW c \in live, Kfree(c) PROVE Heap' /\ Control'
  <2>1. Heap'
    BY <1>4, FreeHeap DEF Kfree, init_vars, page_vars
  <2>2. Control'
    BY <1>4 DEF Control, Kfree, page_vars
  <2> QED BY <2>1, <2>2
<1>5. ASSUME AllocateKern PROVE Heap' /\ Control'
  <2>1. Heap'
    BY <1>5, OrdersOf, PageTypes, TakeHeap DEF AllocateKern, init_vars, Control
  <2>2. Control'
    BY <1>5 DEF Control, AllocateKern
  <2> QED BY <2>1, <2>2
<1>6. ASSUME FaultSplit PROVE Heap' /\ Control'
  <2>1. Heap'
    BY <1>6, OrdersOf, PageTypes, TakeHeap DEF FaultSplit, init_vars, page_vars
  <2>2. Control'
    BY <1>6 DEF Control, FaultSplit, page_vars
  <2> QED BY <2>1, <2>2
<1>7. ASSUME NEW c \in live, FaultTake(c) PROVE Heap' /\ Control'
  <2>1. Heap'
    BY <1>7, FreeHeap DEF FaultTake, init_vars
  <2>2. Control'
    BY <1>7, PageAssumption DEF Control, FaultTake
  <2> QED BY <2>1, <2>2
<1>8. ASSUME KmallocPrepare PROVE Heap' /\ Control'
  <2>1. Heap'
    BY <1>8, PrepareHeap DEF KmallocPrepare, Control
  <2>2. Control'
    BY <1>8 DEF Control, KmallocPrepare
  <2> QED BY <2>1, <2>2
<1>9. ASSUME KmallocStops PROVE Heap' /\ Control'
  <2>1. UNCHANGED <<header, lists, live, desc, clobbered, fresh>>
    BY <1>9 DEF KmallocStops, init_vars, page_vars
  <2>2. Heap'
    BY <2>1 DEF Heap, HeadsAre, Head0, Head1, LiveOf, Counted, DescriptorsFrom
  <2>3. Control'
    BY <1>9 DEF Control, KmallocStops, page_vars
  <2> QED BY <2>2, <2>3
<1> QED BY <1>1, <1>2, <1>3, <1>4, <1>5, <1>6, <1>7, <1>8, <1>9 DEF PageStep, KmallocNull, Stopped

(***************************************************************************)
(* malloc_init().                                                          *)
(***************************************************************************)

\* The bitmap of a page of order 0 of which n chunks have been given: past the
\* first half-word the bits go on in the second word.
Filled(n) == IF n < IntBits - 3 THEN 0..(n + 2) ELSE 0..(WordBits + (n - IntBits) + 2)

FilledHeader(n) == [bitmap |-> Filled(n), order |-> 0, count |-> n]
EmptyHeader(k)  == [bitmap |-> Reserved(k), order |-> k, count |-> 0]
Blank           == [bitmap |-> {}, order |-> 0, count |-> 0]

FilledSlot(n) == IF n < IntBits - 3 THEN n + 3 ELSE WordBits + (n - IntBits) + 3

LEMMA FilledNext ==
  ASSUME NEW n \in 0..(IntBits - 1)
  PROVE  /\ OpenSlot(FilledHeader(n)) = FilledSlot(n)
         /\ Taken(FilledHeader(n)) = FilledHeader(n + 1)
         /\ FilledHeader(n) \in PageHeader /\ FilledHeader(n + 1) \in PageHeader
<1> DEFINE h == FilledHeader(n)
           m == FilledSlot(n)
<1>1. FilledHeader(n) \in PageHeader /\ FilledHeader(n + 1) \in PageHeader
  <2>1. Filled(n) \subseteq 0..(Units - 1) /\ Filled(n + 1) \subseteq 0..(Units - 1)
    BY Widths DEF Filled
  <2> QED BY <2>1, PageTypes DEF FilledHeader, PageHeader
<1>2. m \in 0..(Slots(0) - 1) /\ m \in Nat
  BY Widths, SlotsFit DEF FilledSlot
<1>3. Mask(m) = IF n = IntBits - 4 THEN (IntBits - 1)..(WordBits - 1) ELSE {m}
  <2>1. CASE n < IntBits - 4
    <3>1. m \in 0..(IntBits - 2) /\ n # IntBits - 4
      BY <2>1, Widths DEF FilledSlot
    <3>2. Mask(m) = {m}
      BY <3>1, Masks
    <3> QED BY <3>1, <3>2
  <2>2. CASE n = IntBits - 4
    <3>1. m = IntBits - 1
      BY <2>2, Widths DEF FilledSlot
    <3> QED BY <2>2, <3>1, Masks
  <2>3. CASE n > IntBits - 4
    <3>1. PICK t \in 0..(IntBits - 2) : m = WordBits + t /\ t = (n - IntBits) + 3
      BY <2>3, Widths DEF FilledSlot
    <3>2. Mask(WordBits + t) = {WordBits + t}
      BY Masks
    <3>3. n # IntBits - 4
      BY <2>3, Widths
    <3> QED BY <3>1, <3>2, <3>3
  <2> QED BY <2>1, <2>2, <2>3, Widths
<1>4. Mask(m) \intersect Filled(n) = {} /\ Filled(n) \union Mask(m) = Filled(n + 1)
  <2>1. CASE n < IntBits - 4
    BY <2>1, <1>3, Widths DEF FilledSlot, Filled
  <2>2. CASE n = IntBits - 4
    BY <2>2, <1>3, Widths DEF FilledSlot, Filled
  <2>3. CASE n > IntBits - 4
    BY <2>3, <1>3, Widths DEF FilledSlot, Filled
  <2> QED BY <2>1, <2>2, <2>3, Widths
<1>5. ASSUME NEW s \in 0..(Slots(0) - 1), s < m
      PROVE  Mask(s) \intersect Filled(n) # {}
  <2>1. CASE s \in 0..(IntBits - 1)
    <3>1. s \in Mask(s)
      BY <2>1, Masks, Widths
    <3>2. s \in Filled(n)
      BY <1>5, <2>1, Widths DEF FilledSlot, Filled
    <3> QED BY <3>1, <3>2
  <2>2. CASE s \in IntBits..(WordBits - 1)
    <3>1. Mask(s) = Mask(s - IntBits) /\ s - IntBits \in 0..(IntBits - 1)
      BY <2>2, Masks, Widths
    <3>2. s - IntBits \in Mask(s - IntBits)
      BY <3>1, Masks, Widths
    <3>3. s - IntBits \in Filled(n)
      BY <1>5, <2>2, Widths DEF FilledSlot, Filled
    <3> QED BY <3>1, <3>2, <3>3
  <2>3. CASE s >= WordBits
    <3>1. PICK t \in 0..(IntBits - 2) : s = WordBits + t
      <4>1. s - WordBits \in 0..(IntBits - 2) /\ s = WordBits + (s - WordBits)
        BY <1>5, <2>3, Widths DEF FilledSlot
      <4> QED BY <4>1
    <3>2. Mask(s) = {s}
      BY <3>1, Masks
    <3>3. s \in Filled(n)
      BY <1>5, <2>3, Widths DEF FilledSlot, Filled
    <3> QED BY <3>2, <3>3
  <2> QED BY <2>1, <2>2, <2>3, SlotsFit, Widths
<1>6. h.bitmap = Filled(n) /\ h.order = 0 /\ h.count = n
  BY DEF FilledHeader
<1>7. m \in OpenSlots(h)
  BY <1>2, <1>4, <1>6 DEF OpenSlots
<1>8. \A s \in OpenSlots(h) : s \in Nat /\ m <= s
  BY <1>2, <1>5, <1>6, SlotsFit, Widths DEF OpenSlots
<1>9. OpenSlot(h) = m
  <2>1. Min(OpenSlots(h)) = m
    BY <1>7, <1>8, MinIs
  <2> QED BY <1>7, <2>1 DEF OpenSlot
<1>10. Taken(h) = [bitmap |-> h.bitmap \union Mask(m), order |-> 0, count |-> h.count + 1]
  BY <1>1, <1>6, <1>7, <1>9, TakenIs
<1>11. Taken(h) = FilledHeader(n + 1)
  BY <1>4, <1>6, <1>10 DEF FilledHeader
<1> QED BY <1>1, <1>9, <1>11

\* Where a descriptor is written: those of page 0 go into pages below the ones
\* that chunks come from, those of the emergency pages to no page's header.
LEMMA DirectPlaces ==
  ASSUME NEW m \in 3..(WordBits + 2)
  PROVE  /\ 3 * Scale * m \in 0..((Head0 * Units) - 1)
         /\ \A p \in InitSpace : p * Units = (0 * Units) + (3 * Scale * m) => p \in 0..(Head0 - 1)
         /\ \A p \in InitSpace : p * Units # (Head0 * Units) + (3 * Scale * m)
<1>1. m \in Nat /\ Scale \in Nat /\ Scale >= 2 /\ m <= (4 * Scale) + 2 /\ m >= 3
  BY Widths
<1>2. Head0 * Units - (3 * Scale * m) = Scale * ((16 * Head0) - (3 * m))
  BY <1>1, Widths
<1>3. (16 * Head0) - (3 * m) >= 1
  BY <1>1, Widths
<1>4. \A a, b \in Int : b >= 2 /\ a >= 1 => b * a >= 1
  OBVIOUS
<1>5. 3 * Scale * m \in 0..((Head0 * Units) - 1)
  <2>1. Scale * ((16 * Head0) - (3 * m)) >= 1
    BY <1>1, <1>3, <1>4, Widths
  <2>2. 3 * Scale * m \in Nat /\ Head0 * Units \in Nat
    BY <1>1, Widths
  <2> QED BY <1>2, <2>1, <2>2
<1>6. \A a, b \in Int : b >= 2 /\ b * a = 0 => a = 0
  OBVIOUS
<1>7. ASSUME NEW p \in InitSpace, p * Units = (0 * Units) + (3 * Scale * m)
      PROVE  p \in 0..(Head0 - 1)
  <2>1. p \in Nat
    BY Widths DEF InitSpace
  <2>2. p * Units - (3 * Scale * m) = Scale * ((16 * p) - (3 * m))
    BY <2>1, <1>1, Widths
  <2>3. p * Units - (3 * Scale * m) = 0
    BY <1>7, <2>1, <1>1, Widths
  <2>4. (16 * p) - (3 * m) = 0
    BY <2>1, <2>2, <2>3, <1>1, <1>6
  <2> QED BY <2>1, <2>4, <1>1, Widths
<1>8. ASSUME NEW p \in InitSpace, p * Units = (Head0 * Units) + (3 * Scale * m)
      PROVE  FALSE
  <2>1. p \in Nat /\ p <= Head0 + 1
    BY Widths DEF InitSpace
  <2>2. p * Units - (Head0 * Units) - (3 * Scale * m) = Scale * ((16 * (p - Head0)) - (3 * m))
    BY <2>1, <1>1, Widths
  <2>3. p * Units - (Head0 * Units) - (3 * Scale * m) = 0
    BY <1>8, <2>1, <1>1, Widths
  <2>4. (16 * (p - Head0)) - (3 * m) = 0
    BY <2>1, <2>2, <2>3, <1>1, <1>6, Widths
  <2>5. p - Head0 <= 1 /\ p - Head0 \in Int
    BY <2>1, Widths
  <2> QED BY <2>4, <2>5, <1>1
<1> QED BY <1>5, <1>7, <1>8

\* Between the steps of malloc_init(): page 0 gives the descriptors of the
\* listed pages, the page in front of the list those of the emergency pages.
Quiet == live = {} /\ pending = 0 /\ frames = 0 /\ fresh = NewPages

Low0 == desc \subseteq 0..((Head0 * Units) - 1) /\ clobbered \subseteq 0..(Head0 - 1)

Pairs ==
  /\ i \in 2..InitPages /\ i % 2 = 0
  /\ header[0] = FilledHeader(i)
  /\ \A p \in Pages : p >= i => header[p] = Blank
  /\ \A p \in Pages \ {0} : header[p].count = 0
  /\ i > 2 => header[i - 2] = EmptyHeader(0) /\ header[i - 1] = EmptyHeader(1)
  /\ HeadsAre(i - 2, i - 1)

Emergency ==
  /\ i \in 0..EmergPages
  /\ header[Head0] = FilledHeader(i) /\ header[Head1] = EmptyHeader(1)
  /\ header[0].count = IntBits
  /\ \A p \in Pages \ {0, Head0} : header[p].count = 0
  /\ HeadsAre(Head0, Head1)

Booting ==
  /\ phase \in InitPhases
  /\ Quiet /\ Low0
  /\ header \in [Pages -> PageHeader]
  /\ lists \in [Orders -> Seq(InitSpace)]
  /\ phase = "first" => /\ \A p \in Pages : header[p] = Blank
                        /\ \A k \in Orders : lists[k] = <<>>
  /\ phase = "pairs" => Pairs
  /\ phase = "emerg" => Emergency

LEMMA BootStart == Init => Booting
<1> SUFFICES ASSUME Init PROVE Booting
  OBVIOUS
<1>1. Blank \in PageHeader
  BY PageTypes DEF Blank, PageHeader
<1>2. header = [p \in Pages |-> Blank]
  BY DEF Init, Blank
<1>3. <<>> \in Seq(InitSpace)
  OBVIOUS
<1>4. lists \in [Orders -> Seq(InitSpace)] /\ \A k \in Orders : lists[k] = <<>>
  BY <1>3 DEF Init
<1> QED BY <1>1, <1>2, <1>4 DEF Init, Booting, Quiet, Low0, InitPhases

\* The headers that malloc_prepare_pghdr() makes of cleared pages.
LEMMA CleanHeaders ==
  /\ Prepared(Blank, 0) = FilledHeader(0) /\ Prepared(Blank, 0) = EmptyHeader(0)
  /\ Prepared(Blank, 1) = EmptyHeader(1)
  /\ EmptyHeader(0) \in PageHeader /\ EmptyHeader(1) \in PageHeader
<1>1. Reserved(0) = 0..2 /\ Reserved(1) = 0..1
  BY DEF Reserved
<1>2. Filled(0) = 0..2
  BY Widths DEF Filled
<1>3. EmptyHeader(0) \in PageHeader /\ EmptyHeader(1) \in PageHeader
  BY <1>1, PageTypes, Widths DEF EmptyHeader, PageHeader
<1> QED BY <1>1, <1>2, <1>3 DEF Prepared, Blank, FilledHeader, EmptyHeader

\* The descriptors of two pages, from page 0.
LEMMA TwoDescriptors ==
  ASSUME NEW n \in 0..(IntBits - 2), NEW h, h = FilledHeader(n), Low0,
         LET D == {DirectAddress(0, h), DirectAddress(0, Taken(h))}
         IN  desc' = desc \union D /\ Write(D)
  PROVE  Low0' /\ Taken(Taken(h)) = FilledHeader(n + 2) /\ FilledHeader(n + 2) \in PageHeader
<1>1. Taken(h) = FilledHeader(n + 1) /\ OpenSlot(h) = FilledSlot(n)
  BY FilledNext, Widths
<1>2. n + 1 \in 0..(IntBits - 1) /\ (n + 1) + 1 = n + 2
  BY Widths
<1>3. /\ Taken(Taken(h)) = FilledHeader(n + 2) /\ OpenSlot(Taken(h)) = FilledSlot(n + 1)
      /\ FilledHeader(n + 2) \in PageHeader
  BY <1>1, <1>2, FilledNext
<1>4. FilledSlot(n) \in 3..(WordBits + 2) /\ FilledSlot(n + 1) \in 3..(WordBits + 2)
  BY Widths DEF FilledSlot
<1> DEFINE D == {DirectAddress(0, h), DirectAddress(0, Taken(h))}
<1>5. \A d \in D : \E m \in 3..(WordBits + 2) : d = (0 * Units) + (3 * Scale * m)
  BY <1>1, <1>3, <1>4 DEF DirectAddress
<1>6. \A m \in 3..(WordBits + 2) : (0 * Units) + (3 * Scale * m) = 3 * Scale * m
  BY Widths
<1>7. \A d \in D : /\ d \in 0..((Head0 * Units) - 1)
                   /\ \A p \in InitSpace : p * Units = d => p \in 0..(Head0 - 1)
  BY <1>5, <1>6, DirectPlaces
<1>8. desc' = desc \union D /\ clobbered' = clobbered \union {p \in InitSpace : p * Units \in D}
  BY DEF Write
<1> HIDE DEF D
<1>9. desc' \subseteq 0..((Head0 * Units) - 1) /\ clobbered' \subseteq 0..(Head0 - 1)
  BY <1>7, <1>8 DEF Low0
<1> QED BY <1>3, <1>9 DEF Low0, Head0

LEMMA StepFirst ==
  ASSUME Booting, InitFirst
  PROVE  Booting'
<1>1. /\ phase = "first" /\ \A p \in Pages : header[p] = Blank
      /\ header \in [Pages -> PageHeader] /\ lists \in [Orders -> Seq(InitSpace)]
      /\ Quiet /\ Low0 /\ \A k \in Orders : lists[k] = <<>>
  BY DEF Booting, InitFirst
<1>2. 0 \in Pages /\ 1 \in Pages /\ 0 \in InitSpace /\ 1 \in InitSpace
  BY Widths DEF Pages, InitSpace
<1>3. header[0] = Blank /\ header[1] = Blank
  BY <1>1, <1>2
<1> DEFINE h0 == FilledHeader(0)
<1>4. Low0' /\ Taken(Taken(h0)) = FilledHeader(2) /\ FilledHeader(2) \in PageHeader
  <2>1. LET D == {DirectAddress(0, h0), DirectAddress(0, Taken(h0))}
        IN  desc' = desc \union D /\ Write(D)
    BY <1>3, CleanHeaders DEF InitFirst
  <2>2. 0 \in 0..(IntBits - 2) /\ 0 + 2 = 2
    BY Widths
  <2> HIDE DEF h0
  <2>3. h0 = FilledHeader(0)
    BY DEF h0
  <2>4. Low0' /\ Taken(Taken(h0)) = FilledHeader(0 + 2) /\ FilledHeader(0 + 2) \in PageHeader
    BY <1>1, <2>1, <2>2, <2>3, TwoDescriptors
  <2> QED BY <2>2, <2>4
<1>5. header' = [[header EXCEPT ![0] = FilledHeader(2)] EXCEPT ![1] = EmptyHeader(0)]
  <2>1. [FilledHeader(2) EXCEPT !.count = 2] = FilledHeader(2)
    BY DEF FilledHeader
  <2>2. header' = [[header EXCEPT ![0] = [Taken(Taken(h0)) EXCEPT !.count = 2]] EXCEPT ![1] = Prepared(header[1], 0)]
    BY <1>3, CleanHeaders DEF InitFirst
  <2> QED BY <2>1, <2>2, <1>3, <1>4, CleanHeaders
<1>6. /\ header' \in [Pages -> PageHeader]
      /\ header'[0] = FilledHeader(2) /\ header'[1] = EmptyHeader(0)
      /\ \A p \in Pages : p # 0 /\ p # 1 => header'[p] = header[p]
  BY <1>1, <1>2, <1>4, <1>5, CleanHeaders
<1>7. lists' = [[lists EXCEPT ![0] = <<0>>] EXCEPT ![1] = <<1>>] /\ phase' = "pairs" /\ i' = 2
  BY DEF InitFirst
<1>8. /\ lists' \in [Orders -> Seq(InitSpace)]
      /\ lists'[0] = <<0>> /\ lists'[1] = <<1>>
      /\ \A k \in Orders \ {0, 1} : lists'[k] = <<>>
  <2>1. <<0>> \in Seq(InitSpace) /\ <<1>> \in Seq(InitSpace)
    BY <1>2
  <2> QED BY <1>1, <1>7, <2>1, PageTypes
<1>9. HeadsAre(i - 2, i - 1)'
  <2>1. <<0>> # <<>> /\ <<0>>[1] = 0 /\ <<1>> # <<>> /\ <<1>>[1] = 1 /\ 2 - 2 = 0 /\ 2 - 1 = 1
    OBVIOUS
  <2> QED BY <1>7, <1>8, <2>1 DEF HeadsAre
<1>10. Pairs'
  <2>1. i' \in 2..InitPages /\ i' % 2 = 0
    BY <1>7, Widths
  <2>2. \A p \in Pages : p >= 2 => header'[p] = Blank
    BY <1>1, <1>6
  <2>3. \A p \in Pages \ {0} : header'[p].count = 0
    BY <1>1, <1>6 DEF Blank, EmptyHeader
  <2> QED BY <1>6, <1>7, <1>9, <2>1, <2>2, <2>3 DEF Pairs
<1>11. Quiet'
  BY <1>1 DEF Quiet, InitFirst, page_vars
<1> QED BY <1>4, <1>6, <1>7, <1>8, <1>10, <1>11 DEF Booting, InitPhases

LEMMA StepPair ==
  ASSUME Booting, InitPair
  PROVE  Booting'
<1>1. /\ phase = "pairs" /\ Pairs /\ i < InitPages
      /\ header \in [Pages -> PageHeader] /\ lists \in [Orders -> Seq(InitSpace)]
      /\ Quiet /\ Low0
  BY DEF Booting, InitPair
<1>2. i \in Nat /\ i >= 2 /\ i + 2 <= InitPages /\ (i + 2) % 2 = 0
  <2>1. i \in Nat /\ i % 2 = 0 /\ i < 2 * Scale /\ i >= 2
    BY <1>1, Widths DEF Pairs
  <2> QED BY <2>1, Widths
<1>3. i \in Pages /\ i + 1 \in Pages /\ i \in InitSpace /\ i + 1 \in InitSpace /\ 0 \in Pages
  BY <1>2, Widths DEF Pages, InitSpace
<1>4. header[0] = FilledHeader(i) /\ header[i] = Blank /\ header[i + 1] = Blank
  BY <1>1, <1>2, <1>3 DEF Pairs
<1>5. Low0' /\ Taken(Taken(header[0])) = FilledHeader(i + 2) /\ FilledHeader(i + 2) \in PageHeader
  <2>1. LET D == {DirectAddress(0, header[0]), DirectAddress(0, Taken(header[0]))}
        IN  desc' = desc \union D /\ Write(D)
    BY DEF InitPair
  <2>2. i \in 0..(IntBits - 2)
    BY <1>2, Widths
  <2> QED BY <1>1, <1>4, <2>1, <2>2, TwoDescriptors
<1>6. header' = [[[header EXCEPT ![0] = FilledHeader(i + 2)] EXCEPT ![i] = EmptyHeader(0)]
                   EXCEPT ![i + 1] = EmptyHeader(1)]
  <2>1. header' = [[[header EXCEPT ![0] = Taken(Taken(header[0]))] EXCEPT ![i] = Prepared(header[i], 0)]
                     EXCEPT ![i + 1] = Prepared(header[i + 1], 1)]
    BY <1>2 DEF InitPair
  <2> QED BY <2>1, <1>4, <1>5, CleanHeaders
<1>7. /\ header' \in [Pages -> PageHeader]
      /\ header'[0] = FilledHeader(i + 2) /\ header'[i] = EmptyHeader(0) /\ header'[i + 1] = EmptyHeader(1)
      /\ \A p \in Pages : p # 0 /\ p # i /\ p # i + 1 => header'[p] = header[p]
  BY <1>1, <1>2, <1>3, <1>5, <1>6, CleanHeaders
<1>8. lists' = [[lists EXCEPT ![0] = <<i>> \o lists[0]] EXCEPT ![1] = <<i + 1>> \o lists[1]]
      /\ phase' = "pairs" /\ i' = i + 2
  BY <1>1 DEF InitPair
<1>9. /\ lists' \in [Orders -> Seq(InitSpace)]
      /\ lists'[0] = <<i>> \o lists[0] /\ lists'[1] = <<i + 1>> \o lists[1]
      /\ \A k \in Orders \ {0, 1} : lists'[k] = lists[k]
  <2>1. lists[0] \in Seq(InitSpace) /\ lists[1] \in Seq(InitSpace)
    BY <1>1, PageTypes
  <2>2. <<i>> \o lists[0] \in Seq(InitSpace) /\ <<i + 1>> \o lists[1] \in Seq(InitSpace)
    BY <1>3, <2>1
  <2>3. PICK a \in Seq(InitSpace), b \in Seq(InitSpace) : a = <<i>> \o lists[0] /\ b = <<i + 1>> \o lists[1]
    BY <2>2
  <2>4. lists' = [[lists EXCEPT ![0] = a] EXCEPT ![1] = b]
    BY <1>8, <2>3
  <2>5. /\ lists' \in [Orders -> Seq(InitSpace)] /\ lists'[0] = a /\ lists'[1] = b
        /\ \A k \in Orders \ {0, 1} : lists'[k] = lists[k]
    BY <1>1, <2>4, PageTypes
  <2> QED BY <2>3, <2>5
<1>10. HeadsAre(i - 2, i - 1)'
  <2>1. ASSUME NEW k \in Orders, NEW x
        PROVE  <<x>> \o lists[k] # <<>> /\ (<<x>> \o lists[k])[1] = x
    <3>1. PICK s : s = lists[k] /\ s \in Seq(InitSpace)
      BY <1>1, <2>1
    <3>2. Len(<<x>> \o s) = 1 + Len(s) /\ Len(s) \in Nat /\ (<<x>> \o s)[1] = x
      BY <3>1
    <3>3. <<x>> \o s # <<>>
      BY <3>2
    <3> QED BY <3>1, <3>2, <3>3
  <2>2. i' - 2 = i /\ i' - 1 = i + 1
    BY <1>2, <1>8
  <2>3. \A k \in Orders \ {0, 1} : lists'[k] = <<>>
    BY <1>1, <1>9 DEF Pairs, HeadsAre
  <2> QED BY <1>9, <2>1, <2>2, <2>3, PageTypes DEF HeadsAre
<1>11. Pairs'
  <2>1. i' \in 2..InitPages /\ i' % 2 = 0
    BY <1>2, <1>8, Widths
  <2>2. \A p \in Pages : p >= i + 2 => header'[p] = Blank
    <3> SUFFICES ASSUME NEW p \in Pages, p >= i + 2 PROVE header'[p] = Blank
      OBVIOUS
    <3>1. p \in Nat /\ p # 0 /\ p # i /\ p # i + 1 /\ p >= i
      BY <1>2, PageTypes
    <3> QED BY <3>1, <1>1, <1>7 DEF Pairs
  <2>3. \A p \in Pages \ {0} : header'[p].count = 0
    <3> SUFFICES ASSUME NEW p \in Pages \ {0} PROVE header'[p].count = 0
      OBVIOUS
    <3>1. header[p].count = 0
      BY <1>1 DEF Pairs
    <3> QED BY <3>1, <1>7 DEF EmptyHeader
  <2>4. i' - 2 = i /\ i' - 1 = i + 1
    BY <1>2, <1>8
  <2> QED BY <1>7, <1>8, <1>10, <2>1, <2>2, <2>3, <2>4 DEF Pairs
<1>12. Quiet'
  BY <1>1 DEF Quiet, InitPair, page_vars
<1> QED BY <1>5, <1>7, <1>8, <1>9, <1>11, <1>12 DEF Booting, InitPhases

LEMMA StepEmergency ==
  ASSUME Booting, InitEmergency
  PROVE  Booting'
<1>1. /\ phase = "pairs" /\ Pairs /\ i >= InitPages
      /\ UNCHANGED <<header, lists, desc, clobbered, live, pending, frames, fresh>>
      /\ phase' = "emerg" /\ i' = 0
  BY DEF Booting, InitEmergency, page_vars
<1>2. i = IntBits /\ i > 2 /\ i - 2 = Head0 /\ i - 1 = Head1
  BY <1>1, Widths DEF Pairs
<1>3. header[Head0] = FilledHeader(0)
  <2>1. header[Head0] = EmptyHeader(0)
    BY <1>1, <1>2 DEF Pairs
  <2> QED BY <2>1, CleanHeaders
<1>4. header[Head1] = EmptyHeader(1) /\ header[0].count = IntBits
      /\ \A p \in Pages \ {0, Head0} : header[p].count = 0
  BY <1>1, <1>2 DEF Pairs, FilledHeader
<1>5. HeadsAre(Head0, Head1)
  BY <1>1, <1>2 DEF Pairs
<1>6. Emergency'
  <2>1. i' \in 0..EmergPages
    BY <1>1, Widths
  <2>2. HeadsAre(Head0, Head1)'
    BY <1>1, <1>5 DEF HeadsAre, Head0, Head1
  <2> QED BY <1>1, <1>3, <1>4, <2>1, <2>2 DEF Emergency, Head0, Head1
<1> QED BY <1>1, <1>6 DEF Booting, InitPhases, Quiet, Low0, Head0

LEMMA StepEmergPage ==
  ASSUME Booting, InitEmergPage
  PROVE  Booting'
<1>1. /\ phase = "emerg" /\ Emergency /\ i < EmergPages
      /\ header \in [Pages -> PageHeader] /\ lists \in [Orders -> Seq(InitSpace)]
      /\ Quiet /\ Low0
      /\ UNCHANGED <<phase, lists, desc, live, pending, frames, fresh>> /\ i' = i + 1
  BY DEF Booting, InitEmergPage, page_vars
<1>2. i \in 0..(IntBits - 1) /\ header[Head0] = FilledHeader(i)
  BY <1>1, Widths DEF Emergency
<1>3. PICK j \in DOMAIN lists[0] :
        /\ FirstBelow(0, Units - 2, j)
        /\ header' = [header EXCEPT ![lists[0][j]] = Taken(@)]
        /\ Write({DirectAddress(lists[0][j], header[lists[0][j]])})
  BY DEF InitEmergPage
<1>4. lists[0][j] = Head0
  <2>1. lists[0] \in Seq(InitSpace) /\ lists[0][1] = Head0
    BY <1>1, PageTypes DEF Emergency, HeadsAre
  <2>2. j \in Nat /\ j >= 1
    BY <2>1
  <2>3. j # 1 => 1 \in 1..(j - 1)
    BY <2>2
  <2>4. j # 1 => header[Head0].count >= Units - 2
    BY <1>3, <2>1, <2>3 DEF FirstBelow
  <2>5. header[Head0].count = i
    BY <1>2 DEF FilledHeader
  <2> QED BY <1>2, <2>1, <2>4, <2>5, Widths
<1>5. Taken(header[Head0]) = FilledHeader(i + 1) /\ OpenSlot(header[Head0]) = FilledSlot(i)
      /\ FilledHeader(i + 1) \in PageHeader
  BY <1>2, FilledNext
<1>6. /\ header' \in [Pages -> PageHeader] /\ header'[Head0] = FilledHeader(i + 1)
      /\ \A p \in Pages : p # Head0 => header'[p] = header[p]
  BY <1>1, <1>3, <1>4, <1>5, PageTypes
<1>7. clobbered' = clobbered
  <2>1. FilledSlot(i) \in 3..(WordBits + 2)
    BY <1>2, Widths DEF FilledSlot
  <2>2. DirectAddress(Head0, header[Head0]) = (Head0 * Units) + (3 * Scale * FilledSlot(i))
    BY <1>5 DEF DirectAddress
  <2>3. \A p \in InitSpace : p * Units # DirectAddress(Head0, header[Head0])
    BY <2>1, <2>2, DirectPlaces
  <2> QED BY <1>3, <1>4, <2>3 DEF Write
<1>8. Emergency'
  <2>1. i' \in 0..EmergPages
    BY <1>1, <1>2, Widths
  <2>2. HeadsAre(Head0, Head1)'
    BY <1>1 DEF Emergency, HeadsAre, Head0, Head1
  <2>3. header'[Head1] = EmptyHeader(1) /\ header'[0].count = IntBits
        /\ \A p \in Pages \ {0, Head0} : header'[p].count = 0
    BY <1>1, <1>6, PageTypes DEF Emergency
  <2> QED BY <1>1, <1>6, <2>1, <2>2, <2>3 DEF Emergency, Head0, Head1
<1> QED BY <1>1, <1>6, <1>7, <1>8 DEF Booting, InitPhases, Quiet, Low0, Head0

\* The page in front of the list, when malloc_init() is done with it.
LEMMA FilledPage ==
  ASSUME NEW D, D \subseteq 0..((Head0 * Units) - 1)
  PROVE  Page0(FilledHeader(IntBits), {}, D, NewPages)
<1> DEFINE h == FilledHeader(IntBits)
<1>1. h.bitmap = 0..(WordBits + 2) /\ h.order = 0
  BY Widths DEF FilledHeader, Filled
<1>2. h \in PageHeader
  BY FilledNext, Widths
<1> HIDE DEF h
<1>3. HeaderBits \subseteq h.bitmap
  BY <1>1, Widths DEF HeaderBits
<1>4. Whole(h, Low)
  <2> SUFFICES ASSUME NEW s \in Low
               PROVE Mask(s) \subseteq h.bitmap \/ Mask(s) \intersect h.bitmap = {}
    BY DEF Whole
  <2>1. CASE s \in 3..(IntBits - 1)
    BY <1>1, <2>1, LowMask, Widths
  <2>2. CASE s \in (WordBits + 3)..(WordBits + IntBits - 1)
    BY <1>1, <2>2, LowMask, Widths
  <2> QED BY <2>1, <2>2 DEF Low
<1>5. \A s \in Low : ~Used({}, D, s)
  <2> SUFFICES ASSUME NEW s \in Low PROVE ChunkAddress(Head0, s, 0) \notin D
    BY DEF Used
  <2>1. ChunkAddress(Head0, s, 0) = (Head0 * Units) + s /\ s \in Nat
    BY LowAddress, LowMasks
  <2>2. Head0 * Units \in Nat
    BY Widths
  <2> QED BY <2>1, <2>2
<1>6. Paired(h, {}, D)
  <2> SUFFICES ASSUME NEW r \in 3..(IntBits - 1)
               PROVE  ~Used({}, D, r) /\ ~Used({}, D, WordBits + r) /\ r \in h.bitmap
    BY DEF Paired
  <2>1. r \in Low /\ WordBits + r \in Low /\ r \in h.bitmap
    BY <1>1, Widths DEF Low
  <2> QED BY <1>5, <2>1
<1>7. Open(h, Low) = (WordBits + 3)..(WordBits + IntBits - 1)
  BY <1>1, Widths DEF Open, Low
<1>8. Cardinality(Open(h, Low)) = IntBits - 3
  <2>1. WordBits + 3 \in Int /\ WordBits + IntBits - 1 \in Int /\ ~(WordBits + 3 > WordBits + IntBits - 1)
        /\ (WordBits + IntBits - 1) - (WordBits + 3) + 1 = IntBits - 3
    BY Widths
  <2>2. Cardinality((WordBits + 3)..(WordBits + IntBits - 1)) = (WordBits + IntBits - 1) - (WordBits + 3) + 1
    BY <2>1, FS_Interval
  <2> QED BY <1>7, <2>1, <2>2
<1>9. Cardinality({}) = 0 /\ NewPages \ NewPages = {}
  BY FS_EmptySet
<1>10. 0 + 0 + (IntBits - 3) = IntBits - 3
  BY Widths
<1>11. Page0(h, {}, D, NewPages)
  BY <1>1, <1>2, <1>3, <1>4, <1>6, <1>8, <1>9, <1>10 DEF Page0
<1> QED BY <1>11 DEF h

LEMMA EmptyPage == Page1(EmptyHeader(1), {})
<1> DEFINE h == EmptyHeader(1)
<1>1. h.bitmap = 0..1 /\ h.order = 1
  BY DEF EmptyHeader, Reserved
<1>2. h \in PageHeader
  BY CleanHeaders
<1> HIDE DEF h
<1>3. Whole(h, High)
  BY <1>1, LowMasks DEF Whole
<1>4. Open(h, High) = High /\ High = 2..(IntBits - 1)
  BY <1>1, Widths DEF Open, High
<1>5. Cardinality(High) = IntBits - 2
  <2>1. 2 \in Int /\ IntBits - 1 \in Int /\ ~(2 > IntBits - 1) /\ (IntBits - 1) - 2 + 1 = IntBits - 2
    BY Widths
  <2>2. Cardinality(2..(IntBits - 1)) = (IntBits - 1) - 2 + 1
    BY <2>1, FS_Interval
  <2> QED BY <1>4, <2>1, <2>2
<1>6. Cardinality({}) = 0 /\ 0 + (IntBits - 2) = IntBits - 2
  BY FS_EmptySet, Widths
<1>7. Page1(h, {})
  BY <1>1, <1>2, <1>3, <1>4, <1>5, <1>6 DEF Page1
<1> QED BY <1>7 DEF h

LEMMA StepDone ==
  ASSUME Booting, InitDone
  PROVE  Heap' /\ Control'
<1>1. /\ Emergency /\ i = EmergPages
      /\ header \in [Pages -> PageHeader]
      /\ Quiet /\ Low0
      /\ UNCHANGED <<header, lists, desc, clobbered, live, pending, frames, fresh>> /\ phase' = "up"
  BY DEF Booting, InitDone, page_vars
<1>2. header[Head0] = FilledHeader(IntBits) /\ header[Head1] = EmptyHeader(1)
  BY <1>1, Widths DEF Emergency
<1>3. live = {} /\ fresh = NewPages /\ LiveOf(0) = {} /\ LiveOf(1) = {} /\ pending = 0 /\ frames = 0
  BY <1>1 DEF Quiet, LiveOf
<1>4. Page0(header[Head0], LiveOf(0), desc, fresh) /\ Page1(header[Head1], LiveOf(1))
  BY <1>1, <1>2, <1>3, FilledPage, EmptyPage DEF Low0
<1>5. PagesN(header, live, fresh)
  BY <1>3 DEF PagesN
<1>6. Counted
  <2> SUFFICES ASSUME NEW p \in Pages
               PROVE header[p].count = Cardinality(OnPage(live, p)) + DescriptorsFrom(p)
    BY DEF Counted
  <2>1. OnPage(live, p) = {} /\ Cardinality({}) = 0
    BY <1>3, FS_EmptySet DEF OnPage
  <2>2. CASE p = 0
    BY <1>1, <2>1, <2>2, Widths DEF Emergency, DescriptorsFrom
  <2>3. CASE p = Head0
    <3>1. NewPages \ fresh = {}
      BY <1>3
    <3>2. DescriptorsFrom(p) = IntBits + 0
      BY <2>1, <2>3, <3>1, PageTypes, Widths DEF DescriptorsFrom
    <3> QED BY <1>2, <2>1, <2>3, <3>2, Widths DEF FilledHeader
  <2>4. CASE p # 0 /\ p # Head0
    <3>1. header[p].count = 0 /\ DescriptorsFrom(p) = 0
      BY <1>1, <2>4 DEF Emergency, DescriptorsFrom
    <3> QED BY <2>1, <3>1
  <2> QED BY <2>2, <2>3, <2>4
<1>7. \A k \in {0, 1} : Cardinality(LiveOf(k)) <= MaxLive[k]
  <2>1. MaxLive[0] \in Nat /\ MaxLive[1] \in Nat /\ Cardinality({}) = 0
    BY PageAssumption, PageTypes, FS_EmptySet
  <2> QED BY <1>3, <2>1
<1>8. /\ HeadsAre(Head0, Head1) /\ IsFiniteSet(live) /\ fresh \subseteq NewPages
      /\ desc \subseteq Nat /\ clobbered \subseteq 0..(Head0 - 1)
  <2>1. desc \subseteq Nat
    BY <1>1, Widths DEF Low0
  <2> QED BY <1>1, <1>3, <2>1, FS_EmptySet DEF Emergency, Low0
<1>9. Heap
  BY <1>1, <1>4, <1>5, <1>6, <1>7, <1>8 DEF Heap
<1>10. Heap'
  BY <1>1, <1>9 DEF Heap, HeadsAre, Head0, Head1, LiveOf, Counted, DescriptorsFrom
<1>11. Control'
  BY <1>1, <1>3, PageTypes, PageAssumption DEF Control
<1> QED BY <1>10, <1>11

(***************************************************************************)
(* The inductive invariant.                                                *)
(***************************************************************************)

IInv == IF phase \in InitPhases THEN Booting ELSE Heap /\ Control

LEMMA Steps ==
  ASSUME Regime, IInv, [Next]_vars
  PROVE  IInv'
<1>1. CASE phase \in InitPhases
  <2>1. Booting
    BY <1>1 DEF IInv
  <2>2. CASE UNCHANGED vars
    BY <1>1, <2>1, <2>2 DEF vars, IInv, Booting, Quiet, Low0, Pairs, Emergency, HeadsAre, Head0, Head1
  <2>3. CASE InitStep
    <3>1. ASSUME Booting' PROVE IInv'
      BY <3>1 DEF IInv, Booting
    <3>2. ASSUME Heap', Control' PROVE IInv'
      BY <3>2 DEF IInv, Control, InitPhases
    <3> QED BY <2>1, <2>3, <3>1, <3>2, StepFirst, StepPair, StepEmergency, StepEmergPage, StepDone DEF InitStep
  <2>4. \A words \in Requests : ~Kmalloc(words) /\ ~KmallocNull(words) /\ ~KmallocPage(words)
    BY <1>1 DEF InitPhases, Kmalloc, KmallocNull, KmallocPage
  <2>5. \A c \in live : ~Kfree(c)
    BY <1>1 DEF InitPhases, Kfree
  <2>6. ~PageStep
    BY <1>1 DEF InitPhases, PageStep, AllocateKern, FaultSplit, FaultTake, KmallocPrepare
  <2>7. ~KmallocStops /\ ~Stopped
    BY <1>1 DEF InitPhases, KmallocStops, PageStops, Stopped
  <2> QED BY <2>2, <2>3, <2>4, <2>5, <2>6, <2>7 DEF Next
<1>2. CASE phase \notin InitPhases
  <2>1. Heap /\ Control
    BY <1>2 DEF IInv
  <2>2. ~InitStep
    BY <1>2 DEF InitPhases, InitStep, InitFirst, InitPair, InitEmergency, InitEmergPage, InitDone
  <2>3. Heap' /\ Control'
    BY <2>1, <2>2, CallStep DEF Next
  <2> QED BY <2>3 DEF IInv, Control, InitPhases
<1> QED BY <1>1, <1>2

(***************************************************************************)
(* What the invariant implies.                                             *)
(***************************************************************************)

LEMMA TypeFrom ==
  ASSUME IInv
  PROVE  TypeOK
<1>1. \A p \in Pages : header[p] \in PageHeader /\ header[p].count \in 0..Units =>
        header[p] \in Header
  <2> SUFFICES ASSUME NEW h, h \in PageHeader, h.count \in 0..Units PROVE h \in Header
    OBVIOUS
  <2>1. h = [bitmap |-> h.bitmap, order |-> h.order, count |-> h.count]
    BY DEF PageHeader
  <2> QED BY <2>1 DEF PageHeader, Header
<1>2. MaxFrames \in Nat /\ 0 \in Orders
  BY PageAssumption, PageTypes
<1>3. CASE phase \in InitPhases
  <2>1. Booting
    BY <1>3 DEF IInv
  <2>2. \A p \in Pages : header[p].count \in 0..Units
    <3>1. CASE phase = "first"
      BY <2>1, <3>1, Widths DEF Booting, Blank
    <3>2. CASE phase = "pairs"
      <4>1. Pairs
        BY <2>1, <3>2 DEF Booting
      <4>2. header[0].count \in 0..Units
        BY <4>1, Widths DEF Pairs, FilledHeader
      <4> QED BY <4>1, <4>2, Widths DEF Pairs
    <3>3. CASE phase = "emerg"
      <4>1. Emergency
        BY <2>1, <3>3 DEF Booting
      <4>2. header[Head0].count \in 0..Units /\ header[0].count \in 0..Units
        BY <4>1, Widths DEF Emergency, FilledHeader
      <4> QED BY <4>1, <4>2, Widths DEF Emergency
    <3> QED BY <1>3, <3>1, <3>2, <3>3 DEF InitPhases
  <2>3. header \in [Pages -> Header]
    BY <1>1, <2>1, <2>2 DEF Booting
  <2>4. desc \subseteq Nat /\ clobbered \subseteq InitSpace
    BY <2>1, Widths DEF Booting, Low0, InitSpace
  <2> QED BY <1>2, <1>3, <2>1, <2>3, <2>4 DEF TypeOK, Booting, Quiet
<1>4. CASE phase \notin InitPhases
  <2>1. Heap /\ Control
    BY <1>4 DEF IInv
  <2>2. header \in [Pages -> Header]
    BY <1>1, <2>1, CountBounds DEF Heap
  <2>3. clobbered \subseteq InitSpace
    BY <2>1, Widths DEF Heap, InitSpace
  <2>4. \A c \in live : PageOf(c.address) \in Pages /\ c.order \in Orders
    BY <2>1, Places, PlacePage, PageTypes
  <2> QED BY <2>1, <2>2, <2>3, <2>4 DEF TypeOK, Heap, Control, HeadsAre
<1> QED BY <1>3, <1>4

LEMMA CountsFrom ==
  ASSUME IInv
  PROVE  CountsMatch
BY DEF IInv, Heap, Counted, OnPage, CountsMatch

LEMMA ClobberedFrom ==
  ASSUME IInv
  PROVE  ClobberedUnused
<1>1. CASE phase \in InitPhases
  BY <1>1 DEF IInv, Booting, Quiet, ClobberedUnused
<1>2. CASE phase \notin InitPhases
  <2>1. Heap
    BY <1>2 DEF IInv
  <2> SUFFICES ASSUME NEW c \in live PROVE PageOf(c.address) \notin 0..(Head0 - 1)
    BY <2>1 DEF ClobberedUnused, Heap
  <2>2. PageOf(c.address) \in {Head0, Head1} \union NewPages
    BY <2>1, Places, PlacePage
  <2>3. \A q \in NewPages : q \in Nat /\ q >= IntBits
    BY Widths, PageAssumption
  <2> QED BY <2>2, <2>3, Widths
<1> QED BY <1>1, <1>2

\* A chunk in a caller's hands lies in its page, behind the header.
LEMMA ChunkBehindHeader ==
  ASSUME Heap, NEW c \in live
  PROVE  /\ PageOf(c.address) \in {Head0, Head1} \union NewPages
         /\ \E x \in 3..(Units - 1) : /\ c.address = (PageOf(c.address) * Units) + x
                                      /\ x + 2^(c.order) <= Units
         /\ 2^(c.order) \in Nat \ {0}
<1> DEFINE Fits == \E x \in 3..(Units - 1) : /\ c.address = (PageOf(c.address) * Units) + x
                                             /\ x + 2^(c.order) <= Units
<1>1. CASE \E s \in Low : c = Chunk(Head0, s, 0)
  <2>1. PICK s \in Low : c = Chunk(Head0, s, 0)
    BY <1>1
  <2>2. PageOf(c.address) = Head0 /\ c.order = 0 /\ c.address = (Head0 * Units) + s
    BY <2>1, PlacePage, LowAddress
  <2>3. s \in 3..(Units - 1) /\ s + 1 <= Units
    BY Widths DEF Low
  <2> QED BY <2>2, <2>3, Powers, PageTypes
<1>2. CASE \E s \in High : c = Chunk(Head1, s, 1)
  <2>1. PICK s \in High : c = Chunk(Head1, s, 1)
    BY <1>2
  <2>2. PageOf(c.address) = Head1 /\ c.order = 1 /\ c.address = (Head1 * Units) + (2 * s)
    BY <2>1, PlacePage, HighAddress
  <2>3. 2 * s \in 3..(Units - 1) /\ (2 * s) + 2 <= Units
    BY Widths DEF High
  <2> QED BY <2>2, <2>3, Powers, PageTypes
<1>3. CASE \E q \in NewPages \ fresh : \E k \in Orders \ {0, 1} : \E s \in 1..(Slots(k) - 1) :
             c = Chunk(q, s, k) /\ header[q].order = k
  <2>0. PICK q \in NewPages, k \in Orders \ {0, 1} : \E s \in 1..(Slots(k) - 1) : c = Chunk(q, s, k)
    BY <1>3
  <2>1. PICK s \in 1..(Slots(k) - 1) : c = Chunk(q, s, k)
    BY <2>0
  <2>2. PageOf(c.address) = q /\ c.order = k /\ c.address = (q * Units) + (s * 2^k)
    BY <2>1, PlacePage DEF Chunk, ChunkAddress
  <2>3. 2^k \in Nat /\ 2^k >= 4 /\ s \in 0..(Slots(k) - 1) /\ s \in Nat /\ s >= 1
    BY Powers, SlotsFit
  <2>4. (s * 2^k) + 2^k <= Units /\ s * 2^k \in 0..(Units - 1)
    <3>1. (s * 2^k) + 2^k <= Units /\ s * 2^k \in Nat
      BY <2>3, SlotsFit
    <3>2. PICK w \in Nat, m \in Nat : w = s * 2^k /\ m = 2^k
      BY <2>3, <3>1
    <3>3. w + m <= Units /\ m >= 4
      BY <2>3, <3>1, <3>2
    <3>4. w \in 0..(Units - 1)
      BY <3>3, Widths
    <3> QED BY <3>1, <3>2, <3>4
  <2>5. s * 2^k >= 3
    <3>1. PICK m \in Nat : m = 2^k
      BY <2>3
    <3>2. m >= 4 => s * m >= 4
      BY <2>3, <3>1
    <3> QED BY <2>3, <3>1, <3>2
  <2>6. s * 2^k \in 3..(Units - 1)
    BY <2>4, <2>5
  <2> HIDE DEF Fits
  <2>7. Fits
    BY <2>2, <2>4, <2>6 DEF Fits
  <2> QED BY <2>2, <2>3, <2>7 DEF Fits
<1> QED BY <1>1, <1>2, <1>3, Places

\* What a chunk covers, as offsets in its page.
LEMMA ExtentInPage ==
  ASSUME Heap, NEW c \in live, NEW e \in Extent(c.address, c.order)
  PROVE  \E y \in 3..(Units - 1) : e = (PageOf(c.address) * Units) + y
<1>1. PageOf(c.address) \in Nat
  BY ChunkBehindHeader, PageTypes, Widths
<1>2. PICK x \in 3..(Units - 1) : c.address = (PageOf(c.address) * Units) + x /\ x + 2^(c.order) <= Units
  BY ChunkBehindHeader
<1>3. PICK b \in Nat : b = PageOf(c.address) * Units
  BY <1>1, Widths
<1>4. 2^(c.order) \in Nat
  BY ChunkBehindHeader
<1>5. e \in Int /\ b + x <= e /\ e <= b + x + 2^(c.order) - 1
  BY <1>2, <1>3, <1>4 DEF Extent
<1>6. e - b \in 3..(Units - 1) /\ e = b + (e - b)
  BY <1>2, <1>4, <1>5, Widths
<1> QED BY <1>3, <1>6

LEMMA ApartFrom ==
  ASSUME IInv
  PROVE  ChunksApart
<1>1. CASE phase \in InitPhases
  BY <1>1 DEF IInv, Booting, Quiet, ChunksApart
<1>2. CASE phase \notin InitPhases
  <2>1. Heap
    BY <1>2 DEF IInv
  <2>2. \A c \in live : PageOf(c.address) \in Nat
    BY <2>1, ChunkBehindHeader, PageTypes, Widths
  <2>3. ASSUME NEW c \in live, NEW d \in live \ {c}, NEW e \in Extent(c.address, c.order),
               e \in Extent(d.address, d.order)
        PROVE  FALSE
    <3>1. PICK x \in 3..(Units - 1) : e = (PageOf(c.address) * Units) + x
      BY <2>1, ExtentInPage
    <3>2. PICK y \in 3..(Units - 1) : e = (PageOf(d.address) * Units) + y
      BY <2>1, <2>3, ExtentInPage
    <3>3. PageOf(c.address) = PageOf(d.address)
      BY <2>2, <3>1, <3>2, PagesApart
    <3>4. CASE \E s \in Low : c = Chunk(Head0, s, 0)
      <4>1. PICK s \in Low : c = Chunk(Head0, s, 0)
        BY <3>4
      <4>2. PICK t \in Low : d = Chunk(Head0, t, 0)
        BY <2>1, <3>3, <4>1, Places, PlacePage, PageTypes
      <4>3. e = (Head0 * Units) + s /\ e = (Head0 * Units) + t
        <5>1. \A r \in Low : Extent(Chunk(Head0, r, 0).address, 0) = {(Head0 * Units) + r}
          <6> SUFFICES ASSUME NEW r \in Low
                       PROVE  Extent(Chunk(Head0, r, 0).address, 0) = {(Head0 * Units) + r}
            OBVIOUS
          <6>1. PICK a \in Nat : a = (Head0 * Units) + r
            BY LowMasks, Widths
          <6>2. Extent(a, 0) = a..(a + 1 - 1)
            BY Powers DEF Extent
          <6> QED BY <6>1, <6>2, LowAddress
        <5> QED BY <2>3, <4>1, <4>2, <5>1, PlacePage
      <4>4. s = t
        BY <4>3, LowMasks, Widths
      <4> QED BY <2>3, <4>1, <4>2, <4>4
    <3>5. CASE \E s \in High : c = Chunk(Head1, s, 1)
      <4>1. PICK s \in High : c = Chunk(Head1, s, 1)
        BY <3>5
      <4>2. PICK t \in High : d = Chunk(Head1, t, 1)
        BY <2>1, <3>3, <4>1, Places, PlacePage, PageTypes
      <4>3. PICK b \in Nat : b = Head1 * Units
        BY Widths
      <4>4. e \in (b + (2 * s))..(b + (2 * s) + 1) /\ e \in (b + (2 * t))..(b + (2 * t) + 1)
        <5>1. \A r \in High : Extent(Chunk(Head1, r, 1).address, 1) = (b + (2 * r))..(b + (2 * r) + 1)
          <6> SUFFICES ASSUME NEW r \in High
                       PROVE  Extent(Chunk(Head1, r, 1).address, 1) = (b + (2 * r))..(b + (2 * r) + 1)
            OBVIOUS
          <6>1. r \in Nat /\ Chunk(Head1, r, 1).address = b + (2 * r)
            BY <4>3, HighAddress, Widths DEF High
          <6>2. Extent(b + (2 * r), 1) = (b + (2 * r))..((b + (2 * r)) + 2 - 1)
            BY Powers DEF Extent
          <6>3. (b + (2 * r)) + 2 - 1 = b + (2 * r) + 1
            BY <6>1
          <6> QED BY <6>1, <6>2, <6>3
        <5> QED BY <2>3, <4>1, <4>2, <5>1, PlacePage
      <4>5. s = t
        BY <4>4, Widths DEF High
      <4> QED BY <2>3, <4>1, <4>2, <4>5
    <3>6. CASE \E q \in NewPages \ fresh : \E k \in Orders \ {0, 1} : \E s \in 1..(Slots(k) - 1) :
                 c = Chunk(q, s, k) /\ header[q].order = k
      <4>1. c.order \notin {0, 1}
        BY <3>6, PlacePage
      <4>2. c = d
        BY <2>1, <3>3, <4>1 DEF Heap, PagesN
      <4> QED BY <2>3, <4>2
    <3> QED BY <2>1, <3>4, <3>5, <3>6, Places
  <2>4. ASSUME NEW c \in live, NEW e \in Extent(c.address, c.order),
               e \in HeaderExtent(PageOf(c.address))
        PROVE  FALSE
    <3>1. PICK y \in 3..(Units - 1) : e = (PageOf(c.address) * Units) + y
      BY <2>1, ExtentInPage
    <3>2. PICK b \in Nat : b = PageOf(c.address) * Units
      BY <2>2, Widths
    <3>3. e \in b..(b + 2) /\ e = b + y
      BY <2>4, <3>1, <3>2 DEF HeaderExtent
    <3> QED BY <3>3, Widths
  <2>5. ASSUME NEW c \in live, NEW e \in Extent(c.address, c.order), e \in desc
        PROVE  FALSE
    <3>1. PICK y \in 3..(Units - 1) : e = (PageOf(c.address) * Units) + y
      BY <2>1, ExtentInPage
    <3>2. desc \subseteq (0..((Head0 * Units) - 1)) \union {ChunkAddress(Head0, s, 0) : s \in Low}
      BY <2>1 DEF Heap, Page0
    <3>3. CASE e \in 0..((Head0 * Units) - 1)
      <4>1. PICK m \in Nat : PageOf(c.address) = Head0 + m
        <5>1. \A q \in NewPages : q \in Nat /\ q >= IntBits
          BY Widths, PageAssumption
        <5>2. \A q \in {Head0, Head1} \union NewPages : q - Head0 \in Nat /\ q = Head0 + (q - Head0)
          BY <5>1, Widths
        <5> QED BY <2>1, <5>2, ChunkBehindHeader
      <4>2. (Head0 + m) * Units = (Head0 * Units) + (m * Units) /\ m * Units \in Nat /\ Head0 * Units \in Nat
        BY Widths
      <4> QED BY <3>1, <3>3, <4>1, <4>2, Widths
    <3>4. CASE \E s \in Low : e = ChunkAddress(Head0, s, 0)
      <4>1. PICK s \in Low : e = ChunkAddress(Head0, s, 0)
        BY <3>4
      <4>2. e = (Head0 * Units) + s /\ s \in 0..(Units - 1)
        BY <4>1, LowAddress, LowMasks, SlotsFit
      <4>3. PageOf(c.address) = Head0 /\ y = s
        BY <2>2, <3>1, <4>2, PagesApart, PageTypes, Widths
      <4>4. PICK t \in Low : c = Chunk(Head0, t, 0)
        BY <2>1, <4>3, Places, PlacePage, PageTypes
      <4>5. t = s
        <5>1. PICK a \in Nat : a = (Head0 * Units) + t
          BY LowMasks, Widths
        <5>2. Extent(a, 0) = a..(a + 1 - 1)
          BY Powers DEF Extent
        <5>3. c.address = a /\ c.order = 0
          BY <4>4, <5>1, LowAddress, PlacePage
        <5>4. e = (Head0 * Units) + t
          BY <2>5, <5>1, <5>2, <5>3
        <5> QED BY <4>2, <5>4, LowMasks, Widths
      <4>6. c \in LiveOf(0)
        BY <4>4, PlacePage DEF LiveOf
      <4> QED BY <2>1, <2>5, <4>1, <4>4, <4>5, <4>6 DEF Heap, Page0
    <3> QED BY <2>5, <3>2, <3>3, <3>4
  <2> QED BY <2>3, <2>4, <2>5 DEF ChunksApart
<1> QED BY <1>1, <1>2

LEMMA CapacityFrom ==
  ASSUME IInv
  PROVE  CapacityKept
<1> SUFFICES ASSUME phase \notin InitPhases
             PROVE  Cardinality({c \in live : PageOf(c.address) = Head0})
                      + Cardinality(NewPages \ fresh)
                      + Cardinality({s \in OpenSlots(header[Head0]) :
                                       s < 2 * WordBits /\ s % WordBits < IntBits})
                      = (2 * IntBits) - 3 - EmergPages
  BY DEF CapacityKept
<1> DEFINE h == header[Head0]
<1>1. Heap
  BY DEF IInv
<1>2. Page0(h, LiveOf(0), desc, fresh)
  BY <1>1 DEF Heap
<1>3. {c \in live : PageOf(c.address) = Head0} = LiveOf(0)
  BY <1>1, OnPages DEF OnPage
<1>4. {s \in OpenSlots(h) : s < 2 * WordBits /\ s % WordBits < IntBits} = Open(h, Low)
  <2>1. OpenSlots(h) = {s \in 0..(Slots(0) - 1) : Mask(s) \intersect h.bitmap = {}}
    BY <1>2 DEF OpenSlots, Page0
  <2>2. \A s \in Low : s \in 0..(Slots(0) - 1) /\ s < 2 * WordBits /\ s % WordBits < IntBits
    <3> SUFFICES ASSUME NEW s \in Low PROVE s % WordBits < IntBits
      BY LowMasks, Widths
    <3>1. CASE s \in 3..(IntBits - 1)
      <4>1. s = (0 * WordBits) + s /\ s \in 0..(WordBits - 1) /\ WordBits \in Nat \ {0}
        BY <3>1, Widths
      <4>2. s % WordBits = s
        BY <4>1, DivisionIs
      <4> QED BY <3>1, <4>2, Widths
    <3>2. CASE s \in (WordBits + 3)..(WordBits + IntBits - 1)
      <4>1. PICK t \in 0..(WordBits - 1) : s = (1 * WordBits) + t
        <5>1. s = (1 * WordBits) + (s - WordBits) /\ s - WordBits \in 0..(WordBits - 1)
          BY <3>2, Widths
        <5> QED BY <5>1
      <4>2. s % WordBits = t /\ t = s - WordBits
        BY <4>1, DivisionIs, Widths
      <4> QED BY <3>2, <4>2, Widths
    <3> QED BY <3>1, <3>2 DEF Low
  <2>3. ASSUME NEW s \in 0..(Slots(0) - 1), Mask(s) \intersect h.bitmap = {},
               s < 2 * WordBits, s % WordBits < IntBits
        PROVE  s \in Low
    <3>1. s \notin HeaderBits
      BY <1>2, <2>3, LowMasks DEF Page0
    <3>2. CASE s < WordBits
      <4>1. s = (0 * WordBits) + s /\ s \in 0..(WordBits - 1) /\ WordBits \in Nat \ {0}
        BY <3>2, Widths, SlotsFit
      <4>2. s % WordBits = s
        BY <4>1, DivisionIs
      <4> QED BY <2>3, <3>1, <4>1, <4>2, Widths DEF Low, HeaderBits
    <3>3. CASE s >= WordBits
      <4>1. PICK t \in 0..(WordBits - 1) : s = (1 * WordBits) + t
        <5>1. s = (1 * WordBits) + (s - WordBits) /\ s - WordBits \in 0..(WordBits - 1)
          BY <2>3, <3>3, Widths, SlotsFit
        <5> QED BY <5>1
      <4>2. s % WordBits = t /\ t = s - WordBits
        BY <4>1, DivisionIs, Widths
      <4> QED BY <2>3, <3>1, <4>1, <4>2, Widths DEF Low, HeaderBits
    <3> QED BY <3>2, <3>3, Widths, SlotsFit
  <2>4. \A s \in Low : s \notin h.bitmap <=> Mask(s) \intersect h.bitmap = {}
    BY <1>2, OpenLow DEF Page0
  <2> QED BY <2>1, <2>2, <2>3, <2>4 DEF Open
<1>5. Cardinality(LiveOf(0)) + Cardinality(NewPages \ fresh) + Cardinality(Open(h, Low)) = IntBits - 3
  BY <1>2 DEF Page0
<1>6. IntBits - 3 = (2 * IntBits) - 3 - EmergPages
  BY Widths
<1> HIDE DEF h
<1> QED BY <1>3, <1>4, <1>5, <1>6 DEF h

\* malloc_allocate_descriptor() finds a page below its limit.
LEMMA DescriptorFrom ==
  ASSUME IInv, phase \notin InitPhases
  PROVE  ~DescriptorLoops
<1>1. Heap
  BY DEF IInv
<1>2. lists[0] \in Seq(InitSpace)
  BY <1>1, PageTypes DEF Heap, HeadsAre
<1>3. \A p \in Range(lists[0]) : p \in InitSpace /\ p \in Pages
  BY <1>2 DEF Range, Pages
<1>4. \A p \in InitSpace : header[p].count < Units - 4 /\ header[p].count \in Int
  BY <1>1, CountBounds, Widths DEF Pages
<1>5. Units - 4 \in Int
  BY Widths
<1> QED BY <1>3, <1>4, <1>5 DEF DescriptorLoops

(***************************************************************************)
(* The theorems.  Regime is a fact about the constants: as long as callers *)
(* stay within it, for every size of the widths and any number of pages.   *)
(***************************************************************************)

\* Every step of malloc_init(), of kmalloc(), with the page fault in its
\* middle, and of kfree() keeps the inductive invariant.
THEOREM Invariant ==
  ASSUME Regime
  PROVE  Spec => []IInv
<1>1. Init => IInv
  BY BootStart DEF Init, IInv, InitPhases
<1>2. IInv /\ [Next]_vars => IInv'
  BY Steps
<1> QED BY <1>1, <1>2, PTL DEF Spec

\* The variables keep their types: no count of allocations wraps or goes beyond
\* the chunks of a page, and every chunk that a caller of kfree() holds has an
\* address in a page of the heap.
THEOREM TypeCorrect ==
  ASSUME Regime
  PROVE  Spec => []TypeOK
<1>1. IInv => TypeOK
  BY TypeFrom
<1> QED BY <1>1, Invariant, PTL

\* kmalloc() never hands out a chunk that overlaps one in a caller's hands, a
\* page header or a page descriptor, although the bit that kfree() clears may
\* be that of another slot than the one kmalloc() has marked.
THEOREM ChunksStayApart ==
  ASSUME Regime
  PROVE  Spec => []ChunksApart
<1>1. IInv => ChunksApart
  BY ApartFrom
<1> QED BY <1>1, Invariant, PTL

\* n_allocations is, between any two steps, the number of chunks of the page
\* in callers' hands and of descriptors in it, also while the page fault
\* handler calls kmalloc() and kfree() in the middle of a kmalloc().
THEOREM CountsStay ==
  ASSUME Regime
  PROVE  Spec => []CountsMatch
<1>1. IInv => CountsMatch
  BY CountsFrom
<1> QED BY <1>1, Invariant, PTL

\* No sequence of calls of kmalloc() and kfree() makes the order-0 page lose a
\* chunk, or have one twice.
THEOREM CapacityStays ==
  ASSUME Regime
  PROVE  Spec => []CapacityKept
<1>1. IInv => CapacityKept
  BY CapacityFrom
<1> QED BY <1>1, Invariant, PTL

\* No chunk comes from a page whose bitmap malloc_init() has written a
\* descriptor over, the scaled pointer of malloc_direct_alloc().
THEOREM ClobberedStayUnused ==
  ASSUME Regime
  PROVE  Spec => []ClobberedUnused
<1>1. IInv => ClobberedUnused
  BY ClobberedFrom
<1> QED BY <1>1, Invariant, PTL

\* The loop of malloc_allocate_descriptor(), which does not go on from a page
\* that counts as full, meets no such page.
THEOREM DescriptorAlwaysFound ==
  ASSUME Regime
  PROVE  Spec => [](phase \notin InitPhases => ~DescriptorLoops)
<1>1. IInv => (phase \notin InitPhases => ~DescriptorLoops)
  BY DescriptorFrom
<1> QED BY <1>1, Invariant, PTL
=============================================================================

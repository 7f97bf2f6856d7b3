---------------------------- MODULE KernelProofs ----------------------------
(***************************************************************************)
(* Theorems about the page tables and the page fault handler of a machine  *)
(* that boots, for every table size, every memory and every sequence of    *)
(* calls, faults and interrupts.                                           *)
(***************************************************************************)
EXTENDS Kernel, FiniteSetTheorems, WellFoundedInduction, TLAPS

(***************************************************************************)
(* Addresses and their indices.                                            *)
(***************************************************************************)

Indices == 0..(Slots - 1)

\* A page by its indices, that of the fourth level first.
Num(a, b, c, d) == ((((a * Slots) + b) * Slots + c) * Slots) + d

LEMMA SlotsType == Slots \in Nat /\ Slots > 1 /\ RecSlot \in Indices /\ Root \in Nat
BY PagingAssumption DEF Indices

LEMMA Spans ==
  /\ Span(1) = 1 /\ Span(2) = Slots /\ Span(3) = Slots * Slots
  /\ Span(4) = Slots * Slots * Slots
BY DEF Span

\* A quotient and a remainder are the only ones.
LEMMA DivMod ==
  ASSUME NEW T \in Nat \ {0}, NEW q \in Nat, NEW r \in 0..(T - 1), NEW v, v = (q * T) + r
  PROVE  v \div T = q /\ v % T = r
OBVIOUS

\* Digits: the quotients and remainders of a page number.
LEMMA NumParts ==
  ASSUME NEW a \in Indices, NEW b \in Indices, NEW c \in Indices, NEW d \in Indices
  PROVE  LET v == Num(a, b, c, d)
         IN  /\ v \in Nat
             /\ v \div Slots = (((a * Slots) + b) * Slots) + c
             /\ v % Slots = d
             /\ v \div (Slots * Slots) = (a * Slots) + b
             /\ v \div (Slots * Slots * Slots) = a
             /\ v < Slots * (Slots * Slots * Slots)
<1> DEFINE S == Slots
<1>0. S \in Nat \ {0} /\ a \in 0..(S - 1) /\ b \in 0..(S - 1) /\ c \in 0..(S - 1) /\ d \in 0..(S - 1)
  BY SlotsType DEF Indices
<1>a. Num(a, b, c, d) = ((((a * S) + b) * S + c) * S) + d
  BY DEF Num
<1> HIDE DEF S
<1> DEFINE v == ((((a * S) + b) * S + c) * S) + d
<1>1. v \in Nat
  BY <1>0
<1>2. v \div S = (((a * S) + b) * S) + c /\ v % S = d
  <2> DEFINE q == (((a * S) + b) * S) + c
  <2>1. q \in Nat /\ v = (q * S) + d
    BY <1>0
  <2> HIDE DEF q, v
  <2>2. v \div S = q /\ v % S = d
    BY <1>0, <2>1, DivMod
  <2> QED BY <2>2 DEF q
<1>3. \A x, y \in 0..(S - 1) : (x * S) + y \in 0..((S * S) - 1)
  BY <1>0
<1>4. v \div (S * S) = (a * S) + b
  <2>1. v = (((a * S) + b) * (S * S)) + ((c * S) + d)
    BY <1>0
  <2>2. (a * S) + b \in Nat /\ (c * S) + d \in 0..((S * S) - 1) /\ S * S \in Nat \ {0}
    BY <1>0, <1>3
  <2> QED BY <2>1, <2>2, DivMod
<1>5. v \div (S * S * S) = a
  <2> DEFINE r == (((b * S) + c) * S) + d
  <2>1. v = (a * (S * S * S)) + r
    BY <1>0
  <2>2. r \in 0..((S * S * S) - 1)
    <3>1. (b * S) + c \in 0..((S * S) - 1)
      BY <1>0, <1>3
    <3>2. \A x \in 0..((S * S) - 1) : (x * S) + d \in 0..((S * S * S) - 1)
      BY <1>0
    <3> QED BY <3>1, <3>2
  <2>3. S * S * S \in Nat \ {0} /\ a \in Nat
    BY <1>0
  <2> HIDE DEF r
  <2> QED BY <2>1, <2>2, <2>3, DivMod
<1>6. v < S * (S * S * S)
  <2>1. (a * S) + b \in 0..((S * S) - 1)
    BY <1>0, <1>3
  <2>2. \A x \in 0..((S * S) - 1) : (x * S) + c \in 0..((S * S * S) - 1)
    BY <1>0
  <2>3. \A x \in 0..((S * S * S) - 1) : (x * S) + d < S * (S * S * S)
    BY <1>0
  <2> QED BY <2>1, <2>2, <2>3
<1> QED BY <1>1, <1>2, <1>4, <1>5, <1>6, <1>a DEF S

\* The indices of a page given by its indices.
LEMMA NumIndices ==
  ASSUME NEW a \in Indices, NEW b \in Indices, NEW c \in Indices, NEW d \in Indices
  PROVE  LET v == Num(a, b, c, d)
         IN  /\ v \in Pages
             /\ Index(v, 4) = a /\ Index(v, 3) = b /\ Index(v, 2) = c /\ Index(v, 1) = d
<1> DEFINE S == Slots
<1> DEFINE v == Num(a, b, c, d)
<1>0. S \in Nat \ {0} /\ a \in 0..(S - 1) /\ b \in 0..(S - 1) /\ c \in 0..(S - 1) /\ d \in 0..(S - 1)
  BY SlotsType DEF Indices
<1>1. /\ v \in Nat /\ v \div S = (((a * S) + b) * S) + c /\ v % S = d
      /\ v \div (S * S) = (a * S) + b /\ v \div (S * S * S) = a /\ v < S * (S * S * S)
  BY NumParts
<1> HIDE DEF v
<1>2. v \in Pages
  BY <1>0, <1>1, Spans DEF Pages, NPages
<1>3. Index(v, 1) = d
  BY <1>1, Spans DEF Index
<1>4. Index(v, 2) = c
  <2> DEFINE q == (a * S) + b
  <2>1. q \in Nat
    BY <1>0
  <2> HIDE DEF q
  <2> DEFINE w == (q * S) + c
  <2>2. w % S = c
    BY <1>0, <2>1, DivMod
  <2> USE DEF q
  <2> QED BY <1>1, <2>2, Spans DEF Index
<1>5. Index(v, 3) = b
  <2>0. \A q \in Nat : ((q * S) + b) % S = b
    BY <1>0, DivMod
  <2>1. ((a * S) + b) % S = b
    BY <1>0, <2>0
  <2> QED BY <1>1, <2>1, Spans DEF Index
<1>6. Index(v, 4) = a
  <2>1. a % S = a
    BY <1>0
  <2> QED BY <1>1, <2>1, Spans DEF Index
<1> QED BY <1>2, <1>3, <1>4, <1>5, <1>6 DEF v

\* A page is given by its indices.
LEMMA PageIndices ==
  ASSUME NEW v \in Pages
  PROVE  /\ Index(v, 4) \in Indices /\ Index(v, 3) \in Indices
         /\ Index(v, 2) \in Indices /\ Index(v, 1) \in Indices
         /\ v = Num(Index(v, 4), Index(v, 3), Index(v, 2), Index(v, 1))
<1> DEFINE S == Slots
<1>0. S \in Nat \ {0} /\ v \in Nat /\ v < S * (S * S * S)
  BY SlotsType, Spans DEF Pages, NPages
<1>1. PICK p \in Nat, d \in 0..(S - 1) : v = (p * S) + d
  <2>1. v \div S \in Nat /\ v % S \in 0..(S - 1) /\ v = ((v \div S) * S) + (v % S)
    BY <1>0
  <2> QED BY <2>1, Zenon
<1>2. PICK q \in Nat, c \in 0..(S - 1) : p = (q * S) + c
  <2>1. p \div S \in Nat /\ p % S \in 0..(S - 1) /\ p = ((p \div S) * S) + (p % S)
    BY <1>0
  <2> QED BY <2>1, Zenon
<1>3. PICK a \in Nat, b \in 0..(S - 1) : q = (a * S) + b
  <2>1. q \div S \in Nat /\ q % S \in 0..(S - 1) /\ q = ((q \div S) * S) + (q % S)
    BY <1>0
  <2> QED BY <2>1, Zenon
<1>4. a \in 0..(S - 1)
  <2>1. v >= a * (S * S * S)
    <3>1. \A x, y \in Nat : \A z \in 0..(S - 1) : x = (y * S) + z => x >= y * S
      BY <1>0
    <3>2. v >= p * S /\ p >= q * S /\ q >= a * S
      BY <1>0, <1>1, <1>2, <1>3, <3>1
    <3>3. \A x, y \in Nat : x >= y => x * S >= y * S
      BY <1>0
    <3>4. a * S \in Nat /\ (a * S) * S \in Nat /\ q * S \in Nat /\ p * S \in Nat
      BY <1>0, <1>1, <1>2, <1>3
    <3>5. q * S >= (a * S) * S
      BY <3>2, <3>3, <3>4, <1>2
    <3>6. p >= (a * S) * S
      BY <3>2, <3>4, <3>5, <1>1
    <3>7. p * S >= ((a * S) * S) * S
      BY <3>3, <3>4, <3>6, <1>1
    <3>8. ((a * S) * S) * S = a * (S * S * S)
      BY <1>0, <1>3
    <3> QED BY <1>0, <1>3, <3>2, <3>4, <3>7, <3>8
  <2>2. a * (S * S * S) < S * (S * S * S)
    BY <1>0, <1>3, <2>1
  <2>3. S * S * S \in Nat \ {0}
    BY <1>0
  <2>4. \A T \in Nat \ {0} : a * T < S * T => a < S
    BY <1>0, <1>3
  <2> QED BY <1>0, <1>3, <2>2, <2>3, <2>4
<1>5. a \in Indices /\ b \in Indices /\ c \in Indices /\ d \in Indices
  BY <1>1, <1>2, <1>3, <1>4 DEF Indices
<1>6. v = Num(a, b, c, d)
  BY <1>1, <1>2, <1>3 DEF Num
<1>7. Index(v, 4) = a /\ Index(v, 3) = b /\ Index(v, 2) = c /\ Index(v, 1) = d
  BY <1>5, <1>6, NumIndices
<1> QED BY <1>5, <1>6, <1>7

\* The windows: the indices of a page, shifted by one level for each time that
\* the recursive slot is in front of them.
LEMMA Windows ==
  ASSUME NEW v \in Pages
  PROVE  /\ Window(v, 4) = Num(RecSlot, RecSlot, RecSlot, RecSlot)
         /\ Window(v, 3) = Num(RecSlot, RecSlot, RecSlot, Index(v, 4))
         /\ Window(v, 2) = Num(RecSlot, RecSlot, Index(v, 4), Index(v, 3))
         /\ Window(v, 1) = Num(RecSlot, Index(v, 4), Index(v, 3), Index(v, 2))
<1> DEFINE S == Slots
           R == RecSlot
<1>0. S \in Nat \ {0} /\ R \in 0..(S - 1)
  BY SlotsType DEF Indices
<1>1. PICK a \in Indices, b \in Indices, c \in Indices, d \in Indices :
        /\ v = Num(a, b, c, d)
        /\ Index(v, 4) = a /\ Index(v, 3) = b /\ Index(v, 2) = c /\ Index(v, 1) = d
  BY PageIndices
<1>2. a \in 0..(S - 1) /\ b \in 0..(S - 1) /\ c \in 0..(S - 1)
  BY DEF Indices
<1>3. /\ v \div S = (((a * S) + b) * S) + c
      /\ v \div (S * S) = (a * S) + b /\ v \div (S * S * S) = a
  BY <1>1, NumParts
<1>4. /\ MEM_RECURSIVE_PTBLS = R * (S * S * S)
      /\ MEM_RECURSIVE_PDIRS = (R * (S * S * S)) + (R * (S * S))
      /\ MEM_RECURSIVE_PDPTS = (R * (S * S * S)) + (R * (S * S)) + (R * S)
  BY Spans DEF MEM_RECURSIVE_PTBLS, MEM_RECURSIVE_PDIRS, MEM_RECURSIVE_PDPTS
<1>5. Window(v, 4) = Num(R, R, R, R)
  <2>1. Window(v, 4) = (R * (S * S * S)) + (R * (S * S)) + (R * S) + R
    BY <1>4 DEF Window, MEM_PML4T_ADDR
  <2> QED BY <1>0, <2>1 DEF Num
<1>6. Window(v, 3) = Num(R, R, R, a)
  <2>1. a % S = a
    BY <1>0, <1>2
  <2>2. Window(v, 3) = (R * (S * S * S)) + (R * (S * S)) + (R * S) + a
    BY <1>3, <1>4, <2>1, Spans DEF Window, MEM_PDPT_ADDR
  <2> QED BY <1>0, <1>2, <2>2 DEF Num
<1>7. Window(v, 2) = Num(R, R, a, b)
  <2>1. ((a * S) + b) % (S * S) = (a * S) + b
    <3>1. (a * S) + b \in 0..((S * S) - 1)
      BY <1>0, <1>2
    <3>2. S * S \in Nat \ {0}
      BY <1>0
    <3>3. \A T \in Nat \ {0} : \A x \in 0..(T - 1) : x % T = x
      OBVIOUS
    <3> QED BY <3>1, <3>2, <3>3
  <2>2. Window(v, 2) = (R * (S * S * S)) + (R * (S * S)) + ((a * S) + b)
    BY <1>3, <1>4, <2>1, Spans DEF Window, MEM_PDIR_ADDR
  <2> QED BY <1>0, <1>2, <2>2 DEF Num
<1>8. Window(v, 1) = Num(R, a, b, c)
  <2> DEFINE w == (((a * S) + b) * S) + c
  <2>1. w % (S * S * S) = w
    <3>1. w \in 0..((S * S * S) - 1)
      <4>1. (a * S) + b \in 0..((S * S) - 1)
        BY <1>0, <1>2
      <4>2. \A x \in 0..((S * S) - 1) : (x * S) + c \in 0..((S * S * S) - 1)
        BY <1>0, <1>2
      <4> QED BY <4>1, <4>2
    <3>2. S * S * S \in Nat \ {0}
      BY <1>0
    <3>3. \A T \in Nat \ {0} : \A x \in 0..(T - 1) : x % T = x
      OBVIOUS
    <3> HIDE DEF w
    <3> QED BY <3>1, <3>2, <3>3
  <2>2. Window(v, 1) = (R * (S * S * S)) + w
    <3> HIDE DEF w
    <3>1. v \div S = w
      BY <1>3 DEF w
    <3> QED BY <1>4, <2>1, <3>1, Spans DEF Window, MEM_PTBL_ADDR
  <2> QED BY <1>0, <1>2, <2>2 DEF Num
<1> QED BY <1>1, <1>5, <1>6, <1>7, <1>8

(***************************************************************************)
(* Memories and walks.                                                     *)
(***************************************************************************)

\* A memory that holds the root.
IsMem(m) ==
  /\ m \in [DOMAIN m -> Table]
  /\ DOMAIN m \subseteq Nat
  /\ Root \in DOMAIN m

\* What a walk for v reaches: a table of each level, and the frame of the page.
At(m, v, k) == IF k = 0 THEN Walk(m, v) ELSE TableAt(m, v, k)

\* A walk goes down a level at a time.
LEMMA Down ==
  ASSUME NEW m, NEW v
  PROVE  /\ At(m, v, 4) = Root
         /\ At(m, v, 3) = Child(m, At(m, v, 4), Index(v, 4))
         /\ At(m, v, 2) = Child(m, At(m, v, 3), Index(v, 3))
         /\ At(m, v, 1) = Child(m, At(m, v, 2), Index(v, 2))
         /\ At(m, v, 0) = Child(m, At(m, v, 1), Index(v, 1))
         /\ At(m, v, 1) = TableOf(m, v) /\ At(m, v, 0) = Walk(m, v)
BY DEF At, Walk, TableOf, TableAt

\* An entry of a memory, and a frame that a present entry leads to.
LEMMA Entries ==
  ASSUME NEW m, IsMem(m), NEW f, NEW x \in Indices
  PROVE  /\ In(m, f, x) \in Entry
         /\ Child(m, f, x) \in Nat \union {NoFrame}
         /\ Child(m, f, x) # NoFrame => f \in DOMAIN m /\ Present(m[f][x]) /\ Child(m, f, x) = m[f][x].frame
         /\ f \in DOMAIN m /\ Present(m[f][x]) => Child(m, f, x) = m[f][x].frame /\ Child(m, f, x) # NoFrame
<1>1. Zero \in Entry /\ ~Present(Zero) /\ Zero.flags = {}
  BY DEF Zero, Entry, Present
<1>2. f \in DOMAIN m => m[f][x] \in Entry
  BY DEF IsMem, Table, Indices
<1>3. In(m, f, x) \in Entry
  BY <1>1, <1>2 DEF In
<1>4. \A e \in Entry : e.frame \in Nat
  BY DEF Entry
<1> QED BY <1>1, <1>2, <1>3, <1>4 DEF In, Child, NoFrame

\* Memory n is m, but for what entry x of frame f leads to.
Differs(m, n, f, x) ==
  \A g : \A y \in Indices : g # f \/ y # x => Child(n, g, y) = Child(m, g, y)

\* A walk that fails at a level goes no further.
LEMMA WalkEnds ==
  ASSUME NEW m, IsMem(m), NEW v \in Pages
  PROVE  /\ At(m, v, 3) = NoFrame => At(m, v, 2) = NoFrame
         /\ At(m, v, 2) = NoFrame => At(m, v, 1) = NoFrame
         /\ At(m, v, 1) = NoFrame => At(m, v, 0) = NoFrame
         /\ At(m, v, 4) # NoFrame
         /\ \A k \in 0..4 : At(m, v, k) \in Nat \union {NoFrame}
<1>1. \A x \in Indices : Child(m, NoFrame, x) = NoFrame
  BY Entries DEF IsMem, NoFrame
<1>2. /\ Index(v, 4) \in Indices /\ Index(v, 3) \in Indices
      /\ Index(v, 2) \in Indices /\ Index(v, 1) \in Indices
  BY PageIndices
<1>3. At(m, v, 4) = Root /\ Root \in Nat
  BY Down, SlotsType
<1>4. /\ At(m, v, 3) \in Nat \union {NoFrame} /\ At(m, v, 2) \in Nat \union {NoFrame}
      /\ At(m, v, 1) \in Nat \union {NoFrame} /\ At(m, v, 0) \in Nat \union {NoFrame}
  BY <1>2, Down, Entries
<1>5. \A k \in 0..4 : k = 0 \/ k = 1 \/ k = 2 \/ k = 3 \/ k = 4
  OBVIOUS
<1>6. \A k \in 0..4 : At(m, v, k) \in Nat \union {NoFrame}
  BY <1>3, <1>4, <1>5
<1> QED BY <1>1, <1>2, <1>3, <1>6, Down DEF NoFrame

\* An entry that leads nowhere is written: no walk that succeeded changes.
LEMMA WalksStay ==
  ASSUME NEW m, IsMem(m), NEW n, NEW f, NEW x \in Indices,
         Differs(m, n, f, x), Child(m, f, x) = NoFrame,
         NEW v \in Pages, NEW k \in 0..4, At(m, v, k) # NoFrame
  PROVE  At(n, v, k) = At(m, v, k)
<1>1. /\ Index(v, 4) \in Indices /\ Index(v, 3) \in Indices
      /\ Index(v, 2) \in Indices /\ Index(v, 1) \in Indices
  BY PageIndices
<1>2. \A g : \A y \in Indices : Child(m, g, y) # NoFrame => Child(n, g, y) = Child(m, g, y)
  BY DEF Differs
<1>3. At(n, v, 4) = At(m, v, 4)
  BY Down
<1>4. At(m, v, 3) # NoFrame => At(n, v, 3) = At(m, v, 3)
  BY <1>1, <1>2, <1>3, Down
<1>5. At(m, v, 2) # NoFrame => At(n, v, 2) = At(m, v, 2)
  BY <1>1, <1>2, <1>4, Down, WalkEnds
<1>6. At(m, v, 1) # NoFrame => At(n, v, 1) = At(m, v, 1)
  BY <1>1, <1>2, <1>5, Down, WalkEnds
<1>7. At(m, v, 0) # NoFrame => At(n, v, 0) = At(m, v, 0)
  BY <1>1, <1>2, <1>6, Down, WalkEnds
<1>8. k = 0 \/ k = 1 \/ k = 2 \/ k = 3 \/ k = 4
  OBVIOUS
<1> QED BY <1>3, <1>4, <1>5, <1>6, <1>7, <1>8

\* The entry is led to a table g that is empty: a walk that succeeds now and
\* did not before ends with g.
LEMMA WalksGrow ==
  ASSUME NEW m, IsMem(m), NEW n, NEW f, NEW x \in Indices, NEW g,
         Differs(m, n, f, x), Child(m, f, x) = NoFrame,
         Child(n, f, x) = g, g # f, \A y \in Indices : Child(m, g, y) = NoFrame,
         NEW v \in Pages
  PROVE  \A k \in 0..3 : At(m, v, k) = NoFrame /\ At(n, v, k) # NoFrame =>
           /\ At(m, v, k + 1) = f /\ Index(v, k + 1) = x
           /\ At(n, v, k) = g
<1>1. /\ Index(v, 4) \in Indices /\ Index(v, 3) \in Indices
      /\ Index(v, 2) \in Indices /\ Index(v, 1) \in Indices
  BY PageIndices
<1>2. \A y \in Indices : Child(n, g, y) = NoFrame
  BY DEF Differs
<1>3. \A t : \A y \in Indices : Child(m, t, y) = NoFrame /\ Child(n, t, y) # NoFrame =>
                                  t = f /\ y = x
  BY DEF Differs
<1> DEFINE New(k, j) == At(m, v, k) = NoFrame /\ At(n, v, k) # NoFrame =>
                          At(m, v, j) = f /\ Index(v, j) = x /\ At(n, v, k) = g
<1>4. New(3, 4)
  BY <1>1, <1>3, Down
<1>5. New(2, 3)
  <2>1. CASE At(m, v, 3) # NoFrame
    <3>1. At(n, v, 3) = At(m, v, 3)
      BY <2>1, WalksStay
    <3> QED BY <1>1, <1>3, <3>1, Down
  <2>2. CASE At(m, v, 3) = NoFrame /\ At(n, v, 3) = NoFrame
    BY <1>1, <2>2, <1>3, Down
  <2>3. CASE At(m, v, 3) = NoFrame /\ At(n, v, 3) # NoFrame
    BY <1>1, <1>2, <1>4, <2>3, Down
  <2> QED BY <2>1, <2>2, <2>3
<1>6. New(1, 2)
  <2>1. CASE At(m, v, 2) # NoFrame
    <3>1. At(n, v, 2) = At(m, v, 2)
      BY <2>1, WalksStay
    <3> QED BY <1>1, <1>3, <3>1, Down
  <2>2. CASE At(m, v, 2) = NoFrame /\ At(n, v, 2) = NoFrame
    BY <1>1, <2>2, <1>3, Down
  <2>3. CASE At(m, v, 2) = NoFrame /\ At(n, v, 2) # NoFrame
    BY <1>1, <1>2, <1>5, <2>3, Down
  <2> QED BY <2>1, <2>2, <2>3
<1>7. New(0, 1)
  <2>1. CASE At(m, v, 1) # NoFrame
    <3>1. At(n, v, 1) = At(m, v, 1)
      BY <2>1, WalksStay
    <3> QED BY <1>1, <1>3, <3>1, Down
  <2>2. CASE At(m, v, 1) = NoFrame /\ At(n, v, 1) = NoFrame
    BY <1>1, <2>2, <1>3, Down
  <2>3. CASE At(m, v, 1) = NoFrame /\ At(n, v, 1) # NoFrame
    BY <1>1, <1>2, <1>6, <2>3, Down
  <2> QED BY <2>1, <2>2, <2>3
<1>8. \A k \in 0..3 : k = 0 \/ k = 1 \/ k = 2 \/ k = 3
  OBVIOUS
<1>9. 0 + 1 = 1 /\ 1 + 1 = 2 /\ 2 + 1 = 3 /\ 3 + 1 = 4
  OBVIOUS
<1> QED BY <1>4, <1>5, <1>6, <1>7, <1>8, <1>9

(***************************************************************************)
(* The tree.                                                               *)
(***************************************************************************)

\* The recursive slot leads back to the root.
Recursive(m) == Child(m, Root, RecSlot) = Root

\* The tables of the tree, those that a walk for a page outside of the windows
\* reaches, are part of the memory.
TablesIn(m, frames) ==
  \A p \in Pages, k \in 1..4 :
    ~InWindow(p) /\ At(m, p, k) # NoFrame => At(m, p, k) \in frames

\* The entry x of frame f gets a new table: the tree is a tree.
LEMMA TreeGrows ==
  ASSUME NEW m, IsMem(m), Tree(m), NEW n, NEW f \in Nat, NEW x \in Indices, NEW g,
         Differs(m, n, f, x), Child(m, f, x) = NoFrame,
         Child(n, f, x) = g, g # f, \A y \in Indices : Child(m, g, y) = NoFrame,
         \A p \in Pages, k \in 1..4 : ~InWindow(p) => At(m, p, k) # g
  PROVE  Tree(n)
<1> SUFFICES ASSUME NEW p \in Pages, NEW q \in Pages, NEW k \in 1..4, NEW l \in 1..4,
                    ~InWindow(p), ~InWindow(q),
                    At(n, p, k) # NoFrame, At(n, p, k) = At(n, q, l)
             PROVE  k = l /\ \A j \in (k + 1)..4 : Index(p, j) = Index(q, j)
  BY DEF Tree, At
<1>0. k \in 0..4 /\ l \in 0..4
  OBVIOUS
<1>1. \A r \in Pages, j \in 0..4 : At(m, r, j) # NoFrame => At(n, r, j) = At(m, r, j)
  BY WalksStay
<1>2. \A r \in Pages : \A j \in 0..3 : At(m, r, j) = NoFrame /\ At(n, r, j) # NoFrame =>
        At(m, r, j + 1) = f /\ Index(r, j + 1) = x /\ At(n, r, j) = g
  BY WalksGrow
<1>3. \A r, s \in Pages, i1, i2 \in 1..4 :
        ~InWindow(r) /\ ~InWindow(s) /\ At(m, r, i1) # NoFrame /\ At(m, r, i1) = At(m, s, i2)
          => i1 = i2 /\ \A j \in (i1 + 1)..4 : Index(r, j) = Index(s, j)
  BY DEF Tree, At
<1>4. At(m, p, 4) # NoFrame /\ At(m, q, 4) # NoFrame
  BY WalkEnds
<1>5. CASE At(m, p, k) # NoFrame /\ At(m, q, l) # NoFrame
  BY <1>0, <1>1, <1>3, <1>5
<1>6. CASE At(m, p, k) = NoFrame /\ At(m, q, l) # NoFrame
  BY <1>0, <1>1, <1>2, <1>4, <1>6
<1>7. CASE At(m, p, k) # NoFrame /\ At(m, q, l) = NoFrame
  BY <1>0, <1>1, <1>2, <1>4, <1>7
<1>8. CASE At(m, p, k) = NoFrame /\ At(m, q, l) = NoFrame
  <2>1. k \in 0..3 /\ l \in 0..3 /\ k + 1 \in 1..4 /\ l + 1 \in 1..4
    BY <1>4, <1>8
  <2>2. /\ At(m, p, k + 1) = f /\ Index(p, k + 1) = x
        /\ At(m, q, l + 1) = f /\ Index(q, l + 1) = x
    BY <1>2, <1>8, <2>1
  <2>3. f # NoFrame
    BY DEF NoFrame
  <2>4. k + 1 = l + 1 /\ \A j \in ((k + 1) + 1)..4 : Index(p, j) = Index(q, j)
    BY <1>3, <2>1, <2>2, <2>3
  <2>5. \A j \in (k + 1)..4 : j = k + 1 \/ j \in ((k + 1) + 1)..4
    BY <2>1
  <2> QED BY <2>1, <2>2, <2>4, <2>5
<1> QED BY <1>5, <1>6, <1>7, <1>8

\* A walk through a window ends at a table of the tree, of a higher level.
LEMMA WindowWalks ==
  ASSUME NEW v \in Pages, InWindow(v), NEW k \in 0..3
  PROVE  \E u \in Pages, l \in 1..4 :
           /\ ~InWindow(u) /\ l > k
           /\ \A m : Recursive(m) => At(m, v, k) = At(m, u, l)
<1> DEFINE R == RecSlot
<1>1. PICK a \in Indices, b \in Indices, c \in Indices :
        Index(v, 3) = a /\ Index(v, 2) = b /\ Index(v, 1) = c
  BY PageIndices
<1>2. Index(v, 4) = R
  BY DEF InWindow
<1>3. PICK o \in Indices : o # R
  BY SlotsType DEF Indices
<1> DEFINE U(x, y, z) == Num(x, y, z, z)
<1>4. ASSUME NEW x \in Indices, NEW y \in Indices, NEW z \in Indices, x # R
      PROVE  /\ U(x, y, z) \in Pages /\ ~InWindow(U(x, y, z))
             /\ Index(U(x, y, z), 4) = x /\ Index(U(x, y, z), 3) = y /\ Index(U(x, y, z), 2) = z
  BY <1>4, NumIndices DEF InWindow
<1> HIDE DEF U, R
<1> DEFINE Same(j, u, l) == \A m : Recursive(m) => At(m, v, j) = At(m, u, l)
<1>5. \A m : Recursive(m) => At(m, v, 4) = Root /\ At(m, v, 3) = Root /\ Child(m, Root, R) = Root
  BY <1>2, Down DEF Recursive, R
<1>6. \A m, u : At(m, u, 4) = Root
  BY Down
<1>7. \A m : \A x, y, z \in Indices : x # R =>
        /\ At(m, U(x, y, z), 3) = Child(m, Root, x)
        /\ At(m, U(x, y, z), 2) = Child(m, Child(m, Root, x), y)
        /\ At(m, U(x, y, z), 1) = Child(m, Child(m, Child(m, Root, x), y), z)
  BY <1>4, Down
<1>8. \A m : /\ At(m, v, 2) = Child(m, At(m, v, 3), a)
             /\ At(m, v, 1) = Child(m, At(m, v, 2), b)
             /\ At(m, v, 0) = Child(m, At(m, v, 1), c)
  BY <1>1, Down
<1> HIDE DEF Same
<1>9. CASE a # R
  <2>1. Same(3, U(a, b, c), 4) /\ Same(2, U(a, b, c), 3) /\ Same(1, U(a, b, c), 2) /\ Same(0, U(a, b, c), 1)
    BY <1>5, <1>6, <1>7, <1>8, <1>9 DEF Same
  <2>2. U(a, b, c) \in Pages /\ ~InWindow(U(a, b, c))
    BY <1>4, <1>9
  <2>3. k = 0 \/ k = 1 \/ k = 2 \/ k = 3
    OBVIOUS
  <2>4. \E l \in 1..4 : l > k /\ Same(k, U(a, b, c), l)
    BY <2>1, <2>3
  <2> QED BY <2>2, <2>4 DEF Same
<1>10. CASE a = R /\ b # R
  <2>1. Same(3, U(b, c, c), 4) /\ Same(2, U(b, c, c), 4) /\ Same(1, U(b, c, c), 3) /\ Same(0, U(b, c, c), 2)
    BY <1>5, <1>6, <1>7, <1>8, <1>10 DEF Same
  <2>2. U(b, c, c) \in Pages /\ ~InWindow(U(b, c, c))
    BY <1>4, <1>10
  <2>3. k = 0 \/ k = 1 \/ k = 2 \/ k = 3
    OBVIOUS
  <2>4. \E l \in 1..4 : l > k /\ Same(k, U(b, c, c), l)
    BY <2>1, <2>3
  <2> QED BY <2>2, <2>4 DEF Same
<1>11. CASE a = R /\ b = R /\ c # R
  <2>1. Same(3, U(c, c, c), 4) /\ Same(2, U(c, c, c), 4) /\ Same(1, U(c, c, c), 4) /\ Same(0, U(c, c, c), 3)
    BY <1>5, <1>6, <1>7, <1>8, <1>11 DEF Same
  <2>2. U(c, c, c) \in Pages /\ ~InWindow(U(c, c, c))
    BY <1>4, <1>11
  <2>3. k = 0 \/ k = 1 \/ k = 2 \/ k = 3
    OBVIOUS
  <2>4. \E l \in 1..4 : l > k /\ Same(k, U(c, c, c), l)
    BY <2>1, <2>3
  <2> QED BY <2>2, <2>4 DEF Same
<1>12. CASE a = R /\ b = R /\ c = R
  <2>1. Same(3, U(o, o, o), 4) /\ Same(2, U(o, o, o), 4) /\ Same(1, U(o, o, o), 4) /\ Same(0, U(o, o, o), 4)
    BY <1>5, <1>6, <1>7, <1>8, <1>12 DEF Same
  <2>2. U(o, o, o) \in Pages /\ ~InWindow(U(o, o, o))
    BY <1>3, <1>4 DEF R
  <2>3. k = 0 \/ k = 1 \/ k = 2 \/ k = 3
    OBVIOUS
  <2>4. \E l \in 1..4 : l > k /\ Same(k, U(o, o, o), l)
    BY <2>1, <2>3
  <2> QED BY <2>2, <2>4 DEF Same
<1> QED BY <1>9, <1>10, <1>11, <1>12

\* The entry of a page outside of the windows, in a table of the last level, is
\* written: only the walk for that page changes, and only its end.
LEMMA LeafStays ==
  ASSUME NEW m, IsMem(m), Tree(m), Recursive(m), NEW n, NEW v \in Pages, ~InWindow(v),
         At(m, v, 1) # NoFrame, Differs(m, n, At(m, v, 1), Index(v, 1))
  PROVE  /\ \A p \in Pages, k \in 1..4 : At(n, p, k) = At(m, p, k)
         /\ \A p \in Pages : p # v => At(n, p, 0) = At(m, p, 0)
         /\ Recursive(n) /\ Tree(n)
<1> DEFINE f == At(m, v, 1)
           x == Index(v, 1)
<1>1. \A p \in Pages : /\ Index(p, 4) \in Indices /\ Index(p, 3) \in Indices
                       /\ Index(p, 2) \in Indices /\ Index(p, 1) \in Indices
  BY PageIndices
<1>2. \A p \in Pages, k \in 1..4 : ~InWindow(p) /\ At(m, p, k) = f =>
        k = 1 /\ \A j \in 2..4 : Index(p, j) = Index(v, j)
  BY DEF Tree, At
<1>3. \A g : \A y \in Indices : g # f \/ y # x => Child(n, g, y) = Child(m, g, y)
  BY DEF Differs
<1> HIDE DEF f, x
<1>4. ASSUME NEW p \in Pages, ~InWindow(p)
      PROVE  /\ At(n, p, 4) = At(m, p, 4) /\ At(n, p, 3) = At(m, p, 3)
             /\ At(n, p, 2) = At(m, p, 2) /\ At(n, p, 1) = At(m, p, 1)
             /\ p # v => At(n, p, 0) = At(m, p, 0)
  <2>1. At(n, p, 4) = At(m, p, 4)
    BY Down
  <2>2. At(m, p, 4) # f /\ At(m, p, 3) # f /\ At(m, p, 2) # f
    BY <1>2, <1>4
  <2>3. At(n, p, 3) = At(m, p, 3)
    BY <1>1, <1>3, <2>1, <2>2, Down
  <2>4. At(n, p, 2) = At(m, p, 2)
    BY <1>1, <1>3, <2>2, <2>3, Down
  <2>5. At(n, p, 1) = At(m, p, 1)
    BY <1>1, <1>3, <2>2, <2>4, Down
  <2>6. ASSUME p # v PROVE At(n, p, 0) = At(m, p, 0)
    <3>1. CASE At(m, p, 1) # f
      BY <1>1, <1>3, <2>5, <3>1, Down
    <3>2. CASE At(m, p, 1) = f
      <4>1. Index(p, 4) = Index(v, 4) /\ Index(p, 3) = Index(v, 3) /\ Index(p, 2) = Index(v, 2)
        BY <1>2, <1>4, <3>2
      <4>2. Index(p, 1) # x
        BY <2>6, <4>1, PageIndices DEF x
      <4> QED BY <1>1, <1>3, <2>5, <4>2, Down
    <3> QED BY <3>1, <3>2
  <2> QED BY <2>1, <2>3, <2>4, <2>5, <2>6
<1>5. Recursive(n)
  <2>1. Root # f
    BY <1>2, Down
  <2> QED BY <1>3, <2>1, SlotsType DEF Recursive
<1>6. ASSUME NEW p \in Pages, NEW k \in 0..4, k # 0 \/ p # v
      PROVE  At(n, p, k) = At(m, p, k)
  <2>1. CASE ~InWindow(p)
    <3>1. k = 0 \/ k = 1 \/ k = 2 \/ k = 3 \/ k = 4
      OBVIOUS
    <3> QED BY <1>4, <1>6, <2>1, <3>1
  <2>2. CASE InWindow(p) /\ k \in 0..3
    <3>1. PICK u \in Pages, l \in 1..4 :
            /\ ~InWindow(u) /\ l > k
            /\ \A mm : Recursive(mm) => At(mm, p, k) = At(mm, u, l)
      BY <2>2, WindowWalks
    <3>2. At(n, u, l) = At(m, u, l)
      <4>1. l = 1 \/ l = 2 \/ l = 3 \/ l = 4
        OBVIOUS
      <4> QED BY <1>4, <3>1, <4>1
    <3> QED BY <1>5, <3>1, <3>2
  <2>3. CASE k = 4
    BY <2>3, Down
  <2>4. k \in 0..3 \/ k = 4
    OBVIOUS
  <2> QED BY <2>1, <2>2, <2>3, <2>4
<1>7. Tree(n)
  <2>1. \A p \in Pages, k \in 1..4 : At(n, p, k) = At(m, p, k)
    BY <1>6
  <2>2. \A p \in Pages, k \in 1..4 : TableAt(n, p, k) = TableAt(m, p, k)
    BY <2>1 DEF At
  <2> QED BY <2>2 DEF Tree
<1> QED BY <1>5, <1>6, <1>7

\* Through a window the code reaches the table that it means.
LEMMA WindowReaches ==
  ASSUME NEW m, Recursive(m), NEW v \in Pages, NEW level \in 1..4
  PROVE  /\ Window(v, level) \in Pages
         /\ Walk(m, Window(v, level)) = At(m, v, level)
<1> DEFINE R == RecSlot
<1>1. PICK a \in Indices, b \in Indices, c \in Indices :
        Index(v, 4) = a /\ Index(v, 3) = b /\ Index(v, 2) = c
  BY PageIndices
<1>2. R \in Indices /\ Child(m, Root, R) = Root
  BY SlotsType DEF Recursive
<1>3. /\ At(m, v, 4) = Root /\ At(m, v, 3) = Child(m, Root, a)
      /\ At(m, v, 2) = Child(m, Child(m, Root, a), b)
      /\ At(m, v, 1) = Child(m, Child(m, Child(m, Root, a), b), c)
  BY <1>1, Down
<1> HIDE DEF R
<1>4. ASSUME NEW w, NEW x \in Indices, NEW y \in Indices, NEW z \in Indices, w = Num(R, x, y, z)
      PROVE  w \in Pages /\ Walk(m, w) = Child(m, Child(m, Child(m, Root, x), y), z)
  <2>1. w \in Pages /\ Index(w, 4) = R /\ Index(w, 3) = x /\ Index(w, 2) = y /\ Index(w, 1) = z
    BY <1>2, <1>4, NumIndices
  <2> QED BY <1>2, <2>1, Down
<1>5. /\ Window(v, 4) = Num(R, R, R, R) /\ Window(v, 3) = Num(R, R, R, a)
      /\ Window(v, 2) = Num(R, R, a, b) /\ Window(v, 1) = Num(R, a, b, c)
  BY <1>1, Windows DEF R
<1>6. /\ Window(v, 4) \in Pages /\ Walk(m, Window(v, 4)) = Root
      /\ Window(v, 3) \in Pages /\ Walk(m, Window(v, 3)) = Child(m, Root, a)
      /\ Window(v, 2) \in Pages /\ Walk(m, Window(v, 2)) = Child(m, Child(m, Root, a), b)
      /\ Window(v, 1) \in Pages
      /\ Walk(m, Window(v, 1)) = Child(m, Child(m, Child(m, Root, a), b), c)
  BY <1>2, <1>4, <1>5
<1>7. level = 1 \/ level = 2 \/ level = 3 \/ level = 4
  OBVIOUS
<1> QED BY <1>3, <1>6, <1>7

\* Every table that a walk reaches is one of the tree.
LEMMA AnyTable ==
  ASSUME NEW m, Recursive(m), NEW p \in Pages, NEW k \in 1..4
  PROVE  \E u \in Pages, l \in 1..4 : ~InWindow(u) /\ At(m, p, k) = At(m, u, l)
<1>1. CASE ~InWindow(p)
  BY <1>1
<1>2. CASE InWindow(p) /\ k \in 0..3
  BY <1>2, WindowWalks
<1>3. CASE k = 4
  <2>1. PICK o \in Indices : o # RecSlot
    BY SlotsType DEF Indices
  <2>2. Num(o, o, o, o) \in Pages /\ ~InWindow(Num(o, o, o, o))
    BY <2>1, NumIndices DEF InWindow
  <2>3. At(m, p, k) = At(m, Num(o, o, o, o), 4)
    BY <1>3, Down
  <2> QED BY <2>2, <2>3
<1>4. k \in 0..3 \/ k = 4
  OBVIOUS
<1> QED BY <1>1, <1>2, <1>3, <1>4

(***************************************************************************)
(* Reads and writes of the tables.                                         *)
(***************************************************************************)

\* What the code reads through a window.
LEMMA Loads ==
  ASSUME Recursive(mem), NEW v \in Pages, NEW level \in 1..4
  PROVE  Load(v, level) = In(mem, At(mem, v, level), Index(v, level))
BY WindowReaches DEF Load

\* An entry is present where the walk goes on.
LEMMA PresentLeads ==
  ASSUME NEW m, IsMem(m), NEW f, NEW x \in Indices
  PROVE  Present(In(m, f, x)) <=> Child(m, f, x) # NoFrame
<1>1. In(m, f, x).frame \in Nat
  BY Entries DEF Entry
<1> QED BY <1>1 DEF Child, NoFrame

\* mem_check_pagetable() says whether the walk reaches a table.
LEMMA Checks ==
  ASSUME IsMem(mem), Recursive(mem), NEW v \in Pages
  PROVE  mem_check_pagetable(v) <=> At(mem, v, 1) # NoFrame
<1>1. /\ Index(v, 4) \in Indices /\ Index(v, 3) \in Indices
      /\ Index(v, 2) \in Indices /\ Index(v, 1) \in Indices
  BY PageIndices
<1>2. /\ Present(Load(v, 4)) <=> At(mem, v, 3) # NoFrame
      /\ Present(Load(v, 3)) <=> At(mem, v, 2) # NoFrame
      /\ Present(Load(v, 2)) <=> At(mem, v, 1) # NoFrame
  BY <1>1, Loads, PresentLeads, Down
<1>3. mem_check_pagetable(v) <=> Present(Load(v, 4)) /\ Present(Load(v, 3)) /\ Present(Load(v, 2))
  <2>1. \A level : level \in 2..4 <=> level = 2 \/ level = 3 \/ level = 4
    OBVIOUS
  <2> QED BY <2>1 DEF mem_check_pagetable
<1> QED BY <1>2, <1>3, WalkEnds

\* What is written through a window.
LEMMA StoreMem ==
  ASSUME IsMem(mem), NEW v \in Pages, NEW level \in 1..4, NEW e \in Entry
  PROVE  IsMem(Store(v, level, e)) /\ DOMAIN Store(v, level, e) = DOMAIN mem
<1> DEFINE f == Walk(mem, Window(v, level))
           x == Index(v, level)
<1>1. x \in Indices
  <2>1. level = 1 \/ level = 2 \/ level = 3 \/ level = 4
    OBVIOUS
  <2> QED BY <2>1, PageIndices
<1> HIDE DEF f, x
<1>2. CASE f \in DOMAIN mem
  <2>1. Store(v, level, e) = [mem EXCEPT ![f][x] = e]
    BY <1>2 DEF Store, f, x
  <2>2. [mem[f] EXCEPT ![x] = e] \in Table
    BY <1>1, <1>2 DEF IsMem, Table, Indices
  <2>3. [mem EXCEPT ![f] = [mem[f] EXCEPT ![x] = e]] \in [DOMAIN mem -> Table]
    BY <1>2, <2>2 DEF IsMem
  <2>4. [mem EXCEPT ![f][x] = e] = [mem EXCEPT ![f] = [mem[f] EXCEPT ![x] = e]]
    OBVIOUS
  <2> QED BY <2>1, <2>3, <2>4 DEF IsMem
<1>3. CASE f \notin DOMAIN mem
  BY <1>3 DEF Store, f
<1> QED BY <1>2, <1>3

LEMMA StoreEntry ==
  ASSUME IsMem(mem), Recursive(mem), NEW v \in Pages, NEW level \in 1..4, NEW e \in Entry,
         At(mem, v, level) \in DOMAIN mem
  PROVE  LET f == At(mem, v, level)
             x == Index(v, level)
             n == Store(v, level, e)
         IN  /\ x \in Indices
             /\ Differs(mem, n, f, x)
             /\ Child(n, f, x) = IF Present(e) THEN e.frame ELSE NoFrame
<1> DEFINE f == At(mem, v, level)
           x == Index(v, level)
           n == Store(v, level, e)
<1>1. x \in Indices
  <2>1. level = 1 \/ level = 2 \/ level = 3 \/ level = 4
    OBVIOUS
  <2> QED BY <2>1, PageIndices
<1>2. n = [mem EXCEPT ![f][x] = e] /\ f \in DOMAIN mem
  BY WindowReaches DEF Store
<1> HIDE DEF f, x, n
<1>3. mem \in [DOMAIN mem -> Table]
  BY DEF IsMem
<1>4. DOMAIN n = DOMAIN mem
  BY <1>2
<1>5. \A g \in DOMAIN mem : \A y \in Indices : n[g][y] = IF g = f /\ y = x THEN e ELSE mem[g][y]
  BY <1>1, <1>2, <1>3 DEF Table, Indices
<1>6. Differs(mem, n, f, x)
  BY <1>4, <1>5 DEF Differs, Child, In
<1>7. Child(n, f, x) = IF Present(e) THEN e.frame ELSE NoFrame
  BY <1>1, <1>2, <1>4, <1>5 DEF Child, In
<1> QED BY <1>1, <1>6, <1>7 DEF f, x, n

(***************************************************************************)
(* The invariant: what holds of every machine, and what holds of it until  *)
(* a table is made of a frame that is not clear.                           *)
(***************************************************************************)

\* The instructions of mem_create_pagetable(), and those of the handler.
Creating == {"pml4e", "pdpte", "pde"}
Following == {"pdpte", "pde", "fault_entry", "map_entry"}
Handling == Creating \union {"fault_entry"}

\* A call and its loop.
CallType ==
  /\ call \in [op : Ops \union {"none"}, page : Pages, frame : Nat, n : Nat, flags : SUBSET Flags]
  /\ i \in 0..call.n

\* The handler, while it runs, has a page and a frame for it.
HandlerType ==
  /\ pfaulting \in BOOLEAN
  /\ cr2 \in Pages \union {NoPage} /\ new_page \in Nat \union {NoFrame}
  /\ resume \in Instruction \union {"idle"}
  /\ pfaulting \/ pc = "handle" => cr2 \in Pages
  /\ pfaulting => pc \in Handling \union {"handle"} \union Stops
  /\ pc = "fault_entry" => pfaulting
  /\ pfaulting /\ pc \in Handling => new_page \in DOMAIN mem
  /\ ~pfaulting => new_page = NoFrame

Types ==
  /\ IsMem(mem)
  /\ DOMAIN mem = DOMAIN BootTables \union DOMAIN machine.memory
  /\ free \subseteq DOMAIN mem
  /\ tlb \subseteq Pages \X Nat /\ byhand \subseteq Pages
  /\ pc \in Instruction \union {"idle", "map", "unmap", "return", "handle"} \union Stops
  /\ spoilt \in BOOLEAN
  /\ machine \in Machines
  /\ CallType /\ HandlerType

\* What the instruction of a call says of the call.
Fits(here) ==
  /\ here # "fault_entry"
  /\ here = "idle" => call.op = "none"
  /\ here \in Creating \union {"map", "map_entry"} => call.op = "map"
  /\ here \in Creating \union {"map_entry"} => i < call.n
  /\ here = "unmap" => call.op = "unmap"
  /\ here = "access" => call.op \in Ops \ {"map", "unmap"}

\* The instruction of the call that runs, or that a fault interrupted.
Runs ==
  /\ pc \notin Stops \union {"handle"} /\ ~pfaulting => Fits(pc)
  /\ pc = "handle" /\ ~pfaulting => Fits(resume)
  /\ pc \in Handling /\ pfaulting => Fits(resume)

\* The pages that the call is still to write are not in the windows.
Remaining ==
  /\ call.op \in {"map", "unmap"} =>
       \A v \in call.page..(call.page + (call.n - i) - 1) : v \in Pages /\ ~InWindow(v)
  /\ call.op \in {"set_entry", "set_frame", "set_flags"} => ~InWindow(call.page)

\* Until the frame allocator runs there are no frames and no calls.
Early ==
  at \in {"idt", "malloc", "count", "copy"} =>
    /\ free = {}
    /\ call.op = "none"
    /\ pc \in {"idle", "handle"} \union Stops
    /\ pc = "handle" => cr2 = 0
    /\ ~pfaulting
    /\ tlb = {}
    /\ \A p \in Pages, k \in 1..4 :
         ~InWindow(p) /\ At(mem, p, k) # NoFrame => At(mem, p, k) \in DOMAIN BootTables

\* What was counted of the firmware's map, and what was copied.
Copy ==
  /\ mmap \in Seq(Range(machine.regions))
  /\ \A k \in DOMAIN mmap : Usable(mmap[k])
  /\ at \in {"idt", "malloc", "count", "copy"} => cur \in 1..(Len(machine.regions) + 1)
  /\ at \in {"idt", "malloc"} => cur = 1 /\ n_mem_ranges = 0
  /\ at \in {"idt", "malloc", "count"} => mmap = <<>> /\ n_mem_ranges = UsableUpTo(cur - 1)
  /\ at \notin {"idt", "malloc", "count"} => n_mem_ranges = UsableUpTo(Len(machine.regions))
  /\ at = "copy" =>
       /\ Len(mmap) = UsableUpTo(cur - 1)
       /\ \A k \in 1..(cur - 1) :
            Usable(machine.regions[k]) => mmap[UsableUpTo(k)] = machine.regions[k]
  /\ MapCopied

\* No frame that the allocator or the handler holds is a table, but for tables
\* of 64_init.s.
Apart ==
  /\ new_page \notin free
  /\ \A p \in Pages, k \in 1..4 :
       ~InWindow(p) /\ At(mem, p, k) # NoFrame /\ At(mem, p, k) \in free \union {new_page}
         => At(mem, p, k) \in DOMAIN BootTables

\* The page of the fault has no entry until the handler writes it.
Pending ==
  (pc \in Handling /\ pfaulting) \/ (pc = "handle" /\ ~pfaulting /\ cr2 # 0)
    => Walk(mem, cr2) = NoFrame

\* The code never misses a table that it is about to use.
Progress ==
  /\ pc = "pdpte" => At(mem, Target, 3) # NoFrame
  /\ pc = "pde" => At(mem, Target, 2) # NoFrame
  /\ pc \in {"map_entry", "fault_entry"} => At(mem, Target, 1) # NoFrame
  /\ pc = "handle" /\ ~pfaulting /\ cr2 # 0 => resume = "access"
  /\ pc \in Handling /\ pfaulting => resume = "access"

\* Why the handler halts.
Halting ==
  (pc = "handle" /\ (pfaulting \/ cr2 = 0)) \/ pc = "halt" =>
    cr2 = 0 /\ (free = {} \/ (call.op = "touch" /\ call.page = 0))

\* TlbCoherent, as long as it is to hold.
Coherent == \A t \in tlb : t[1] \in byhand \/ Walk(mem, t[1]) = t[2]

Clean ==
  /\ Tree(mem) /\ Recursive(mem) /\ TablesIn(mem, DOMAIN mem)
  /\ Apart /\ Pending /\ Progress /\ Halting /\ Coherent

IInv == Types /\ Runs /\ Remaining /\ Early /\ Copy /\ (~spoilt => Clean)

(***************************************************************************)
(* Types.                                                                  *)
(***************************************************************************)

LEMMA WindowPages ==
  ASSUME NEW v \in Pages, NEW level \in 1..4
  PROVE  Window(v, level) \in Pages
<1>1. level = 1 \/ level = 2 \/ level = 3 \/ level = 4
  OBVIOUS
<1>2. RecSlot \in Indices
  BY SlotsType
<1>3. /\ Index(v, 4) \in Indices /\ Index(v, 3) \in Indices /\ Index(v, 2) \in Indices
  BY PageIndices
<1>4. \A a, b, c, d \in Indices : Num(a, b, c, d) \in Pages
  BY NumIndices
<1> QED BY <1>1, <1>2, <1>3, <1>4, Windows

\* The code works on a page, and touches one.
LEMMA AccessedPage ==
  ASSUME Types, pc \in Instruction
  PROVE  Target \in Pages /\ Accessed \in Pages
<1>1. call.page \in Pages
  BY DEF Types, CallType
<1>2. pfaulting => cr2 \in Pages
  BY DEF Types, HandlerType
<1>3. Target \in Pages
  BY <1>1, <1>2 DEF Target
<1>4. \A v \in Pages : /\ MEM_PML4T_ADDR \in Pages /\ MEM_PDPT_ADDR(v) \in Pages
                        /\ MEM_PDIR_ADDR(v) \in Pages /\ MEM_PTBL_ADDR(v) \in Pages
  <2> SUFFICES ASSUME NEW v \in Pages
               PROVE  /\ MEM_PML4T_ADDR \in Pages /\ MEM_PDPT_ADDR(v) \in Pages
                      /\ MEM_PDIR_ADDR(v) \in Pages /\ MEM_PTBL_ADDR(v) \in Pages
    OBVIOUS
  <2>1. /\ Window(v, 4) \in Pages /\ Window(v, 3) \in Pages
        /\ Window(v, 2) \in Pages /\ Window(v, 1) \in Pages
    BY WindowPages
  <2> QED BY <2>1 DEF Window
<1>5. \/ pc = "access" \/ pc = "map_entry" \/ pc = "pml4e"
      \/ pc = "pdpte" \/ pc = "pde" \/ pc = "fault_entry"
  BY DEF Instruction
<1>6. /\ pc = "access" => Accessed = (IF call.op = "touch" THEN call.page ELSE MEM_PTBL_ADDR(call.page))
      /\ pc = "map_entry" => Accessed = MEM_PTBL_ADDR(Target)
      /\ pc = "pml4e" => Accessed = MEM_PML4T_ADDR
      /\ pc = "pdpte" => Accessed = MEM_PDPT_ADDR(Target)
      /\ pc = "pde" => Accessed = MEM_PDIR_ADDR(Target)
      /\ pc = "fault_entry" => Accessed = MEM_PTBL_ADDR(Target)
  BY DEF Accessed
<1> QED BY <1>1, <1>3, <1>4, <1>5, <1>6

\* A set of numbers that is not empty has a least one.
LEMMA LeastElement ==
  ASSUME NEW T \in SUBSET Nat, T # {}
  PROVE  Min(T) \in T /\ \A y \in T : Min(T) <= y
<1> DEFINE R == OpToRel(<, Nat)
<1>1. IsWellFoundedOn(R, Nat)
  BY NatLessThanWellFounded
<1>2. \A x, y \in Nat : x < y => <<x, y>> \in R
  BY DEF OpToRel
<1> HIDE DEF R
<1>3. PICK x \in T : \A y \in T : ~(<<y, x>> \in R)
  BY <1>1, WFMin
<1>4. \A y \in T : ~(y < x)
  BY <1>2, <1>3
<1>5. x \in T /\ \A y \in T : x <= y
  BY <1>4
<1> QED BY <1>5 DEF Min

LEMMA NextFrameFree ==
  ASSUME Types, free # {}
  PROVE  NextFrame \in free /\ NextFrame \in DOMAIN mem /\ NextFrame \in Nat
<1>1. free \in SUBSET Nat /\ free \subseteq DOMAIN mem
  BY DEF Types, IsMem
<1> QED BY <1>1, LeastElement DEF NextFrame

\* The entries that the code writes.
LEMMA NewEntries ==
  /\ \A f \in Nat : NewTable(f) \in Entry /\ Present(NewTable(f)) /\ NewTable(f).frame = f
  /\ \A f \in Nat : LET e == [frame |-> f, flags |-> {"present"}]
                     IN  e \in Entry /\ Present(e) /\ e.frame = f
  /\ Zero \in Entry
  /\ Types => [frame |-> call.frame, flags |-> call.flags] \in Entry
BY DEF NewTable, Entry, Present, Flags, Zero, Types, CallType

LEMMA SetEntries ==
  ASSUME Types, call.op \in {"set_entry", "set_frame", "set_flags"}
  PROVE  SetTo \in Entry
<1> DEFINE e == Load(call.page, 1)
<1>1. call.page \in Pages /\ call.frame \in Nat /\ call.flags \in SUBSET Flags
  BY DEF Types, CallType
<1>2. e \in Entry
  BY <1>1, Entries, PageIndices DEF Load, Types
<1> HIDE DEF e
<1>3. PageEntry([frame |-> call.frame, flags |-> call.flags]) \in Entry
  BY <1>1 DEF PageEntry, Entry
<1>4. [e EXCEPT !.frame = call.frame] \in Entry /\ [e EXCEPT !.flags = call.flags] \in Entry
  BY <1>1, <1>2 DEF Entry
<1>5. \/ call.op = "set_entry" /\ SetTo = PageEntry([frame |-> call.frame, flags |-> call.flags])
      \/ call.op = "set_frame" /\ SetTo = [e EXCEPT !.frame = call.frame]
      \/ call.op = "set_flags" /\ SetTo = [e EXCEPT !.flags = call.flags]
  BY DEF SetTo, e
<1> QED BY <1>3, <1>4, <1>5

(***************************************************************************)
(* The copy of the firmware's map.                                         *)
(***************************************************************************)

LEMMA Counting ==
  ASSUME machine \in Machines
  PROVE  /\ Len(machine.regions) \in Nat /\ DOMAIN machine.regions = 1..Len(machine.regions)
         /\ \A k \in Nat : UsableUpTo(k) \in Nat
         /\ UsableUpTo(0) = 0
         /\ \A k \in Nat \ {0} : UsableUpTo(k) = UsableUpTo(k - 1) + IF Usable(machine.regions[k]) THEN 1 ELSE 0
         /\ \A j, k \in Nat : j <= k => UsableUpTo(j) <= UsableUpTo(k)
         /\ \A j, k \in Nat : j <= k /\ (\A x \in (j + 1)..k : ~Usable(machine.regions[x]))
                                => UsableUpTo(j) = UsableUpTo(k)
<1> DEFINE U(k) == {j \in 1..k : Usable(machine.regions[j])}
<1>1. machine.regions \in Seq(Region)
  BY KernelAssumption
<1>2. Len(machine.regions) \in Nat /\ DOMAIN machine.regions = 1..Len(machine.regions)
  BY <1>1
<1>3. \A k : UsableUpTo(k) = Cardinality(U(k))
  BY DEF UsableUpTo
<1>4. \A k \in Nat : IsFiniteSet(U(k))
  <2>1. \A k \in Nat : U(k) \in SUBSET (1..k) /\ IsFiniteSet(1..k)
    BY FS_Interval
  <2> QED BY <2>1, FS_Subset
<1>5. \A k \in Nat : UsableUpTo(k) \in Nat
  BY <1>3, <1>4, FS_CardinalityType
<1>6. UsableUpTo(0) = 0
  <2>1. U(0) = {}
    OBVIOUS
  <2> QED BY <1>3, <2>1, FS_EmptySet
<1>7. ASSUME NEW k \in Nat \ {0}
      PROVE  UsableUpTo(k) = UsableUpTo(k - 1) + IF Usable(machine.regions[k]) THEN 1 ELSE 0
  <2>1. k - 1 \in Nat /\ UsableUpTo(k - 1) \in Nat
    BY <1>5
  <2>2. CASE Usable(machine.regions[k])
    <3>1. U(k) = U(k - 1) \union {k} /\ k \notin U(k - 1)
      BY <2>1, <2>2
    <3> HIDE DEF U
    <3>2. Cardinality(U(k)) = Cardinality(U(k - 1)) + 1
      BY <1>4, <2>1, <3>1, FS_AddElement
    <3> QED BY <1>3, <2>2, <3>2
  <2>3. CASE ~Usable(machine.regions[k])
    <3>1. U(k) = U(k - 1)
      BY <2>1, <2>3
    <3> HIDE DEF U
    <3>2. UsableUpTo(k) = UsableUpTo(k - 1)
      BY <1>3, <3>1
    <3> QED BY <2>1, <2>3, <3>2
  <2> QED BY <2>2, <2>3
<1>8. ASSUME NEW j \in Nat, NEW k \in Nat, j <= k
      PROVE  UsableUpTo(j) <= UsableUpTo(k)
  <2>1. U(j) \in SUBSET U(k)
    BY <1>8
  <2> QED BY <1>3, <1>4, <2>1, FS_Subset
<1>9. ASSUME NEW j \in Nat, NEW k \in Nat, j <= k, \A x \in (j + 1)..k : ~Usable(machine.regions[x])
      PROVE  UsableUpTo(j) = UsableUpTo(k)
  <2>1. U(j) = U(k)
    BY <1>9
  <2> QED BY <1>3, <2>1
<1> QED BY <1>2, <1>5, <1>6, <1>7, <1>8, <1>9

\* While there is less in the copy than was counted, there is a usable entry
\* left, and the loop finds the next one.
LEMMA NextFound ==
  ASSUME machine \in Machines, Copy, at = "copy", Len(mmap) < n_mem_ranges
  PROVE  /\ NextUsable \in cur..Len(machine.regions)
         /\ Usable(machine.regions[NextUsable])
         /\ \A k \in cur..(NextUsable - 1) : ~Usable(machine.regions[k])
<1> DEFINE L == Len(machine.regions)
           I == {k \in cur..L : Usable(machine.regions[k])}
<1>1. L \in Nat /\ cur \in 1..(L + 1)
  BY Counting DEF Copy
<1>2. UsableUpTo(cur - 1) < UsableUpTo(L)
  BY DEF Copy
<1>3. UsableUpTo(cur - 1) \in Nat /\ cur - 1 \in Nat /\ (cur - 1) + 1 = cur /\ cur - 1 <= L
  BY <1>1, Counting
<1>4. \E k \in cur..L : Usable(machine.regions[k])
  <2>1. ASSUME \A k \in cur..L : ~Usable(machine.regions[k]) PROVE FALSE
    <3>1. UsableUpTo(cur - 1) = UsableUpTo(L)
      BY <1>1, <1>3, <2>1, Counting
    <3> QED BY <1>2, <1>3, <3>1
  <2> QED BY <2>1
<1>5. I \in SUBSET Nat /\ I # {}
  BY <1>1, <1>4
<1>6. NextUsable = Min(I)
  BY <1>5 DEF NextUsable, SelectInSubSeq
<1> HIDE DEF I
<1>7. NextUsable \in I /\ \A y \in I : NextUsable <= y
  BY <1>5, <1>6, LeastElement
<1> QED BY <1>1, <1>7 DEF I

\* The machine stays, and but for kernel_init() nothing touches its variables.
LEMMA SameMachine ==
  ASSUME [BootNext]_<<vars, boot_vars>>
  PROVE  machine' = machine /\ (BootStep \/ UNCHANGED boot_vars)
BY DEF BootNext, BootStep, PagingStep, Interrupt, Stopped, boot_vars, BootIdt, BootMalloc, BootCount,
       BootMap, BootCopy, BootCopyFault, BootPhysical, BootVirtual, BootWrite, BootRead, BootTest

LEMMA CopyInit == BootInit => Copy
<1> SUFFICES ASSUME BootInit PROVE Copy
  OBVIOUS
<1>1. at = "idt" /\ cur = 1 /\ n_mem_ranges = 0 /\ mmap = <<>> /\ machine \in Machines
  BY DEF BootInit
<1>2. Len(machine.regions) \in Nat /\ UsableUpTo(0) = 0
  BY <1>1, Counting
<1> QED BY <1>1, <1>2 DEF Copy, MapCopied

LEMMA CopyStep ==
  ASSUME machine \in Machines, Copy, [BootNext]_<<vars, boot_vars>>
  PROVE  Copy'
<1> DEFINE L == Len(machine.regions)
<1>1. machine' = machine /\ (BootStep \/ UNCHANGED boot_vars)
  BY SameMachine
<1>2. \A k : UsableUpTo(k)' = UsableUpTo(k)
  BY <1>1 DEF UsableUpTo
<1>3. /\ L \in Nat /\ DOMAIN machine.regions = 1..L /\ UsableUpTo(0) = 0
      /\ \A k \in Nat : UsableUpTo(k) \in Nat
  BY Counting
<1>4. CASE UNCHANGED boot_vars
  BY <1>2, <1>4 DEF boot_vars, Copy, MapCopied
<1>5. CASE BootIdt \/ BootMalloc
  BY <1>1, <1>2, <1>5 DEF BootIdt, BootMalloc, Boot, Copy, MapCopied
<1>6. CASE BootCount
  <2>1. /\ at = "count" /\ at' = "count" /\ cur <= L /\ cur' = cur + 1 /\ mmap' = mmap
        /\ n_mem_ranges' = n_mem_ranges + IF Usable(machine.regions[cur]) THEN 1 ELSE 0
    BY <1>6 DEF BootCount, Boot
  <2>2. cur \in 1..(L + 1) /\ mmap = <<>> /\ n_mem_ranges = UsableUpTo(cur - 1)
    BY <2>1 DEF Copy
  <2>3. cur \in Nat \ {0} /\ (cur + 1) - 1 = cur
    BY <1>3, <2>2
  <2>4. n_mem_ranges' = UsableUpTo(cur)
    BY <2>1, <2>2, <2>3, Counting
  <2>5. cur' \in 1..(L + 1) /\ cur' - 1 = cur
    <3>1. L \in Nat /\ cur \in 1..(L + 1) /\ cur <= L /\ cur' = cur + 1
      BY <1>3, <2>1, <2>2
    <3> HIDE DEF L
    <3> QED BY <3>1
  <2> QED BY <1>1, <1>2, <2>1, <2>2, <2>4, <2>5 DEF Copy, MapCopied
<1>7. CASE BootMap
  <2>1. /\ at = "count" /\ at' = "copy" /\ cur > L /\ cur' = 1 /\ mmap' = mmap
        /\ n_mem_ranges' = n_mem_ranges
    BY <1>7 DEF BootMap, Boot
  <2>2. cur \in 1..(L + 1) /\ mmap = <<>> /\ n_mem_ranges = UsableUpTo(cur - 1)
    BY <2>1 DEF Copy
  <2>3. cur - 1 = L /\ cur' - 1 = 0 /\ cur' \in 1..(L + 1)
    BY <1>3, <2>1, <2>2
  <2>4. n_mem_ranges' = UsableUpTo(L) /\ Len(mmap') = UsableUpTo(cur' - 1)
    BY <1>3, <2>1, <2>2, <2>3
  <2>5. \A k : k \notin 1..(cur' - 1)
    BY <2>3
  <2> QED BY <1>1, <1>2, <2>1, <2>2, <2>3, <2>4, <2>5 DEF Copy, MapCopied
<1>8. CASE BootCopy
  <2> DEFINE x == NextUsable
             r == machine.regions[x]
  <2>1. /\ at = "copy" /\ at' = "copy" /\ cur' = x + 1 /\ mmap' = Append(mmap, r)
        /\ n_mem_ranges' = n_mem_ranges /\ Len(mmap) < n_mem_ranges
    BY <1>8 DEF BootCopy, Boot
  <2>2. /\ x \in cur..L /\ Usable(r)
        /\ \A k \in cur..(x - 1) : ~Usable(machine.regions[k])
    BY <2>1, NextFound
  <2> HIDE DEF x
  <2>3. /\ cur \in 1..(L + 1) /\ n_mem_ranges = UsableUpTo(L) /\ mmap \in Seq(Range(machine.regions))
        /\ \A k \in DOMAIN mmap : Usable(mmap[k])
        /\ Len(mmap) = UsableUpTo(cur - 1)
        /\ \A k \in 1..(cur - 1) : Usable(machine.regions[k]) => mmap[UsableUpTo(k)] = machine.regions[k]
    BY <2>1 DEF Copy
  <2>4. x \in Nat \ {0} /\ x - 1 \in Nat /\ cur - 1 \in Nat /\ cur - 1 <= x - 1 /\ (cur - 1) + 1 = cur
    BY <1>3, <2>2, <2>3
  <2>5. UsableUpTo(x - 1) = UsableUpTo(cur - 1)
    BY <2>2, <2>4, Counting
  <2>6. UsableUpTo(x) = Len(mmap) + 1
    BY <2>2, <2>3, <2>4, <2>5, Counting
  <2>7. r \in Range(machine.regions)
    <3>1. x \in DOMAIN machine.regions
      BY <1>3, <2>2, <2>3
    <3> QED BY <3>1 DEF Range
  <2> HIDE DEF r
  <2>8. /\ mmap' \in Seq(Range(machine.regions)) /\ Len(mmap') = UsableUpTo(x)
        /\ DOMAIN mmap' = 1..(Len(mmap) + 1) /\ DOMAIN mmap = 1..Len(mmap) /\ Len(mmap) \in Nat
        /\ mmap'[Len(mmap) + 1] = r
        /\ \A k \in 1..Len(mmap) : mmap'[k] = mmap[k]
    BY <2>1, <2>3, <2>6, <2>7
  <2>9. \A k \in DOMAIN mmap' : Usable(mmap'[k])
    <3>1. \A k \in 1..(Len(mmap) + 1) : k = Len(mmap) + 1 \/ k \in 1..Len(mmap)
      BY <2>8
    <3> QED BY <2>2, <2>3, <2>8, <3>1 DEF r
  <2>10. ASSUME NEW k \in 1..x, Usable(machine.regions[k])
         PROVE  mmap'[UsableUpTo(k)] = machine.regions[k]
    <3>1. CASE k = x
      BY <2>6, <2>8, <3>1 DEF r
    <3>2. CASE k # x
      <4>1. k \in 1..(x - 1) /\ k \in Nat \ {0} /\ k - 1 \in Nat
        BY <2>4, <3>2
      <4>2. k \notin cur..(x - 1)
        BY <2>2, <2>10
      <4>3. k \in 1..(cur - 1)
        BY <2>3, <2>4, <4>1, <4>2
      <4>4. UsableUpTo(k) = UsableUpTo(k - 1) + 1
        BY <2>10, <4>1, Counting
      <4>5. UsableUpTo(k) <= UsableUpTo(cur - 1)
        BY <2>4, <4>1, <4>3, Counting
      <4>6. UsableUpTo(k) \in 1..Len(mmap)
        BY <1>3, <2>3, <2>8, <4>1, <4>4, <4>5
      <4> QED BY <2>3, <2>8, <2>10, <4>3, <4>6
    <3> QED BY <3>1, <3>2
  <2>11. cur' - 1 = x /\ cur' \in 1..(L + 1)
    <3>1. L \in Nat /\ cur \in 1..(L + 1) /\ x \in cur..L /\ cur' = x + 1
      BY <1>3, <2>1, <2>2, <2>3
    <3> HIDE DEF L
    <3> QED BY <3>1
  <2> QED BY <1>1, <1>2, <2>1, <2>3, <2>8, <2>9, <2>10, <2>11 DEF Copy, MapCopied
<1>9. CASE BootCopyFault
  BY <1>1, <1>2, <1>9 DEF BootCopyFault, Boot, Copy, MapCopied
<1>10. CASE BootPhysical
  <2>1. at = "copy" /\ at' = "virtual" /\ Len(mmap) = n_mem_ranges /\ UNCHANGED <<cur, n_mem_ranges, mmap>>
    BY <1>10 DEF BootPhysical, Boot
  <2>2. /\ cur \in 1..(L + 1) /\ n_mem_ranges = UsableUpTo(L)
        /\ Len(mmap) = UsableUpTo(cur - 1)
        /\ \A k \in 1..(cur - 1) : Usable(machine.regions[k]) => mmap[UsableUpTo(k)] = machine.regions[k]
    BY <2>1 DEF Copy
  <2>3. ASSUME NEW k \in 1..L, Usable(machine.regions[k])
        PROVE  k \in 1..(cur - 1)
    <3>1. CASE k >= cur
      <4>1. k \in Nat \ {0} /\ k - 1 \in Nat /\ cur - 1 \in Nat /\ cur - 1 <= k - 1 /\ k <= L
        BY <1>3, <2>2, <3>1
      <4>2. UsableUpTo(k) = UsableUpTo(k - 1) + 1
        BY <2>3, <4>1, Counting
      <4>3. UsableUpTo(cur - 1) <= UsableUpTo(k - 1) /\ UsableUpTo(k) <= UsableUpTo(L)
        BY <1>3, <4>1, Counting
      <4> QED BY <1>3, <2>1, <2>2, <4>1, <4>2, <4>3
    <3> QED BY <1>3, <2>2, <3>1
  <2>4. MapCopied'
    BY <1>1, <1>2, <1>3, <2>1, <2>2, <2>3 DEF MapCopied
  <2> QED BY <1>1, <1>2, <2>1, <2>4 DEF Copy
<1>11. CASE BootVirtual \/ BootWrite \/ BootRead
  BY <1>1, <1>2, <1>11 DEF BootVirtual, BootWrite, BootRead, BootTest, Boot, Copy, MapCopied
<1> QED BY <1>1, <1>4, <1>5, <1>6, <1>7, <1>8, <1>9, <1>10, <1>11 DEF BootStep

\* Every instruction of the model is one action.
LEMMA Actions ==
  ASSUME BootNext
  PROVE  \/ Fault \/ CreateFault \/ BootCopyFault
         \/ CreatePdpt \/ CreatePd \/ CreatePt
         \/ HandleHalt \/ HandleAllocate \/ HandleFault \/ HandleEntry
         \/ Touch \/ MapCheck \/ MapEntry \/ UnmapEntry \/ UnmapSkip \/ UnmapDone \/ Set \/ Return
         \/ \E n \in Vectors : Interrupt(n)
         \/ (at = "up" /\ UNCHANGED boot_vars /\ \E c \in Calls : Call(c))
         \/ BootIdt \/ BootMalloc \/ BootCount \/ BootMap \/ BootCopy \/ BootVirtual
         \/ BootPhysical \/ BootWrite \/ BootRead
         \/ UNCHANGED <<vars, boot_vars>>
BY DEF BootNext, PagingStep, Step, BootStep, Stopped

LEMMA ZeroPage == 0 \in Pages /\ NoPage \notin Pages
<1>1. Slots * (Slots * Slots * Slots) > 0
  <2>1. Slots \in Nat \ {0}
    BY SlotsType
  <2>2. Slots * Slots \in Nat \ {0}
    BY <2>1
  <2>3. Slots * Slots * Slots \in Nat \ {0}
    BY <2>1, <2>2
  <2> QED BY <2>1, <2>3
<1>2. NPages = Slots * (Slots * Slots * Slots) /\ Slots \in Nat
  BY Spans, SlotsType DEF NPages
<1>3. NPages \in Nat /\ NPages > 0
  BY <1>1, <1>2
<1> QED BY <1>3 DEF Pages, NoPage

LEMMA TrapTypes ==
  ASSUME Types, NEW page \in Pages, Trap(page), machine' = machine, pc \in Instruction \union {"idle"}
  PROVE  Types'
<1>1. /\ UNCHANGED <<mem, free, tlb, pfaulting, new_page, call, i, spoilt, byhand>>
      /\ cr2' = page /\ resume' = pc /\ pc' = "handle"
  BY DEF Trap
<1>2. CallType'
  BY <1>1 DEF Types, CallType
<1>3. HandlerType'
  BY <1>1 DEF Types, HandlerType, Handling, Creating, Instruction, Stops
<1> QED BY <1>1, <1>2, <1>3 DEF Types

\* A step of mem_create_pagetable().
LEMMA CreateTypes ==
  ASSUME Types, NEW here \in Creating, NEW level \in 1..4, NEW next \in Following,
         Create(here, level, next), machine' = machine,
         next = "fault_entry" => pfaulting, next = "map_entry" => ~pfaulting
  PROVE  Types'
<1>1. /\ pc = here /\ pc' = next
      /\ UNCHANGED <<tlb, byhand, pfaulting, cr2, new_page, resume, call, i>>
  BY DEF Create, handler_vars, call_vars
<1>2. Target \in Pages /\ pc \in Instruction
  BY <1>1, AccessedPage DEF Creating, Following, Instruction
<1>3. /\ IsMem(mem') /\ DOMAIN mem' = DOMAIN mem /\ free' \subseteq free /\ spoilt' \in BOOLEAN
  <2>1. CASE UNCHANGED table_vars
    BY <2>1 DEF table_vars, Types
  <2>2. CASE /\ free # {} /\ TakeFrame(NextFrame)
             /\ mem' = Store(Target, level, NewTable(NextFrame))
             /\ spoilt' = (spoilt \/ Spoils(NextFrame))
    <3>1. NewTable(NextFrame) \in Entry
      BY <2>2, NextFrameFree, NewEntries
    <3>2. IsMem(mem') /\ DOMAIN mem' = DOMAIN mem
      <4>1. IsMem(mem)
        BY DEF Types
      <4> QED BY <1>2, <2>2, <3>1, <4>1, StoreMem
    <3>3. spoilt' \in BOOLEAN
      BY <2>2
    <3> QED BY <2>2, <3>2, <3>3 DEF TakeFrame
  <2> QED BY <2>1, <2>2 DEF Create
<1>4. CallType'
  BY <1>1 DEF Types, CallType
<1>5. HandlerType'
  <2>1. pc \in Handling /\ pc' \in Handling \union {"map_entry"} /\ pc' # "handle" /\ pc' \notin Stops
    BY <1>1 DEF Handling, Creating, Following, Stops
  <2>2. pfaulting => pc' \in Handling
    BY <1>1, <2>1
  <2>3. pc' = "fault_entry" => pfaulting
    BY <1>1
  <2>4. pc # "handle" /\ pc \notin Stops
    BY <1>1 DEF Creating, Following, Stops
  <2> QED BY <1>1, <1>3, <2>1, <2>2, <2>3, <2>4, Zenon DEF Types, HandlerType
<1>6. pc' \in Instruction
  BY <1>1 DEF Creating, Following, Instruction
<1> QED BY <1>1, <1>3, <1>4, <1>5, <1>6 DEF Types

\* An entry of the last level is written.
LEMMA WriteTypes ==
  ASSUME Types, NEW v \in Pages, NEW e \in Entry, mem' = Store(v, 1, e)
  PROVE  IsMem(mem') /\ DOMAIN mem' = DOMAIN mem
<1>1. IsMem(mem)
  BY DEF Types
<1> QED BY <1>1, StoreMem

LEMMA CallsTyped ==
  Calls \union {TestTouch} \subseteq [op : Ops, page : Pages, frame : Nat, n : Nat, flags : SUBSET Flags]
<1>1. TestTouch \in [op : Ops, page : Pages, frame : Nat, n : Nat, flags : SUBSET Flags]
  BY KernelAssumption DEF TestTouch, Ops
<1> QED BY <1>1, PagingAssumption

LEMMA AdvanceTypes ==
  ASSUME Types, i < call.n, Advance
  PROVE  CallType'
<1>1. /\ call \in [op : Ops \union {"none"}, page : Pages, frame : Nat, n : Nat, flags : SUBSET Flags]
      /\ i \in 0..call.n /\ call.n \in Nat
  BY DEF Types, CallType
<1>2. /\ i' = i + 1
      /\ call' = [call EXCEPT !.page = (call.page + 1) % NPages, !.frame = call.frame + 1]
  BY DEF Advance
<1>3. \A v \in Pages : (v + 1) % NPages \in Pages
  <2>1. NPages \in Nat \ {0}
    <3>1. Slots \in Nat
      BY SlotsType
    <3>2. NPages \in Nat
      BY <3>1, Spans DEF NPages
    <3> QED BY <3>2, ZeroPage DEF Pages
  <2> QED BY <2>1 DEF Pages
<1>4. call.page \in Pages /\ call.frame + 1 \in Nat
  BY <1>1
<1>5. call' \in [op : Ops \union {"none"}, page : Pages, frame : Nat, n : Nat, flags : SUBSET Flags]
  BY <1>1, <1>2, <1>3, <1>4
<1>6. i' \in 0..call'.n
  BY <1>1, <1>2
<1> QED BY <1>5, <1>6 DEF CallType

LEMMA TypesInit == BootInit => Types
<1> SUFFICES ASSUME BootInit PROVE Types
  OBVIOUS
<1>1. PICK M \in Machines : machine = M /\ InitWith(M.memory)
  BY DEF BootInit
<1>2. /\ \A f \in DOMAIN M.memory : f \in Nat \ {0} /\ M.memory[f] \in Table
      /\ \A f \in DOMAIN BootTables : f \in Nat /\ BootTables[f] \in Table
      /\ Root \in DOMAIN BootTables
  BY KernelAssumption, PagingAssumption
<1>3. DOMAIN mem = DOMAIN BootTables \union DOMAIN M.memory
  BY <1>1 DEF InitWith
<1>4. \A f \in DOMAIN mem : mem[f] \in Table
  BY <1>1, <1>2, <1>3 DEF InitWith
<1>5. mem = [f \in DOMAIN mem |-> mem[f]]
  BY <1>1, <1>3 DEF InitWith
<1>6. IsMem(mem)
  BY <1>2, <1>3, <1>4, <1>5 DEF IsMem
<1>7. CallType
  BY <1>1, ZeroPage DEF InitWith, CallType, NoCall
<1>8. HandlerType
  BY <1>1 DEF InitWith, HandlerType, Handling, Creating
<1> QED BY <1>1, <1>3, <1>6, <1>7, <1>8 DEF BootInit, InitWith, Types

LEMMA TypesStep ==
  ASSUME Types, Runs, Copy, [BootNext]_<<vars, boot_vars>>
  PROVE  Types'
<1> USE DEF handler_vars, table_vars, call_vars
<1>1. machine' = machine
  BY SameMachine
<1>2. CASE Fault
  <2>1. pc \in Instruction /\ Trap(Accessed)
    BY <1>2 DEF Fault
  <2> QED BY <1>1, <2>1, AccessedPage, TrapTypes
<1>3. CASE CreateFault
  <2>1. Trap(0) /\ pc \in Instruction
    BY <1>3 DEF CreateFault, Instruction
  <2> QED BY <1>1, <2>1, ZeroPage, TrapTypes
<1>4. CASE BootCopyFault
  <2>1. Trap(0) /\ pc = "idle"
    BY <1>4 DEF BootCopyFault, Boot
  <2> QED BY <1>1, <2>1, ZeroPage, TrapTypes
<1>5. CASE CreatePdpt
  <2>1. Create("pml4e", 4, "pdpte")
    BY <1>5 DEF CreatePdpt
  <2>2. "pml4e" \in Creating /\ "pdpte" \in Following
    BY DEF Creating, Following
  <2>3. 4 \in 1..4 /\ "pdpte" # "fault_entry" /\ "pdpte" # "map_entry"
    OBVIOUS
  <2> QED BY <1>1, <2>1, <2>2, <2>3, CreateTypes
<1>6. CASE CreatePd
  <2>1. Create("pdpte", 3, "pde")
    BY <1>6 DEF CreatePd
  <2>2. "pdpte" \in Creating /\ "pde" \in Following
    BY DEF Creating, Following
  <2>3. 3 \in 1..4 /\ "pde" # "fault_entry" /\ "pde" # "map_entry"
    OBVIOUS
  <2> QED BY <1>1, <2>1, <2>2, <2>3, CreateTypes
<1>7. CASE CreatePt
  <2> DEFINE next == IF pfaulting THEN "fault_entry" ELSE "map_entry"
  <2>1. Create("pde", 2, next)
    BY <1>7 DEF CreatePt
  <2>2. "pde" \in Creating /\ next \in Following
    BY DEF Creating, Following
  <2>3. 2 \in 1..4 /\ (next = "fault_entry" => pfaulting) /\ (next = "map_entry" => ~pfaulting)
    OBVIOUS
  <2> HIDE DEF next
  <2> QED BY <1>1, <2>1, <2>2, <2>3, CreateTypes
<1>8. CASE HandleHalt
  <2>1. CallType'
    BY <1>8 DEF HandleHalt, Types, CallType
  <2>2. HandlerType'
    BY <1>8 DEF HandleHalt, Types, HandlerType, Handling, Creating, Stops
  <2> QED BY <1>1, <1>8, <2>1, <2>2 DEF HandleHalt, Types, Stops
<1>9. CASE HandleAllocate
  <2>1. /\ pc = "handle" /\ ~pfaulting /\ pfaulting' = TRUE /\ new_page' = NextFrame
        /\ free # {} /\ free' = free \ {NextFrame}
        /\ pc' \in {"fault_entry", "pml4e"}
        /\ UNCHANGED <<mem, spoilt, tlb, byhand, cr2, resume, call, i>>
    BY <1>9 DEF HandleAllocate, TakeFrame
  <2>2. NextFrame \in DOMAIN mem /\ NextFrame \in Nat
    BY <2>1, NextFrameFree
  <2>3. CallType'
    BY <2>1 DEF Types, CallType
  <2>4. pc' \in Handling /\ pc' \in Instruction
    BY <2>1 DEF Handling, Creating, Instruction
  <2>5. HandlerType'
    BY <2>1, <2>2, <2>4 DEF Types, HandlerType
  <2> QED BY <1>1, <2>1, <2>3, <2>4, <2>5 DEF Types
<1>10. CASE HandleFault
  <2>1. CallType'
    BY <1>10 DEF HandleFault, Types, CallType
  <2>2. HandlerType'
    BY <1>10, ZeroPage DEF HandleFault, Types, HandlerType, Handling, Creating, Stops
  <2> QED BY <1>1, <1>10, <2>1, <2>2 DEF HandleFault, Types
<1>11. CASE HandleEntry
  <2>1. /\ pc = "fault_entry" /\ pfaulting' = FALSE /\ cr2' = NoPage /\ new_page' = NoFrame
        /\ resume' = "idle" /\ pc' = resume /\ UNCHANGED <<free, call, i>>
        /\ mem' = Store(cr2, 1, [frame |-> new_page, flags |-> {"present"}])
        /\ spoilt' = (spoilt \/ new_page \in DOMAIN BootTables \/ (InWindow(cr2) /\ Spoils(new_page)))
        /\ tlb' = Refreshed(cr2) /\ byhand' = byhand \ {cr2}
    BY <1>11 DEF HandleEntry, GuardDown
  <2>2. pfaulting /\ new_page \in DOMAIN mem /\ cr2 \in Pages /\ resume \in Instruction \union {"idle"}
    BY <2>1 DEF Types, HandlerType, Handling
  <2>3. new_page \in Nat
    BY <2>2 DEF Types, IsMem
  <2>4. IsMem(mem') /\ DOMAIN mem' = DOMAIN mem
    BY <2>1, <2>2, <2>3, NewEntries, WriteTypes
  <2>5. CallType'
    BY <2>1 DEF Types, CallType
  <2>6. resume # "fault_entry"
    BY <2>1, <2>2 DEF Runs, Fits, Handling
  <2>7. HandlerType'
    BY <2>1, <2>2, <2>6 DEF HandlerType, Instruction
  <2>8. spoilt' \in BOOLEAN
    BY <2>1
  <2>9. tlb' \subseteq Pages \X Nat /\ byhand' \subseteq Pages
    BY <2>1 DEF Types, Refreshed
  <2> QED BY <1>1, <2>1, <2>2, <2>4, <2>5, <2>7, <2>8, <2>9 DEF Types
<1>12. CASE Touch
  <2>1. PICK f \in {t[2] : t \in {u \in tlb : u[1] = call.page}} \union ({Walk(mem, call.page)} \ {NoFrame}) :
          tlb' = tlb \union {<<call.page, f>>}
    BY <1>12 DEF Touch
  <2>2. call.page \in Pages /\ tlb \subseteq Pages \X Nat
    BY DEF Types, CallType
  <2>3. f \in Nat
    <3>1. Walk(mem, call.page) \in Nat \union {NoFrame}
      <4>1. At(mem, call.page, 0) \in Nat \union {NoFrame}
        BY <2>2, WalkEnds DEF Types
      <4> QED BY <4>1, Down
    <3> QED BY <2>1, <2>2, <3>1
  <2>4. tlb' \subseteq Pages \X Nat
    BY <2>1, <2>2, <2>3
  <2>5. CallType' /\ HandlerType'
    BY <1>12 DEF Touch, Types, CallType, HandlerType, Handling, Creating, Stops
  <2> QED BY <1>1, <1>12, <2>4, <2>5 DEF Touch, Types
<1>13. CASE MapCheck
  <2>1. pc = "map" /\ pc' \in {"return", "map_entry", "pml4e"}
        /\ UNCHANGED <<tlb, byhand, mem, free, spoilt, pfaulting, cr2, new_page, resume, call, i>>
    BY <1>13 DEF MapCheck
  <2>2. CallType'
    BY <2>1 DEF Types, CallType
  <2>3. ~pfaulting
    BY <2>1 DEF Types, HandlerType, Handling, Creating, Stops
  <2>4. HandlerType'
    BY <2>1, <2>3 DEF Types, HandlerType
  <2> QED BY <1>1, <2>1, <2>2, <2>4 DEF Types, Instruction
<1>14. CASE MapEntry
  <2>1. /\ pc = "map_entry" /\ mem' = Store(call.page, 1, [frame |-> call.frame, flags |-> call.flags])
        /\ tlb' = Refreshed(call.page) /\ byhand' = byhand \ {call.page} /\ Advance /\ pc' = "map"
        /\ UNCHANGED <<free, spoilt, pfaulting, cr2, new_page, resume>>
    BY <1>14 DEF MapEntry
  <2>2. ~pfaulting
    BY <2>1 DEF Types, HandlerType, Handling, Creating, Stops
  <2>3. i < call.n
    BY <2>1, <2>2 DEF Runs, Fits, Stops
  <2>4. call.page \in Pages
    BY DEF Types, CallType
  <2>5. IsMem(mem') /\ DOMAIN mem' = DOMAIN mem
    BY <2>1, <2>4, NewEntries, WriteTypes
  <2>6. CallType'
    BY <2>1, <2>3, AdvanceTypes
  <2>7. HandlerType'
    BY <2>1, <2>2 DEF Types, HandlerType
  <2> QED BY <1>1, <2>1, <2>5, <2>6, <2>7 DEF Types, Refreshed
<1>15. CASE UnmapEntry
  <2>1. /\ pc = "unmap" /\ i < call.n /\ mem' = Store(call.page, 1, Zero)
        /\ tlb' = Refreshed(call.page) /\ byhand' = byhand \ {call.page} /\ Advance
        /\ UNCHANGED <<free, spoilt, pc, pfaulting, cr2, new_page, resume>>
    BY <1>15 DEF UnmapEntry
  <2>2. ~pfaulting
    BY <2>1 DEF Types, HandlerType, Handling, Creating, Stops
  <2>4. call.page \in Pages
    BY DEF Types, CallType
  <2>5. IsMem(mem') /\ DOMAIN mem' = DOMAIN mem
    BY <2>1, <2>4, NewEntries, WriteTypes
  <2>6. CallType'
    BY <2>1, AdvanceTypes
  <2>7. HandlerType'
    BY <2>1, <2>2 DEF Types, HandlerType
  <2> QED BY <1>1, <2>1, <2>5, <2>6, <2>7 DEF Types, Refreshed
<1>16. CASE UnmapSkip
  <2>1. CallType'
    BY <1>16 DEF UnmapSkip, Types, CallType
  <2>2. HandlerType'
    BY <1>16 DEF UnmapSkip, Types, HandlerType, Handling
  <2> QED BY <1>1, <1>16, <2>1, <2>2 DEF UnmapSkip, Types
<1>17. CASE UnmapDone
  <2>1. CallType'
    BY <1>17 DEF UnmapDone, Types, CallType
  <2>2. HandlerType'
    BY <1>17 DEF UnmapDone, Types, HandlerType, Handling, Creating, Stops
  <2> QED BY <1>1, <1>17, <2>1, <2>2 DEF UnmapDone, Types
<1>18. CASE Set
  <2>1. /\ pc = "access" /\ call.op # "touch" /\ mem' = Store(call.page, 1, SetTo)
        /\ byhand' = byhand \union {call.page} /\ pc' = "return"
        /\ UNCHANGED <<free, spoilt, tlb, pfaulting, cr2, new_page, resume, call, i>>
    BY <1>18 DEF Set
  <2>2. ~pfaulting
    BY <2>1 DEF Types, HandlerType, Handling, Creating, Stops
  <2>3. call.op \in {"set_entry", "set_frame", "set_flags"}
    BY <2>1, <2>2 DEF Runs, Fits, Stops, Ops
  <2>4. call.page \in Pages
    BY DEF Types, CallType
  <2>5. IsMem(mem') /\ DOMAIN mem' = DOMAIN mem
    BY <2>1, <2>3, <2>4, SetEntries, WriteTypes
  <2>6. CallType'
    BY <2>1 DEF Types, CallType
  <2>7. HandlerType'
    BY <2>1, <2>2 DEF Types, HandlerType
  <2> QED BY <1>1, <2>1, <2>4, <2>5, <2>6, <2>7 DEF Types
<1>19. CASE Return
  <2>1. CallType'
    BY <1>19, ZeroPage DEF Return, Types, CallType, NoCall
  <2>2. HandlerType'
    BY <1>19 DEF Return, Types, HandlerType, Handling, Creating, Stops
  <2> QED BY <1>1, <1>19, <2>1, <2>2 DEF Return, Types
<1>20. CASE \E n \in Vectors : Interrupt(n)
  <2>1. /\ pc' \in {"trapped", "reset"}
        /\ UNCHANGED <<tlb, byhand, mem, free, spoilt, pfaulting, cr2, new_page, resume, call, i>>
    BY <1>20 DEF Interrupt
  <2>2. CallType'
    BY <2>1 DEF Types, CallType
  <2>3. HandlerType'
    BY <2>1 DEF Types, HandlerType, Handling, Creating, Stops
  <2> QED BY <1>1, <2>1, <2>2, <2>3 DEF Types, Stops
<1>21. CASE \/ at = "up" /\ UNCHANGED boot_vars /\ \E c \in Calls : Call(c)
            \/ BootWrite \/ BootRead
  <2>1. PICK c \in Calls \union {TestTouch} : Call(c)
    BY <1>21 DEF BootWrite, BootRead, BootTest
  <2>2. /\ pc = "idle" /\ call' = c /\ i' = 0 /\ pc' \in {"map", "unmap", "access"}
        /\ UNCHANGED <<tlb, byhand, mem, free, spoilt, pfaulting, cr2, new_page, resume>>
    BY <2>1 DEF Call
  <2>3. c \in [op : Ops, page : Pages, frame : Nat, n : Nat, flags : SUBSET Flags]
    BY CallsTyped
  <2>4. CallType'
    BY <2>2, <2>3 DEF CallType
  <2>5. ~pfaulting
    BY <2>2 DEF Types, HandlerType, Handling, Creating, Stops
  <2>6. HandlerType'
    BY <2>2, <2>5 DEF Types, HandlerType
  <2> QED BY <1>1, <2>2, <2>4, <2>6 DEF Types, Instruction
<1>22. CASE \/ BootIdt \/ BootMalloc \/ BootCount \/ BootMap \/ BootCopy \/ BootVirtual
            \/ UNCHANGED <<vars, boot_vars>>
  <2>1. UNCHANGED vars
    BY <1>22 DEF BootIdt, BootMalloc, BootCount, BootMap, BootCopy, BootVirtual, paging_vars
  <2>2. CallType'
    BY <2>1 DEF vars, Types, CallType
  <2>3. HandlerType'
    BY <2>1 DEF vars, Types, HandlerType
  <2> QED BY <1>1, <2>1, <2>2, <2>3 DEF vars, Types
<1>23. CASE BootPhysical
  <2>1. /\ free' = UNION {FramesOf(r) : r \in Range(mmap)} /\ at = "copy"
        /\ UNCHANGED <<mem, spoilt, tlb, byhand, pfaulting, cr2, new_page, resume, call, i, pc>>
    BY <1>23 DEF BootPhysical, Boot
  <2>2. ASSUME NEW r \in Range(mmap)
        PROVE  FramesOf(r) \subseteq DOMAIN mem
    <3>1. PICK k \in DOMAIN mmap : r = mmap[k]
      BY <2>2 DEF Range
    <3>2. r \in Range(machine.regions) /\ Usable(r)
      BY <3>1 DEF Copy
    <3>3. machine \in Machines /\ DOMAIN mem = DOMAIN BootTables \union DOMAIN machine.memory
      BY DEF Types
    <3> QED BY <3>2, <3>3, MemoryAssumption
  <2>3. free' \subseteq DOMAIN mem
    BY <2>1, <2>2
  <2>4. CallType'
    BY <2>1 DEF Types, CallType
  <2>5. HandlerType'
    BY <2>1 DEF Types, HandlerType
  <2> QED BY <1>1, <2>1, <2>3, <2>4, <2>5 DEF Types
<1>24. BootNext \/ UNCHANGED <<vars, boot_vars>>
  OBVIOUS
<1> HIDE DEF handler_vars, table_vars, call_vars
<1> QED BY <1>2, <1>3, <1>4, <1>5, <1>6, <1>7, <1>8, <1>9, <1>10, <1>11, <1>12, <1>13, <1>14,
           <1>15, <1>16, <1>17, <1>18, <1>19, <1>20, <1>21, <1>22, <1>23, <1>24, Actions

(***************************************************************************)
(* The call that runs.                                                     *)
(***************************************************************************)

LEMMA RunsInit == BootInit => Runs
BY DEF BootInit, InitWith, Runs, Fits, NoCall, Handling, Creating, Stops

LEMMA TrapRuns ==
  ASSUME Types, Runs, NEW page, Trap(page), pc \in Instruction \union {"idle"}
  PROVE  Runs'
<1>1. UNCHANGED <<pfaulting, call, i>> /\ resume' = pc /\ pc' = "handle"
  BY DEF Trap
<1>2. ~pfaulting => Fits(pc)
  BY DEF Runs, Instruction, Stops
<1>3. ~pfaulting => Fits(resume)'
  BY <1>1, <1>2 DEF Fits
<1> QED BY <1>1, <1>3 DEF Runs, Handling, Creating

LEMMA CreateRuns ==
  ASSUME Runs, NEW here \in Creating, NEW level, NEW next \in Following,
         Create(here, level, next), next = "fault_entry" => pfaulting, next = "map_entry" => ~pfaulting
  PROVE  Runs'
<1>1. pc = here /\ pc' = next /\ UNCHANGED <<pfaulting, resume, call, i>>
  BY DEF Create, handler_vars, call_vars
<1>2. CASE pfaulting
  <2>1. pc \in Handling /\ pc' \in Handling
    BY <1>1, <1>2 DEF Handling, Creating, Following
  <2>2. Fits(resume)
    BY <1>2, <2>1 DEF Runs
  <2>3. Fits(resume)'
    BY <1>1, <2>2 DEF Fits
  <2> QED BY <1>1, <1>2, <2>1, <2>3 DEF Runs
<1>3. CASE ~pfaulting
  <2>1. pc \in Creating /\ pc \notin Stops \union {"handle"}
    BY <1>1 DEF Creating, Following, Stops
  <2>2. call.op = "map" /\ i < call.n
    BY <1>3, <2>1 DEF Runs, Fits
  <2>3. pc' \in Creating \union {"map_entry"}
    BY <1>1, <1>3 DEF Creating, Following
  <2>4. call'.op = "map" /\ i' < call'.n
    BY <1>1, <2>2
  <2>5. Fits(pc)'
    BY <2>3, <2>4 DEF Fits, Creating
  <2>6. pc' # "handle"
    BY <2>3 DEF Creating, Following
  <2> QED BY <1>1, <1>3, <2>5, <2>6 DEF Runs
<1> QED BY <1>2, <1>3

\* A step that is not a step of the handler.
LEMMA PlainRuns ==
  ASSUME ~pfaulting', Fits(pc)', pc' # "handle"
  PROVE  Runs'
BY DEF Runs

LEMMA RunsStep ==
  ASSUME Types, Runs, [BootNext]_<<vars, boot_vars>>
  PROVE  Runs'
<1> USE DEF handler_vars, table_vars, call_vars
<1>2. CASE Fault \/ CreateFault \/ BootCopyFault
  <2>1. PICK page : Trap(page) /\ pc \in Instruction \union {"idle"}
    BY <1>2 DEF Fault, CreateFault, BootCopyFault, Boot, Instruction
  <2> QED BY <2>1, TrapRuns
<1>5. CASE CreatePdpt
  <2>1. Create("pml4e", 4, "pdpte")
    BY <1>5 DEF CreatePdpt
  <2>2. "pml4e" \in Creating /\ "pdpte" \in Following
    BY DEF Creating, Following
  <2>3. "pdpte" # "fault_entry" /\ "pdpte" # "map_entry"
    OBVIOUS
  <2> QED BY <2>1, <2>2, <2>3, CreateRuns
<1>6. CASE CreatePd
  <2>1. Create("pdpte", 3, "pde")
    BY <1>6 DEF CreatePd
  <2>2. "pdpte" \in Creating /\ "pde" \in Following
    BY DEF Creating, Following
  <2>3. "pde" # "fault_entry" /\ "pde" # "map_entry"
    OBVIOUS
  <2> QED BY <2>1, <2>2, <2>3, CreateRuns
<1>7. CASE CreatePt
  <2> DEFINE next == IF pfaulting THEN "fault_entry" ELSE "map_entry"
  <2>1. Create("pde", 2, next)
    BY <1>7 DEF CreatePt
  <2>2. "pde" \in Creating /\ next \in Following
    BY DEF Creating, Following
  <2>3. (next = "fault_entry" => pfaulting) /\ (next = "map_entry" => ~pfaulting)
    OBVIOUS
  <2> HIDE DEF next
  <2> QED BY <2>1, <2>2, <2>3, CreateRuns
<1>8. CASE HandleHalt
  BY <1>8 DEF HandleHalt, Runs, Handling, Creating, Stops
<1>9. CASE HandleAllocate
  <2>1. /\ pc = "handle" /\ ~pfaulting /\ pfaulting' = TRUE /\ pc' \in {"fault_entry", "pml4e"}
        /\ UNCHANGED <<resume, call, i>>
    BY <1>9 DEF HandleAllocate
  <2>2. Fits(resume)'
    BY <2>1 DEF Runs, Fits
  <2> QED BY <2>1, <2>2 DEF Runs
<1>10. CASE HandleFault
  BY <1>10 DEF HandleFault, Runs, Handling, Creating
<1>11. CASE HandleEntry
  <2>1. /\ pc = "fault_entry" /\ pfaulting' = FALSE /\ pc' = resume /\ UNCHANGED <<call, i>>
    BY <1>11 DEF HandleEntry, GuardDown
  <2>2. pfaulting /\ resume \in Instruction \union {"idle"}
    BY <2>1 DEF Types, HandlerType
  <2>3. Fits(resume)
    BY <2>1, <2>2 DEF Runs, Handling
  <2>4. Fits(pc)'
    BY <2>1, <2>3 DEF Fits
  <2>5. pc' # "handle"
    BY <2>1, <2>2 DEF Instruction
  <2> QED BY <2>1, <2>4, <2>5, PlainRuns
<1> DEFINE Plain == {"access", "map_entry", "idle", "map", "unmap", "return"}
<1>12. ASSUME pc \in Plain PROVE ~pfaulting /\ Fits(pc)
  <2>1. ~pfaulting
    BY <1>12 DEF Types, HandlerType, Handling, Creating, Stops
  <2> QED BY <1>12, <2>1 DEF Runs, Stops
<1>13. CASE Touch \/ Set \/ UnmapDone
  <2>1. pc \in Plain /\ pc' = "return" /\ UNCHANGED pfaulting
    BY <1>13 DEF Touch, Set, UnmapDone
  <2>2. Fits(pc)'
    BY <2>1 DEF Fits, Creating
  <2> QED BY <1>12, <2>1, <2>2, PlainRuns
<1>14. CASE MapCheck
  <2>1. /\ pc = "map" /\ UNCHANGED <<pfaulting, call, i>>
        /\ pc' = IF i = call.n THEN "return"
                 ELSE IF mem_check_pagetable(call.page) THEN "map_entry" ELSE "pml4e"
    BY <1>14 DEF MapCheck
  <2>2. call.op = "map" /\ i \in 0..call.n /\ call.n \in Nat
    BY <1>12, <2>1 DEF Fits, Types, CallType
  <2>3. pc' \in {"map_entry", "pml4e"} => i < call.n
    <3>1. i = call.n => pc' = "return"
      BY <2>1, Zenon
    <3>2. pc' \in {"map_entry", "pml4e"} => i # call.n
      BY <3>1
    <3>3. i # call.n => i < call.n
      BY <2>2
    <3> QED BY <3>2, <3>3, Zenon
  <2>4. pc' \in {"return", "map_entry", "pml4e"}
    BY <2>1
  <2>5. Fits(pc)'
    BY <2>1, <2>2, <2>3, <2>4 DEF Fits, Creating
  <2> QED BY <1>12, <2>1, <2>4, <2>5, PlainRuns
<1>15. CASE MapEntry \/ UnmapEntry
  <2>1. /\ (pc = "map_entry" /\ pc' = "map") \/ (pc = "unmap" /\ pc' = "unmap")
        /\ Advance /\ UNCHANGED pfaulting
    BY <1>15 DEF MapEntry, UnmapEntry
  <2>2. call'.op = call.op
    BY <2>1 DEF Advance, Types, CallType
  <2>3. Fits(pc)'
    BY <1>12, <2>1, <2>2 DEF Fits, Creating
  <2> QED BY <1>12, <2>1, <2>3, PlainRuns
<1>16. CASE UnmapSkip
  <2>1. pc = "unmap" /\ UNCHANGED <<pc, call, pfaulting>>
    BY <1>16 DEF UnmapSkip
  <2>2. Fits(pc)'
    BY <1>12, <2>1 DEF Fits, Creating
  <2> QED BY <1>12, <2>1, <2>2, PlainRuns
<1>17. CASE Return
  <2>1. pc = "return" /\ pc' = "idle" /\ call' = NoCall /\ UNCHANGED pfaulting
    BY <1>17 DEF Return
  <2>2. Fits(pc)'
    BY <2>1 DEF Fits, Creating, NoCall
  <2> QED BY <1>12, <2>1, <2>2, PlainRuns
<1>18. CASE \E n \in Vectors : Interrupt(n)
  BY <1>18 DEF Interrupt, Runs, Stops, Handling, Creating
<1>19. CASE \/ at = "up" /\ UNCHANGED boot_vars /\ \E c \in Calls : Call(c)
            \/ BootWrite \/ BootRead
  <2>1. PICK c \in Calls \union {TestTouch} : Call(c)
    BY <1>19 DEF BootWrite, BootRead, BootTest
  <2>2. /\ pc = "idle" /\ call' = c /\ UNCHANGED pfaulting
        /\ pc' = IF c.op \in {"map", "unmap"} THEN c.op ELSE "access"
    BY <2>1 DEF Call
  <2>3. c.op \in Ops
    BY CallsTyped
  <2>4. Fits(pc)'
    BY <2>2, <2>3 DEF Fits, Creating
  <2>5. pc' # "handle"
    BY <2>2
  <2> QED BY <1>12, <2>2, <2>4, <2>5, PlainRuns
<1>20. CASE \/ BootIdt \/ BootMalloc \/ BootCount \/ BootMap \/ BootCopy \/ BootVirtual \/ BootPhysical
            \/ UNCHANGED <<vars, boot_vars>>
  <2>1. UNCHANGED <<pc, pfaulting, resume, call, i>>
    BY <1>20 DEF BootIdt, BootMalloc, BootCount, BootMap, BootCopy, BootVirtual, BootPhysical, paging_vars, vars
  <2> QED BY <2>1 DEF Runs, Fits
<1> HIDE DEF handler_vars, table_vars, call_vars
<1>21. BootNext \/ UNCHANGED <<vars, boot_vars>>
  OBVIOUS
<1> QED BY <1>2, <1>5, <1>6, <1>7, <1>8, <1>9, <1>10, <1>11, <1>13, <1>14, <1>15, <1>16, <1>17,
           <1>18, <1>19, <1>20, <1>21, Actions

(***************************************************************************)
(* The pages that are written, and the boot.                               *)
(***************************************************************************)

LEMMA RemainingInit == BootInit => Remaining
BY DEF BootInit, InitWith, Remaining, NoCall

LEMMA AdvanceRemains ==
  ASSUME Types, Remaining, i < call.n, Advance, call.op \in {"map", "unmap"}
  PROVE  Remaining'
<1>1. /\ call \in [op : Ops \union {"none"}, page : Pages, frame : Nat, n : Nat, flags : SUBSET Flags]
      /\ i \in 0..call.n /\ call.n \in Nat
  BY DEF Types, CallType
<1>2. /\ i' = i + 1
      /\ call' = [call EXCEPT !.page = (call.page + 1) % NPages, !.frame = call.frame + 1]
  BY DEF Advance
<1>3. call'.op = call.op /\ call'.n = call.n /\ call'.page = (call.page + 1) % NPages
  BY <1>1, <1>2
<1>4. \A v \in call.page..(call.page + (call.n - i) - 1) : v \in Pages /\ ~InWindow(v)
  BY DEF Remaining
<1>5. NPages \in Nat \ {0}
  <2>1. Slots \in Nat
    BY SlotsType
  <2>2. NPages \in Nat
    BY <2>1, Spans DEF NPages
  <2> QED BY <2>2, ZeroPage DEF Pages
<1>6. call.page \in 0..(NPages - 1)
  BY <1>1 DEF Pages
<1>7. ASSUME NEW v \in call'.page..(call'.page + (call'.n - i') - 1)
      PROVE  v \in Pages /\ ~InWindow(v)
  <2>1. call'.page \in Int
    BY <1>3, <1>5, <1>6
  <2>2. i + 1 < call.n
    BY <1>1, <1>2, <1>3, <2>1
  <2>3. call.page + 1 \in call.page..(call.page + (call.n - i) - 1)
    BY <1>1, <1>6, <2>2
  <2>4. call.page + 1 \in 0..(NPages - 1)
    BY <1>4, <2>3 DEF Pages
  <2>5. call'.page = call.page + 1
    BY <1>3, <1>5, <2>4
  <2>6. v \in call.page..(call.page + (call.n - i) - 1)
    BY <1>1, <1>2, <1>3, <1>6, <2>2, <2>5
  <2> QED BY <1>4, <2>6
<1>8. call'.op \notin {"set_entry", "set_frame", "set_flags"}
  BY <1>3
<1> QED BY <1>7, <1>8 DEF Remaining

LEMMA RemainingStep ==
  ASSUME Types, Runs, Remaining, [BootNext]_<<vars, boot_vars>>
  PROVE  Remaining'
<1> USE DEF handler_vars, table_vars, call_vars
<1>1. CASE UNCHANGED <<call, i>>
  BY <1>1 DEF Remaining
<1>2. CASE MapEntry \/ UnmapEntry
  <2>1. /\ pc \in {"map_entry", "unmap"} /\ Advance
        /\ pc = "unmap" => i < call.n
    BY <1>2 DEF MapEntry, UnmapEntry
  <2>2. ~pfaulting
    BY <2>1 DEF Types, HandlerType, Handling, Creating, Stops
  <2>3. i < call.n /\ call.op \in {"map", "unmap"}
    BY <2>1, <2>2 DEF Runs, Fits, Stops
  <2> QED BY <2>1, <2>3, AdvanceRemains
<1>3. CASE UnmapSkip
  <2>1. i < call.n /\ i' = i + 1 /\ call' = call /\ call.page \in Int /\ i \in Nat /\ call.n \in Nat
    <3>1. call.page \in Pages /\ i \in 0..call.n /\ call.n \in Nat
      BY DEF Types, CallType
    <3> QED BY <1>3, <3>1 DEF UnmapSkip, Pages
  <2>2. call.page..(call.page + (call.n - i') - 1) \subseteq call.page..(call.page + (call.n - i) - 1)
    BY <2>1
  <2> QED BY <2>1, <2>2 DEF Remaining
<1>4. CASE Return
  BY <1>4 DEF Return, Remaining, NoCall
<1>5. CASE \/ at = "up" /\ UNCHANGED boot_vars /\ \E c \in Calls : Call(c)
           \/ BootWrite \/ BootRead
  <2>1. PICK c \in Calls \union {TestTouch} : Call(c)
    BY <1>5 DEF BootWrite, BootRead, BootTest
  <2>2. call' = c /\ i' = 0
    BY <2>1 DEF Call
  <2>3. c.page \in Pages /\ c.n \in Nat
    BY CallsTyped
  <2>4. CASE c.op = "touch"
    BY <2>2, <2>4 DEF Remaining
  <2>5. CASE c.op # "touch"
    <3>1. c \in Calls
      BY <2>5 DEF TestTouch
    <3>2. \A v \in {c.page} \union (c.page..(c.page + c.n - 1)) : v \in Pages /\ ~InWindow(v)
      BY <2>5, <3>1, CallsAssumption
    <3>3. c.page + (c.n - 0) - 1 = c.page + c.n - 1
      BY <2>3 DEF Pages
    <3> QED BY <2>2, <3>2, <3>3 DEF Remaining
  <2> QED BY <2>4, <2>5
<1>6. \/ UNCHANGED <<call, i>> \/ MapEntry \/ UnmapEntry \/ UnmapSkip \/ Return
      \/ at = "up" /\ UNCHANGED boot_vars /\ \E c \in Calls : Call(c)
      \/ BootWrite \/ BootRead
  <2>1. CASE BootNext
    <3>1. \A page : Trap(page) => UNCHANGED <<call, i>>
      BY DEF Trap
    <3>2. Fault \/ CreateFault \/ BootCopyFault => UNCHANGED <<call, i>>
      BY <3>1 DEF Fault, CreateFault, BootCopyFault
    <3>3. CreatePdpt \/ CreatePd \/ CreatePt => UNCHANGED <<call, i>>
      BY DEF CreatePdpt, CreatePd, CreatePt, Create
    <3>4. HandleHalt \/ HandleAllocate \/ HandleFault \/ HandleEntry \/ Touch \/ MapCheck \/ UnmapDone \/ Set
            => UNCHANGED <<call, i>>
      BY DEF HandleHalt, HandleAllocate, HandleFault, HandleEntry, Touch, MapCheck, UnmapDone, Set
    <3>5. ((\E n \in Vectors : Interrupt(n)) \/ BootIdt \/ BootMalloc \/ BootCount \/ BootMap \/ BootCopy
            \/ BootVirtual \/ BootPhysical \/ UNCHANGED <<vars, boot_vars>>)
            => UNCHANGED <<call, i>>
      BY DEF Interrupt, BootIdt, BootMalloc, BootCount, BootMap, BootCopy, BootVirtual, BootPhysical,
             paging_vars, vars
    <3> HIDE DEF handler_vars, table_vars, call_vars
    <3> QED BY <2>1, <3>2, <3>3, <3>4, <3>5, Actions
  <2>2. CASE UNCHANGED <<vars, boot_vars>>
    BY <2>2 DEF vars
  <2> QED BY <2>1, <2>2
<1> HIDE DEF handler_vars, table_vars, call_vars
<1> QED BY <1>1, <1>2, <1>3, <1>4, <1>5, <1>6

\* At first the tables are those of 64_init.s.
LEMMA FirstTables ==
  ASSUME BootInit
  PROVE  /\ \A p \in Pages, k \in 1..4 : ~InWindow(p) =>
              /\ At(mem, p, k) = TableAt(BootTables, p, k)
              /\ At(mem, p, k) # NoFrame => At(mem, p, k) \in DOMAIN BootTables
         /\ \A p \in Pages : ~InWindow(p) => Walk(mem, p) = Walk(BootTables, p)
         /\ Recursive(mem)
<1>1. PICK m : mem = [f \in DOMAIN BootTables \union DOMAIN m |->
                       IF f \in DOMAIN BootTables THEN BootTables[f] ELSE m[f]]
  BY DEF BootInit, InitWith
<1>2. IsMem(mem)
  BY TypesInit DEF Types
<1>3. NoFrame \notin DOMAIN mem /\ NoFrame \notin DOMAIN BootTables
  BY <1>1, <1>2 DEF IsMem, NoFrame
<1>4. \A f \in DOMAIN BootTables \union {NoFrame} : \A x : Child(mem, f, x) = Child(BootTables, f, x)
  BY <1>1, <1>3 DEF Child, In
<1>5. Root \in DOMAIN BootTables
  BY PagingAssumption
<1>6. ASSUME NEW p \in Pages, ~InWindow(p)
      PROVE  /\ At(mem, p, 4) = TableAt(BootTables, p, 4) /\ At(mem, p, 3) = TableAt(BootTables, p, 3)
             /\ At(mem, p, 2) = TableAt(BootTables, p, 2) /\ At(mem, p, 1) = TableAt(BootTables, p, 1)
             /\ Walk(mem, p) = Walk(BootTables, p)
  <2>1. \A k \in 1..4 : TableAt(BootTables, p, k) \in DOMAIN BootTables \union {NoFrame}
    BY <1>6, TablesAssumption
  <2>2. \A k \in 1..4 : At(BootTables, p, k) = TableAt(BootTables, p, k)
    BY DEF At
  <2>3. At(mem, p, 4) = At(BootTables, p, 4)
    BY Down
  <2>4. At(mem, p, 3) = At(BootTables, p, 3)
    BY <1>4, <1>5, <2>3, Down
  <2>5. At(mem, p, 2) = At(BootTables, p, 2)
    BY <1>4, <2>1, <2>2, <2>4, Down
  <2>6. At(mem, p, 1) = At(BootTables, p, 1)
    BY <1>4, <2>1, <2>2, <2>5, Down
  <2>7. At(mem, p, 0) = At(BootTables, p, 0)
    BY <1>4, <2>1, <2>2, <2>6, Down
  <2> QED BY <2>2, <2>3, <2>4, <2>5, <2>6, <2>7, Down
<1>7. \A k \in 1..4 : k = 1 \/ k = 2 \/ k = 3 \/ k = 4
  OBVIOUS
<1>8. Recursive(mem)
  <2>1. mem[Root][RecSlot] = [frame |-> Root, flags |-> {"present"}]
    BY <1>1, <1>5, PagingAssumption
  <2>2. Root \in DOMAIN mem
    BY <1>2 DEF IsMem
  <2> QED BY <2>1, <2>2 DEF Recursive, Child, In, Present
<1> QED BY <1>6, <1>7, <1>8, TablesAssumption

LEMMA EarlyInit == BootInit => Early
<1> SUFFICES ASSUME BootInit PROVE Early
  OBVIOUS
<1>1. \A p \in Pages, k \in 1..4 :
        ~InWindow(p) /\ At(mem, p, k) # NoFrame => At(mem, p, k) \in DOMAIN BootTables
  BY FirstTables
<1>2. free = {} /\ call.op = "none" /\ pc = "idle" /\ ~pfaulting /\ tlb = {}
  BY DEF BootInit, InitWith, NoCall
<1> QED BY <1>1, <1>2, Zenon DEF Early

LEMMA EarlyStep ==
  ASSUME Types, Early, [BootNext]_<<vars, boot_vars>>
  PROVE  Early'
<1> USE DEF handler_vars, table_vars, call_vars
<1> DEFINE Booting == {"idt", "malloc", "count", "copy"}
<1> SUFFICES ASSUME at' \in Booting
             PROVE  Early'
  BY DEF Early
<1>1. at \in Booting
  BY DEF BootNext, BootStep, PagingStep, Interrupt, Stopped, boot_vars, BootIdt, BootMalloc, BootCount,
         BootMap, BootCopy, BootCopyFault, BootPhysical, BootVirtual, BootWrite, BootRead, BootTest, Boot
<1>2. /\ free = {} /\ call.op = "none" /\ pc \in {"idle", "handle"} \union Stops
      /\ pc = "handle" => cr2 = 0
      /\ ~pfaulting /\ tlb = {}
      /\ \A p \in Pages, k \in 1..4 :
           ~InWindow(p) /\ At(mem, p, k) # NoFrame => At(mem, p, k) \in DOMAIN BootTables
  BY <1>1 DEF Early
<1> DEFINE Kept == UNCHANGED <<mem, free, call, pfaulting, tlb>>
<1>3. ASSUME Kept, pc' \in {"idle", "handle"} \union Stops, pc' = "handle" => cr2' = 0
      PROVE  Early'
  BY <1>2, <1>3 DEF Early
<1> HIDE DEF Booting
<1>4. CASE BootIdt \/ BootMalloc \/ BootCount \/ BootMap \/ BootCopy \/ UNCHANGED <<vars, boot_vars>>
  <2>1. UNCHANGED vars
    BY <1>4 DEF BootIdt, BootMalloc, BootCount, BootMap, BootCopy, paging_vars
  <2> QED BY <1>2, <1>3, <2>1 DEF vars
<1>5. CASE BootCopyFault
  BY <1>3, <1>5 DEF BootCopyFault, Trap
<1>6. CASE HandleHalt
  BY <1>3, <1>6 DEF HandleHalt, Stops
<1>7. CASE \E n \in Vectors : Interrupt(n)
  BY <1>3, <1>7 DEF Interrupt, Stops
<1>8. ~(BootPhysical \/ BootVirtual \/ BootWrite \/ BootRead)
  BY <1>1 DEF BootPhysical, BootVirtual, BootWrite, BootRead, BootTest, Boot, Booting
<1>9. ~(at = "up" /\ UNCHANGED boot_vars /\ \E c \in Calls : Call(c))
  BY <1>1 DEF Booting
<1>10. ~(HandleAllocate \/ HandleFault)
  BY <1>2 DEF HandleAllocate, HandleFault
<1>11. ~(Fault \/ CreateFault \/ CreatePdpt \/ CreatePd \/ CreatePt \/ HandleEntry)
  BY <1>2 DEF Fault, CreateFault, CreatePdpt, CreatePd, CreatePt, Create, HandleEntry, Reaches, Instruction, Stops
<1>12. ~(Touch \/ MapCheck \/ MapEntry \/ UnmapEntry \/ UnmapSkip \/ UnmapDone \/ Set \/ Return)
  BY <1>2 DEF Touch, MapCheck, MapEntry, UnmapEntry, UnmapSkip, UnmapDone, Set, Return, Stops
<1> HIDE DEF handler_vars, table_vars, call_vars
<1>13. BootNext \/ UNCHANGED <<vars, boot_vars>>
  OBVIOUS
<1> QED BY <1>4, <1>5, <1>6, <1>7, <1>8, <1>9, <1>10, <1>11, <1>12, <1>13, Actions

(***************************************************************************)
(* The tables.                                                             *)
(***************************************************************************)

\* A missing table is made of a frame that is clear.
LEMMA TableAdded ==
  ASSUME IsMem(mem), Tree(mem), Recursive(mem), TablesIn(mem, DOMAIN mem),
         NEW v \in Pages, NEW level \in 1..4,
         At(mem, v, level) # NoFrame, Child(mem, At(mem, v, level), Index(v, level)) = NoFrame,
         NEW g \in DOMAIN mem, ~Spoils(g),
         \A p \in Pages, k \in 1..4 : ~InWindow(p) => At(mem, p, k) # g,
         NEW e \in Entry, Present(e), e.frame = g,
         NEW n, n = Store(v, level, e)
  PROVE  /\ Tree(n) /\ Recursive(n)
         /\ \A p \in Pages, k \in 0..4 : At(mem, p, k) # NoFrame => At(n, p, k) = At(mem, p, k)
         /\ \A p \in Pages : \A k \in 0..3 : At(mem, p, k) = NoFrame /\ At(n, p, k) # NoFrame =>
              At(mem, p, k + 1) = At(mem, v, level) /\ At(n, p, k) = g
         /\ Child(n, At(mem, v, level), Index(v, level)) = g
         /\ \A p \in Pages, k \in 1..4 : At(n, p, k) = At(mem, p, k) \/ At(n, p, k) = g
<1> DEFINE f == At(mem, v, level)
           x == Index(v, level)
<1>1. PICK u \in Pages, l \in 1..4 : ~InWindow(u) /\ f = At(mem, u, l)
  BY AnyTable
<1>2. f \in DOMAIN mem /\ f # g
  BY <1>1 DEF TablesIn
<1>3. f \in Nat
  BY <1>2 DEF IsMem
<1>4. /\ x \in Indices /\ Differs(mem, n, f, x) /\ Child(n, f, x) = g
  BY <1>2, StoreEntry
<1>5. \A y \in Indices : Child(mem, g, y) = NoFrame
  BY DEF Spoils, Child, In, Indices, Present, Zero
<1> HIDE DEF f, x
<1>6. Child(mem, f, x) = NoFrame
  BY DEF f, x
<1>7. Tree(n)
  BY <1>2, <1>3, <1>4, <1>5, <1>6, TreeGrows
<1>8. Recursive(n)
  <2>1. Root \in Nat /\ RecSlot \in Indices
    BY SlotsType
  <2>2. Root # f \/ RecSlot # x
    BY <1>6, <2>1 DEF Recursive, NoFrame
  <2> QED BY <1>4, <2>1, <2>2 DEF Recursive, Differs
<1>9. \A p \in Pages, k \in 0..4 : At(mem, p, k) # NoFrame => At(n, p, k) = At(mem, p, k)
  BY <1>4, <1>6, WalksStay
<1>10. \A p \in Pages : \A k \in 0..3 : At(mem, p, k) = NoFrame /\ At(n, p, k) # NoFrame =>
         At(mem, p, k + 1) = f /\ At(n, p, k) = g
  BY <1>2, <1>4, <1>5, <1>6, WalksGrow
<1>11. ASSUME NEW p \in Pages, NEW k \in 1..4
       PROVE  At(n, p, k) = At(mem, p, k) \/ At(n, p, k) = g
  <2>1. k \in 0..4 /\ (k \in 0..3 \/ k = 4)
    OBVIOUS
  <2>2. At(n, p, 4) = At(mem, p, 4)
    BY Down
  <2> QED BY <1>9, <1>10, <2>1, <2>2
<1> QED BY <1>4, <1>7, <1>8, <1>9, <1>10, <1>11 DEF f, x

\* The step to the next level.
LEMMA StepDown ==
  ASSUME NEW m, NEW v, NEW level \in 1..4
  PROVE  At(m, v, level - 1) = Child(m, At(m, v, level), Index(v, level))
<1>1. level = 1 \/ level = 2 \/ level = 3 \/ level = 4
  OBVIOUS
<1>2. 4 - 1 = 3 /\ 3 - 1 = 2 /\ 2 - 1 = 1 /\ 1 - 1 = 0
  OBVIOUS
<1> QED BY <1>1, <1>2, Down

LEMMA LevelIndex ==
  ASSUME NEW v \in Pages, NEW level \in 1..4
  PROVE  Index(v, level) \in Indices
<1>1. level = 1 \/ level = 2 \/ level = 3 \/ level = 4
  OBVIOUS
<1> QED BY <1>1, PageIndices

\* mem_create_pagetable() makes the table it misses.
LEMMA CreateTables ==
  ASSUME Types, Clean, NEW here \in Creating, NEW level \in 1..4, level # 1, NEW next,
         Create(here, level, next), ~spoilt', At(mem, Target, level) # NoFrame
  PROVE  /\ Tree(mem') /\ Recursive(mem') /\ TablesIn(mem', DOMAIN mem')
         /\ Apart'
         /\ \A p \in Pages, k \in 0..4 : At(mem, p, k) # NoFrame => At(mem', p, k) = At(mem, p, k)
         /\ At(mem', Target, level - 1) # NoFrame
         /\ Walk(mem, Target) = NoFrame => Walk(mem', Target) = NoFrame
<1> DEFINE f == At(mem, Target, level)
           x == Index(Target, level)
<1>1. /\ pc = here /\ UNCHANGED <<new_page>>
  BY DEF Create, handler_vars
<1>2. Target \in Pages
  BY <1>1, AccessedPage DEF Creating, Following, Instruction
<1>3. /\ IsMem(mem) /\ Tree(mem) /\ Recursive(mem) /\ TablesIn(mem, DOMAIN mem)
  BY DEF Types, Clean
<1>4. Missing(level) <=> Child(mem, f, x) = NoFrame
  BY <1>2, <1>3, Loads, PresentLeads, LevelIndex DEF Missing
<1>5. CASE UNCHANGED table_vars /\ ~Missing(level)
  <2>1. mem' = mem /\ free' = free
    BY <1>5 DEF table_vars
  <2>2. At(mem, Target, level - 1) # NoFrame
    BY <1>2, <1>4, <1>5, StepDown
  <2>3. Apart'
    BY <1>1, <2>1 DEF Clean, Apart
  <2> QED BY <1>3, <2>1, <2>2, <2>3
<1>6. CASE /\ Missing(level) /\ free # {} /\ TakeFrame(NextFrame)
           /\ mem' = Store(Target, level, NewTable(NextFrame))
           /\ spoilt' = (spoilt \/ Spoils(NextFrame))
  <2> DEFINE g == NextFrame
  <2>1. g \in free /\ g \in DOMAIN mem /\ g \in Nat /\ free' = free \ {g}
    BY <1>6, NextFrameFree DEF TakeFrame
  <2>2. ~Spoils(g)
    BY <1>6
  <2>3. g \notin DOMAIN BootTables
    BY <2>2 DEF Spoils
  <2>4. \A p \in Pages, k \in 1..4 : ~InWindow(p) => At(mem, p, k) # g
    <3>1. g # NoFrame
      BY <2>1 DEF NoFrame
    <3> QED BY <2>1, <2>3, <3>1 DEF Clean, Apart
  <2>5. NewTable(g) \in Entry /\ Present(NewTable(g)) /\ NewTable(g).frame = g
    BY <2>1, NewEntries
  <2>6. mem' = Store(Target, level, NewTable(g))
    BY <1>6
  <2> HIDE DEF g
  <2>7. /\ Tree(mem') /\ Recursive(mem')
        /\ \A p \in Pages, k \in 0..4 : At(mem, p, k) # NoFrame => At(mem', p, k) = At(mem, p, k)
        /\ \A p \in Pages : \A k \in 0..3 : At(mem, p, k) = NoFrame /\ At(mem', p, k) # NoFrame =>
             At(mem, p, k + 1) = f /\ At(mem', p, k) = g
        /\ Child(mem', f, x) = g
        /\ \A p \in Pages, k \in 1..4 : At(mem', p, k) = At(mem, p, k) \/ At(mem', p, k) = g
    BY <1>2, <1>3, <1>4, <1>6, <2>1, <2>2, <2>4, <2>5, <2>6, TableAdded
  <2>8. DOMAIN mem' = DOMAIN mem
    BY <1>2, <1>3, <2>5, <2>6, StoreMem
  <2>9. TablesIn(mem', DOMAIN mem')
    BY <1>3, <2>1, <2>7, <2>8 DEF TablesIn
  <2>10. Apart'
    <3>1. /\ new_page \notin free
          /\ \A p \in Pages, k \in 1..4 :
               ~InWindow(p) /\ At(mem, p, k) # NoFrame /\ At(mem, p, k) \in free \union {new_page}
                 => At(mem, p, k) \in DOMAIN BootTables
      BY DEF Clean, Apart
    <3>2. g \notin free' \union {new_page'} /\ free' \subseteq free /\ new_page' = new_page
      BY <1>1, <2>1, <3>1
    <3> QED BY <2>7, <3>1, <3>2 DEF Apart
  <2>11. At(mem', Target, level) = f /\ At(mem', Target, level - 1) = g
    <3>1. level \in 0..4
      OBVIOUS
    <3>2. At(mem', Target, level) = f
      BY <1>2, <2>7, <3>1
    <3> QED BY <1>2, <2>7, <3>2, StepDown
  <2>12. g # NoFrame
    BY <2>1 DEF NoFrame
  <2>13. Walk(mem', Target) = NoFrame \/ Walk(mem, Target) # NoFrame
    <3>1. At(mem, Target, level - 1) = NoFrame
      BY <1>2, <1>4, <1>6, StepDown
    <3>2. level - 1 = 1 \/ level - 1 = 2 \/ level - 1 = 3
      OBVIOUS
    <3>3. At(mem, Target, 1) = NoFrame
      BY <1>2, <1>3, <3>1, <3>2, WalkEnds
    <3>4. 0 \in 0..3 /\ 0 + 1 = 1
      OBVIOUS
    <3>5. At(mem', Target, 0) = NoFrame \/ At(mem, Target, 0) # NoFrame
      BY <1>2, <2>7, <3>3, <3>4
    <3> QED BY <3>5, Down
  <2> QED BY <2>7, <2>9, <2>10, <2>11, <2>12, <2>13
<1>7. \/ UNCHANGED table_vars /\ ~Missing(level)
      \/ /\ Missing(level) /\ free # {} /\ TakeFrame(NextFrame)
         /\ mem' = Store(Target, level, NewTable(NextFrame))
         /\ spoilt' = (spoilt \/ Spoils(NextFrame))
  BY DEF Create
<1> QED BY <1>5, <1>6, <1>7

\* A table once in use stays where it is.
Stay == \A p \in Pages, k \in 1..4 : At(mem, p, k) # NoFrame => At(mem', p, k) = At(mem, p, k)

LEMMA CreateClean ==
  ASSUME Types, Clean, NEW here \in Creating, NEW level \in 1..4, level # 1,
         NEW next \in Following,
         Create(here, level, next), ~spoilt', At(mem, Target, level) # NoFrame,
         next = "pdpte" => level = 4, next = "pde" => level = 3,
         next = "map_entry" \/ next = "fault_entry" => level = 2
  PROVE  Clean' /\ Stay
<1>1. /\ pc = here /\ pc' = next
      /\ UNCHANGED <<tlb, byhand, pfaulting, cr2, new_page, resume, call, i>>
  BY DEF Create, handler_vars, call_vars
<1>2. /\ Tree(mem') /\ Recursive(mem') /\ TablesIn(mem', DOMAIN mem')
      /\ Apart'
      /\ \A p \in Pages, k \in 0..4 : At(mem, p, k) # NoFrame => At(mem', p, k) = At(mem, p, k)
      /\ At(mem', Target, level - 1) # NoFrame
      /\ Walk(mem, Target) = NoFrame => Walk(mem', Target) = NoFrame
  BY CreateTables
<1>3. Target' = Target
  BY <1>1 DEF Target
<1>4. pc \in Handling /\ pc' \notin {"handle", "halt"}
  BY <1>1 DEF Handling, Creating, Following
<1>5. Pending'
  <2>1. ASSUME pfaulting PROVE Walk(mem', cr2) = NoFrame
    <3>1. Walk(mem, cr2) = NoFrame /\ Target = cr2
      BY <1>4, <2>1 DEF Clean, Pending, Target
    <3> QED BY <1>2, <3>1
  <2> QED BY <1>1, <1>4, <2>1 DEF Pending
<1>6. Progress'
  <2>1. pc' = "pdpte" => At(mem', Target, 3) # NoFrame
    <3>1. level = 4 => level - 1 = 3
      OBVIOUS
    <3> QED BY <1>1, <1>2, <3>1
  <2>2. pc' = "pde" => At(mem', Target, 2) # NoFrame
    <3>1. level = 3 => level - 1 = 2
      OBVIOUS
    <3> QED BY <1>1, <1>2, <3>1
  <2>3. pc' \in {"map_entry", "fault_entry"} => At(mem', Target, 1) # NoFrame
    <3>1. level = 2 => level - 1 = 1
      OBVIOUS
    <3> QED BY <1>1, <1>2, <3>1
  <2>4. pfaulting => resume = "access"
    BY <1>4 DEF Clean, Progress
  <2> QED BY <1>1, <1>3, <1>4, <2>1, <2>2, <2>3, <2>4 DEF Progress
<1>7. Halting'
  BY <1>4 DEF Halting
<1>8. Coherent'
  <2>1. ASSUME NEW t \in tlb PROVE t[1] \in byhand \/ Walk(mem', t[1]) = t[2]
    <3>1. t[1] \in Pages /\ t[2] \in Nat
      BY DEF Types
    <3>2. t[1] \in byhand \/ Walk(mem, t[1]) = t[2]
      BY DEF Clean, Coherent
    <3>3. At(mem, t[1], 0) # NoFrame => At(mem', t[1], 0) = At(mem, t[1], 0)
      BY <1>2, <3>1
    <3> QED BY <3>1, <3>2, <3>3, Down DEF NoFrame
  <2> QED BY <1>1, <2>1 DEF Coherent
<1>9. Stay
  <2>1. \A k \in 1..4 : k \in 0..4
    OBVIOUS
  <2> QED BY <1>2, <2>1 DEF Stay
<1> QED BY <1>2, <1>5, <1>6, <1>7, <1>8, <1>9 DEF Clean

\* The handler writes the entry of the page: a frame, or in a window a table.
LEMMA EntryClean ==
  ASSUME Types, Runs, Clean, HandleEntry, ~spoilt'
  PROVE  Clean' /\ Stay
<1> DEFINE e == [frame |-> new_page, flags |-> {"present"}]
           g == new_page
<1>0. 1 \in 1..4 /\ 0 \in 0..4 /\ \A k \in 1..4 : k \in 0..4
  OBVIOUS
<1>1. /\ pc = "fault_entry" /\ pfaulting' = FALSE /\ cr2' = NoPage /\ new_page' = NoFrame
      /\ resume' = "idle" /\ pc' = resume /\ UNCHANGED <<free, call, i>>
      /\ mem' = Store(cr2, 1, e)
      /\ spoilt' = (spoilt \/ new_page \in DOMAIN BootTables \/ (InWindow(cr2) /\ Spoils(new_page)))
      /\ tlb' = Refreshed(cr2) /\ byhand' = byhand \ {cr2}
  BY DEF HandleEntry, GuardDown, handler_vars, call_vars
<1>2. pfaulting /\ g \in DOMAIN mem /\ cr2 \in Pages
  BY <1>1 DEF Types, HandlerType, Handling
<1>3. g \in Nat
  BY <1>2 DEF Types, IsMem
<1>4. e \in Entry /\ Present(e) /\ e.frame = g
  BY <1>3, NewEntries
<1>5. /\ IsMem(mem) /\ Tree(mem) /\ Recursive(mem) /\ TablesIn(mem, DOMAIN mem)
  BY DEF Types, Clean
<1>6. /\ At(mem, cr2, 1) # NoFrame /\ Child(mem, At(mem, cr2, 1), Index(cr2, 1)) = NoFrame
      /\ At(mem, cr2, 0) = NoFrame
  <2>1. At(mem, cr2, 1) # NoFrame /\ Walk(mem, cr2) = NoFrame
    BY <1>1, <1>2 DEF Clean, Progress, Pending, Handling, Target
  <2> QED BY <2>1, Down
<1>7. resume = "access"
  BY <1>1, <1>2 DEF Clean, Progress, Handling
<1>8. g \notin DOMAIN BootTables
  BY <1>1
<1>9. \A p \in Pages, k \in 1..4 : ~InWindow(p) => At(mem, p, k) # g
  BY <1>3, <1>8 DEF Clean, Apart, NoFrame
<1> HIDE DEF e, g
<1>10. /\ Tree(mem') /\ Recursive(mem') /\ Stay
       /\ \A p \in Pages : p # cr2 /\ At(mem, p, 0) # NoFrame => At(mem', p, 0) = At(mem, p, 0)
       /\ \A p \in Pages, k \in 1..4 : At(mem', p, k) = At(mem, p, k) \/ At(mem', p, k) = g
  <2>2. CASE InWindow(cr2)
    <3>1. ~Spoils(g) /\ g \in DOMAIN mem
      BY <1>1, <1>2, <2>2 DEF g
    <3>2. /\ Tree(mem') /\ Recursive(mem')
          /\ \A p \in Pages, k \in 0..4 : At(mem, p, k) # NoFrame => At(mem', p, k) = At(mem, p, k)
          /\ \A p \in Pages, k \in 1..4 : At(mem', p, k) = At(mem, p, k) \/ At(mem', p, k) = g
      BY <1>0, <1>1, <1>2, <1>4, <1>5, <1>6, <1>9, <3>1, TableAdded
    <3> QED BY <1>0, <3>2 DEF Stay
  <2>3. CASE ~InWindow(cr2)
    <3>1. At(mem, cr2, 1) \in DOMAIN mem
      BY <1>0, <1>2, <1>5, <1>6, <2>3 DEF TablesIn
    <3>2. Differs(mem, mem', At(mem, cr2, 1), Index(cr2, 1))
      BY <1>0, <1>1, <1>2, <1>4, <1>5, <3>1, StoreEntry
    <3>3. /\ \A p \in Pages, k \in 1..4 : At(mem', p, k) = At(mem, p, k)
          /\ \A p \in Pages : p # cr2 => At(mem', p, 0) = At(mem, p, 0)
          /\ Recursive(mem') /\ Tree(mem')
      BY <1>2, <1>5, <1>6, <2>3, <3>2, LeafStays
    <3> QED BY <3>3 DEF Stay
  <2> QED BY <2>2, <2>3
<1>11. DOMAIN mem' = DOMAIN mem
  BY <1>0, <1>1, <1>2, <1>4, <1>5, StoreMem
<1>12. TablesIn(mem', DOMAIN mem')
  BY <1>2, <1>5, <1>10, <1>11 DEF TablesIn
<1>13. Apart'
  <2>1. /\ g \notin free /\ NoFrame \notin free
        /\ \A p \in Pages, k \in 1..4 :
             ~InWindow(p) /\ At(mem, p, k) # NoFrame /\ At(mem, p, k) \in free
               => At(mem, p, k) \in DOMAIN BootTables
    BY DEF Clean, Apart, g, Types, IsMem, NoFrame
  <2> QED BY <1>1, <1>10, <2>1 DEF Apart
<1>14. Pending' /\ Progress' /\ Halting'
  BY <1>1, <1>7 DEF Pending, Progress, Halting, Handling, Creating
<1>15. Coherent'
  <2>1. ASSUME NEW t \in tlb, t[1] # cr2
        PROVE  t[1] \in byhand \ {cr2} \/ Walk(mem', t[1]) = t[2]
    <3>1. t[1] \in Pages /\ t[2] \in Nat
      BY DEF Types
    <3>2. t[1] \in byhand \/ Walk(mem, t[1]) = t[2]
      BY DEF Clean, Coherent
    <3>3. At(mem, t[1], 0) # NoFrame => At(mem', t[1], 0) = At(mem, t[1], 0)
      BY <1>10, <2>1, <3>1
    <3> QED BY <2>1, <3>1, <3>2, <3>3, Down DEF NoFrame
  <2> QED BY <1>1, <2>1 DEF Coherent, Refreshed
<1> QED BY <1>10, <1>12, <1>13, <1>14, <1>15 DEF Clean

\* An entry of the last level is written, of a page outside of the windows.
LEMMA WriteTables ==
  ASSUME Types, Clean, NEW v \in Pages, ~InWindow(v), At(mem, v, 1) # NoFrame,
         NEW e \in Entry, mem' = Store(v, 1, e), UNCHANGED <<free, new_page>>
  PROVE  /\ Tree(mem') /\ Recursive(mem') /\ TablesIn(mem', DOMAIN mem') /\ Apart' /\ Stay
         /\ \A p \in Pages : p # v => Walk(mem', p) = Walk(mem, p)
<1>0. 1 \in 1..4
  OBVIOUS
<1>1. /\ IsMem(mem) /\ Tree(mem) /\ Recursive(mem) /\ TablesIn(mem, DOMAIN mem)
  BY DEF Types, Clean
<1>2. At(mem, v, 1) \in DOMAIN mem
  BY <1>0, <1>1 DEF TablesIn
<1>3. Differs(mem, mem', At(mem, v, 1), Index(v, 1))
  BY <1>0, <1>1, <1>2, StoreEntry
<1>4. /\ \A p \in Pages, k \in 1..4 : At(mem', p, k) = At(mem, p, k)
      /\ \A p \in Pages : p # v => At(mem', p, 0) = At(mem, p, 0)
      /\ Recursive(mem') /\ Tree(mem')
  BY <1>1, <1>3, LeafStays
<1>5. DOMAIN mem' = DOMAIN mem
  BY <1>0, <1>1, StoreMem
<1>6. TablesIn(mem', DOMAIN mem')
  BY <1>1, <1>4, <1>5 DEF TablesIn
<1>7. Apart'
  BY <1>4 DEF Clean, Apart
<1> QED BY <1>4, <1>6, <1>7, Down DEF Stay

\* A step of a call that writes an entry.
LEMMA WriteClean ==
  ASSUME Types, Runs, Remaining, Clean, MapEntry \/ UnmapEntry \/ Set
  PROVE  Clean' /\ Stay
<1> DEFINE v == call.page
<1>0. 1 \in 1..4
  OBVIOUS
<1>1. /\ pc \in {"map_entry", "unmap", "access"} /\ pc' \in {"map", "unmap", "return"}
      /\ UNCHANGED <<free, new_page, pfaulting, cr2, resume>>
  BY DEF MapEntry, UnmapEntry, Set, handler_vars
<1>2. ~pfaulting
  BY <1>1 DEF Types, HandlerType, Handling, Creating, Stops
<1>3. Target = v /\ v \in Pages
  BY <1>2 DEF Target, Types, CallType
<1>4. IsMem(mem) /\ Recursive(mem)
  BY DEF Types, Clean
<1>5. Fits(pc)
  BY <1>1, <1>2 DEF Runs, Stops
<1>6. ASSUME call.op \in {"map", "unmap"}, i < call.n
      PROVE  ~InWindow(v)
  <2>1. i \in Nat /\ call.n \in Nat /\ v \in Int
    BY <1>3 DEF Types, CallType, Pages
  <2>2. v \in v..(v + (call.n - i) - 1)
    BY <1>6, <2>1
  <2> QED BY <1>6, <2>2 DEF Remaining
<1>7. PICK e \in Entry : mem' = Store(v, 1, e) /\ ~InWindow(v) /\ At(mem, v, 1) # NoFrame
  <2>1. CASE MapEntry
    <3>1. pc = "map_entry" /\ mem' = Store(v, 1, [frame |-> call.frame, flags |-> call.flags])
      BY <2>1 DEF MapEntry
    <3>2. call.op = "map" /\ i < call.n
      BY <1>5, <3>1 DEF Fits
    <3>3. At(mem, v, 1) # NoFrame
      BY <1>3, <3>1 DEF Clean, Progress
    <3> QED BY <1>6, <3>1, <3>2, <3>3, NewEntries
  <2>2. CASE UnmapEntry
    <3>1. pc = "unmap" /\ i < call.n /\ mem' = Store(v, 1, Zero) /\ mem_check_pagetable(v)
      BY <2>2 DEF UnmapEntry
    <3>2. call.op = "unmap"
      BY <1>5, <3>1 DEF Fits
    <3>3. At(mem, v, 1) # NoFrame
      BY <1>3, <1>4, <3>1, Checks
    <3> QED BY <1>6, <3>1, <3>2, <3>3, NewEntries
  <2>3. CASE Set
    <3>1. pc = "access" /\ call.op # "touch" /\ Reaches /\ mem' = Store(v, 1, SetTo)
      BY <2>3 DEF Set
    <3>2. call.op \in {"set_entry", "set_frame", "set_flags"}
      BY <1>5, <3>1 DEF Fits, Ops
    <3>3. Walk(mem, Window(v, 1)) # NoFrame
      BY <3>1 DEF Reaches, Accessed, Window
    <3>4. At(mem, v, 1) # NoFrame
      BY <1>0, <1>3, <1>4, <3>3, WindowReaches
    <3> QED BY <3>1, <3>2, <3>4, SetEntries DEF Remaining
  <2> QED BY <2>1, <2>2, <2>3
<1>8. /\ Tree(mem') /\ Recursive(mem') /\ TablesIn(mem', DOMAIN mem') /\ Apart' /\ Stay
      /\ \A p \in Pages : p # v => Walk(mem', p) = Walk(mem, p)
  BY <1>1, <1>3, <1>7, WriteTables
<1>9. Pending' /\ Progress' /\ Halting'
  BY <1>1, <1>2 DEF Pending, Progress, Halting, Handling, Creating
<1>10. Coherent'
  <2>1. ASSUME NEW t \in tlb, t[1] # v PROVE t[1] \in byhand \/ Walk(mem', t[1]) = t[2]
    <3>1. t[1] \in Pages
      BY DEF Types
    <3> QED BY <1>8, <2>1, <3>1 DEF Clean, Coherent
  <2>2. CASE MapEntry \/ UnmapEntry
    <3>1. tlb' = {t \in tlb : t[1] # v} /\ byhand' = byhand \ {v}
      BY <2>2 DEF MapEntry, UnmapEntry, Refreshed
    <3> QED BY <2>1, <3>1 DEF Coherent
  <2>3. CASE Set
    <3>1. tlb' = tlb /\ byhand' = byhand \union {v}
      BY <2>3 DEF Set
    <3> QED BY <2>1, <3>1 DEF Coherent
  <2> QED BY <2>2, <2>3
<1> QED BY <1>8, <1>9, <1>10 DEF Clean

\* The tables are left alone.
LEMMA SameTables ==
  ASSUME Clean, mem' = mem
  PROVE  Tree(mem') /\ Recursive(mem') /\ TablesIn(mem', DOMAIN mem') /\ Stay
BY DEF Clean, Stay

\* Only the access that a caller asked for faults on a page without an entry.
LEMMA FaultClean ==
  ASSUME Types, Runs, Remaining, Clean, Fault
  PROVE  Clean' /\ Stay
<1>0. 1 \in 1..4 /\ 2 \in 1..4 /\ 3 \in 1..4 /\ 4 \in 1..4
  OBVIOUS
<1>1. /\ pc \in Instruction /\ Walk(mem, Accessed) = NoFrame
      /\ cr2' = Accessed /\ resume' = pc /\ pc' = "handle"
      /\ UNCHANGED <<mem, free, tlb, pfaulting, new_page, call, i, byhand>>
  BY DEF Fault, Trap
<1>2. Target \in Pages /\ IsMem(mem) /\ Recursive(mem)
  BY <1>1, AccessedPage DEF Types, Clean
<1>3. /\ Walk(mem, MEM_PTBL_ADDR(Target)) = At(mem, Target, 1)
      /\ Walk(mem, MEM_PDIR_ADDR(Target)) = At(mem, Target, 2)
      /\ Walk(mem, MEM_PDPT_ADDR(Target)) = At(mem, Target, 3)
      /\ Walk(mem, MEM_PML4T_ADDR) = At(mem, Target, 4)
  <2>1. /\ Walk(mem, Window(Target, 1)) = At(mem, Target, 1)
        /\ Walk(mem, Window(Target, 2)) = At(mem, Target, 2)
        /\ Walk(mem, Window(Target, 3)) = At(mem, Target, 3)
        /\ Walk(mem, Window(Target, 4)) = At(mem, Target, 4)
    BY <1>0, <1>2, WindowReaches
  <2> QED BY <2>1 DEF Window
<1>4. pc = "access"
  <2>1. CASE pc = "map_entry" \/ pc = "fault_entry"
    <3>1. Accessed = MEM_PTBL_ADDR(Target)
      BY <2>1 DEF Accessed
    <3> QED BY <1>1, <1>3, <2>1, <3>1 DEF Clean, Progress
  <2>2. CASE pc = "pml4e"
    <3>1. Accessed = MEM_PML4T_ADDR
      BY <2>2 DEF Accessed
    <3> QED BY <1>1, <1>2, <1>3, <3>1, WalkEnds
  <2>3. CASE pc = "pdpte"
    <3>1. Accessed = MEM_PDPT_ADDR(Target)
      BY <2>3 DEF Accessed
    <3> QED BY <1>1, <1>3, <2>3, <3>1 DEF Clean, Progress
  <2>4. CASE pc = "pde"
    <3>1. Accessed = MEM_PDIR_ADDR(Target)
      BY <2>4 DEF Accessed
    <3> QED BY <1>1, <1>3, <2>4, <3>1 DEF Clean, Progress
  <2> QED BY <1>1, <2>1, <2>2, <2>3, <2>4 DEF Instruction
<1>5. ~pfaulting
  BY <1>4 DEF Types, HandlerType, Handling, Creating, Stops
<1>6. Accessed = 0 => call.op = "touch" /\ call.page = 0
  <2>1. Accessed = (IF call.op = "touch" THEN call.page ELSE MEM_PTBL_ADDR(call.page))
    BY <1>4 DEF Accessed
  <2>2. ASSUME call.op # "touch", MEM_PTBL_ADDR(call.page) = 0
        PROVE  FALSE
    <3>1. call.page \in Pages
      BY DEF Types, CallType
    <3>2. call.op \in {"set_entry", "set_frame", "set_flags"}
      BY <1>4, <1>5, <2>2 DEF Runs, Fits, Stops, Ops
    <3>3. ~InWindow(call.page)
      BY <3>2 DEF Remaining
    <3>4. PICK a \in Indices, b \in Indices, c \in Indices :
            Index(call.page, 4) = a /\ Index(call.page, 3) = b /\ Index(call.page, 2) = c
      BY <3>1, PageIndices
    <3>5. Num(RecSlot, a, b, c) = 0
      BY <2>2, <3>1, <3>4, Windows DEF Window
    <3>6. Num(0, 0, 0, 0) = 0 /\ 0 \in Indices /\ RecSlot \in Indices
      <4>1. Slots \in Nat /\ Slots > 1
        BY SlotsType
      <4> QED BY <4>1, SlotsType DEF Num, Indices
    <3>7. RecSlot = 0 /\ a = 0
      BY <3>4, <3>5, <3>6, NumIndices
    <3> QED BY <3>3, <3>4, <3>7 DEF InWindow
  <2> QED BY <2>1, <2>2
<1>7. Pending' /\ Progress' /\ Halting'
  BY <1>1, <1>4, <1>5, <1>6 DEF Pending, Progress, Halting, Handling, Creating
<1>8. Apart' /\ Coherent'
  BY <1>1 DEF Clean, Apart, Coherent
<1> QED BY <1>1, <1>7, <1>8, SameTables DEF Clean

\* No frame is left, or page 0 is read where there is no memory for the copy.
LEMMA NoFrameClean ==
  ASSUME Types, Early, Clean, CreateFault \/ BootCopyFault \/ HandleFault
  PROVE  Clean' /\ Stay
<1>1. /\ cr2' = 0 /\ pc' = "handle" /\ free = {}
      /\ UNCHANGED <<mem, free, tlb, new_page, call, i, byhand>>
  BY DEF CreateFault, BootCopyFault, HandleFault, Trap, Boot, Early, table_vars, call_vars
<1>2. Pending' /\ Progress' /\ Halting'
  BY <1>1 DEF Pending, Progress, Halting, Handling, Creating
<1>3. Apart' /\ Coherent'
  BY <1>1 DEF Clean, Apart, Coherent
<1> QED BY <1>1, <1>2, <1>3, SameTables DEF Clean

\* The handler takes a frame.
LEMMA AllocateClean ==
  ASSUME Types, Clean, HandleAllocate
  PROVE  Clean' /\ Stay
<1>1. /\ pc = "handle" /\ ~pfaulting /\ cr2 # 0 /\ pfaulting' = TRUE /\ new_page' = NextFrame
      /\ free # {} /\ free' = free \ {NextFrame}
      /\ pc' = IF mem_check_pagetable(cr2) THEN "fault_entry" ELSE "pml4e"
      /\ UNCHANGED <<mem, tlb, byhand, cr2, resume, call, i>>
  BY DEF HandleAllocate, TakeFrame, call_vars
<1>2. cr2 \in Pages /\ IsMem(mem) /\ Recursive(mem)
  BY <1>1 DEF Types, HandlerType, Clean
<1>3. pc' = "fault_entry" => At(mem, cr2, 1) # NoFrame
  BY <1>1, <1>2, Checks
<1>4. pc' \in {"fault_entry", "pml4e"}
  BY <1>1
<1>5. Target' = cr2
  BY <1>1 DEF Target
<1>6. Walk(mem, cr2) = NoFrame /\ resume = "access"
  BY <1>1 DEF Clean, Pending, Progress
<1>7. Pending'
  BY <1>1, <1>6 DEF Pending
<1>8. Progress'
  BY <1>1, <1>3, <1>4, <1>5, <1>6 DEF Progress
<1>9. Halting'
  BY <1>4 DEF Halting
<1>10. Apart'
  <2>1. NextFrame \in free
    BY <1>1, NextFrameFree
  <2> QED BY <1>1, <2>1 DEF Clean, Apart
<1>11. Coherent'
  BY <1>1 DEF Clean, Coherent
<1> QED BY <1>1, <1>7, <1>8, <1>9, <1>10, <1>11, SameTables DEF Clean

\* An access that finds its page, with the translation that the CPU has cached
\* or with one that it looks up.
LEMMA TouchClean ==
  ASSUME Types, Clean, Touch
  PROVE  Clean' /\ Stay
<1>1. /\ pc' = "return" /\ UNCHANGED <<mem, free, new_page, pfaulting, cr2, resume, byhand>>
  BY DEF Touch, table_vars, handler_vars
<1>2. PICK f \in {t[2] : t \in {u \in tlb : u[1] = call.page}} \union ({Walk(mem, call.page)} \ {NoFrame}) :
        tlb' = tlb \union {<<call.page, f>>}
  BY DEF Touch
<1>3. call.page \in byhand \/ Walk(mem, call.page) = f
  BY <1>2 DEF Clean, Coherent
<1>4. Coherent'
  BY <1>1, <1>2, <1>3 DEF Clean, Coherent
<1>5. Pending' /\ Progress' /\ Halting'
  BY <1>1 DEF Pending, Progress, Halting, Handling, Creating
<1>6. Apart'
  BY <1>1 DEF Clean, Apart
<1> QED BY <1>1, <1>4, <1>5, <1>6, SameTables DEF Clean

\* The frame allocator starts.
LEMMA PhysicalClean ==
  ASSUME Types, Types', Early, Clean, BootPhysical
  PROVE  Clean' /\ Stay
<1>1. /\ at = "copy" /\ pc = "idle" /\ UNCHANGED <<mem, tlb, byhand, pfaulting, cr2, new_page, resume, call, i, pc>>
  BY DEF BootPhysical, Boot, handler_vars, call_vars
<1>2. /\ \A p \in Pages, k \in 1..4 :
           ~InWindow(p) /\ At(mem, p, k) # NoFrame => At(mem, p, k) \in DOMAIN BootTables
      /\ ~pfaulting
  BY <1>1 DEF Early
<1>3. new_page = NoFrame /\ NoFrame \notin free'
  BY <1>2 DEF Types, HandlerType, IsMem, NoFrame
<1>4. Apart'
  BY <1>1, <1>2, <1>3 DEF Apart
<1>5. Pending' /\ Progress' /\ Halting'
  BY <1>1 DEF Pending, Progress, Halting, Handling, Creating
<1>6. Coherent'
  BY <1>1 DEF Clean, Coherent
<1> QED BY <1>1, <1>4, <1>5, <1>6, SameTables DEF Clean

\* Steps that leave the tables, the frames and the translations alone and do
\* not come to an instruction of the handler.
LEMMA IdleClean ==
  ASSUME Clean, UNCHANGED <<mem, free, new_page, tlb, byhand>>,
         pc' \notin Handling \union {"handle", "halt", "map_entry"}
  PROVE  Clean' /\ Stay
<1>1. Pending' /\ Progress' /\ Halting'
  BY DEF Pending, Progress, Halting, Handling, Creating
<1>2. Apart' /\ Coherent'
  BY DEF Clean, Apart, Coherent
<1> QED BY <1>1, <1>2, SameTables DEF Clean

\* map_range() looks whether there is a table.
LEMMA MapCheckClean ==
  ASSUME Types, Clean, MapCheck
  PROVE  Clean' /\ Stay
<1>1. /\ pc = "map" /\ UNCHANGED <<mem, free, tlb, byhand, pfaulting, new_page, call>>
      /\ pc' = IF i = call.n THEN "return"
               ELSE IF mem_check_pagetable(call.page) THEN "map_entry" ELSE "pml4e"
  BY DEF MapCheck, table_vars, handler_vars, call_vars
<1>2. ~pfaulting
  BY <1>1 DEF Types, HandlerType, Handling, Creating, Stops
<1>3. call.page \in Pages /\ IsMem(mem) /\ Recursive(mem)
  BY DEF Types, CallType, Clean
<1>4. pc' = "map_entry" => At(mem, call.page, 1) # NoFrame
  <2>1. pc' = "map_entry" => mem_check_pagetable(call.page)
    BY <1>1
  <2> QED BY <1>3, <2>1, Checks
<1>5. pc' \in {"return", "map_entry", "pml4e"}
  BY <1>1, Zenon
<1>6. Target' = call.page
  BY <1>1, <1>2 DEF Target
<1>7. Pending' /\ Progress' /\ Halting'
  BY <1>1, <1>2, <1>4, <1>5, <1>6 DEF Pending, Progress, Halting, Handling, Creating
<1>8. Apart' /\ Coherent'
  BY <1>1 DEF Clean, Apart, Coherent
<1> QED BY <1>1, <1>7, <1>8, SameTables DEF Clean

LEMMA HaltClean ==
  ASSUME Types, Clean, HandleHalt
  PROVE  Clean' /\ Stay
<1>1. /\ pc = "handle" /\ (pfaulting \/ cr2 = 0) /\ pc' = "halt"
      /\ UNCHANGED <<mem, free, tlb, byhand, pfaulting, cr2, new_page, resume, call, i>>
  BY DEF HandleHalt, table_vars, handler_vars, call_vars
<1>2. Pending' /\ Progress'
  BY <1>1 DEF Pending, Progress, Handling, Creating
<1>3. Halting'
  BY <1>1 DEF HandleHalt, Clean, Halting
<1>4. Apart' /\ Coherent'
  BY <1>1 DEF Clean, Apart, Coherent
<1> QED BY <1>1, <1>2, <1>3, <1>4, SameTables DEF Clean

LEMMA CleanInit == BootInit => Clean
<1> SUFFICES ASSUME BootInit PROVE Clean
  OBVIOUS
<1>1. /\ \A p \in Pages, k \in 1..4 : ~InWindow(p) =>
           /\ At(mem, p, k) = TableAt(BootTables, p, k)
           /\ At(mem, p, k) # NoFrame => At(mem, p, k) \in DOMAIN BootTables
      /\ Recursive(mem)
  BY FirstTables
<1>2. /\ free = {} /\ new_page = NoFrame /\ pc = "idle" /\ tlb = {}
  BY DEF BootInit, InitWith
<1>3. Tree(mem)
  <2>1. \A p \in Pages, k \in 1..4 : ~InWindow(p) => TableAt(mem, p, k) = TableAt(BootTables, p, k)
    BY <1>1 DEF At
  <2> QED BY <2>1, TablesAssumption DEF Tree
<1>4. TablesIn(mem, DOMAIN mem)
  <2>1. DOMAIN BootTables \subseteq DOMAIN mem
    BY TypesInit DEF Types
  <2> QED BY <1>1, <2>1 DEF TablesIn
<1>5. Apart
  BY <1>2 DEF Apart
<1>6. Pending /\ Progress /\ Halting /\ Coherent
  BY <1>2 DEF Pending, Progress, Halting, Coherent, Handling, Creating
<1> QED BY <1>1, <1>3, <1>4, <1>5, <1>6 DEF Clean

LEMMA CleanStep ==
  ASSUME Types, Types', Runs, Remaining, Early, Clean, [BootNext]_<<vars, boot_vars>>, ~spoilt'
  PROVE  Clean' /\ Stay
<1>1. CASE Fault
  BY <1>1, FaultClean
<1>2. CASE CreateFault \/ BootCopyFault \/ HandleFault
  BY <1>2, NoFrameClean
<1>3. IsMem(mem)
  BY DEF Types
<1>4. CASE CreatePdpt
  <2>1. Create("pml4e", 4, "pdpte") /\ pc = "pml4e"
    BY <1>4 DEF CreatePdpt, Create
  <2>2. Target \in Pages
    BY <2>1, AccessedPage DEF Instruction
  <2>3. At(mem, Target, 4) # NoFrame
    BY <1>3, <2>2, WalkEnds
  <2>4. "pml4e" \in Creating /\ "pdpte" \in Following /\ 4 \in 1..4 /\ 4 # 1
    BY DEF Creating, Following
  <2> QED BY <2>1, <2>3, <2>4, CreateClean
<1>5. CASE CreatePd
  <2>1. Create("pdpte", 3, "pde") /\ pc = "pdpte"
    BY <1>5 DEF CreatePd, Create
  <2>2. At(mem, Target, 3) # NoFrame
    BY <2>1 DEF Clean, Progress
  <2>3. "pdpte" \in Creating /\ "pde" \in Following /\ 3 \in 1..4 /\ 3 # 1
    BY DEF Creating, Following
  <2> QED BY <2>1, <2>2, <2>3, CreateClean
<1>6. CASE CreatePt
  <2> DEFINE next == IF pfaulting THEN "fault_entry" ELSE "map_entry"
  <2>1. Create("pde", 2, next) /\ pc = "pde"
    BY <1>6 DEF CreatePt, Create
  <2>2. At(mem, Target, 2) # NoFrame
    BY <2>1 DEF Clean, Progress
  <2>3. "pde" \in Creating /\ next \in Following /\ 2 \in 1..4 /\ 2 # 1
    BY DEF Creating, Following
  <2>4. next # "pdpte" /\ next # "pde"
    OBVIOUS
  <2> HIDE DEF next
  <2> QED BY <2>1, <2>2, <2>3, <2>4, CreateClean
<1>7. CASE HandleHalt
  BY <1>7, HaltClean
<1>8. CASE HandleAllocate
  BY <1>8, AllocateClean
<1>9. CASE HandleEntry
  BY <1>9, EntryClean
<1>10. CASE Touch
  BY <1>10, TouchClean
<1>11. CASE MapCheck
  BY <1>11, MapCheckClean
<1>12. CASE MapEntry \/ UnmapEntry \/ Set
  BY <1>12, WriteClean
<1>13. CASE BootPhysical
  BY <1>13, PhysicalClean
<1>14. CASE UnmapSkip \/ UnmapDone \/ Return
  <2>1. pc' \notin Handling \union {"handle", "halt", "map_entry"}
    BY <1>14 DEF UnmapSkip, UnmapDone, Return, Handling, Creating
  <2> QED BY <1>14, <2>1, IdleClean DEF UnmapSkip, UnmapDone, Return, table_vars, handler_vars
<1>15. CASE \E n \in Vectors : Interrupt(n)
  <2>1. pc' \notin Handling \union {"handle", "halt", "map_entry"}
    BY <1>15 DEF Interrupt, Handling, Creating
  <2> QED BY <1>15, <2>1, IdleClean DEF Interrupt, table_vars, handler_vars
<1>16. CASE \/ at = "up" /\ UNCHANGED boot_vars /\ \E c \in Calls : Call(c)
            \/ BootWrite \/ BootRead
  <2>1. PICK c : Call(c)
    BY <1>16 DEF BootWrite, BootRead, BootTest
  <2>2. pc' \in {"map", "unmap", "access"}
    BY <2>1 DEF Call
  <2>3. pc' \notin Handling \union {"handle", "halt", "map_entry"}
    BY <2>2 DEF Handling, Creating
  <2> QED BY <2>1, <2>3, IdleClean DEF Call, table_vars, handler_vars
<1>17. CASE \/ BootIdt \/ BootMalloc \/ BootCount \/ BootMap \/ BootCopy \/ BootVirtual
            \/ UNCHANGED <<vars, boot_vars>>
  <2>1. UNCHANGED vars
    BY <1>17 DEF BootIdt, BootMalloc, BootCount, BootMap, BootCopy, BootVirtual, paging_vars
  <2>2. Pending' /\ Progress' /\ Halting' /\ Apart' /\ Coherent'
    BY <2>1 DEF vars, Clean, Pending, Progress, Halting, Apart, Coherent, Target
  <2> QED BY <2>1, <2>2, SameTables DEF vars, Clean
<1>18. BootNext \/ UNCHANGED <<vars, boot_vars>>
  OBVIOUS
<1> QED BY <1>1, <1>2, <1>4, <1>5, <1>6, <1>7, <1>8, <1>9, <1>10, <1>11, <1>12, <1>13, <1>14,
           <1>15, <1>16, <1>17, <1>18, Actions

(***************************************************************************)
(* The theorems.                                                           *)
(***************************************************************************)

LEMMA InitIInv == BootInit => IInv
BY TypesInit, RunsInit, RemainingInit, EarlyInit, CopyInit, CleanInit DEF IInv

\* A table made of a frame that is not clear stays one.
LEMMA SpoiltStays ==
  ASSUME [BootNext]_<<vars, boot_vars>>, spoilt \in BOOLEAN, ~spoilt'
  PROVE  ~spoilt
<1> USE DEF table_vars
<1>1. \A page : Trap(page) => spoilt' = spoilt
  BY DEF Trap
<1>2. Fault \/ CreateFault \/ BootCopyFault => spoilt' = spoilt
  BY <1>1 DEF Fault, CreateFault, BootCopyFault
<1>3. CreatePdpt \/ CreatePd \/ CreatePt => ~spoilt
  BY DEF CreatePdpt, CreatePd, CreatePt, Create
<1>4. HandleEntry => ~spoilt
  BY DEF HandleEntry
<1>5. HandleHalt \/ HandleAllocate \/ HandleFault \/ Touch \/ MapCheck \/ MapEntry \/ UnmapEntry \/ UnmapSkip
        \/ UnmapDone \/ Set \/ Return => spoilt' = spoilt
  BY DEF HandleHalt, HandleAllocate, HandleFault, Touch, MapCheck, MapEntry, UnmapEntry, UnmapSkip,
         UnmapDone, Set, Return
<1>6. \A n : Interrupt(n) => spoilt' = spoilt
  BY DEF Interrupt
<1>7. \A c : Call(c) => spoilt' = spoilt
  BY DEF Call
<1>8. BootWrite \/ BootRead => spoilt' = spoilt
  BY <1>7 DEF BootWrite, BootRead, BootTest
<1>9. BootIdt \/ BootMalloc \/ BootCount \/ BootMap \/ BootCopy \/ BootVirtual \/ BootPhysical
        \/ UNCHANGED <<vars, boot_vars>> => spoilt' = spoilt
  BY DEF BootIdt, BootMalloc, BootCount, BootMap, BootCopy, BootVirtual, BootPhysical, paging_vars, vars
<1> HIDE DEF table_vars
<1>10. BootNext \/ UNCHANGED <<vars, boot_vars>>
  OBVIOUS
<1> QED BY <1>2, <1>3, <1>4, <1>5, <1>6, <1>7, <1>8, <1>9, <1>10, Actions

LEMMA StepIInv == IInv /\ [BootNext]_<<vars, boot_vars>> => IInv' /\ (~spoilt' => Stay)
<1> SUFFICES ASSUME IInv, [BootNext]_<<vars, boot_vars>>
             PROVE  IInv' /\ (~spoilt' => Stay)
  OBVIOUS
<1>1. Types /\ Runs /\ Remaining /\ Early /\ Copy /\ (~spoilt => Clean)
  BY DEF IInv
<1>2. machine \in Machines /\ spoilt \in BOOLEAN
  BY <1>1 DEF Types
<1>3. Types'
  BY <1>1, TypesStep
<1>4. Runs' /\ Remaining'
  BY <1>1, RunsStep, RemainingStep
<1>5. Early' /\ Copy'
  BY <1>1, <1>2, EarlyStep, CopyStep
<1>6. ~spoilt' => Clean' /\ Stay
  BY <1>1, <1>2, <1>3, SpoiltStays, CleanStep
<1> QED BY <1>3, <1>4, <1>5, <1>6 DEF IInv

\* The invariant that the properties rest on: what the handler, the call and
\* the loop over the firmware's map are in the middle of, and, until a frame
\* that is not clear becomes a table, that the tables are a tree whose
\* recursive slot leads to its root.
THEOREM Invariant == BootSpec => []IInv
BY InitIInv, StepIInv, PTL DEF BootSpec

\* Every variable keeps its type: whatever the entries of a frame that becomes
\* a table hold, and wherever a fault or an interrupt comes.
THEOREM TypeCorrect == BootSpec => []TypeOK
<1>1. IInv => TypeOK
  <2> SUFFICES ASSUME Types
               PROVE  TypeOK
    BY DEF IInv
  <2>1. mem \in [DOMAIN mem -> Table] /\ free \subseteq DOMAIN mem
    BY DEF Types, IsMem
  <2>2. /\ pfaulting \in BOOLEAN /\ cr2 \in Pages \union {NoPage}
        /\ new_page \in Nat \union {NoFrame}
    BY DEF Types, HandlerType
  <2>3. call.op \in Ops \union {"none"} /\ call.page \in Pages /\ i \in 0..call.n
    BY DEF Types, CallType
  <2> QED BY <2>1, <2>2, <2>3 DEF TypeOK, Types
<1> QED BY <1>1, Invariant, PTL

\* What the getters of page_manip.cpp read through the windows is what the CPU
\* finds, for every page and in the middle of every call: as long as the
\* recursive slot leads to the root, and so it does until a frame that is not
\* clear becomes a table.
THEOREM GettersRight == BootSpec => [](~spoilt \/ Recursive(mem) => GettersExact)
<1>1. IInv => (~spoilt \/ Recursive(mem) => GettersExact)
  <2> SUFFICES ASSUME Types, Recursive(mem), NEW v \in Pages
               PROVE  /\ mem_check_pagetable(v) <=> TableOf(mem, v) # NoFrame
                      /\ mem_get_physical_address(v) = EntryOf(mem, v).frame
                      /\ mem_get_flags(v) = EntryOf(mem, v).flags
    BY PagingAssumption DEF IInv, Clean, GettersExact
  <2>1. IsMem(mem) /\ At(mem, v, 1) = TableOf(mem, v)
    BY Down DEF Types
  <2>2. mem_check_pagetable(v) <=> TableOf(mem, v) # NoFrame
    BY <2>1, Checks
  <2>3. Load(v, 1) = EntryOf(mem, v)
    BY <2>1, Loads DEF EntryOf
  <2>4. TableOf(mem, v) = NoFrame => EntryOf(mem, v) = Zero
    BY <2>1 DEF EntryOf, In, IsMem, NoFrame
  <2>5. Zero.frame = 0 /\ Zero.flags = {}
    BY DEF Zero
  <2> QED BY <2>2, <2>3, <2>4, <2>5 DEF mem_get_physical_address, mem_get_flags
<1> QED BY <1>1, Invariant, PTL

\* The CPU holds no translation that the tables do not give: every write of an
\* entry refreshes its page, but for those of the setters.
THEOREM TlbStaysCoherent == BootSpec => []TlbCoherent
<1>1. IInv => TlbCoherent
  BY DEF IInv, Clean, Coherent, TlbCoherent
<1> QED BY <1>1, Invariant, PTL

\* The page fault handler halts the machine only where no frame is left, or
\* where page 0 is touched: it never faults on a table that it needs.
THEOREM HaltsOnlyThen == BootSpec => []HaltJustified
<1>1. IInv => HaltJustified
  BY DEF IInv, Clean, Halting, HaltJustified
<1> QED BY <1>1, Invariant, PTL

\* The copy that physical_memory::initialize() is given has each usable region
\* of the firmware's map once, in its order.
THEOREM MapIsCopied == BootSpec => []MapCopied
<1>1. IInv => MapCopied
  BY DEF IInv, Copy
<1> QED BY <1>1, Invariant, PTL

\* No step of a call, of the handler or of the boot moves or drops a table that
\* a walk reaches.
THEOREM TablesKept == BootSpec => TablesStay
<1>1. IInv /\ [BootNext]_<<vars, boot_vars>> =>
        [ ~spoilt' => \A v \in Watched : TableOf(mem, v) # NoFrame => TableOf(mem', v) = TableOf(mem, v) ]_vars
  <2>1. Stay => \A v \in Watched : TableOf(mem, v) # NoFrame => TableOf(mem', v) = TableOf(mem, v)
    <3>1. \A v : At(mem, v, 1) = TableOf(mem, v) /\ At(mem', v, 1) = TableOf(mem', v)
      BY Down
    <3>2. Watched \subseteq Pages /\ 1 \in 1..4
      BY PagingAssumption
    <3> QED BY <3>1, <3>2 DEF Stay
  <2> QED BY <2>1, StepIInv
<1> QED BY <1>1, Invariant, PTL DEF BootSpec, TablesStay

(***************************************************************************)
(* How the boot ends.                                                      *)
(***************************************************************************)

Booting == {"idt", "malloc", "count", "copy"}

\* Without a frame the test address stays without an entry, and the first touch
\* of it is the last thing that happens.
Starved ==
  /\ Walk(mem, TestPage) = NoFrame
  /\ free = {} /\ tlb = {} /\ at # "up"
  /\ at # "read" => pc \in {"idle", "handle"} \union Stops
  /\ at = "read" =>
       pc \in {"access", "handle"} \union Stops /\ call.op = "touch" /\ call.page = TestPage

\* kernel_init() goes on with a copy of the usable entries only, and until its
\* end nothing but the test runs.
Outcome ==
  /\ at = "copy" => (null <=> n_mem_ranges > MaxRanges) /\ (null => mmap = <<>>)
  /\ at \notin Booting => n_mem_ranges \in 0..MaxRanges
  /\ at # "up" => call.op = "none" \/ (call.op = "touch" /\ call.page = TestPage)
  /\ at \in Booting \/ n_mem_ranges = 0 => Starved

LEMMA OutcomeInit == BootInit => Outcome
<1> SUFFICES ASSUME BootInit PROVE Outcome
  OBVIOUS
<1>1. at = "idt" /\ free = {} /\ call.op = "none" /\ pc = "idle" /\ tlb = {}
  BY DEF BootInit, InitWith, NoCall
<1>2. Walk(mem, TestPage) = NoFrame
  BY FirstTables, TestAssumption, KernelAssumption
<1> QED BY <1>1, <1>2, Zenon DEF Outcome, Starved, Booting

\* What changes neither the tables nor the frames.
LEMMA StarvedStays ==
  ASSUME Starved, UNCHANGED <<mem, free, tlb, at, call>>,
         pc' \in {"handle"} \union Stops \/ pc' = pc
  PROVE  Starved'
BY DEF Starved

\* The steps of the boot.
LEMMA OutcomeBoots ==
  ASSUME machine \in Machines, Copy, Early, Outcome, BootStep
  PROVE  Outcome'
<1>1. n_mem_ranges \in Nat
  <2>1. n_mem_ranges = UsableUpTo(cur - 1) \/ n_mem_ranges = UsableUpTo(Len(machine.regions))
    BY DEF Copy
  <2>2. at \in {"idt", "malloc", "count"} => cur - 1 \in Nat /\ n_mem_ranges = UsableUpTo(cur - 1)
    BY Counting DEF Copy
  <2> QED BY <2>2, Counting DEF Copy
<1>2. CASE BootIdt \/ BootMalloc \/ BootCount
  <2>1. /\ at \in Booting \ {"copy"} /\ at' \in Booting \ {"copy"} /\ pc = "idle"
        /\ UNCHANGED vars
    BY <1>2 DEF BootIdt, BootMalloc, BootCount, Boot, Booting, paging_vars
  <2>2. UNCHANGED <<mem, free, tlb, call, pc>>
    BY <2>1 DEF vars
  <2> QED BY <2>1, <2>2 DEF Outcome, Starved, Booting
<1>3. CASE BootMap
  <2>1. /\ at = "count" /\ at' = "copy" /\ pc = "idle" /\ n_mem_ranges' = n_mem_ranges
        /\ null' = (n_mem_ranges > MaxRanges) /\ UNCHANGED vars
    BY <1>3 DEF BootMap, Boot, paging_vars
  <2>2. UNCHANGED <<mem, free, tlb, call, pc>>
    BY <2>1 DEF vars
  <2>3. Starved
    BY <2>1 DEF Outcome, Booting
  <2>4. Starved'
    BY <2>1, <2>2, <2>3 DEF Starved
  <2>5. call'.op = "none" \/ (call'.op = "touch" /\ call'.page = TestPage)
    BY <2>1, <2>2 DEF Outcome
  <2>6. (null' <=> n_mem_ranges' > MaxRanges) /\ mmap' = <<>>
    BY <1>3, <2>1 DEF BootMap, Copy
  <2> QED BY <2>1, <2>4, <2>5, <2>6, Zenon DEF Outcome, Booting
<1>4. CASE BootCopy
  <2>1. /\ at = "copy" /\ at' = "copy" /\ pc = "idle" /\ n_mem_ranges' = n_mem_ranges
        /\ null' = null /\ ~null /\ UNCHANGED vars
    BY <1>4 DEF BootCopy, Boot, paging_vars
  <2>2. UNCHANGED <<mem, free, tlb, call, pc, at>>
    BY <2>1 DEF vars
  <2> QED BY <2>1, <2>2, StarvedStays DEF Outcome, Booting
<1>5. CASE BootCopyFault
  <2>1. /\ at = "copy" /\ at' = "copy" /\ pc' = "handle"
        /\ UNCHANGED <<n_mem_ranges, null, mmap, mem, free, tlb, call, at>>
    BY <1>5 DEF BootCopyFault, Boot, Trap
  <2> QED BY <2>1, StarvedStays DEF Outcome, Booting
<1>6. CASE BootPhysical
  <2>1. /\ at = "copy" /\ at' = "virtual" /\ pc = "idle" /\ Len(mmap) = n_mem_ranges
        /\ free' = UNION {FramesOf(r) : r \in Range(mmap)}
        /\ UNCHANGED <<n_mem_ranges, mem, tlb, call, pc>>
    BY <1>6 DEF BootPhysical, Boot, call_vars
  <2>2. n_mem_ranges <= MaxRanges
    <3>1. null => Len(mmap) = 0
      BY <2>1 DEF Outcome
    <3> QED BY <1>1, <2>1, <3>1 DEF Outcome, MaxRanges
  <2>3. n_mem_ranges \in 0..MaxRanges
    BY <1>1, <2>2 DEF MaxRanges
  <2>4. Starved
    BY <2>1 DEF Outcome, Booting
  <2>5. n_mem_ranges = 0 => free' = {}
    <3>1. mmap \in Seq(Range(machine.regions)) /\ Range(mmap) = {mmap[k] : k \in DOMAIN mmap}
      BY DEF Copy, Range
    <3>2. n_mem_ranges = 0 => DOMAIN mmap = {}
      BY <2>1, <3>1
    <3>3. n_mem_ranges = 0 => Range(mmap) = {}
      BY <3>1, <3>2
    <3> QED BY <2>1, <3>3
  <2>6. n_mem_ranges' = 0 => Starved'
    BY <2>1, <2>4, <2>5 DEF Starved
  <2> QED BY <2>1, <2>3, <2>6 DEF Outcome, Booting
<1>7. CASE BootVirtual
  <2>1. at = "virtual" /\ at' = "write" /\ n_mem_ranges' = n_mem_ranges /\ UNCHANGED vars
    BY <1>7 DEF BootVirtual, Boot, paging_vars
  <2>2. UNCHANGED <<mem, free, tlb, call, pc>>
    BY <2>1 DEF vars
  <2> QED BY <2>1, <2>2 DEF Outcome, Starved, Booting
<1>8. CASE BootWrite \/ BootRead
  <2>1. /\ at \in {"write", "read"} /\ at' \in {"read", "up"} /\ pc = "idle"
        /\ (at = "write") = (at' = "read") /\ Call(TestTouch) /\ n_mem_ranges' = n_mem_ranges
    BY <1>8 DEF BootWrite, BootRead, BootTest, Boot
  <2>2. /\ call' = TestTouch /\ pc' = "access" /\ UNCHANGED <<mem, free, tlb>>
    BY <2>1 DEF Call, TestTouch, table_vars
  <2>3. call'.op = "touch" /\ call'.page = TestPage
    BY <2>2 DEF TestTouch
  <2>4. Starved => at = "write"
    BY <2>1 DEF Starved, Stops
  <2>5. Starved => Starved'
    BY <2>1, <2>2, <2>3, <2>4 DEF Starved
  <2> QED BY <2>1, <2>3, <2>5 DEF Outcome, Booting
<1> QED BY <1>2, <1>3, <1>4, <1>5, <1>6, <1>7, <1>8 DEF BootStep

LEMMA OutcomeStep ==
  ASSUME Types, Runs, Copy, Early, Outcome, [BootNext]_<<vars, boot_vars>>
  PROVE  Outcome'
<1> USE DEF table_vars, handler_vars, call_vars
<1>1. CASE BootStep
  BY <1>1, OutcomeBoots DEF Types
<1>2. CASE UNCHANGED boot_vars
  <2>1. UNCHANGED <<at, machine, n_mem_ranges, null, mmap>>
    BY <1>2 DEF boot_vars
  <2>2. ASSUME Starved => Starved',
               at # "up" => call'.op = "none" \/ (call'.op = "touch" /\ call'.page = TestPage)
        PROVE  Outcome'
    BY <2>1, <2>2, Zenon DEF Outcome
  <2>3. ASSUME UNCHANGED <<mem, free, tlb, call>>, pc' \in {"handle"} \union Stops \/ pc' = pc
        PROVE  Outcome'
    BY <2>1, <2>2, <2>3, StarvedStays DEF Outcome
  <2>4. Starved => pc \in {"idle", "access", "handle"} \union Stops
    BY DEF Starved
  <2>5. CASE Fault \/ CreateFault \/ BootCopyFault \/ HandleHalt \/ HandleFault \/ UNCHANGED <<vars, boot_vars>>
    BY <2>3, <2>5 DEF Fault, CreateFault, BootCopyFault, Trap, HandleHalt, HandleFault, Stops, vars
  <2>6. CASE \E n \in Vectors : Interrupt(n)
    BY <2>3, <2>6 DEF Interrupt, Stops
  <2>7. CASE CreatePdpt \/ CreatePd \/ CreatePt \/ HandleEntry
    <3>1. pc \notin {"idle", "access", "handle"} \union Stops
      BY <2>7 DEF CreatePdpt, CreatePd, CreatePt, Create, HandleEntry, Stops
    <3>2. call' = call
      BY <2>7 DEF CreatePdpt, CreatePd, CreatePt, Create, HandleEntry
    <3> QED BY <2>2, <2>4, <3>1, <3>2 DEF Outcome
  <2>8. CASE HandleAllocate
    <3>1. free # {} /\ call' = call
      BY <2>8 DEF HandleAllocate
    <3> QED BY <2>2, <3>1 DEF Outcome, Starved
  <2>9. CASE Touch
    <3>1. pc = "access" /\ call' = call /\ (tlb # {} \/ Walk(mem, call.page) # NoFrame)
      BY <2>9 DEF Touch
    <3>2. ~Starved
      BY <3>1 DEF Starved, Stops
    <3> QED BY <2>2, <3>1, <3>2 DEF Outcome
  <2>10. CASE MapCheck \/ UnmapSkip \/ UnmapDone \/ Set
    <3>1. call' = call
      BY <2>10 DEF MapCheck, UnmapSkip, UnmapDone, Set
    <3>2. CASE MapCheck \/ UnmapSkip \/ UnmapDone
      <4>1. pc \notin {"idle", "access", "handle"} \union Stops
        BY <3>2 DEF MapCheck, UnmapSkip, UnmapDone, Stops
      <4> QED BY <2>2, <2>4, <3>1, <4>1 DEF Outcome
    <3>3. CASE Set
      <4>1. pc = "access" /\ call.op # "touch"
        BY <3>3 DEF Set
      <4>2. ~Starved
        BY <4>1 DEF Starved, Stops
      <4> QED BY <2>2, <3>1, <4>2 DEF Outcome
    <3> QED BY <2>10, <3>2, <3>3
  <2>11. CASE MapEntry \/ UnmapEntry
    <3>1. pc \in {"map_entry", "unmap"}
      BY <2>11 DEF MapEntry, UnmapEntry
    <3>2. ~pfaulting
      BY <3>1 DEF Types, HandlerType, Handling, Creating, Stops
    <3>3. call.op \in {"map", "unmap"}
      BY <3>1, <3>2 DEF Runs, Fits, Stops, Creating
    <3>4. at = "up"
      BY <3>3 DEF Outcome
    <3> QED BY <2>2, <3>4 DEF Starved
  <2>12. CASE Return
    <3>1. pc = "return" /\ call'.op = "none"
      BY <2>12 DEF Return, NoCall
    <3> QED BY <2>2, <2>4, <3>1 DEF Stops
  <2>13. CASE at = "up" /\ \E c \in Calls : Call(c)
    BY <2>2, <2>13 DEF Starved
  <2>14. BootNext \/ UNCHANGED <<vars, boot_vars>>
    OBVIOUS
  <2> HIDE DEF table_vars, handler_vars, call_vars
  <2>15. BootIdt \/ BootMalloc \/ BootCount \/ BootMap \/ BootCopy \/ BootVirtual \/ BootPhysical
           \/ BootWrite \/ BootRead => BootStep
    BY DEF BootStep
  <2> QED BY <1>1, <2>5, <2>6, <2>7, <2>8, <2>9, <2>10, <2>11, <2>12, <2>13, <2>14, <2>15, Actions
<1> QED BY <1>1, <1>2, SameMachine

\* kernel_init() comes to its end with one to three usable regions only, and
\* halts on its way for want of one, of a frame, or of memory for the copy.
THEOREM BootEndsRight == BootSpec => []BootOutcome
<1>1. Outcome /\ IInv => BootOutcome
  <2> SUFFICES ASSUME Outcome, IInv
               PROVE  BootOutcome
    OBVIOUS
  <2>1. at = "up" => n_mem_ranges \in 1..MaxRanges
    BY DEF Outcome, Starved, Booting, MaxRanges
  <2>2. pc = "halt" /\ at # "up" /\ ~spoilt => free = {}
    BY TestAssumption DEF IInv, Clean, Halting, Outcome
  <2> QED BY <2>1, <2>2, Zenon DEF BootOutcome
<1>2. IInv /\ Outcome /\ [BootNext]_<<vars, boot_vars>> => Outcome'
  BY OutcomeStep DEF IInv
<1> QED BY <1>1, <1>2, OutcomeInit, Invariant, PTL DEF BootSpec
=============================================================================

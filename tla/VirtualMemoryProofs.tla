------------------------ MODULE VirtualMemoryProofs ------------------------
(***************************************************************************)
(* Theorems about the virtual address allocator, for every region, every   *)
(* size that is asked for and every place that is reserved.                *)
(***************************************************************************)
EXTENDS VirtualMemory, SequenceTheorems, WellFoundedInduction, TLAPS

(***************************************************************************)
(* The list.                                                               *)
(***************************************************************************)

\* A node by its fields.
LEMMA NodeFields ==
  /\ \A s, z, f : /\ Node(s, z, f).alloc_st = s
                  /\ Node(s, z, f).size = z
                  /\ Node(s, z, f).free = f
                  /\ s \in HHStart..(AddrPages - 1) /\ z \in 1..RegSize /\ f \in BOOLEAN
                       => Node(s, z, f) \in Nodes
  /\ \A c \in Nodes : /\ c.alloc_st \in HHStart..(AddrPages - 1)
                      /\ c.size \in 1..RegSize
                      /\ c.free \in BOOLEAN
                      /\ c = Node(c.alloc_st, c.size, c.free)
BY DEF Node, Nodes

\* List m is l with its i-th node marked f.
MarkOf(l, m, i, f) ==
  /\ Len(m) = Len(l)
  /\ \A j \in 1..Len(l) : m[j] = IF j = i THEN Node(l[i].alloc_st, l[i].size, f) ELSE l[j]

\* List m is l with the nodes a and b in the place of the i-th.
CutOf(l, m, i, a, b) ==
  /\ Len(m) = Len(l) + 1
  /\ \A j \in 1..(Len(l) + 1) :
       m[j] = IF j < i THEN l[j] ELSE IF j = i THEN a
              ELSE IF j = i + 1 THEN b ELSE l[j-1]

\* A node is marked, the others stay as they are.
LEMMA MarkList ==
  ASSUME NEW l \in Seq(Nodes), NEW i \in 1..Len(l), NEW f \in BOOLEAN
  PROVE  LET m == [l EXCEPT ![i].free = f]
         IN  m \in Seq(Nodes) /\ MarkOf(l, m, i, f)
<1> DEFINE e == [l[i] EXCEPT !.free = f]
<1>1. l[i] \in Nodes
  BY ElementOfSeq
<1>2. e \in Nodes /\ e = Node(l[i].alloc_st, l[i].size, f)
  BY <1>1 DEF Nodes, Node
<1>3. [l EXCEPT ![i].free = f] = [l EXCEPT ![i] = e]
  BY LenProperties
<1> HIDE DEF e
<1>4. /\ [l EXCEPT ![i] = e] \in Seq(Nodes)
      /\ Len([l EXCEPT ![i] = e]) = Len(l)
      /\ \A j \in 1..Len(l) : [l EXCEPT ![i] = e][j] = IF j = i THEN e ELSE l[j]
  BY <1>2, ExceptSeq
<1> QED BY <1>2, <1>3, <1>4 DEF MarkOf

\* bisect_node: two nodes take the place of one.
LEMMA CutList ==
  ASSUME NEW l \in Seq(Nodes), NEW n \in Nat, n = Len(l), NEW i \in 1..n,
         NEW a \in Nodes, NEW b \in Nodes
  PROVE  LET m == SubSeq(l, 1, i - 1) \o <<a, b>> \o SubSeq(l, i + 1, Len(l))
         IN  m \in Seq(Nodes) /\ CutOf(l, m, i, a, b)
<1>0. \A j \in 1..n : l[j] \in Nodes
  BY ElementOfSeq
<1>1. PICK u \in Seq(Nodes) : /\ u = SubSeq(l, 1, i - 1) /\ Len(u) = i - 1
                              /\ \A j \in 1..(i-1) : u[j] = l[j]
  <2>1. /\ SubSeq(l, 1, i - 1) \in Seq(Nodes) /\ Len(SubSeq(l, 1, i - 1)) = i - 1
        /\ \A j \in 1..(i-1) : SubSeq(l, 1, i - 1)[j] = l[j]
    BY <1>0
  <2> QED BY <2>1, Zenon
<1>2. PICK v \in Seq(Nodes) : /\ v = SubSeq(l, i + 1, n) /\ Len(v) = n - i
                              /\ \A j \in 1..(n - i) : v[j] = l[j+i]
  <2>1. /\ SubSeq(l, i + 1, n) \in Seq(Nodes) /\ Len(SubSeq(l, i + 1, n)) = n - i
        /\ \A j \in 1..(n - i) : SubSeq(l, i + 1, n)[j] = l[j+i]
    BY <1>0
  <2> QED BY <2>1, Zenon
<1>3. PICK w \in Seq(Nodes) : w = <<a, b>> /\ Len(w) = 2 /\ w[1] = a /\ w[2] = b
  <2>1. <<a, b>> \in Seq(Nodes) /\ Len(<<a, b>>) = 2 /\ <<a, b>>[1] = a /\ <<a, b>>[2] = b
    OBVIOUS
  <2> QED BY <2>1, Zenon
<1>4. PICK p \in Seq(Nodes) :
        /\ p = u \o w /\ Len(p) = i + 1
        /\ \A j \in 1..(i + 1) : p[j] = IF j <= i - 1 THEN u[j] ELSE w[j - (i - 1)]
  <2>1. /\ u \o w \in Seq(Nodes) /\ Len(u \o w) = Len(u) + Len(w)
        /\ \A j \in 1..(Len(u) + Len(w)) :
             (u \o w)[j] = IF j <= Len(u) THEN u[j] ELSE w[j - Len(u)]
    BY ConcatProperties
  <2>2. Len(u) = i - 1 /\ Len(w) = 2
    BY <1>1, <1>3
  <2>3. Len(u) + Len(w) = i + 1
    BY <2>2
  <2>4. /\ Len(u \o w) = i + 1
        /\ \A j \in 1..(i + 1) : (u \o w)[j] = IF j <= i - 1 THEN u[j] ELSE w[j - (i - 1)]
    BY <2>1, <2>2, <2>3, Zenon
  <2> QED BY <2>1, <2>4, Zenon
<1>5. PICK m \in Seq(Nodes) :
        /\ m = p \o v /\ Len(m) = n + 1
        /\ \A j \in 1..(n + 1) : m[j] = IF j <= i + 1 THEN p[j] ELSE v[j - (i + 1)]
  <2>1. /\ p \o v \in Seq(Nodes) /\ Len(p \o v) = Len(p) + Len(v)
        /\ \A j \in 1..(Len(p) + Len(v)) :
             (p \o v)[j] = IF j <= Len(p) THEN p[j] ELSE v[j - Len(p)]
    BY ConcatProperties
  <2>2. Len(p) = i + 1 /\ Len(v) = n - i
    BY <1>2, <1>4, Zenon
  <2>3. Len(p) + Len(v) = n + 1
    BY <2>2
  <2>4. /\ Len(p \o v) = n + 1
        /\ \A j \in 1..(n + 1) : (p \o v)[j] = IF j <= i + 1 THEN p[j] ELSE v[j - (i + 1)]
    BY <2>1, <2>2, <2>3, Zenon
  <2> QED BY <2>1, <2>4, Zenon
<1>6. ASSUME NEW j \in 1..(n + 1)
      PROVE  m[j] = IF j < i THEN l[j] ELSE IF j = i THEN a
                    ELSE IF j = i + 1 THEN b ELSE l[j-1]
  <2>1. CASE j < i
    <3>1. j \in 1..(i - 1) /\ j \in 1..(i + 1) /\ j <= i + 1 /\ j <= i - 1
      BY <2>1
    <3> QED BY <2>1, <3>1, <1>1, <1>4, <1>5
  <2>2. CASE j = i
    <3>1. j \in 1..(i + 1) /\ j <= i + 1 /\ ~(j <= i - 1) /\ j - (i - 1) = 1
      BY <2>2
    <3> QED BY <2>2, <3>1, <1>3, <1>4, <1>5
  <2>3. CASE j = i + 1
    <3>1. j \in 1..(i + 1) /\ j <= i + 1 /\ ~(j <= i - 1) /\ j - (i - 1) = 2 /\ ~(j < i) /\ j # i
      BY <2>3
    <3> QED BY <2>3, <3>1, <1>3, <1>4, <1>5
  <2>4. CASE j > i + 1
    <3>1. /\ ~(j <= i + 1) /\ j - (i + 1) \in 1..(n - i) /\ (j - (i + 1)) + i = j - 1
          /\ ~(j < i) /\ j # i /\ j # i + 1
      BY <2>4
    <3> QED BY <3>1, <1>2, <1>5
  <2> QED BY <2>1, <2>2, <2>3, <2>4
<1> QED BY <1>1, <1>2, <1>3, <1>4, <1>5, <1>6 DEF CutOf

\* A set of numbers that is not empty has a least one.
LEMMA LeastElement ==
  ASSUME NEW T \in SUBSET Nat, T # {}
  PROVE  \E x \in T : \A y \in T : x <= y
<1> DEFINE R == OpToRel(<, Nat)
<1>1. IsWellFoundedOn(R, Nat)
  BY NatLessThanWellFounded
<1>2. \A x, y \in Nat : x < y => <<x, y>> \in R
  BY DEF OpToRel
<1> HIDE DEF R
<1>3. PICK x \in T : \A y \in T : ~(<<y, x>> \in R)
  BY <1>1, WFMin
<1>4. \A y \in T : ~(y < x)
  BY <1>2, <1>3
<1> QED BY <1>4

\* The loops stop at the first node that meets their test, if there is one.
LEMMA Searches ==
  ASSUME list \in Seq(Nodes), NEW n, NEW w
  PROVE  /\ AllocateAt(n) # 0 =>
              /\ AllocateAt(n) \in 1..Len(list)
              /\ ~list[AllocateAt(n)].free \/ list[AllocateAt(n)].size >= n
         /\ ReserveAt(w, n) # 0 => ReserveAt(w, n) \in 1..Len(list)
         /\ FreeAt(w) # 0 =>
              /\ FreeAt(w) \in 1..Len(list)
              /\ list[FreeAt(w)].free \/ list[FreeAt(w)].alloc_st = w
<1>1. ASSUME NEW T \in SUBSET (1..Len(list)), T # {}
      PROVE  Min(T) \in T
  <2>1. Len(list) \in Nat
    BY LenProperties
  <2>2. PICK x \in T : \A y \in T : x <= y
    BY <1>1, <2>1, LeastElement
  <2> QED BY <2>2 DEF Min
<1>2. AllocateAt(n) # 0 =>
        AllocateAt(n) \in {j \in 1..Len(list) : ~list[j].free \/ list[j].size >= n}
  BY <1>1 DEF AllocateAt, SelectInSeq
<1>3. ReserveAt(w, n) # 0 => ReserveAt(w, n) \in 1..Len(list)
  BY <1>1 DEF ReserveAt, SelectInSeq
<1>4. FreeAt(w) # 0 =>
        FreeAt(w) \in {j \in 1..Len(list) : list[j].free \/ list[j].alloc_st = w}
  BY <1>1 DEF FreeAt, SelectInSeq
<1> QED BY <1>2, <1>3, <1>4

(***************************************************************************)
(* The invariant.                                                          *)
(***************************************************************************)

\* The nodes of list l come in the order of their addresses, each behind the
\* end of every one before it.
AscendingOf(l) ==
  \A i, j \in 1..Len(l) : i < j => l[i].alloc_st + l[i].size <= l[j].alloc_st

\* No node goes past the end of the region.
InRegionOf(l) == \A i \in 1..Len(l) : l[i].alloc_st + l[i].size <= AddrPages

\* It begins where the region does, each node behind the one before it, and
\* ends where the region does.
TiledOf(l) ==
  /\ l[1].alloc_st = HHStart
  /\ \A i \in 1..(Len(l) - 1) : l[i+1].alloc_st = l[i].alloc_st + l[i].size
  /\ l[Len(l)].alloc_st + l[Len(l)].size = AddrPages

TilesOf(l) == l # <<>> /\ AscendingOf(l) /\ InRegionOf(l) /\ TiledOf(l)

\* Nothing has happened yet.
Fresh == pc = "init" => list = <<>> /\ given = {}

\* Until a merge goes wrong the nodes of the list tile the region.
Solid == pc \notin {"init", "dangling"} => TilesOf(list)

IInv == TypeOK /\ Fresh /\ Solid /\ GivenKept

\* Marking a node changes no tile.
LEMMA MarkTiles ==
  ASSUME NEW l \in Seq(Nodes), TilesOf(l), NEW i \in 1..Len(l), NEW f \in BOOLEAN,
         NEW m \in Seq(Nodes), MarkOf(l, m, i, f)
  PROVE  TilesOf(m)
<1>1. Len(l) \in Nat \ {0}
  BY EmptySeq DEF TilesOf
<1>2. \A j \in 1..Len(l) : m[j].alloc_st = l[j].alloc_st /\ m[j].size = l[j].size
  BY NodeFields DEF MarkOf
<1>3. m # <<>> /\ Len(m) = Len(l)
  BY <1>1, EmptySeq DEF MarkOf
<1>4. AscendingOf(m) /\ InRegionOf(m)
  BY <1>2, <1>3 DEF TilesOf, AscendingOf, InRegionOf
<1>5. TiledOf(m)
  <2>1. /\ 1 \in 1..Len(l) /\ Len(l) \in 1..Len(l)
        /\ \A j \in 1..(Len(l) - 1) : j \in 1..Len(l) /\ j + 1 \in 1..Len(l)
    BY <1>1
  <2> QED BY <1>2, <1>3, <2>1 DEF TilesOf, TiledOf
<1> QED BY <1>3, <1>4, <1>5 DEF TilesOf

\* Runs of pages A[j]..A[j]+Z[j]-1, one behind the other, tile P..Q-1.
Tiling(n, A, Z, P, Q) ==
  /\ \A j, k \in 1..n : j < k => A[j] + Z[j] <= A[k]
  /\ \A j \in 1..n : A[j] + Z[j] <= Q
  /\ A[1] = P
  /\ \A j \in 1..(n - 1) : A[j+1] = A[j] + Z[j]
  /\ A[n] + Z[n] = Q

\* The i-th of n runs is cut behind its first z pages.
CutRun(n, i, A, Z, z, B, Y) ==
  /\ \A j \in 1..n : A[j] \in Int /\ Z[j] \in Nat
  /\ \A j \in 1..(n + 1) : B[j] \in Int /\ Y[j] \in Nat
  /\ z <= Z[i]
  /\ \A j \in 1..(i - 1) : B[j] = A[j] /\ Y[j] = Z[j]
  /\ B[i] = A[i] /\ Y[i] = z
  /\ B[i+1] = A[i] + z /\ Y[i+1] = Z[i] - z
  /\ \A j \in (i + 1)..n : B[j+1] = A[j] /\ Y[j+1] = Z[j]

\* Cutting a run in two keeps the tiling.
LEMMA CutRuns ==
  ASSUME NEW n \in Nat, NEW i \in 1..n, NEW P \in Int, NEW Q \in Int,
         NEW A, NEW Z, NEW z \in Nat, NEW B, NEW Y,
         Tiling(n, A, Z, P, Q), CutRun(n, i, A, Z, z, B, Y)
  PROVE  Tiling(n + 1, B, Y, P, Q)
<1>a. /\ \A j \in 1..n : A[j] \in Int
      /\ \A j \in 1..n : Z[j] \in Nat
      /\ \A j \in 1..(n + 1) : B[j] \in Int
      /\ \A j \in 1..(n + 1) : Y[j] \in Nat
  BY DEF CutRun
<1>b. /\ z <= Z[i]
      /\ \A j \in 1..(i - 1) : B[j] = A[j] /\ Y[j] = Z[j]
      /\ B[i] = A[i] /\ Y[i] = z
      /\ B[i+1] = A[i] + z /\ Y[i+1] = Z[i] - z
      /\ \A j \in (i + 1)..n : B[j+1] = A[j] /\ Y[j+1] = Z[j]
  BY DEF CutRun
<1> USE <1>a, <1>b
<1>1. \A j \in (i + 2)..(n + 1) : /\ j - 1 \in (i + 1)..n /\ B[j] = A[j-1] /\ Y[j] = Z[j-1]
  <2> SUFFICES ASSUME NEW j \in (i + 2)..(n + 1)
               PROVE  j - 1 \in (i + 1)..n /\ B[j] = A[j-1] /\ Y[j] = Z[j-1]
    OBVIOUS
  <2>1. j - 1 \in (i + 1)..n /\ (j - 1) + 1 = j
    OBVIOUS
  <2> QED BY <2>1
<1>2. ASSUME NEW j \in 1..(n + 1), NEW k \in 1..(n + 1), j < k
      PROVE  B[j] + Y[j] <= B[k]
  <2>0. \A x, y \in 1..n : x < y => A[x] + Z[x] <= A[y]
    BY DEF Tiling
  <2>1. CASE k <= i
    <3>1. j \in 1..(i - 1) /\ B[j] + Y[j] = A[j] + Z[j] /\ B[k] = A[k]
      BY <1>2, <2>1
    <3>2. A[j] + Z[j] <= A[k]
      BY <1>2, <2>0, <2>1
    <3> QED BY <3>1, <3>2
  <2>2. CASE k = i + 1
    <3>1. CASE j = i
      BY <2>2, <3>1
    <3>2. CASE j # i
      <4>1. j \in 1..(i - 1) /\ B[j] + Y[j] = A[j] + Z[j]
        BY <1>2, <2>2, <3>2
      <4>2. A[j] + Z[j] <= A[i]
        BY <2>0, <4>1
      <4> QED BY <2>2, <4>1, <4>2
    <3> QED BY <3>1, <3>2
  <2>3. CASE k > i + 1
    <3>1. k - 1 \in (i + 1)..n /\ B[k] = A[k-1]
      BY <1>1, <2>3
    <3>2. A[i] + Z[i] <= A[k-1]
      BY <2>0, <3>1
    <3>3. CASE j < i
      <4>1. j \in 1..(i - 1) /\ B[j] + Y[j] = A[j] + Z[j]
        BY <3>3
      <4>2. A[j] + Z[j] <= A[k-1]
        BY <2>0, <3>1, <4>1
      <4> QED BY <3>1, <4>1, <4>2
    <3>4. CASE j = i \/ j = i + 1
      BY <3>1, <3>2, <3>4
    <3>5. CASE j > i + 1
      <4>1. j - 1 \in (i + 1)..n /\ B[j] + Y[j] = A[j-1] + Z[j-1]
        BY <1>1, <3>5
      <4>2. A[j-1] + Z[j-1] <= A[k-1]
        BY <1>2, <2>0, <3>1, <4>1
      <4> QED BY <3>1, <4>1, <4>2
    <3> QED BY <3>3, <3>4, <3>5
  <2> QED BY <2>1, <2>2, <2>3
<1>3. ASSUME NEW j \in 1..(n + 1) PROVE B[j] + Y[j] <= Q
  <2>0. \A x \in 1..n : A[x] + Z[x] <= Q
    BY DEF Tiling
  <2>1. CASE j < i
    BY <2>0, <2>1
  <2>2. CASE j = i \/ j = i + 1
    BY <2>0, <2>2
  <2>3. CASE j > i + 1
    BY <1>1, <2>0, <2>3
  <2> QED BY <2>1, <2>2, <2>3
<1>4. B[1] = P
  <2>1. A[1] = P
    BY DEF Tiling
  <2> QED BY <2>1
<1>5. ASSUME NEW j \in 1..n PROVE B[j+1] = B[j] + Y[j]
  <2>0. \A x \in 1..(n - 1) : A[x+1] = A[x] + Z[x]
    BY DEF Tiling
  <2>1. CASE j < i
    <3>1. j \in 1..(n - 1) /\ B[j+1] = A[j+1] /\ B[j] = A[j] /\ Y[j] = Z[j]
      BY <2>1
    <3> QED BY <2>0, <3>1
  <2>2. CASE j = i
    BY <2>2
  <2>3. CASE j = i + 1
    <3>1. i \in 1..(n - 1) /\ B[j+1] = A[i+1] /\ A[i+1] = A[i] + Z[i]
      BY <2>0, <2>3
    <3> QED BY <2>3, <3>1
  <2>4. CASE j > i + 1
    <3>1. /\ j - 1 \in 1..(n - 1) /\ (j - 1) + 1 = j
          /\ B[j+1] = A[j] /\ B[j] = A[j-1] /\ Y[j] = Z[j-1]
      BY <1>1, <2>4
    <3>2. A[(j-1)+1] = A[j-1] + Z[j-1]
      BY <2>0, <3>1
    <3> QED BY <3>1, <3>2
  <2> QED BY <2>1, <2>2, <2>3, <2>4
<1>6. B[n+1] + Y[n+1] = Q
  <2>1. A[n] + Z[n] = Q
    BY DEF Tiling
  <2> QED BY <2>1
<1> QED BY <1>2, <1>3, <1>4, <1>5, <1>6 DEF Tiling

\* bisect_node keeps the tiling: the two nodes are what the one was.
LEMMA CutTiles ==
  ASSUME NEW l \in Seq(Nodes), TilesOf(l), NEW i \in 1..Len(l),
         NEW z \in Nat \ {0}, z < l[i].size, NEW f \in BOOLEAN, NEW g \in BOOLEAN,
         NEW m \in Seq(Nodes),
         CutOf(l, m, i, Node(l[i].alloc_st, z, f), Node(l[i].alloc_st + z, l[i].size - z, g))
  PROVE  TilesOf(m)
<1> DEFINE n == Len(l)
<1> DEFINE a == Node(l[i].alloc_st, z, f)
<1> DEFINE b == Node(l[i].alloc_st + z, l[i].size - z, g)
<1>1. n \in Nat \ {0} /\ HHStart \in Nat /\ AddrPages \in Nat /\ RegSize \in Nat
  BY EmptySeq, RegionAssumption DEF TilesOf, AddrPages
<1>2. /\ \A j \in 1..n : l[j].alloc_st \in Int /\ l[j].size \in Nat
      /\ \A j \in 1..Len(m) : m[j].alloc_st \in Int /\ m[j].size \in Nat
  <2>1. /\ \A j \in 1..n : l[j] \in Nodes
        /\ \A j \in 1..Len(m) : m[j] \in Nodes
    BY ElementOfSeq
  <2>2. \A c \in Nodes : c.alloc_st \in Int /\ c.size \in Nat
    BY <1>1, NodeFields
  <2> QED BY <2>1, <2>2, Zenon
<1>3. PICK A : \A j \in 1..n : A[j] = l[j].alloc_st
  <2>1. \A j \in 1..n : [x \in 1..n |-> l[x].alloc_st][j] = l[j].alloc_st
    OBVIOUS
  <2> QED BY <2>1, Zenon
<1>4. PICK Z : \A j \in 1..n : Z[j] = l[j].size
  <2>1. \A j \in 1..n : [x \in 1..n |-> l[x].size][j] = l[j].size
    OBVIOUS
  <2> QED BY <2>1, Zenon
<1>5. PICK B : \A j \in 1..(n + 1) : B[j] = m[j].alloc_st
  <2>1. \A j \in 1..(n + 1) : [x \in 1..(n + 1) |-> m[x].alloc_st][j] = m[j].alloc_st
    OBVIOUS
  <2> QED BY <2>1, Zenon
<1>6. PICK Y : \A j \in 1..(n + 1) : Y[j] = m[j].size
  <2>1. \A j \in 1..(n + 1) : [x \in 1..(n + 1) |-> m[x].size][j] = m[j].size
    OBVIOUS
  <2> QED BY <2>1, Zenon
<1>7. /\ Len(m) = n + 1
      /\ \A j \in 1..(n + 1) : m[j] = IF j < i THEN l[j] ELSE IF j = i THEN a
                                      ELSE IF j = i + 1 THEN b ELSE l[j-1]
  BY DEF CutOf
<1>8. /\ a.alloc_st = l[i].alloc_st /\ a.size = z
      /\ b.alloc_st = l[i].alloc_st + z /\ b.size = l[i].size - z
  BY NodeFields
<1> HIDE DEF n, a, b
<1>9. i \in 1..n /\ z < Z[i] /\ m # <<>>
  BY <1>1, <1>4, <1>7, EmptySeq DEF n
<1>10. /\ \A j \in 1..n : A[j] \in Int
       /\ \A j \in 1..n : Z[j] \in Nat
       /\ \A j \in 1..(n + 1) : B[j] \in Int
       /\ \A j \in 1..(n + 1) : Y[j] \in Nat
  BY <1>2, <1>3, <1>4, <1>5, <1>6, <1>7
<1>11. \A j \in 1..(i - 1) : B[j] = A[j] /\ Y[j] = Z[j]
  BY <1>1, <1>3, <1>4, <1>5, <1>6, <1>7, <1>9
<1>12. B[i] = A[i] /\ Y[i] = z
  BY <1>1, <1>3, <1>5, <1>6, <1>7, <1>8, <1>9
<1>13. B[i+1] = A[i] + z /\ Y[i+1] = Z[i] - z
  BY <1>1, <1>3, <1>4, <1>5, <1>6, <1>7, <1>8, <1>9
<1>14. \A j \in (i + 1)..n : B[j+1] = A[j] /\ Y[j+1] = Z[j]
  <2> SUFFICES ASSUME NEW j \in (i + 1)..n
               PROVE  B[j+1] = A[j] /\ Y[j+1] = Z[j]
    OBVIOUS
  <2>1. j \in 1..n /\ j + 1 \in 1..(n + 1) /\ ~(j + 1 < i) /\ j + 1 # i /\ j + 1 # i + 1
    BY <1>1, <1>9
  <2>2. m[j+1] = l[(j+1)-1] /\ (j + 1) - 1 = j
    BY <1>7, <2>1
  <2> QED BY <1>3, <1>4, <1>5, <1>6, <2>1, <2>2
<1>15. Tiling(n, A, Z, HHStart, AddrPages)
  <2>1. AscendingOf(l) /\ InRegionOf(l) /\ TiledOf(l)
    BY DEF TilesOf
  <2>2. \A j \in 1..(n - 1) : j \in 1..n /\ j + 1 \in 1..n
    BY <1>1
  <2>3. 1 \in 1..n /\ n \in 1..n
    BY <1>1
  <2> QED BY <1>3, <1>4, <2>1, <2>2, <2>3 DEF Tiling, AscendingOf, InRegionOf, TiledOf, n
<1>16. Tiling(n + 1, B, Y, HHStart, AddrPages)
  <2>1. CutRun(n, i, A, Z, z, B, Y)
    BY <1>1, <1>9, <1>10, <1>11, <1>12, <1>13, <1>14 DEF CutRun
  <2> QED BY <1>1, <1>9, <1>15, <2>1, CutRuns
<1>17. AscendingOf(m) /\ InRegionOf(m) /\ TiledOf(m)
  <2>1. /\ \A j \in 1..((n + 1) - 1) : j \in 1..(n + 1) /\ j + 1 \in 1..(n + 1)
        /\ 1 \in 1..(n + 1) /\ n + 1 \in 1..(n + 1)
    BY <1>1
  <2> QED BY <1>5, <1>6, <1>7, <1>16, <2>1 DEF Tiling, AscendingOf, InRegionOf, TiledOf
<1> QED BY <1>9, <1>17 DEF TilesOf

\* What marking a node of the list does.
LEMMA MarkingList ==
  ASSUME list \in Seq(Nodes), TilesOf(list), NEW i \in 1..Len(list), NEW f \in BOOLEAN
  PROVE  /\ Marking(i, f) \in Seq(Nodes)
         /\ TilesOf(Marking(i, f))
         /\ \A e : Contains(list, e) /\ e # list[i] => Contains(Marking(i, f), e)
         /\ Contains(Marking(i, f), Node(list[i].alloc_st, list[i].size, f))
<1>1. PICK m \in Seq(Nodes) : m = Marking(i, f) /\ MarkOf(list, m, i, f)
  BY MarkList DEF Marking
<1>2. TilesOf(m)
  BY <1>1, MarkTiles
<1>3. \A e : Contains(list, e) /\ e # list[i] => Contains(m, e)
  BY <1>1 DEF MarkOf, Contains
<1>4. Contains(m, Node(list[i].alloc_st, list[i].size, f))
  BY <1>1 DEF MarkOf, Contains
<1> QED BY <1>1, <1>2, <1>3, <1>4

\* What cutting a node of the list in two does.
LEMMA BisectList ==
  ASSUME list \in Seq(Nodes), TilesOf(list), NEW i \in 1..Len(list),
         NEW n \in Nat \ {0}, n < list[i].size, NEW f \in BOOLEAN, NEW g \in BOOLEAN
  PROVE  /\ Bisect(i, n, f, g) \in Seq(Nodes)
         /\ TilesOf(Bisect(i, n, f, g))
         /\ \A e : Contains(list, e) /\ e # list[i] => Contains(Bisect(i, n, f, g), e)
         /\ Contains(Bisect(i, n, f, g), Node(list[i].alloc_st, n, f))
<1> DEFINE a == Node(list[i].alloc_st, n, f)
           b == Node(list[i].alloc_st + n, list[i].size - n, g)
<1>0. list[i] \in Nodes /\ Len(list) \in Nat
  BY ElementOfSeq, LenProperties
<1>1. a \in Nodes /\ b \in Nodes
  <2>1. /\ list[i].alloc_st \in HHStart..(AddrPages - 1) /\ list[i].size \in 1..RegSize
        /\ HHStart \in Nat /\ RegSize \in Nat /\ AddrPages \in Nat
    BY <1>0, NodeFields, RegionAssumption DEF AddrPages
  <2>2. list[i].alloc_st + list[i].size <= AddrPages
    BY DEF TilesOf, InRegionOf
  <2>3. /\ n \in 1..RegSize /\ list[i].alloc_st + n \in HHStart..(AddrPages - 1)
        /\ list[i].size - n \in 1..RegSize
    BY <2>1, <2>2
  <2> QED BY <2>1, <2>3, NodeFields
<1>2. PICK m \in Seq(Nodes) : m = Bisect(i, n, f, g) /\ CutOf(list, m, i, a, b)
  <2> HIDE DEF a, b
  <2>1. LET m == SubSeq(list, 1, i - 1) \o <<a, b>> \o SubSeq(list, i + 1, Len(list))
        IN  m \in Seq(Nodes) /\ CutOf(list, m, i, a, b)
    BY <1>0, <1>1, CutList
  <2> USE DEF a, b
  <2> QED BY <2>1 DEF Bisect, Cut
<1>3. TilesOf(m)
  BY <1>2, CutTiles
<1> HIDE DEF a, b
<1>4. ASSUME NEW e, Contains(list, e), e # list[i]
      PROVE  Contains(m, e)
  <2>1. PICK j \in 1..Len(list) : list[j] = e /\ j # i
    BY <1>4 DEF Contains
  <2>2. CASE j < i
    BY <1>0, <1>2, <2>1, <2>2 DEF CutOf, Contains
  <2>3. CASE j > i
    <3>1. j + 1 \in 1..(Len(list) + 1) /\ ~(j + 1 < i) /\ j + 1 # i /\ j + 1 # i + 1 /\ (j + 1) - 1 = j
      BY <1>0, <2>3
    <3>2. m[j+1] = list[j] /\ j + 1 \in 1..Len(m)
      BY <1>2, <3>1 DEF CutOf
    <3> QED BY <2>1, <3>2 DEF Contains
  <2> QED BY <1>0, <2>1, <2>2, <2>3
<1>5. Contains(m, a)
  BY <1>0, <1>2 DEF CutOf, Contains
<1> QED BY <1>2, <1>3, <1>4, <1>5 DEF a

\* No two nodes of a tiling start at the same page.
LEMMA StartsDiffer ==
  ASSUME NEW l \in Seq(Nodes), TilesOf(l),
         NEW i \in 1..Len(l), NEW j \in 1..Len(l), l[i].alloc_st = l[j].alloc_st
  PROVE  i = j
<1>1. Len(l) \in Nat /\ l[i] \in Nodes /\ l[j] \in Nodes
  BY ElementOfSeq, LenProperties
<1>2. /\ l[i].alloc_st \in Nat /\ l[i].size \in Nat \ {0}
      /\ l[j].alloc_st \in Nat /\ l[j].size \in Nat \ {0}
  BY <1>1, NodeFields, RegionAssumption DEF AddrPages
<1>3. /\ i < j => l[i].alloc_st + l[i].size <= l[j].alloc_st
      /\ j < i => l[j].alloc_st + l[j].size <= l[i].alloc_st
  BY DEF TilesOf, AscendingOf
<1> QED BY <1>1, <1>2, <1>3

\* What the invariant says before an operation on the list.
LEMMA Before ==
  ASSUME IInv, pc = "up"
  PROVE  /\ list \in Seq(Nodes) /\ TilesOf(list)
         /\ \A r \in given : Contains(list, Node(r.start, r.size, FALSE))
         /\ \A r \in given \union reserved : r.start \in Nat /\ r.size \in Nat \ {0}
         /\ \A i \in 1..Len(list) :
              /\ list[i].alloc_st \in HHStart..(AddrPages - 1)
              /\ list[i].size \in 1..RegSize
              /\ list[i].free \in BOOLEAN
<1>1. list \in Seq(Nodes) /\ TilesOf(list)
  BY DEF IInv, TypeOK, Solid
<1>2. \A r \in given : Contains(list, Node(r.start, r.size, FALSE))
  BY DEF IInv, GivenKept
<1>3. \A r \in given \union reserved : r.start \in Nat /\ r.size \in Nat \ {0}
  <2>1. /\ given \subseteq [start : HHStart..(AddrPages - 1), size : Sizes]
        /\ reserved \subseteq [start : Places, size : Sizes]
    BY DEF IInv, TypeOK
  <2>2. /\ HHStart..(AddrPages - 1) \subseteq Nat /\ Sizes \subseteq Nat \ {0}
        /\ Places \subseteq Nat
    BY RegionAssumption DEF AddrPages
  <2> QED BY <2>1, <2>2
<1>4. ASSUME NEW i \in 1..Len(list)
      PROVE  /\ list[i].alloc_st \in HHStart..(AddrPages - 1)
             /\ list[i].size \in 1..RegSize
             /\ list[i].free \in BOOLEAN
  BY <1>1, ElementOfSeq, NodeFields
<1> QED BY <1>1, <1>2, <1>3, <1>4

\* allocate_region() takes a free node, whole or the front of it.
LEMMA AllocateKeeps ==
  ASSUME IInv, NEW n \in Sizes, Allocate(n)
  PROVE  IInv'
<1> DEFINE i == AllocateAt(n)
<1>1. pc = "up" /\ i # 0 /\ list[i].free /\ list' = Allocated(i, n)
      /\ given' = given \union {Run(list[i].alloc_st, n)} /\ reserved' = reserved /\ pc' = pc
  BY DEF Allocate
<1>2. /\ list \in Seq(Nodes) /\ TilesOf(list)
      /\ \A r \in given : Contains(list, Node(r.start, r.size, FALSE))
      /\ \A k \in 1..Len(list) : /\ list[k].alloc_st \in HHStart..(AddrPages - 1)
                                 /\ list[k].size \in 1..RegSize
  BY <1>1, Before
<1>3. i \in 1..Len(list) /\ list[i].size >= n
  BY <1>1, <1>2, Searches
<1>4. n \in Nat \ {0} /\ RegSize \in Nat
  BY RegionAssumption
<1> HIDE DEF i
<1>5. /\ list' \in Seq(Nodes) /\ TilesOf(list')
      /\ \A e : Contains(list, e) /\ e # list[i] => Contains(list', e)
      /\ Contains(list', Node(list[i].alloc_st, n, FALSE))
  <2>1. CASE list[i].size = n
    BY <1>1, <1>2, <1>3, <2>1, MarkingList DEF Allocated
  <2>2. CASE list[i].size # n
    <3>1. n < list[i].size
      BY <1>2, <1>3, <1>4, <2>2
    <3> QED BY <1>1, <1>2, <1>3, <1>4, <2>2, <3>1, BisectList DEF Allocated
  <2> QED BY <2>1, <2>2
<1>6. ASSUME NEW r \in given'
      PROVE  Contains(list', Node(r.start, r.size, FALSE))
  <2>1. CASE r \in given
    <3>1. Node(r.start, r.size, FALSE) # list[i]
      BY <1>1 DEF Node
    <3> QED BY <1>2, <1>5, <2>1, <3>1
  <2>2. CASE r = Run(list[i].alloc_st, n)
    BY <1>5, <2>2 DEF Run
  <2> QED BY <1>1, <2>1, <2>2
<1>7. TypeOK'
  <2>1. Run(list[i].alloc_st, n) \in [start : HHStart..(AddrPages - 1), size : Sizes]
    BY <1>2, <1>3 DEF Run
  <2> QED BY <1>1, <1>5, <2>1 DEF IInv, TypeOK
<1> QED BY <1>1, <1>5, <1>6, <1>7 DEF IInv, Fresh, Solid, GivenKept

\* reserve_region() marks a free node or cuts one.
LEMMA ReserveKeeps ==
  ASSUME IInv, NEW where \in Places, NEW n \in Sizes, Reserve(where, n)
  PROVE  IInv'
<1> DEFINE i == ReserveAt(where, n)
<1>1. /\ pc = "up" /\ i # 0 /\ list[i].free
      /\ list' = IF list[i].size > n THEN Bisect(i, n, TRUE, FALSE) ELSE Marking(i, FALSE)
      /\ reserved' = reserved \union {Run(where, n)} /\ given' = given /\ pc' = pc
  BY DEF Reserve
<1>2. /\ list \in Seq(Nodes) /\ TilesOf(list)
      /\ \A r \in given : Contains(list, Node(r.start, r.size, FALSE))
      /\ \A k \in 1..Len(list) : list[k].size \in 1..RegSize
  BY <1>1, Before
<1>3. i \in 1..Len(list)
  BY <1>1, <1>2, Searches
<1>4. n \in Nat \ {0} /\ RegSize \in Nat
  BY RegionAssumption
<1> HIDE DEF i
<1>5. /\ list' \in Seq(Nodes) /\ TilesOf(list')
      /\ \A e : Contains(list, e) /\ e # list[i] => Contains(list', e)
  <2>1. CASE list[i].size > n
    <3>1. n < list[i].size
      BY <1>2, <1>3, <1>4, <2>1
    <3> QED BY <1>1, <1>2, <1>3, <1>4, <2>1, <3>1, BisectList
  <2>2. CASE ~(list[i].size > n)
    BY <1>1, <1>2, <1>3, <2>2, MarkingList
  <2> QED BY <2>1, <2>2
<1>6. ASSUME NEW r \in given'
      PROVE  Contains(list', Node(r.start, r.size, FALSE))
  <2>1. Node(r.start, r.size, FALSE) # list[i]
    BY <1>1 DEF Node
  <2> QED BY <1>1, <1>2, <1>5, <2>1
<1>7. TypeOK'
  <2>1. Run(where, n) \in [start : Places, size : Sizes]
    BY DEF Run
  <2>2. TypeOK
    BY DEF IInv
  <2> QED BY <1>1, <1>5, <2>1, <2>2 DEF TypeOK
<1> QED BY <1>1, <1>5, <1>6, <1>7 DEF IInv, Fresh, Solid, GivenKept

\* free_region(r) marks the node that starts where r does: no other region that
\* was given starts there.
LEMMA FreeKeeps ==
  ASSUME IInv, NEW r \in Freeable, Free(r)
  PROVE  IInv'
<1> DEFINE i == FreeAt(r.start)
<1>1. /\ pc = "up" /\ i # 0 /\ ~list[i].free /\ i < Len(list)
      /\ list' = Marking(i, TRUE) /\ Forget(r) /\ pc' = pc
  BY DEF Free, Frees
<1>2. /\ list \in Seq(Nodes) /\ TilesOf(list)
      /\ \A s \in given : Contains(list, Node(s.start, s.size, FALSE))
      /\ \A s \in given \union reserved : s.start \in Nat /\ s.size \in Nat \ {0}
  BY <1>1, Before
<1>3. i \in 1..Len(list) /\ list[i].alloc_st = r.start
  BY <1>1, <1>2, Searches
<1> HIDE DEF i
<1>4. /\ list' \in Seq(Nodes) /\ TilesOf(list')
      /\ \A e : Contains(list, e) /\ e # list[i] => Contains(list', e)
  BY <1>1, <1>2, <1>3, MarkingList
<1>5. given' \subseteq given /\ reserved' \subseteq reserved /\ r \notin given'
  BY <1>1 DEF Forget
<1>6. ASSUME NEW s \in given'
      PROVE  Contains(list', Node(s.start, s.size, FALSE))
  <2>1. s \in given /\ s # r
    BY <1>5
  <2>2. Node(s.start, s.size, FALSE) # list[i]
    <3> SUFFICES ASSUME Node(s.start, s.size, FALSE) = list[i] PROVE FALSE
      OBVIOUS
    <3>1. s.start = r.start /\ s.size = list[i].size
      BY <1>3 DEF Node
    <3>2. CASE r \in given
      <4>1. PICK j \in 1..Len(list) : list[j] = Node(r.start, r.size, FALSE)
        BY <1>2, <3>2 DEF Contains
      <4>2. j = i
        BY <1>2, <1>3, <4>1, StartsDiffer DEF Node
      <4>3. r.size = s.size
        BY <3>1, <4>1, <4>2 DEF Node
      <4>4. r = s
        <5>1. given \subseteq [start : HHStart..(AddrPages - 1), size : Sizes]
          BY DEF IInv, TypeOK
        <5>2. /\ r \in [start : HHStart..(AddrPages - 1), size : Sizes]
              /\ s \in [start : HHStart..(AddrPages - 1), size : Sizes]
          BY <2>1, <3>2, <5>1
        <5> QED BY <3>1, <4>3, <5>2
      <4> QED BY <2>1, <4>4
    <3>3. CASE r \notin given
      <4>1. r \in reserved /\ Extent(r) \intersect Extent(s) = {}
        BY <2>1, <3>3 DEF Freeable
      <4>2. r.start \in Extent(r) /\ s.start \in Extent(s)
        BY <1>2, <2>1, <4>1 DEF Extent
      <4> QED BY <3>1, <4>1, <4>2
    <3> QED BY <3>2, <3>3
  <2> QED BY <1>2, <1>4, <2>1, <2>2
<1>7. TypeOK'
  BY <1>1, <1>4, <1>5 DEF IInv, TypeOK
<1> QED BY <1>1, <1>4, <1>5, <1>6, <1>7 DEF IInv, Fresh, Solid, GivenKept

\* The merge with the node behind leaves nodes of the region: the size of a
\* node is added to that of one before it.
LEMMA FreeMergeKeeps ==
  ASSUME IInv, NEW r \in Freeable, FreeMerge(r)
  PROVE  IInv'
<1> DEFINE i == FreeAt(r.start)
<1> DEFINE u == RemoveAt(list, i + 1)
<1> DEFINE e == Node(list[i].alloc_st, list[i].size + list[i+2].size, TRUE)
<1>1. /\ pc = "up" /\ i # 0 /\ i + 1 < Len(list)
      /\ list' = [u EXCEPT ![i].free = TRUE, ![i].size = @ + list[i+2].size]
      /\ Forget(r) /\ pc' = "dangling"
  BY DEF FreeMerge, Frees
<1>2. /\ list \in Seq(Nodes) /\ TilesOf(list) /\ Len(list) \in Nat
      /\ \A k \in 1..Len(list) : /\ list[k].alloc_st \in HHStart..(AddrPages - 1)
                                 /\ list[k].size \in 1..RegSize
  BY <1>1, Before, LenProperties
<1>3. i \in 1..Len(list)
  BY <1>1, <1>2, Searches
<1>4. i + 1 \in 1..Len(list) /\ i + 2 \in 1..Len(list)
  BY <1>1, <1>2, <1>3
<1> HIDE DEF i
<1>5. u \in Seq(Nodes) /\ i \in 1..Len(u) /\ u[i] = list[i]
  <2>1. \A k \in 1..Len(list) : list[k] \in Nodes
    BY <1>2, ElementOfSeq
  <2>2. PICK p \in Seq(Nodes) : /\ p = SubSeq(list, 1, i) /\ Len(p) = i
                                /\ \A k \in 1..i : p[k] = list[k]
    <3>1. /\ SubSeq(list, 1, i) \in Seq(Nodes) /\ Len(SubSeq(list, 1, i)) = i
          /\ \A k \in 1..i : SubSeq(list, 1, i)[k] = list[k]
      BY <1>2, <1>3, <2>1
    <3> QED BY <3>1, Zenon
  <2>3. PICK q \in Seq(Nodes) : q = SubSeq(list, i + 2, Len(list))
    <3>1. SubSeq(list, i + 2, Len(list)) \in Seq(Nodes)
      BY <1>2, <1>3, <2>1
    <3> QED BY <3>1, Zenon
  <2>4. u = p \o q
    <3>1. (i + 1) - 1 = i /\ (i + 1) + 1 = i + 2
      BY <1>3
    <3>2. u = SubSeq(list, 1, (i + 1) - 1) \o SubSeq(list, (i + 1) + 1, Len(list))
      BY DEF RemoveAt
    <3> QED BY <2>2, <2>3, <3>1, <3>2, Zenon
  <2>5. /\ p \o q \in Seq(Nodes) /\ Len(p \o q) = Len(p) + Len(q) /\ Len(q) \in Nat
        /\ \A k \in 1..(Len(p) + Len(q)) :
             (p \o q)[k] = IF k <= Len(p) THEN p[k] ELSE q[k - Len(p)]
    BY ConcatProperties, LenProperties
  <2> HIDE DEF u
  <2> QED BY <1>2, <1>3, <2>2, <2>4, <2>5
<1> HIDE DEF u
<1>6. e \in Nodes
  <2>1. /\ list[i].alloc_st + list[i].size <= list[i+1].alloc_st
        /\ list[i+1].alloc_st + list[i+1].size <= list[i+2].alloc_st
        /\ list[i+2].alloc_st + list[i+2].size <= AddrPages
    BY <1>2, <1>3, <1>4 DEF TilesOf, AscendingOf, InRegionOf
  <2>2. HHStart \in Nat /\ RegSize \in Nat /\ AddrPages = HHStart + RegSize
    BY RegionAssumption DEF AddrPages
  <2>3. /\ list[i].alloc_st \in HHStart..(AddrPages - 1) /\ list[i].size \in 1..RegSize
        /\ list[i+1].alloc_st \in HHStart..(AddrPages - 1) /\ list[i+1].size \in 1..RegSize
        /\ list[i+2].alloc_st \in HHStart..(AddrPages - 1) /\ list[i+2].size \in 1..RegSize
    BY <1>2, <1>3, <1>4
  <2>4. list[i].size + list[i+2].size \in 1..RegSize
    BY <2>1, <2>2, <2>3
  <2> QED BY <2>3, <2>4, NodeFields
<1>7. list' = [u EXCEPT ![i] = e]
  <2>1. u[i] \in Nodes
    BY <1>5, ElementOfSeq
  <2>2. [u[i] EXCEPT !.free = TRUE, !.size = @ + list[i+2].size] = e
    <3>1. ASSUME NEW c \in Nodes, NEW x \in 1..RegSize, NEW f \in BOOLEAN
          PROVE  [c EXCEPT !.free = f, !.size = x] = Node(c.alloc_st, x, f)
      <4> DEFINE d == [c EXCEPT !.free = f, !.size = x]
      <4>1. d \in Nodes /\ d.alloc_st = c.alloc_st /\ d.size = x /\ d.free = f
        BY DEF Nodes
      <4> HIDE DEF d
      <4>2. d = Node(c.alloc_st, x, f)
        BY <4>1, NodeFields
      <4> QED BY <4>2 DEF d
    <3>2. u[i].size + list[i+2].size \in 1..RegSize
      BY <1>5, <1>6 DEF Node, Nodes
    <3>3. [u[i] EXCEPT !.free = TRUE, !.size = u[i].size + list[i+2].size] = e
      BY <1>5, <2>1, <3>1, <3>2, Zenon
    <3> QED BY <3>3
  <2>3. [u EXCEPT ![i].free = TRUE, ![i].size = @ + list[i+2].size]
          = [u EXCEPT ![i] = [u[i] EXCEPT !.free = TRUE, !.size = @ + list[i+2].size]]
    BY <1>5, LenProperties
  <2> QED BY <1>1, <2>2, <2>3
<1>8. list' \in Seq(Nodes)
  BY <1>5, <1>6, <1>7, ExceptSeq
<1>9. given' \subseteq given /\ reserved' \subseteq reserved
  BY <1>1 DEF Forget
<1>10. TypeOK'
  BY <1>1, <1>8, <1>9 DEF IInv, TypeOK
<1> QED BY <1>1, <1>10 DEF IInv, Fresh, Solid, GivenKept

\* A step that leaves the list as it is and gives nothing more.
LEMMA ListKept ==
  ASSUME IInv, list' = list, given' \subseteq given, reserved' \subseteq reserved,
         pc' \in {"init", "up", "halt", "dangling", "spin in allocate",
                  "spin in reserve", "spin in free", "spin in is_allocated"},
         pc' = pc \/ (pc = "up" /\ pc' \notin {"init", "dangling"})
  PROVE  IInv'
<1>1. TypeOK'
  BY DEF IInv, TypeOK
<1>2. Fresh' /\ Solid' /\ GivenKept'
  BY DEF IInv, Fresh, Solid, GivenKept
<1> QED BY <1>1, <1>2 DEF IInv

\* initialize() makes one free node of the region.
LEMMA InitializeKeeps ==
  ASSUME IInv, Initialize
  PROVE  IInv'
<1> DEFINE c == Node(HHStart, RegSize, TRUE)
<1>1. /\ list' = <<c>> /\ pc' = "up" /\ given' = given /\ reserved' = reserved /\ given = {}
  BY DEF Initialize, IInv, Fresh
<1>2. HHStart \in Nat /\ RegSize \in Nat \ {0} /\ AddrPages = HHStart + RegSize
  BY RegionAssumption DEF AddrPages
<1>3. c \in Nodes /\ c.alloc_st = HHStart /\ c.size = RegSize
  <2>1. HHStart \in HHStart..(AddrPages - 1) /\ RegSize \in 1..RegSize /\ TRUE \in BOOLEAN
    BY <1>2
  <2>2. \A f \in BOOLEAN : /\ Node(HHStart, RegSize, f) \in Nodes
                           /\ Node(HHStart, RegSize, f).alloc_st = HHStart
                           /\ Node(HHStart, RegSize, f).size = RegSize
    BY <2>1, NodeFields
  <2> QED BY <2>2, Zenon
<1> HIDE DEF c
<1>4. list' \in Seq(Nodes) /\ Len(list') = 1 /\ list'[1] = c /\ list' # <<>>
  BY <1>1, <1>3
<1>5. TilesOf(list')
  BY <1>2, <1>3, <1>4 DEF TilesOf, AscendingOf, InRegionOf, TiledOf
<1>6. TypeOK'
  BY <1>1, <1>4 DEF IInv, TypeOK
<1> QED BY <1>1, <1>5, <1>6 DEF IInv, Fresh, Solid, GivenKept

LEMMA InitIInv == Init => IInv
<1> SUFFICES ASSUME Init PROVE IInv
  OBVIOUS
<1>1. list \in Seq(Nodes)
  BY DEF Init
<1> QED BY <1>1 DEF Init, IInv, TypeOK, Fresh, Solid, GivenKept

LEMMA StepIInv == IInv /\ [Next]_vars => IInv'
<1> SUFFICES ASSUME IInv, [Next]_vars PROVE IInv'
  OBVIOUS
<1>0. pc \in {"init", "up", "halt", "dangling", "spin in allocate",
              "spin in reserve", "spin in free", "spin in is_allocated"}
  BY DEF IInv, TypeOK
<1> DEFINE Same == list' = list /\ given' = given /\ reserved' = reserved
<1>1. ASSUME Same, pc' = pc PROVE IInv'
  <2>1. list' = list /\ given' \subseteq given /\ reserved' \subseteq reserved
    BY <1>1
  <2>2. pc' \in {"init", "up", "halt", "dangling", "spin in allocate",
                 "spin in reserve", "spin in free", "spin in is_allocated"}
    BY <1>0, <1>1, Zenon
  <2> QED BY <1>1, <2>1, <2>2, ListKept, Zenon
<1>2. ASSUME Same, pc = "up",
             pc' \in {"halt", "spin in allocate", "spin in reserve", "spin in free",
                      "spin in is_allocated"}
      PROVE  IInv'
  BY <1>2, ListKept
<1>3. CASE UNCHANGED vars \/ Stopped
  BY <1>1, <1>3 DEF vars, Stopped
<1>4. CASE Initialize
  BY <1>4, InitializeKeeps
<1>5. ASSUME NEW n \in Sizes, Allocate(n) \/ AllocateNull(n) \/ AllocateSpin(n)
      PROVE  IInv'
  <2>1. CASE Allocate(n)
    BY <2>1, AllocateKeeps
  <2>2. CASE AllocateNull(n)
    BY <1>1, <2>2 DEF AllocateNull, vars
  <2>3. CASE AllocateSpin(n)
    BY <1>2, <2>3 DEF AllocateSpin, Stop
  <2> QED BY <1>5, <2>1, <2>2, <2>3
<1>6. ASSUME NEW where \in Places, NEW n \in Sizes,
             \/ Reserve(where, n) \/ ReserveFalse(where, n) \/ ReserveSpin(where, n)
             \/ IsAllocatedFalse(where, n) \/ IsAllocatedSpin(where, n)
      PROVE  IInv'
  <2>1. CASE Reserve(where, n)
    BY <2>1, ReserveKeeps
  <2>2. CASE ReserveFalse(where, n) \/ IsAllocatedFalse(where, n)
    BY <1>1, <2>2 DEF ReserveFalse, IsAllocatedFalse, vars
  <2>3. CASE ReserveSpin(where, n) \/ IsAllocatedSpin(where, n)
    BY <1>2, <2>3 DEF ReserveSpin, IsAllocatedSpin, Stop
  <2> QED BY <1>6, <2>1, <2>2, <2>3
<1>7. ASSUME NEW r \in Freeable,
             Free(r) \/ FreeMerge(r) \/ FreeHalt(r) \/ FreeNothing(r) \/ FreeSpin(r)
      PROVE  IInv'
  <2>1. CASE Free(r)
    BY <2>1, FreeKeeps
  <2>2. CASE FreeMerge(r)
    BY <2>2, FreeMergeKeeps
  <2>3. CASE FreeHalt(r) \/ FreeSpin(r)
    BY <1>2, <2>3 DEF FreeHalt, FreeSpin, Stop
  <2>4. CASE FreeNothing(r)
    <3>1. list' = list /\ pc' = pc /\ given' \subseteq given /\ reserved' \subseteq reserved
      BY <2>4 DEF FreeNothing, Forget
    <3>2. pc' \in {"init", "up", "halt", "dangling", "spin in allocate",
                   "spin in reserve", "spin in free", "spin in is_allocated"}
      BY <1>0, <3>1, Zenon
    <3> QED BY <3>1, <3>2, ListKept, Zenon
  <2> QED BY <1>7, <2>1, <2>2, <2>3, <2>4
<1> QED BY <1>3, <1>4, <1>5, <1>6, <1>7 DEF Next

(***************************************************************************)
(* The theorems.                                                           *)
(***************************************************************************)

\* The invariant holds of every reachable state.
THEOREM Invariant == Spec => []IInv
BY InitIInv, StepIInv, PTL DEF Spec

\* The variables keep their types: no operation makes a node of no page, or one
\* that begins outside of the region.
THEOREM TypeCorrect == Spec => []TypeOK
<1>1. IInv => TypeOK
  BY DEF IInv
<1> QED BY <1>1, Invariant, PTL

\* Until a merge goes wrong every page of the region is in exactly one node,
\* whatever allocate_region(), reserve_region() and free_region() did.
THEOREM StaysTiled == Spec => []Tiled
<1>1. ASSUME IInv PROVE Tiled
  <2>1. CASE pc \notin {"init", "dangling"}
    BY <1>1, <2>1 DEF IInv, Solid, TilesOf, TiledOf, Tiled, Last
  <2>2. CASE pc \in {"init", "dangling"}
    BY <2>2 DEF Tiled
  <2> QED BY <2>1, <2>2
<1> QED BY <1>1, Invariant, PTL

\* What allocate_region() gave stays a node of its own until it is freed.
THEOREM GivenStays == Spec => []GivenKept
<1>1. IInv => GivenKept
  BY DEF IInv
<1> QED BY <1>1, Invariant, PTL
=============================================================================

--------------------------- MODULE VirtualMemory ---------------------------
(***************************************************************************)
(* The kernel's virtual address allocator, os/core/virtual_mem.cpp: a      *)
(* linked list of nodes, each a run of pages that is free or not.  The     *)
(* nodes come from kmalloc(), which is taken to have a chunk for each: a   *)
(* region of RegSize pages has at most RegSize nodes.                      *)
(*                                                                         *)
(* Addresses are page numbers.  The region ends where the address space    *)
(* does, so that the address after its last page is 0.                     *)
(***************************************************************************)
EXTENDS Integers, SequencesExt

CONSTANTS
  HHStart,      \* the page of HH_START
  RegSize,      \* hh_reg.reg_size: 0x800000000
  BootPages,    \* the pages initialize() reserves: 512
  Sizes,        \* the values of n_pages: below 2^20, n_pages<<12 being an int's
  Places        \* the pages reserve_region() and is_allocated_region() are asked for

AddrPages == HHStart + RegSize

ASSUME RegionAssumption ==
  /\ HHStart \in Nat \ {0} /\ RegSize \in Nat \ {0}
  /\ BootPages \in 1..(RegSize - 1)
  /\ Sizes \subseteq Nat \ {0}
  /\ Places \subseteq HHStart..(AddrPages - 1)

VARIABLES
  list,      \* hh_reg.list
  given,     \* the regions that allocate_region() gave and nobody has freed
  reserved,  \* the regions that reserve_region() said it reserved
  pc         \* "init", "up", or how the machine stopped

vars == <<list, given, reserved, pc>>

Extent(r) == r.start..(r.start + r.size - 1)

Run(start, size) == [start |-> start, size |-> size]

\* A node of the list.
Node(start, size, free) == [alloc_st |-> start, size |-> size, free |-> free]

\* The address after the last page of a run, as the code computes it.
End(start, size) == (start + size) % AddrPages

\* bisect_node(cur, n) on the i-th node: the old node keeps n pages, the new
\* one is free, or taken when the caller marks it so.
\* (Mutant: the old one keeps its size.)
Cut(i, old, new) == SubSeq(list, 1, i - 1) \o <<old, new>> \o SubSeq(list, i + 1, Len(list))
BisectSameSize(i, n, free, nfree) ==
  LET c == list[i]
  IN  Cut(i, Node(c.alloc_st, c.size, free), Node(c.alloc_st + n, c.size - n, nfree))
Bisect(i, n, free, nfree) ==
  LET c == list[i]
  IN  Cut(i, Node(c.alloc_st, n, free), Node(c.alloc_st + n, c.size - n, nfree))

\* The node is marked: free or not.
Marking(i, free) == [list EXCEPT ![i].free = free]

\* A read or write through NULL: the page fault handler stops the machine.
Stop(how) == pc' = how /\ UNCHANGED <<list, given, reserved>>

Init ==
  /\ list = <<>>
  /\ given = {}
  /\ reserved = {}
  /\ pc = "init"

-----------------------------------------------------------------------------
(* allocate_region(reg, n)                                                 *)

\* Its loop looks at the first node that is large enough, and at the first
\* one that is not free, for ever.
AllocateAt(n) == SelectInSeq(list, LAMBDA c : ~c.free \/ c.size >= n)

\* (Mutants: a node of the right size is cut too; the node stays free.)
AllocatedCut(i, n)  == Bisect(i, n, FALSE, TRUE)
AllocatedFree(i, n) == IF list[i].size = n THEN list ELSE Bisect(i, n, TRUE, TRUE)
Allocated(i, n) == IF list[i].size = n THEN Marking(i, FALSE) ELSE Bisect(i, n, FALSE, TRUE)

Allocate(n) ==
  LET i == AllocateAt(n)
  IN  /\ pc = "up"
      /\ i # 0
      /\ list[i].free
      /\ list' = Allocated(i, n)
      /\ given' = given \union {Run(list[i].alloc_st, n)}
      /\ UNCHANGED <<reserved, pc>>

AllocateNull(n) == pc = "up" /\ AllocateAt(n) = 0 /\ UNCHANGED vars

AllocateSpin(n) ==
  LET i == AllocateAt(n)
  IN  /\ pc = "up"
      /\ i # 0
      /\ ~list[i].free
      /\ Stop("spin in allocate")

-----------------------------------------------------------------------------
(* reserve_region(reg, where, n)                                           *)

Covers(c, where, n) == c.alloc_st <= where /\ End(c.alloc_st, c.size) >= End(where, n)

ReserveAt(where, n) == SelectInSeq(list, LAMBDA c : ~c.free \/ Covers(c, where, n))

\* "cur->alloc_st > where" is never true where the node covers the region: the
\* node is cut n pages after its own start, and what lies behind is marked.
Reserve(where, n) ==
  LET i == ReserveAt(where, n)
  IN  /\ pc = "up"
      /\ i # 0
      /\ list[i].free
      /\ list' = IF list[i].size > n THEN Bisect(i, n, TRUE, FALSE) ELSE Marking(i, FALSE)
      /\ reserved' = reserved \union {Run(where, n)}
      /\ UNCHANGED <<given, pc>>

ReserveFalse(where, n) == pc = "up" /\ ReserveAt(where, n) = 0 /\ UNCHANGED vars

ReserveSpin(where, n) ==
  LET i == ReserveAt(where, n)
  IN  /\ pc = "up"
      /\ i # 0
      /\ ~list[i].free
      /\ Stop("spin in reserve")

\* initialize(): the region is one free node, and the reservation of its first
\* pages finds that the node ends at address 0, before them.
Initialize ==
  /\ pc = "init"
  /\ list' = <<Node(HHStart, RegSize, TRUE)>>
  /\ ~Covers(list'[1], HHStart, BootPages)
  /\ pc' = "up"
  /\ UNCHANGED <<given, reserved>>

-----------------------------------------------------------------------------
(* free_region(reg, where)                                                 *)

\* The loop stops at the node that starts there, or does not go on from the
\* first free one: the node before the one it stops at is never free.
FreeAt(where) == SelectInSeq(list, LAMBDA c : c.free \/ c.alloc_st = where)

Frees(i) == i # 0 /\ ~list[i].free

\* The regions callers free: what they were given and, unless it was given to
\* somebody else as well, what they reserved.
Freeable == given \union {r \in reserved : \A g \in given : Extent(r) \intersect Extent(g) = {}}

Forget(r) ==
  IF r \in given THEN given' = given \ {r} /\ reserved' = reserved
                 ELSE reserved' = reserved \ {r} /\ given' = given

Free(r) ==
  LET i == FreeAt(r.start)
  IN  /\ pc = "up"
      /\ Frees(i)
      /\ i < Len(list)
      /\ ~list[i+1].free
      /\ list' = Marking(i, TRUE)
      /\ Forget(r)
      /\ UNCHANGED pc

\* The node behind is free: it is unlinked first and then taken to be
\* cur->next, so that the size of the one after it is added, and that one,
\* which stays in the list, is given back to the heap.  What the program does
\* with the list from then on is not followed.
FreeMerge(r) ==
  LET i == FreeAt(r.start)
  IN  /\ pc = "up"
      /\ Frees(i)
      /\ i + 1 < Len(list)
      /\ list[i+1].free
      /\ list' = [RemoveAt(list, i + 1) EXCEPT ![i].free = TRUE,
                                               ![i].size = @ + list[i+2].size]
      /\ Forget(r)
      /\ pc' = "dangling"

\* cur->next, or cur->next->next, is NULL.
FreeHalt(r) ==
  LET i == FreeAt(r.start)
  IN  /\ pc = "up"
      /\ Frees(i)
      /\ i = Len(list) \/ (i + 1 = Len(list) /\ list[i+1].free)
      /\ Stop("halt")

\* No node starts there.
FreeNothing(r) ==
  /\ pc = "up"
  /\ FreeAt(r.start) = 0
  /\ Forget(r)
  /\ UNCHANGED <<list, pc>>

FreeSpin(r) ==
  LET i == FreeAt(r.start)
  IN  /\ pc = "up"
      /\ i # 0
      /\ list[i].free
      /\ Stop("spin in free")

-----------------------------------------------------------------------------
(* is_allocated_region(reg, where, n): the loop never goes on from the     *)
(* first node.  A node that is not free makes it endless, so that compiled *)
(* code need not look at the mark: it answers false, or loops.             *)

IsAllocatedFalse(where, n) ==
  /\ pc = "up"
  /\ Covers(list[1], where, n)
  /\ UNCHANGED vars

IsAllocatedSpin(where, n) ==
  /\ pc = "up"
  /\ ~(list[1].free /\ Covers(list[1], where, n))
  /\ Stop("spin in is_allocated")

-----------------------------------------------------------------------------
Stopped == pc \notin {"init", "up"} /\ UNCHANGED vars

Next ==
  \/ Initialize
  \/ \E n \in Sizes : Allocate(n) \/ AllocateNull(n) \/ AllocateSpin(n)
  \/ \E where \in Places, n \in Sizes :
       \/ Reserve(where, n) \/ ReserveFalse(where, n) \/ ReserveSpin(where, n)
       \/ IsAllocatedFalse(where, n) \/ IsAllocatedSpin(where, n)
  \/ \E r \in Freeable :
       Free(r) \/ FreeMerge(r) \/ FreeHalt(r) \/ FreeNothing(r) \/ FreeSpin(r)
  \/ Stopped

Spec == Init /\ [][Next]_vars

-----------------------------------------------------------------------------
(* Properties.                                                             *)

Nodes == [alloc_st : HHStart..(AddrPages - 1), size : 1..RegSize, free : BOOLEAN]

\* The variables keep their types; every node has a page, in the region.
TypeOK ==
  /\ list \in Seq(Nodes)
  /\ given \subseteq [start : HHStart..(AddrPages - 1), size : Sizes]
  /\ reserved \subseteq [start : Places, size : Sizes]
  /\ pc \in {"init", "up", "halt", "dangling", "spin in allocate",
             "spin in reserve", "spin in free", "spin in is_allocated"}

\* Until a merge goes wrong the nodes tile the region: whatever calls of
\* allocate_region(), reserve_region() and free_region() cut it, no page is in
\* two nodes, and none is lost.
Tiled ==
  pc \notin {"init", "dangling"} =>
    /\ list[1].alloc_st = HHStart
    /\ \A i \in 1..(Len(list) - 1) : list[i+1].alloc_st = list[i].alloc_st + list[i].size
    /\ Last(list).alloc_st + Last(list).size = AddrPages

\* A region that was given stays a node of its own that is not free: no
\* free_region() of another region and no reserve_region() changes it.
GivenKept ==
  pc # "dangling" => \A r \in given : Contains(list, Node(r.start, r.size, FALSE))
=============================================================================

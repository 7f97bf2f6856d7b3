--------------------------- MODULE PhysicalMemory ---------------------------
(***************************************************************************)
(* The physical memory manager of the kernel, os/core/physical_mem.cpp: a  *)
(* buddy allocator over page frames.  free_lists[k] is a singly linked     *)
(* list of the free blocks of 2^k frames, pushed and popped at its head.   *)
(*                                                                         *)
(* An address is modelled by its frame number (address >> 12), a pmem_block*)
(* node by its block_start, a list by the sequence of its block_starts.    *)
(* The loops and the recursions of fill_free_list and add_free_list are    *)
(* taken one step at a time: pc says where the one thread of control is.   *)
(***************************************************************************)
EXTENDS Integers, SequencesExt

CONSTANTS
  ALLOC_MAX_ORDER, \* the highest order: 18 in physical_mem.h
  BlockSize,       \* BlockSize[k] = 2^k, the frames in a block of order k
  MemoryMaps,      \* the memory maps the firmware may report to the kernel
  Requests,        \* the n_pages that callers ask for
  Reservations,    \* the <<where, n_pages>> that callers of reserve() ask for
  NodeLimit        \* the pmem_block nodes kmalloc() can have live at once

Orders == 0..ALLOC_MAX_ORDER

ASSUME OrderAssumption == ALLOC_MAX_ORDER \in Nat \ {0}

ASSUME BlockSizeAssumption ==
  /\ BlockSize \in [Orders -> Nat \ {0}]
  /\ BlockSize[0] = 1
  /\ \A k \in Orders \ {ALLOC_MAX_ORDER} : BlockSize[k+1] = 2 * BlockSize[k]

ASSUME RequestAssumption ==
  /\ Requests \subseteq Nat
  /\ Reservations \subseteq Nat \X (0..BlockSize[ALLOC_MAX_ORDER])
  /\ NodeLimit \in Nat

\* A region of the memory map: its first frame and its number of frames.
Region == [beginning : Nat, size : Nat]

ASSUME MapAssumption == MemoryMaps \subseteq Seq(Region)

-----------------------------------------------------------------------------
(* Block arithmetic.                                                       *)

\* align_block: the low bits of an address are cleared.
Align(s, k) == s - (s % BlockSize[k])

\* block_start ^ (1 << (order+12)): the bit of weight 2^k is flipped.
Buddy(s, k) == IF s % BlockSize[k+1] < BlockSize[k]
               THEN s + BlockSize[k]
               ELSE s - BlockSize[k]

\* get_alloc_order: the least order whose blocks hold n pages.
GetAllocOrder(n) == CHOOSE k \in Orders :
                      /\ n <= BlockSize[k]
                      /\ \A j \in Orders : n <= BlockSize[j] => k <= j

\* The order initialize() cuts a region of n frames into: the greatest one
\* that fits, or 0 for a region too large for its search loop.
RegionOrder(n) == IF n = 0 \/ n >= 2 * BlockSize[ALLOC_MAX_ORDER]
                  THEN 0
                  ELSE CHOOSE k \in Orders : /\ BlockSize[k] <= n
                                             /\ n < 2 * BlockSize[k]

\* The blocks initialize() makes of region r, counted from 0; the frames
\* that are left over are dropped.
RegionBlocks(r) == r.size \div BlockSize[RegionOrder(r.size)]

RegionBlock(r, j) == [start |-> r.beginning + (j * BlockSize[RegionOrder(r.size)]),
                      order |-> RegionOrder(r.size)]

MapBlocks(m) == UNION {{RegionBlock(m[r], j) : j \in 0..(RegionBlocks(m[r]) - 1)}
                         : r \in DOMAIN m}

\* What a caller who is given block b has: allocate() returns block_start, and
\* he takes the frames from there on.
Extent(b) == b.start..(b.start + BlockSize[b.order] - 1)

\* What block b becomes when it is split up into single frames: the XOR of the
\* splits treats it as the aligned block that its block_start lies in.  Where
\* block_start is not a multiple of the block's size (initialize() does not
\* align, AddTop does not either) this is not the block's extent.
Span(s, k) == Align(s, k)..(Align(s, k) + BlockSize[k] - 1)

Yield(b) == Span(b.start, b.order)

\* The regions the firmware reports do not overlap.
ASSUME DisjointAssumption ==
  \A m \in MemoryMaps : \A r1, r2 \in DOMAIN m :
    r1 # r2 => (m[r1].beginning..(m[r1].beginning + m[r1].size - 1))
                 \intersect (m[r2].beginning..(m[r2].beginning + m[r2].size - 1)) = {}

\* No two blocks of map m become the same frames when they are split: a block
\* that starts in the middle of its span reaches into no other one's.
Separate(m) ==
  \A r1, r2 \in DOMAIN m :
    \A j1 \in 0..(RegionBlocks(m[r1]) - 1), j2 \in 0..(RegionBlocks(m[r2]) - 1) :
      <<r1, j1>> # <<r2, j2>> =>
        Yield(RegionBlock(m[r1], j1)) \intersect Yield(RegionBlock(m[r2], j2)) = {}

\* Map m has frames for calls of order k as they are asked for: its blocks of
\* that order and above start at a multiple of 2^k.  This is so for the single
\* frames the kernel asks for, whatever the map.  The highest order is left
\* out, as AddTop pushes a block at the address of either half.
Exact(m, k) ==
  /\ k < ALLOC_MAX_ORDER
  /\ \A b \in MapBlocks(m) : k <= b.order => Align(b.start, k) = b.start

-----------------------------------------------------------------------------
VARIABLES
  mem_map,    \* the memory map passed to initialize()
  region,     \* i of initialize(): the region being entered
  placed,     \* j of initialize(): the blocks of it that are on a list
  free_lists, \* free_lists[k]: the block_starts on the list of order k
  held,       \* the blocks that callers have been given and not returned
  nodes,      \* the pmem_block nodes that are allocated from kmalloc()
  pc,         \* where the running call is, "idle" between calls
  lvl,        \* the argument "order" of the recursive call that is running
  goal,       \* the order of the request allocate() is serving
  blk         \* the block_start of blk in add_free_list()

boot == <<mem_map, region, placed>>
vars == <<mem_map, region, placed, free_lists, held, nodes, pc, lvl, goal, blk>>

Init ==
  /\ mem_map \in MemoryMaps
  /\ region = 1
  /\ placed = 0
  /\ free_lists = [k \in Orders |-> <<>>]
  /\ held = {}
  /\ nodes = 0
  /\ pc = "boot"
  /\ lvl = 0
  /\ goal = 0
  /\ blk = 0

\* kmalloc(sizeof(pmem_block), MFLAGS_EMERG) finds a chunk; without one it
\* returns NULL.
HasNode == nodes < NodeLimit

\* A read or write through NULL: page 0 is never mapped, and the page fault
\* handler stops the machine on a fault below 0x1000.
Halt == /\ pc' = "halted"
        /\ UNCHANGED <<boot, free_lists, held, nodes, lvl, goal, blk>>

\* The call returns: its locals die with it.
Return == pc' = "idle" /\ lvl' = 0 /\ goal' = 0 /\ blk' = 0

-----------------------------------------------------------------------------
(* initialize()                                                            *)

BootBlock ==
  /\ pc = "boot"
  /\ region <= Len(mem_map)
  /\ placed < RegionBlocks(mem_map[region])
  /\ HasNode
  /\ LET b == RegionBlock(mem_map[region], placed)
     IN  free_lists' = [free_lists EXCEPT ![b.order] = Cons(b.start, @)]
  /\ nodes' = nodes + 1
  /\ placed' = placed + 1
  /\ UNCHANGED <<mem_map, region, held, pc, lvl, goal, blk>>

BootFault ==
  /\ pc = "boot"
  /\ region <= Len(mem_map)
  /\ placed < RegionBlocks(mem_map[region])
  /\ ~HasNode
  /\ Halt

BootRegion ==
  /\ pc = "boot"
  /\ region <= Len(mem_map)
  /\ placed = RegionBlocks(mem_map[region])
  /\ region' = region + 1
  /\ placed' = 0
  /\ UNCHANGED <<mem_map, free_lists, held, nodes, pc, lvl, goal, blk>>

BootDone ==
  /\ pc = "boot"
  /\ region > Len(mem_map)
  /\ pc' = "idle"
  /\ UNCHANGED <<boot, free_lists, held, nodes, lvl, goal, blk>>

-----------------------------------------------------------------------------
(* allocate(n_pages), with fill_free_list(order)                           *)

\* allocate() enters fill_free_list(order).
Allocate(n) ==
  /\ pc = "idle"
  /\ n <= BlockSize[ALLOC_MAX_ORDER]
  /\ goal' = GetAllocOrder(n)
  /\ lvl' = GetAllocOrder(n)
  /\ pc' = "fill"
  /\ UNCHANGED <<boot, free_lists, held, nodes, blk>>

\* "too many pages": NULL is returned and nothing changes.
Refuse(n) ==
  /\ pc = "idle"
  /\ n > BlockSize[ALLOC_MAX_ORDER]
  /\ UNCHANGED vars

\* fill_free_list(k) returns, to allocate() or to fill_free_list(k-1).
FillReturn(k) ==
  /\ pc' = IF k = goal THEN "take" ELSE "split"
  /\ lvl' = IF k = goal THEN k ELSE k - 1

\* Mutant of FillDescend: the highest order is not the end of the recursion.
FillDescendUnbounded ==
  /\ pc = "fill"
  /\ free_lists[lvl] = <<>>
  /\ lvl' = lvl + 1
  /\ UNCHANGED <<boot, free_lists, held, nodes, pc, goal, blk>>

\* Mutant of FillDescend: the recursive call is for the same order.
FillDescendSame ==
  /\ pc = "fill"
  /\ free_lists[lvl] = <<>>
  /\ lvl < ALLOC_MAX_ORDER
  /\ lvl' = lvl
  /\ UNCHANGED <<boot, free_lists, held, nodes, pc, goal, blk>>

\* The list is empty and a higher one may be split: the recursive call.
FillDescend ==
  /\ pc = "fill"
  /\ free_lists[lvl] = <<>>
  /\ lvl < ALLOC_MAX_ORDER
  /\ lvl' = lvl + 1
  /\ UNCHANGED <<boot, free_lists, held, nodes, pc, goal, blk>>

\* Mutant of FillStop: the recursion ends one order too early.
FillStopEarly ==
  /\ pc = "fill"
  /\ free_lists[lvl] # <<>> \/ lvl >= ALLOC_MAX_ORDER - 1
  /\ FillReturn(lvl)
  /\ UNCHANGED <<boot, free_lists, held, nodes, goal, blk>>

\* The early returns of fill_free_list.
FillStop ==
  /\ pc = "fill"
  /\ free_lists[lvl] # <<>> \/ lvl = ALLOC_MAX_ORDER
  /\ FillReturn(lvl)
  /\ UNCHANGED <<boot, free_lists, held, nodes, goal, blk>>

\* Mutant of Split: new_block->next is not set.
SplitLosesOld ==
  /\ pc = "split"
  /\ free_lists[lvl+1] # <<>>
  /\ HasNode
  /\ LET old == Head(free_lists[lvl+1])
     IN  free_lists' = [free_lists EXCEPT ![lvl+1] = Tail(@),
                                          ![lvl] = <<Buddy(old, lvl)>>]
  /\ nodes' = nodes + 1
  /\ FillReturn(lvl)
  /\ UNCHANGED <<boot, held, goal, blk>>

\* The recursive call has returned: the head of the list above is split in
\* two; the new block goes before the old one.
Split ==
  /\ pc = "split"
  /\ free_lists[lvl+1] # <<>>
  /\ HasNode
  /\ LET old == Head(free_lists[lvl+1])
     IN  free_lists' = [free_lists EXCEPT ![lvl+1] = Tail(@),
                                          ![lvl] = <<Buddy(old, lvl), old>>]
  /\ nodes' = nodes + 1
  /\ FillReturn(lvl)
  /\ UNCHANGED <<boot, held, goal, blk>>

SplitFault ==
  /\ pc = "split"
  /\ free_lists[lvl+1] = <<>> \/ ~HasNode
  /\ Halt

\* Mutant of Take: the node is not freed.
TakeLeaks ==
  /\ pc = "take"
  /\ free_lists[goal] # <<>>
  /\ held' = held \union {[start |-> Head(free_lists[goal]), order |-> goal]}
  /\ free_lists' = [free_lists EXCEPT ![goal] = Tail(@)]
  /\ nodes' = nodes
  /\ Return
  /\ UNCHANGED boot

\* The rest of allocate(): the head of the list is the caller's.
Take ==
  /\ pc = "take"
  /\ free_lists[goal] # <<>>
  /\ held' = held \union {[start |-> Head(free_lists[goal]), order |-> goal]}
  /\ free_lists' = [free_lists EXCEPT ![goal] = Tail(@)]
  /\ nodes' = nodes - 1
  /\ Return
  /\ UNCHANGED boot

TakeFault ==
  /\ pc = "take"
  /\ free_lists[goal] = <<>>
  /\ Halt

-----------------------------------------------------------------------------
(* free(where, n_pages), with add_free_list(blk, order)                    *)

\* Mutant of Free: n_pages is not looked at.
FreeOneFrame(b) ==
  /\ pc = "idle"
  /\ b \in held
  /\ HasNode
  /\ held' = held \ {b}
  /\ nodes' = nodes + 1
  /\ blk' = b.start
  /\ lvl' = 0
  /\ pc' = "add"
  /\ UNCHANGED <<boot, free_lists, goal>>

Free(b) ==
  /\ pc = "idle"
  /\ b \in held
  /\ HasNode
  /\ held' = held \ {b}
  /\ nodes' = nodes + 1
  /\ blk' = b.start
  /\ lvl' = b.order
  /\ pc' = "add"
  /\ UNCHANGED <<boot, free_lists, goal>>

FreeFault ==
  /\ pc = "idle"
  /\ held # {}
  /\ ~HasNode
  /\ Halt

\* A block of the highest order is pushed as it is.
AddTop ==
  /\ pc = "add"
  /\ lvl = ALLOC_MAX_ORDER
  /\ free_lists' = [free_lists EXCEPT ![lvl] = Cons(blk, @)]
  /\ Return
  /\ UNCHANGED <<boot, held, nodes>>

\* Position i of list k is the first one that holds block_start s.
FoundAt(k, s, i) == /\ i \in DOMAIN free_lists[k]
                    /\ free_lists[k][i] = s
                    /\ \A j \in 1..(i-1) : free_lists[k][j] # s

\* Mutant of AddMerge: the buddy stays on its list.
AddMergeKeepsBuddy ==
  /\ pc = "add"
  /\ lvl < ALLOC_MAX_ORDER
  /\ Buddy(Align(blk, lvl), lvl) \in Range(free_lists[lvl])
  /\ nodes' = nodes - 1
  /\ blk' = Align(blk, lvl)
  /\ lvl' = lvl + 1
  /\ UNCHANGED <<boot, free_lists, held, pc, goal>>

\* The buddy is free: it is unlinked, its node freed, and the block, twice
\* as large, is added one order up.
AddMerge ==
  /\ pc = "add"
  /\ lvl < ALLOC_MAX_ORDER
  /\ \E i \in DOMAIN free_lists[lvl] :
       /\ FoundAt(lvl, Buddy(Align(blk, lvl), lvl), i)
       /\ free_lists' = [free_lists EXCEPT ![lvl] = RemoveAt(@, i)]
  /\ nodes' = nodes - 1
  /\ blk' = Align(blk, lvl)
  /\ lvl' = lvl + 1
  /\ UNCHANGED <<boot, held, pc, goal>>

\* Mutant of AddPush: the list is not searched for the buddy.
AddPushUnsearched ==
  /\ pc = "add"
  /\ lvl < ALLOC_MAX_ORDER
  /\ free_lists' = [free_lists EXCEPT ![lvl] = Cons(Align(blk, lvl), @)]
  /\ Return
  /\ UNCHANGED <<boot, held, nodes>>

AddPush ==
  /\ pc = "add"
  /\ lvl < ALLOC_MAX_ORDER
  /\ Buddy(Align(blk, lvl), lvl) \notin Range(free_lists[lvl])
  /\ free_lists' = [free_lists EXCEPT ![lvl] = Cons(Align(blk, lvl), @)]
  /\ Return
  /\ UNCHANGED <<boot, held, nodes>>

-----------------------------------------------------------------------------
(* is_allocated(where, n_pages) and reserve(where, n_pages)                *)

\* The search of both: a block of order k on its list that where lies in.
OnList(where, k) == Align(where, k) \in Range(free_lists[k])

\* Mutant of HasParent: one more order is left out.
HasParentShort(where, k) == \E i \in (k+1)..(ALLOC_MAX_ORDER-2) : OnList(where, i)

\* The search of a larger block leaves out the highest order.
HasParent(where, k) == \E i \in (k+1)..(ALLOC_MAX_ORDER-1) : OnList(where, i)

IsAllocated(where, n) ==
  LET k == GetAllocOrder(n)
  IN  ~OnList(where, k) /\ ~HasParent(where, k)

\* A block of exactly the order asked for is unlinked and is the caller's.
ReserveExact(where, n) ==
  LET k == GetAllocOrder(n)
  IN  /\ pc = "idle"
      /\ \E i \in DOMAIN free_lists[k] :
           /\ FoundAt(k, Align(where, k), i)
           /\ free_lists' = [free_lists EXCEPT ![k] = RemoveAt(@, i)]
      /\ held' = held \union {[start |-> Align(where, k), order |-> k]}
      /\ nodes' = nodes - 1
      /\ UNCHANGED <<boot, pc, lvl, goal, blk>>

\* No block of that order and no parent to split: FALSE is returned.
ReserveAbsent(where, n) ==
  LET k == GetAllocOrder(n)
  IN  /\ pc = "idle"
      /\ ~OnList(where, k)
      /\ ~HasParent(where, k)
      /\ UNCHANGED vars

\* A parent is found.  The loop that should split it counts i up from
\* split_order while i >= order+1: it links blocks of ever higher orders,
\* past the end of free_lists, until a write faults (at once when the search
\* of a later list has left cur NULL).  The call never returns, and the lists
\* mean nothing from here on.
ReserveLost(where, n) ==
  LET k == GetAllocOrder(n)
  IN  /\ pc = "idle"
      /\ ~OnList(where, k)
      /\ HasParent(where, k)
      /\ pc' = "lost"
      /\ UNCHANGED <<boot, free_lists, held, nodes, lvl, goal, blk>>

-----------------------------------------------------------------------------
\* The machine has stopped, or is lost in reserve().
Stopped == pc \in {"halted", "lost"} /\ UNCHANGED vars

\* The steps of a call that has begun: no caller is waited for.
Step == \/ BootBlock \/ BootFault \/ BootRegion \/ BootDone
        \/ FillDescend \/ FillStop \/ Split \/ SplitFault
        \/ Take \/ TakeFault
        \/ AddTop \/ AddMerge \/ AddPush

Next == \/ Step
        \/ \E n \in Requests : Allocate(n) \/ Refuse(n)
        \/ \E b \in held : Free(b)
        \/ FreeFault
        \/ \E r \in Reservations : \/ ReserveExact(r[1], r[2])
                                   \/ ReserveAbsent(r[1], r[2])
                                   \/ ReserveLost(r[1], r[2])
        \/ Stopped

Spec == Init /\ [][Next]_vars

\* The kernel has one thread of control, and every interrupt but a page fault
\* stops it: a call that has begun keeps running.
FairSpec == Spec /\ WF_vars(Step)

-----------------------------------------------------------------------------
(* Properties.                                                             *)

FreeBlocks == UNION {{[start |-> s, order |-> k] : s \in Range(free_lists[k])}
                       : k \in Orders}

\* The block add_free_list() is working on is on no list and held by nobody.
InHand == IF pc = "add" THEN {[start |-> blk, order |-> lvl]} ELSE {}

YieldOf(B) == UNION {Yield(b) : b \in B}
ExtentOf(B) == UNION {Extent(b) : b \in B}

Block == [start : Nat, order : Orders]

\* The variables keep their types (a block in hand, a level, a goal are always
\* legal arguments of the code's calls).
TypeOK ==
  /\ mem_map \in MemoryMaps
  /\ region \in 1..(Len(mem_map) + 1)
  /\ placed \in Nat
  /\ free_lists \in [Orders -> Seq(Nat)]
  /\ held \subseteq Block
  /\ nodes \in Int
  /\ pc \in {"boot", "idle", "fill", "split", "take", "add", "halted", "lost"}
  /\ lvl \in Orders
  /\ goal \in Orders
  /\ blk \in Nat
  /\ pc \in {"fill", "split"} => lvl >= goal
  /\ pc = "split" => lvl < ALLOC_MAX_ORDER

\* No frame is in two hands, and none that a caller has is free: what calls are
\* given, each the frames from its address on, stays apart through all splits
\* and merges, for the orders and maps that free_lists has exact blocks for.
NoOverlap ==
  pc # "lost" /\ Separate(mem_map) =>
    \A b \in held : Exact(mem_map, b.order) =>
      /\ \A c \in held \ {b} :
           Exact(mem_map, c.order) => Extent(b) \intersect Extent(c) = {}
      /\ Extent(b) \intersect YieldOf(FreeBlocks \union InHand) = {}

\* The blocks of map m start at multiples of their size.
Aligned(m) == \A b \in MapBlocks(m) : Align(b.start, b.order) = b.start

\* After initialize() what callers have and what they can still get is exactly
\* what initialize() made blocks of: splits and merges lose no frame.  (Of a
\* block that is not aligned a split does lose some, and makes others up.)
Conservation ==
  Aligned(mem_map) /\ region > Len(mem_map) /\ pc # "lost"
    /\ (\A b \in held : b.order < ALLOC_MAX_ORDER)
    => ExtentOf(held) \union YieldOf(FreeBlocks \union InHand) =
       ExtentOf(MapBlocks(mem_map))

\* The nodes that are linked, each by its list and its position on it.
Linked == UNION {{k} \X DOMAIN free_lists[k] : k \in Orders}

\* A pmem_block node is allocated for each block on a list and for the one in
\* hand: allocate(), free() and their merges leak no node and free none twice.
NodesAccounted == pc # "lost" => nodes = Cardinality(Linked) + Cardinality(InHand)

\* The blocks of the memory map start at multiples of their size, and no two of
\* them are the halves of a larger one.  Of another map initialize() makes
\* blocks that add_free_list() would have aligned, or merged.
Mergeless ==
  /\ Aligned(mem_map)
  /\ \A b, c \in MapBlocks(mem_map) :
       b.order = c.order /\ b.order < ALLOC_MAX_ORDER => c.start # Buddy(b.start, b.order)

\* Once every block is returned, the lists hold again the blocks that
\* initialize() made: free() undoes all the splits of allocate().
Restored ==
  Mergeless /\ pc = "idle" /\ held = {} =>
    {<<Yield(b), b.order>> : b \in FreeBlocks} =
      {<<Yield(b), b.order>> : b \in MapBlocks(mem_map)}

\* The machine stops in the allocator only when the nodes are used up or no
\* aligned run of free frames is as large as the request.
HaltMeansExhausted ==
  Mergeless /\ pc = "halted" =>
    \/ nodes = NodeLimit
    \/ \A f \in YieldOf(FreeBlocks) : ~(Span(f, goal) \subseteq YieldOf(FreeBlocks))

\* is_allocated() answers FALSE exactly when the whole of the aligned block is
\* free, as long as no block of the highest order, which its search leaves
\* out, is on a list.
IsAllocatedExact ==
  Mergeless /\ pc = "idle" /\ free_lists[ALLOC_MAX_ORDER] = <<>> =>
    \A f \in YieldOf(MapBlocks(mem_map)) : \A n \in Requests :
      n <= BlockSize[ALLOC_MAX_ORDER] =>
        (IsAllocated(f, n) <=>
           ~(Span(f, GetAllocOrder(n)) \subseteq YieldOf(FreeBlocks)))

\* Every call that has begun returns or stops the machine: the recursion of
\* fill_free_list and of add_free_list ends.
CallReturns ==
  pc \in {"boot", "fill", "split", "take", "add"} ~> pc \in {"idle", "halted"}

\* The sets of frames that are added, given and returned in one piece: the
\* aligned spans of the orders within the memory maps.
Extents == {Span(f, k) : f \in UNION {YieldOf(MapBlocks(m)) : m \in MemoryMaps},
                         k \in Orders}

\* Every call is for an order that the maps have exact blocks for.
ServedExactly ==
  \A m \in MemoryMaps :
    /\ Separate(m)
    /\ \A n \in Requests \union {r[2] : r \in Reservations} :
         n <= BlockSize[ALLOC_MAX_ORDER] => Exact(m, GetAllocOrder(n))

Allocator == INSTANCE FrameAllocator WITH
  up    <- region > Len(mem_map) /\ pc # "boot",
  free  <- YieldOf(FreeBlocks \union InHand),
  taken <- {Extent(b) : b \in held}

\* The buddy allocator implements FrameAllocator: its splits, merges and
\* searches are invisible, and each call takes effect in one step.  An extent
\* that is taken is the frames from the address that the caller gets.
Implements == Allocator!Spec
=============================================================================

----------------------------- MODULE KernelHeap -----------------------------
(***************************************************************************)
(* The kernel's heap, os/core/malloc.cpp: kmalloc() hands out chunks of    *)
(* pages, each with a bitmap in a header at its start; malloc_init() makes *)
(* the first pages and their descriptors.                                  *)
(*                                                                         *)
(* Addresses count chunks of 16 bytes, from malloc_init_space on; sizes    *)
(* count words of 8 bytes.  A bitmap is the set of its bits that are set.  *)
(* Page, word and int may be smaller than the machine's, in the same       *)
(* proportions: what matters is that 1<<(i&63) is computed in an int half  *)
(* as wide as the words of the bitmap, that kfree() looks at a quarter of  *)
(* the page, and that malloc_init() puts more descriptors in a page than   *)
(* the first word of its bitmap can mark.                                  *)
(*                                                                         *)
(* A page more comes from allocate_kern(), which needs a chunk of the heap *)
(* itself; and the first write to it faults, so that the page fault        *)
(* handler's frame allocator calls kmalloc() and kfree() in the middle of  *)
(* kmalloc().                                                              *)
(***************************************************************************)
EXTENDS Integers, FiniteSets, SequencesExt

CONSTANTS
  WordBits,    \* the bits of a word of the bitmap: 64
  IntBits,     \* the bits of an int: 32
  Scale,       \* 1 << 4, in the pointer arithmetic of malloc_direct_alloc: 16
  MaxOrder,    \* chunks of order k are 2^k times 16 bytes: 6
  InitPages,   \* MALLOC_INIT_PAGES: 32
  EmergPages,  \* MALLOC_EMERG_PAGES: 32
  NewPages,    \* the pages virtual_memory::allocate_kern() has to give
  Leftovers,   \* the bits its frame may hold where a new page has its bitmap
  Requests,    \* the sizes asked for, in words, none above 1024 bytes
  MaxFrames,   \* the most frames a page fault takes: one and three tables, 4
  MaxLive      \* bound: the chunks of each order that callers hold at once

Orders == 0..MaxOrder

\* The chunks of 16 bytes in a page: four words of bitmap mark them.
Units == 4 * WordBits

\* The proportions of the source: 64, 32, 16, 32 and 32.
ASSUME WidthAssumption ==
  /\ IntBits \in Nat /\ IntBits > 3
  /\ WordBits = 2 * IntBits
  /\ Scale \in Nat /\ 2 * Scale = IntBits
  /\ InitPages = IntBits /\ EmergPages = IntBits

ASSUME PageAssumption ==
  /\ MaxOrder \in Nat \ {0} /\ Units >= 2^(MaxOrder+1)
  /\ NewPages \subseteq Nat /\ \A p \in NewPages : p >= InitPages
  /\ IsFiniteSet(NewPages)
  /\ Leftovers \subseteq SUBSET (0..(Units - 1)) /\ Leftovers # {}
  /\ MaxFrames \in Nat \ {0}
  /\ MaxLive \in [Orders -> Nat]
  /\ Requests \subseteq 1..(2^(MaxOrder+1))

\* What a proof has to be told of powers of two.
ASSUME PowerAssumption ==
  \A k \in 0..(MaxOrder+1) : 2^k \in Nat \ {0} /\ 2^(k+1) = 2 * 2^k

-----------------------------------------------------------------------------
(* Pages and their headers.                                                *)

InitSpace == 0..(InitPages - 1)
Pages     == InitSpace \union NewPages

\* get_chunk_address.
ChunkAddress(p, slot, k) == (p * Units) + (slot * 2^k)

PageOf(a) == a \div Units

\* The chunks a page is divided into, the ones below its header among them.
Slots(k) == Units \div 2^k

\* The slots malloc_prepare_pghdr marks: the header is three chunks long.
Reserved(k) == CASE k = 0 -> 0..2 [] k = 1 -> 0..1 [] OTHER -> 0..0

\* malloc_prepare_pghdr: the rest of the bitmap is left as it is.
Prepared(h, k) == [bitmap |-> h.bitmap \union Reserved(k), order |-> k, count |-> 0]

\* The bits of 1 << (i & 63): the shift is that of an int, taken modulo its
\* width, and the sign of the result fills the upper half of the word.
Mask(slot) ==
  LET first == slot - (slot % WordBits)
      bit   == (slot % WordBits) % IntBits
  IN  IF bit = IntBits - 1
      THEN (first + bit)..(first + WordBits - 1)
      ELSE {first + bit}

OpenSlots(h) == {s \in 0..(Slots(h.order) - 1) : Mask(s) \intersect h.bitmap = {}}

\* malloc_mark_open_slot: the slot it returns, 0 when there is none.
OpenSlot(h) == IF OpenSlots(h) = {} THEN 0 ELSE Min(OpenSlots(h))

\* ... and the header it leaves.
Marked(h) == IF OpenSlots(h) = {} THEN h
             ELSE [h EXCEPT !.bitmap = @ \union Mask(OpenSlot(h))]

\* A chunk is taken: the slot is marked and the allocation counted.
\* (Mutants: one of the two is left out.)
TakenUncounted(h) == Marked(h)
TakenUnmarked(h)  == [h EXCEPT !.count = @ + 1]
Taken(h)          == [Marked(h) EXCEPT !.count = @ + 1]

\* malloc_direct_alloc on an order-0 page: the pointer is scaled by the size
\* of the header, so that the address may lie beyond the page.
DirectAddress(p, h) == (p * Units) + (3 * Scale * OpenSlot(h))

\* kfree(): the slot is taken from the low 10 bits of the address, a quarter
\* of the page, which is as many chunks of 16 bytes as a word has bits.
FreedSlot(a, h) == (a % WordBits) \div 2^(h.order)

\* (Mutants: the count, or the bit, is left as it is.)
FreedUncounted(h, slot) == [h EXCEPT !.bitmap = @ \ Mask(slot)]
FreedUnmarked(h, slot)  == [h EXCEPT !.count = @ - 1]
Freed(h, slot)          == [h EXCEPT !.bitmap = @ \ Mask(slot), !.count = @ - 1]

\* sizeof(pmem_block) and sizeof(vmem_ll_node): 16 and 32 bytes.
BlockWords == 2
NodeWords  == 4

\* kmalloc(): floor(log2(bytes)) - 4, and 0 below 16 bytes.
OrderOf(words) == IF words < 4 THEN 0
                  ELSE CHOOSE k \in Orders : 2^(k+1) <= words /\ words < 2^(k+2)

-----------------------------------------------------------------------------
VARIABLES
  phase,       \* where malloc_init() or, after it, a kmalloc() that needs a page is;
               \* "up" between calls, "stop" where the machine goes no further
  i,           \* the counter of the loop of malloc_init() that is running
  header,      \* the page header of each page
  lists,       \* malloc_pages[k], the pages of order k
  desc,        \* the addresses of the descriptors of the listed pages
  clobbered,   \* pages whose bitmap a descriptor has been written over
  emerg_head,  \* malloc_init()'s own list of emergency pages
  emerg_pages, \* the list malloc_emerg_alloc() walks
  live,        \* the chunks callers hold, each an address and an order
  pending,     \* the order that kmalloc() needs a page of
  frames,      \* the frames that the page fault has yet to take
  fresh        \* the pages that the heap has yet to get

init_vars == <<i, desc, clobbered, emerg_head, emerg_pages>>
page_vars == <<pending, frames, fresh>>
vars == <<phase, i, header, lists, desc, clobbered, emerg_head, emerg_pages, live, pending, frames, fresh>>

\* .bss is zero.
Init ==
  /\ phase = "first"
  /\ i = 0
  /\ header = [p \in Pages |-> [bitmap |-> {}, order |-> 0, count |-> 0]]
  /\ lists = [k \in Orders |-> <<>>]
  /\ desc = {}
  /\ clobbered = {}
  /\ emerg_head = <<>>
  /\ emerg_pages = <<>>
  /\ live = {}
  /\ pending = 0
  /\ frames = 0
  /\ fresh = NewPages

-----------------------------------------------------------------------------
(* malloc_init()                                                           *)

\* Descriptors are written at the addresses D: the first 16 bytes of a page
\* are half of its bitmap.  What lies beyond the initial pages is left out.
Write(D) == clobbered' = clobbered \union {p \in InitSpace : p * Units \in D}

\* The descriptors of pages 0 and 1, both prepared for order 0.
InitFirst ==
  /\ phase = "first"
  /\ LET h0 == Prepared(header[0], 0)
         h1 == Taken(h0)
         D  == {DirectAddress(0, h0), DirectAddress(0, h1)}
     IN  /\ header' = [header EXCEPT ![0] = [Taken(h1) EXCEPT !.count = 2],
                                     ![1] = Prepared(@, 0)]
         /\ desc' = desc \union D
         /\ Write(D)
  /\ lists' = [lists EXCEPT ![0] = <<0>>, ![1] = <<1>>]
  /\ phase' = "pairs"
  /\ i' = 2
  /\ UNCHANGED <<emerg_head, emerg_pages, live, page_vars>>

\* Pages i and i+1, their descriptors taken from page 0.
InitPair ==
  /\ phase = "pairs"
  /\ i < InitPages
  /\ LET h1 == Taken(header[0])
         D  == {DirectAddress(0, header[0]), DirectAddress(0, h1)}
     IN  /\ header' = [header EXCEPT ![0] = Taken(h1),
                                     ![i] = Prepared(@, 0),
                                     ![i+1] = Prepared(@, 1)]
         /\ desc' = desc \union D
         /\ Write(D)
  /\ lists' = [lists EXCEPT ![0] = <<i>> \o @, ![1] = <<i + 1>> \o @]
  /\ i' = i + 2
  /\ UNCHANGED <<phase, emerg_head, emerg_pages, live, page_vars>>

InitEmergency ==
  /\ phase = "pairs"
  /\ i >= InitPages
  /\ phase' = "emerg"
  /\ i' = 0
  /\ UNCHANGED <<header, lists, desc, clobbered, emerg_head, emerg_pages, live, page_vars>>

\* Position j of list k is the first page with fewer than n allocations.
FirstBelow(k, n, j) ==
  /\ j \in DOMAIN lists[k]
  /\ header[lists[k][j]].count < n
  /\ \A l \in 1..(j-1) : header[lists[k][l]].count >= n

\* An emergency page gets a descriptor from the first order-0 page with room.
InitEmergPage ==
  /\ phase = "emerg"
  /\ i < EmergPages
  /\ \E j \in DOMAIN lists[0] :
       /\ FirstBelow(0, Units - 2, j)
       /\ LET p == lists[0][j]
          IN  /\ header' = [header EXCEPT ![p] = Taken(@)]
              /\ Write({DirectAddress(p, header[p])})
  /\ emerg_head' = <<i>> \o emerg_head
  /\ i' = i + 1
  /\ UNCHANGED <<phase, lists, desc, emerg_pages, live, page_vars>>

\* "emerg_head = emerg_pages": the list that was built is forgotten.
InitDone ==
  /\ phase = "emerg"
  /\ i = EmergPages
  /\ emerg_head' = emerg_pages
  /\ phase' = "up"
  /\ UNCHANGED <<i, header, lists, desc, clobbered, emerg_pages, live, page_vars>>

-----------------------------------------------------------------------------
(* kmalloc(words, flags), at most 1024 bytes.                              *)

LiveOf(k) == {c \in live : c.order = k}

\* The page kmalloc() picks has less than all but one of its chunks in use.
\* (Mutant: it takes a page without allocations.)
PickedEmpty(k, j) == FirstBelow(k, 1, j)
Picked(k, j)      == FirstBelow(k, Slots(k) - 1, j)

Full(k) == \A j \in DOMAIN lists[k] : ~Picked(k, j)

\* Slot s of page p is handed out.
Chunk(p, s, k) == [address |-> ChunkAddress(p, s, k), order |-> k]

\* Of a bitmap that has been written over nothing is known.
TakeChunk(k) ==
  \E j \in DOMAIN lists[k] :
    /\ Picked(k, j)
    /\ LET p == lists[k][j]
       IN  \E s \in IF p \in clobbered THEN 0..(Slots(k) - 1) ELSE {OpenSlot(header[p])} :
             /\ header' = [header EXCEPT ![p] = Taken(@)]
             /\ live' = live \union {Chunk(p, s, k)}

MayHold(k) == Cardinality(LiveOf(k)) < MaxLive[k]

Kmalloc(words) ==
  /\ phase = "up"
  /\ MayHold(OrderOf(words))
  /\ TakeChunk(OrderOf(words))
  /\ UNCHANGED <<phase, lists, page_vars, init_vars>>

\* MFLAGS_EMERG: malloc_emerg_alloc() finds no emergency page and returns NULL.
KmallocNull(words) ==
  LET k == OrderOf(words)
  IN  /\ phase = "up"
      /\ Full(k)
      /\ emerg_pages = <<>>
      /\ UNCHANGED vars

\* malloc_allocate_descriptor: the order-0 page with the most allocations, the
\* first such one.
MostUsed(p) ==
  \E j \in DOMAIN lists[0] :
    /\ p = lists[0][j]
    /\ header[p].count > 0
    /\ \A l \in DOMAIN lists[0] :
         /\ header[lists[0][l]].count <= header[p].count
         /\ l < j => header[lists[0][l]].count < header[p].count

\* Its loop does not go on from a page that counts as full.
DescriptorLoops == \E p \in Range(lists[0]) : header[p].count >= Units - 4

\* kfree(c.address)
FreeChunk(c) ==
  LET p == PageOf(c.address)
  IN  /\ live' = live \ {c}
      /\ header' = [header EXCEPT ![p] = Freed(@, FreedSlot(c.address, @))]

Kfree(c) ==
  /\ phase = "up"
  /\ FreeChunk(c)
  /\ UNCHANGED <<phase, lists, page_vars, init_vars>>

\* Without the flag: malloc_prepare_new_page() makes a page for this one chunk.
KmallocPage(words) ==
  LET k == OrderOf(words)
  IN  /\ phase = "up"
      /\ Full(k)
      /\ MayHold(k) /\ MayHold(OrderOf(NodeWords))
      /\ phase' = "page"
      /\ pending' = k
      /\ UNCHANGED <<header, lists, live, frames, fresh, init_vars>>

\* allocate_kern(1): bisect_node() takes a chunk for the node of what is left.
AllocateKern ==
  /\ phase = "page"
  /\ fresh # {}
  /\ TakeChunk(OrderOf(NodeWords))
  /\ phase' = "fault"
  /\ frames' \in 1..MaxFrames
  /\ UNCHANGED <<lists, pending, fresh, init_vars>>

\* The write of the page's header faults, and the handler takes frames.
\* fill_free_list() makes a block node for every block it splits, ...
FaultSplit ==
  /\ phase = "fault"
  /\ MayHold(OrderOf(BlockWords))
  /\ TakeChunk(OrderOf(BlockWords))
  /\ UNCHANGED <<phase, lists, page_vars, init_vars>>

\* ... and allocate() frees the node of the block it returns.
FaultTake(c) ==
  /\ phase = "fault"
  /\ c.order = OrderOf(BlockWords)
  /\ FreeChunk(c)
  /\ frames' = frames - 1
  /\ phase' = IF frames = 1 THEN "prepare" ELSE "fault"
  /\ UNCHANGED <<lists, pending, fresh, init_vars>>

\* The page q gets a descriptor in p and is put on no list; what its frame
\* holds is taken for its bitmap.
KmallocPrepare ==
  /\ phase = "prepare"
  /\ ~DescriptorLoops
  /\ \E p \in InitSpace, q \in fresh, left \in Leftovers :
       /\ MostUsed(p)
       /\ LET hq == Prepared([header[q] EXCEPT !.bitmap = left], pending)
          IN  /\ header' = [header EXCEPT ![p] = Taken(@), ![q] = Taken(hq)]
              /\ live' = live \union {Chunk(q, OpenSlot(hq), pending)}
       /\ desc' = desc \union {ChunkAddress(p, OpenSlot(header[p]), 0)}
       /\ fresh' = fresh \ {q}
  /\ phase' = "up"
  /\ UNCHANGED <<i, lists, clobbered, emerg_head, emerg_pages, pending, frames>>

\* allocate_kern() does not return, having no page to give; a node for which
\* there is no chunk is written at NULL, which stops the machine; or
\* malloc_allocate_descriptor() does not return.
PageStops ==
  CASE phase = "page"    -> fresh = {} \/ Full(OrderOf(NodeWords))
    [] phase = "fault"   -> Full(OrderOf(BlockWords))
    [] phase = "prepare" -> DescriptorLoops
    [] OTHER             -> FALSE

KmallocStops ==
  /\ PageStops
  /\ phase' = "stop"
  /\ UNCHANGED <<header, lists, live, page_vars, init_vars>>

Stopped == phase = "stop" /\ UNCHANGED vars

-----------------------------------------------------------------------------
InitStep == InitFirst \/ InitPair \/ InitEmergency \/ InitEmergPage \/ InitDone

PageStep == AllocateKern \/ FaultSplit \/ (\E c \in live : FaultTake(c)) \/ KmallocPrepare

Next == \/ InitStep
        \/ \E words \in Requests : Kmalloc(words) \/ KmallocNull(words) \/ KmallocPage(words)
        \/ \E c \in live : Kfree(c)
        \/ PageStep
        \/ KmallocStops
        \/ Stopped

Spec == Init /\ [][Next]_vars

-----------------------------------------------------------------------------
(* Properties.                                                             *)

Header == [bitmap : SUBSET (0..(Units - 1)), order : Orders, count : 0..Units]

InitPhases == {"first", "pairs", "emerg"}

\* The variables keep their types; a page's count of allocations never wraps.
TypeOK ==
  /\ phase \in InitPhases \union {"up", "page", "fault", "prepare", "stop"}
  /\ header \in [Pages -> Header]
  /\ lists \in [Orders -> Seq(InitSpace)]
  /\ desc \subseteq Nat
  /\ clobbered \subseteq InitSpace
  /\ \A c \in live : PageOf(c.address) \in Pages /\ c.order \in Orders
  /\ pending \in Orders /\ frames \in 0..MaxFrames
  /\ fresh \subseteq NewPages

\* What a chunk of order k covers, and the header of a page.
Extent(a, k) == a..(a + 2^k - 1)
HeaderExtent(p) == (p * Units)..((p * Units) + 2)

\* No chunk a caller holds overlaps another one, a page header, or a
\* descriptor of a listed page (kmalloc() and kfree(), whose bit for a chunk
\* need not be the bit it was allocated with).
ChunksApart ==
  \A c \in live :
    /\ \A d \in live \ {c} : Extent(c.address, c.order) \intersect Extent(d.address, d.order) = {}
    /\ Extent(c.address, c.order) \intersect HeaderExtent(PageOf(c.address)) = {}
    /\ Extent(c.address, c.order) \intersect desc = {}

\* The page whose chunks of order 0 kmalloc() hands out, and the one of order 1.
Head0 == InitPages - 2
Head1 == InitPages - 1

\* The descriptors that were allocated from page p.
DescriptorsFrom(p) ==
  CASE p = 0     -> InitPages
    [] p = Head0 -> EmergPages + Cardinality(NewPages \ fresh)
    [] OTHER     -> 0

\* n_allocations counts the chunks of the page that are in use, descriptors
\* included: kfree() is given no chunk twice and finds its page.
CountsMatch ==
  phase \notin InitPhases => \A p \in Pages :
    header[p].count = Cardinality({c \in live : PageOf(c.address) = p}) + DescriptorsFrom(p)

\* The capacity of the order-0 page is constant: although kfree() clears
\* another bit than the one kmalloc() set, what is freed can be allocated
\* again, once.
CapacityKept ==
  phase \notin InitPhases =>
    Cardinality({c \in live : PageOf(c.address) = Head0})
      + Cardinality(NewPages \ fresh)
      + Cardinality({s \in OpenSlots(header[Head0]) :
                       s < 2 * WordBits /\ s % WordBits < IntBits})
      = (2 * IntBits) - 3 - EmergPages

\* A page whose bitmap malloc_init() has written a descriptor over is never
\* one that kmalloc() hands chunks of.
ClobberedUnused == \A c \in live : PageOf(c.address) \notin clobbered
=============================================================================

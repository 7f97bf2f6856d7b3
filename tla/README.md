# Kraftwerk in TLA+

Kraftwerk is a small x86-64 kernel: it boots through Multiboot, sets up a
terminal, a kernel heap, an allocator of page frames and an allocator of kernel
addresses, handles page faults, prints with `kprintf` and stops. One CPU runs
one thread of control. Every interrupt but a page fault halts the machine, and a
page fault is a call made in the middle of whatever touched the memory. What is
hard here is therefore not scheduling but long sequences of calls on linked lists
and bitmaps, the boundaries of integer types, the exhaustion of nodes and frames,
loops that may not end, and the re-entry that a page fault is.

Run everything in this directory: `tlc -config <run>.cfg <module>.tla`,
`tlapm PhysicalMemoryProofs.tla` (and `PhysicalMemoryMerging`, `KernelHeapProofs`,
`VirtualMemoryProofs`, `KernelProofs`, `KernelCalls`, `TerminalProofs`, `PrintfProofs`).

## Inventory

| Component | Source | State | Operations | What makes it correct |
|---|---|---|---|---|
| Physical memory | `os/core/physical_mem.cpp` | `free_lists[19]` of `pmem_block` nodes | `initialize`, `allocate`, `free`, `reserve`, `is_allocated` | a frame is in one place, none is lost, merges undo splits, only exhaustion stops it |
| Kernel heap | `os/core/malloc.cpp` | page headers (bitmap, order, count), lists of page descriptors | `malloc_init`, `kmalloc`, `kfree` | chunks, headers and descriptors are apart, the counts are right, no capacity leaks |
| Virtual memory | `os/core/virtual_mem.cpp` | list of nodes over the higher half | `initialize`, `allocate_`, `reserve_`, `free_`, `is_allocated_region` | nodes tile the region, a given region stays used |
| Paging | `os/arch/x86-64/page_manip.cpp` | page tables, the CPU's cached translations, `pfaulting` | `map_range`, `unmap_range`, getters and setters, `mem_create_pagetable`, `handle_pagefault` | the windows show the tables, a table belongs to one place, a call leaves what it was asked for, a fault is resolved or stops the machine for a reason |
| Boot | `os/boot/x86-64/init.cpp`, `64_init.s` | the firmware's map, its copy, where `kernel_init` is | `kernel_init` | no service is used before it is initialised, both loops over the map agree, the boot ends |
| Interrupts | `os/arch/x86-64/isr.cpp`, `interrupts.s` | IDT, handler table | dispatch | only page faults return |
| Terminal | `os/device/vga.cpp` | row, column, color, screen | `putchar`, `scroll`, `backspace`, `writestring`, `writehex`, `setcolor` | writes stay on the screen, which shows what was printed last |
| Formatted output, panic | `os/core/printf.cpp`, `print.h` | chunks for texts; panic string, flag | `kvsnprintf` and its callers, `itoa`; `panic` | both passes agree, a buffer is as large as what is written, every chunk is freed |
| ELF, utilities | `os/core/elf.cpp`, `misc_util.*` | none | string comparison | (do not compile) |
| Smart pointers, containers | `auxlib/standalone_std/` | strong and weak counts, vector storage | copy, move, assignment | (nothing includes them, and they do not compile) |

How they interact: `kernel_init` calls `malloc_init` first, since the frame
allocator takes its list nodes and the virtual allocator its nodes from
`kmalloc`; `kmalloc` takes new pages from `virtual_memory::allocate_kern`; the
first touch of such a page faults, and the fault handler takes a frame from
`physical_memory::allocate`, which calls `kmalloc` and `kfree` again. `kprintf`
allocates its buffers with `kmalloc` and writes to the terminal.

Which module looks at which of these meetings: `Kernel` composes the boot, the
interrupts and `Paging`, with a set of frames for the frame allocator, which is
what `PhysicalMemory` is shown to implement; `KernelHeap` has the calls that
reach the heap from `allocate_kern` and from the fault handler's frame allocator
in the middle of a `kmalloc`; `Printf` has the heap as far as texts can tell it.

## Modules

### FrameAllocator, PhysicalMemory

`FrameAllocator` is the promise: while the kernel boots, extents of frames are
made known; afterwards a call takes a free extent or gives one back, in one step.

`PhysicalMemory` is `physical_mem.cpp`. An address is a frame number, a free list
the sequence of the `block_start`s of its nodes, head first, and `nodes` counts
the `pmem_block` nodes that are alive. The recursions are taken one step at a
time: `pc` is where the one running call is, `lvl` the argument of the recursive
call, `goal` the order asked for, `blk` the block `add_free_list` has in hand.

| Code | Actions |
|---|---|
| `initialize` | `BootBlock`, `BootRegion`, `BootDone`, `BootFault` (no node) |
| `allocate` | `Allocate`, `Refuse`, then `FillDescend`, `FillStop`, `Split` for `fill_free_list`, `Take`; `SplitFault`, `TakeFault` when a list or the heap is empty |
| `free` | `Free`, then `AddTop`, `AddMerge`, `AddPush` for `add_free_list`; `FreeFault` |
| `reserve` | `ReserveExact`, `ReserveAbsent`, `ReserveLost` |
| `is_allocated` | the operator `IsAllocated`: it changes nothing |

`NULL` is read or written where the code does not look; page 0 is not mapped and
the fault handler stops the machine on an address below 0x1000, so these steps
are `Halt`. The property of being given a node (`HasNode`) stands for
`kmalloc(16, MFLAGS_EMERG)`; `NodeLimit` bounds it.

A `block_start` need not be a multiple of its block's size: `initialize` starts
blocks where the firmware's regions start. The frames a caller has are those from
`block_start` on (`Extent`); what the block gives when it is split, by exclusive or,
are those of the aligned block it lies in (`Yield`). For a block that is not aligned
the two differ, and the code then hands out overlapping frames
(followed below, under Runs) and frames that are in no region
(`PhysicalMemory_low`). Three predicates of a memory map say where what is claimed:

- `Separate(m)`: no two blocks of the map become the same frames;
- `Exact(m, k)`: the blocks of order k and above start at a multiple of 2^k. For
  single frames, which is all that the kernel ever asks for, every map is exact. The top order
  never is, since `AddTop` does not align a block that is merged into it;
- `Aligned(m)`: every block starts at a multiple of its size.

`NoOverlap` is about the extents of all blocks held whose order is exact, in a map that is
separate: they share no frame with each other nor with what the free blocks become.
`Conservation` says for aligned maps that no frame is lost; of a map that is not
aligned the first split loses some. The refinement takes the extents that callers hold
as `taken`, where all calls are for exact orders (`ServedExactly`).

### KernelHeap

`malloc.cpp` for requests up to 1024 bytes. `header[p]` is the header of page `p`
(the bitmap as a set of set bits, the order, `n_allocations`), `lists[k]` is
`malloc_pages[k]`, `live` the chunks callers hold, `desc` the addresses of page
descriptors, `clobbered` the pages whose bitmap a descriptor was written over.
Addresses are in chunks of 16 bytes.

| Code | Actions |
|---|---|
| `malloc_init` | `InitFirst`, `InitPair` (an iteration of the first loop), `InitEmergency`, `InitEmergPage` (an iteration of the second), `InitDone` |
| `kmalloc` | `Kmalloc` (a listed page has room), `KmallocNull` (`MFLAGS_EMERG`, full), `KmallocPage` (a new page is needed), then the four phases below |
| `allocate_kern(1)`, for the new page | `AllocateKern`: `bisect_node` takes a chunk for its node |
| the page fault of the first write to it | `FaultSplit`, `FaultTake`: for each frame the frame allocator makes nodes for the blocks it splits and frees the one it returns |
| `malloc_prepare_new_page`, `malloc_allocate_descriptor` | `KmallocPrepare` |
| where none of this returns | `KmallocStops`, `Stopped` |
| `kfree` | `Kfree` |

The phases are the re-entry: between the moment `kmalloc` has found every page
full and the moment it takes a descriptor, the heap is called by the very
allocators it is waiting for. `FaultTake` may free the node of any block, a
choice the frame allocator makes by its lists.

Three details of the arithmetic decide everything and are modelled by what they
do: `1<<(i&63)` is an `int`, so that a shift is taken modulo 32 and bit 31 is
sign-extended over the upper half of the word (`Mask`); `kfree` keeps 10 bits of
the offset in the page, so that it clears the bit of a chunk in another word
(`FreedSlot`); and `malloc_direct_alloc` scales a slot by the size of the header
(`DirectAddress`). What the code does differs from its comments in ways the
model follows: the emergency list is built and then dropped (line 295,
against line 186), so that `malloc_emerg_alloc` always returns NULL; the order of
a request is rounded down; a page made for a size without a listed page serves one
chunk and is never listed.

A new page's bitmap starts as what its frame held (`Leftovers`): no code clears a
frame.

### VirtualMemory

`virtual_mem.cpp`: `list` is `hh_reg.list`, addresses are pages, and the region
ends at the end of the address space, so that the end of its last node is 0
(`End`). Each of the four loops has a `continue` that does not advance; a call
that meets such a node is a `...Spin` action that ends the behaviour. `FreeMerge`
is the merge with the next node, which unlinks it first and then frees the one
after it: the behaviour is not followed beyond that (`pc = "dangling"`), because
what happens depends on who is given the node next. `is_allocated_region`
dereferences one node only, and its mark is one that compiled code (at `-O2`, as
in the Makefile) need not look at; it answers false or loops. `given` and
`reserved` are what callers hold. Callers free what they were given and what they
reserved, except a reservation that was given to someone else as well.

`initialize` is modelled with what it really does: the reservation of the first
512 pages (line 26) fails, for the end of the region is 0, and its result is not
looked at.

### Paging, Kernel

`Paging` is `page_manip.cpp` on the machine it runs on. `mem` holds the contents
of the frames, as tables; a page is looked up by a walk over four of them
(`Walk`), and the code reaches the tables through the recursive slot, that is by
walks over the same tables (`Window`, `Load`, `Store`). An instruction that
touches memory is a step, and where its page has no entry it is interrupted
(`Fault`): the handler runs and the instruction is tried again. This is also true
of the instructions of the module itself, and so a setter that ignores a missing
table gets it made by the fault its own write causes.

| Code | Actions |
|---|---|
| the CPU | `Touch`, `Fault` |
| `mem_create_pagetable` | `CreatePdpt`, `CreatePd`, `CreatePt`, one level each; `CreateFault` where no frame is left |
| `map_range` | `MapCheck`, `MapEntry` for each iteration |
| `unmap_range` | `UnmapEntry`, `UnmapSkip` (`continue`), `UnmapDone` |
| the setters | `Set` |
| the getters, `mem_check_pagetable` | operators: they change nothing |
| `handle_pagefault` | `HandleHalt`, `HandleAllocate`, the steps of `mem_create_pagetable`, `HandleEntry`; `HandleFault` where no frame is left |

`tlb` are the translations the CPU may have cached: `invlpg` removes one, and a
later access may use a cached one or look the page up again. Three ghost variables serve the
properties. `asked` is the call as it was made. `byhand` are the pages whose entry
a setter wrote, since the setters do not execute `invlpg` and leave that to their
callers. `spoilt` says that a frame which was not clear, or which is itself a table
of the boot, became a table; nothing clears frames, and what follows is whatever
the frame held.

`Kernel` is `kernel_init()`, one action per service and per iteration of its two
loops over the firmware's map, with the interrupts of `isr.cpp` at any point
(`Interrupt`). Every handler but that of the page fault halts (`pc = "trapped"`).
The table is computed from the registrations in the order of `initialize_idt()`, the last
one of a vector being the one that stays (`Filling`): vectors 9 and 48 to 254 have no gate, which raises a protection fault instead;
before `initialize_idt()` is done nothing has one and the machine is reset. The
kernel never enables the external interrupts, so `Vectors` are exceptions and the
NMI. `BootCopyFault` is the write of the first entry of the copy through `NULL`:
`malloc_init` made pages for chunks of 16 and 32 bytes only, and with
`MFLAGS_EMERG` there is nothing else. Where `kernel_init` would halt the CPU,
callers use the services (`Calls`). Every frame that paging takes is allocated
alone, so that the frame allocator is here the set of single frames that its splits
make of the blocks `physical_memory::initialize()` cuts from the usable regions (`Cut`,
`FramesOf`): of a region of 5 frames from 21 on, 20 to 23. `TestPassed` and `FrameOnce`
speak of these frames, which need not be the region's.

### Terminal

`vga.cpp`, a character at a time: `todo` is the rest of the string that is being
written. Row, column and the index of a cell are unsigned integers modulo `UInt`.
`PutNewline` and `PutChar` are the two halves of `terminal_putchar`, with the
wrap and the scroll; `terminal_backspace` follows the code in going below zero: at the
start of a line the column wraps, is found to be beyond the width, and stays
there. `lines` is what the screen should show, kept as text, until such a
backspace (`wrapped`); from there on only the types are claimed.

### Printf

`printf.cpp` and the templates of `print.h`. A step is one turn of the loop of
`kvsnprintf`: `Character`, `PercentSign`, `PrintNumber` (`%d %i %u %o %x %X %p`),
`PrintString`, `PrintChar`, `PrintWide`, `StoreCount` (`%n`), `PrintNothing`,
`Astray` (the format ends within a directive). `Directive` parses flags, width,
precision and length as the code does; `*` as a precision is not read past
and becomes the specifier. `CountDone` is what `kvprintf` does between its passes.

The texts are in memory, byte by byte, because that is where things happen: a
string is copied without its NUL (`StringText`), a number with a precision gets
none either (`IntPrecision`), chunks are not cleared, and a chunk is smaller than
what was asked for when that is no power of two. `heap.faults` records what went
wrong: a text read past its end (`unterminated`), a text larger than its chunk
(`beyond chunk`, `int beyond chunk`), the negative of the least number
(`undefined`), a text put in front of its chunk, which is what a negative
width of `*` does (`before chunk`), and a second pass that prints more than the first one counted
(`beyond text`). `stuck` is an endless copy, or the wait of `allocate_kern` for a
second page.

`Outcome` is the reference: what a format and its arguments mean, directive by
directive, without any memory. `KprintfExact` and `KsnprintfExact` compare the
two where no fault happened. `PassesAgree` is about the two passes of `kprintf` alone: they
print equally much, also where a text outgrows its chunk or a number has no
negative, as long as no text was read whose NUL was not written. Where one was, the passes may
read different bytes, and the second one may go beyond the buffer: no property claims anything
of such a call, and one is followed below, under Runs.

## Runs

| Run | Shows |
|---|---|
| `PhysicalMemory_any` | maps that start and end anywhere, one region too large for the search of an order, requests of 0 and of more than the top order, reservations, nodes running out: `NoOverlap`, `NodesAccounted` |
| `PhysicalMemory_exact` | maps, aligned or not, that are exact for what is asked of them: the refinement of `FrameAllocator` (`Implements`), and `CallReturns` under fairness; of the aligned ones `Conservation`; of those whose blocks cannot be merged beyond the map (`Mergeless`) `Restored`, `HaltMeansExhausted` and `IsAllocatedExact` |
| `PhysicalMemory_low` | finding: a region above 1 MiB yields frames below it |
| `KernelHeap_within` | `ChunksApart`, `CountsMatch`, `CapacityKept`, `ClobberedUnused` within the capacity computed below, also through page faults in the middle of `kmalloc` |
| `KernelHeap_reserved` | finding: one chunk beyond it and a page's header is handed out |
| `VirtualMemory_lists` | `Tiled`, `GivenKept` |
| `VirtualMemory_second` | finding: the second `allocate_region` never returns |
| `VirtualMemory_reserve` | finding: what `reserve_region` claims to reserve is given to somebody else |
| `Kernel` | the boot of seven machines and calls afterwards. Of the tables: `GettersExact`, `FrameOnce`, `TablesStay`, `TlbCoherent`. Of calls and faults: `CallEffect`, `HaltJustified`. Of the boot: `MapCopied`, `TestPassed`, `ResetsEarly`, `BootOutcome`; under fairness `CallReturns`, `BootEnds` |
| `Terminal` | `CursorKept`, `ScreenShows` over any number of wraps, scrolls and backspaces |
| `Printf` | two calls one after the other: `KprintfExact`, `KsnprintfExact`, `PassesAgree`, `IntsFit`, `HeapRestored` |
| `Printf_screen` | finding: a text longer than its chunk makes `kprintf` copy for ever |

Six further differences are followed without a run of their own. The loop of
`reserve` in the physical allocator (line 290) counts away from its end and never
returns, against the comment at line 306: `ReserveLost` enters `pc = "lost"`,
where nothing more is claimed. `unmap_range` stops advancing at the first address
without a table, and `CallEffect` states just that: the pages up to the hole are
cleared. In the pass that counts, `%%` is written through `NULL` (`PercentSign`
halts), and it is never counted. And `ksnprintf` writes it without a look at how
full its buffer is (lines 363 to 366), as it writes every directive that begins
before the end of the buffer to its own end: `KsnprintfExact` states both.

Of a block that does not start at a multiple of its size two calls may get the same
frame, against the comment at line 55 of `physical_mem.cpp` ("split it into two
blocks"). Let the map be `R(3, 6)` and the top order 2: the block is at frame 3 and has four
frames. `allocate(2)` splits it with the exclusive or of line 62 into 1 and 3, and returns 1, so that the caller uses
frames 1 and 2. `allocate(1)` splits the 3 into 2 and 3 and returns 2, which is the first
caller's. `PhysicalMemory_any` has this map and makes these calls; `NoOverlap` claims nothing of the
pair, for which the map is not exact. No call in the kernel asks for more than one frame.

A string is copied without its NUL into a chunk that is not cleared (`printf.cpp`, lines 860
to 863), and is then read up to the first NUL. After `kprintf("%d", -42)`, which leaves
`-42` in the chunk of its number and in that of its text, `kprintf("%s", "a")` gets these two
chunks and shows `a42`, against "Print something to screen." at line 972. `StringText` follows this, `MCCalls` has strings
behind numbers, and the properties claim nothing of such a call (`unterminated`).

Bounds of PhysicalMemory. Orders 0 to 2 or 3 instead of 0 to 18 give up to three
nested splits and merges; maps of at most ten frames give lists of several blocks
at each order; four or six nodes are fewer than the frames, so that they run out in the
middle of a split, or when a block is freed. Of the maps `<<R(3, 6)>>` has a block that
starts in the middle of its span, of which single frames are exact and pairs are not; the
block of `R(4, 8)` in `PhysicalMemory_exact` is not aligned either, but exact for all that is asked of
it there, up to four frames. All maps of the runs are separate: where two regions become the
same frames, `held`, a set, could not tell the same block twice. Blocks of the top order are asked for in
`PhysicalMemory_any` only, since the top order is never exact; `IsAllocatedExact` speaks of states in which
the top list, which the search leaves out, is empty.

Bounds of KernelHeap. Page, word and `int` are a quarter of the machine's (64
chunks of 16 bytes, 4 words of 16 bits, an `int` of 8), as are the initial and
the emergency pages (8 of each instead of 32): `malloc_init` then fills the first
half-word and reaches into the second word, as on the machine. With the source's
numbers the order-0 page has 2*32 - 3 - 32 = 29 chunks to give in this regime, with
the scaled ones 2*8 - 3 - 8 = 5; a new page's descriptor takes one of them
(`Within`). One page is all that `allocate_kern` ever gives, see
`VirtualMemory_second`. A fault takes one to four frames (`MaxFrames`): the page
and up to three tables. Order 2 stands for the orders without listed pages.

Bounds of VirtualMemory. Eight pages, sizes 1 to 4 and one that never fits, four
places among which the start of the region and its last page.

Bounds of Kernel. Tables have 4 entries instead of 512, still on four levels: the
arithmetic of the windows depends on the number only as a base, and 256 pages
leave room for a missing table on each level. The machines are: three usable
regions that give seven frames, two of them no power of two and not aligned, so that
the frames that come out of them are not those at their start (`FramesOf`), among unusable ones (the
page-fault test takes three frames, a mapping of both pages four); low memory and
a frame that holds an entry; a boot table inside reported memory; few frames, so that a fault
or a mapping meets the end of memory on each level; hardly any; four usable regions,
for which there is no copy; and none. Calls cover a page in an existing table,
ranges that cross into a missing table or begin at one, the setters with and
without a table, and page 0.

Bounds of Terminal. Three rows of two cells: a line wraps after two characters,
and three lines scroll. `UInt` is 16, larger than every index on the screen, as 2^32
is on the machine. Every state of screen, cursor and color is reached, with the
strings interleaved with backspaces, and there is no bound on how much is printed.

Bounds of Printf. Chunks are half the machine's (8 and 16 bytes), and integers are narrower
in proportion, so that the longest text of an `int` fits the smallest chunk and the longest
text of a `long` does not, which is as it is with 16 bytes, 32 and 64 bits.
`MCCalls` has every directive, flag and length at least once, justification to both
sides, precision with and without a width, texts that fit a chunk, that outgrow
it and that need a page of their own, a negative width, a limit that is reached before and
behind a `%%`, a count that its type truncates, and negative and least numbers; two of these
calls, in any order, over memory that was zero or was not. A buffer of a caller is of
any size the call says; six chunks of each order are more than the three that a directive
may have at once (`Chunks > 2`).

Fairness. `FairSpec` of `PhysicalMemory` has weak fairness of `Step`, the steps of
a call that has begun: nothing preempts the kernel. `BootSpec` of `Kernel` has
weak fairness of `BootStep \/ PagingStep`, the instructions of the one thread there
is, the fault handler's included. It is fairness of the disjunction: the CPU goes
on, with whatever comes next. No fairness is assumed of callers or of interrupts.

## Proofs

| Module | Theorem | States |
|---|---|---|
| `PhysicalMemoryProofs` | `TypeCorrect`, `Exclusive`, `Conserved`, `Refinement` | `TypeOK`, `NoOverlap`, `Conservation`, `Implements`: `Allocator!Spec` |
| `PhysicalMemoryMerging` | `RestoredAlways`, `HaltExhausted`, `SearchExact`, `NodesKept` | `Restored`, `HaltMeansExhausted`, `IsAllocatedExact`, `NodesAccounted` |
| `KernelHeapProofs` | `TypeCorrect`, `ChunksStayApart`, `CountsStay`, `CapacityStays`, `ClobberedStayUnused`, `DescriptorAlwaysFound` | `TypeOK`, `ChunksApart`, `CountsMatch`, `CapacityKept`, `ClobberedUnused`, no endless search for a descriptor |
| `VirtualMemoryProofs` | `TypeCorrect`, `StaysTiled`, `GivenStays` | `TypeOK`, `Tiled`, `GivenKept` |
| `KernelProofs` | `TypeCorrect`, `GettersRight`, `TlbStaysCoherent`, `HaltsOnlyThen`, `TablesKept`, `MapIsCopied`, `BootEndsRight` | `TypeOK`, `GettersExact`, `TlbCoherent`, `HaltJustified`, `TablesStay`, `MapCopied`, `BootOutcome` |
| `KernelCalls` | `FramesInOnePlace`, `CallsDoWhatTheyAre`, `TestPasses`, `NoResetLater` | `FrameOnce`, `CallEffect`, `TestPassed`, `ResetsEarly` |
| `TerminalProofs` | `TypeCorrect`, `CursorSafe`, `ScreenExact` | `TypeOK`, `CursorKept`, `ScreenShows` |
| `PrintfProofs` | `EveryChunkFreed`, `IntsAlwaysFit` | `HeapRestored`, `IntsFit` |

### The frame allocator

`PhysicalMemoryProofs` begins with the facts about lists, blocks, buddies and the
arithmetic of powers of two, and ends with the refinement. The theorems are for every number
of orders, every memory map, every set of requests and every node limit that the
assumptions of `PhysicalMemory` allow. The assumptions are that `BlockSize[k]` is
2^k (stated without exponentiation: each is twice the one before), that requests
and reservations are in range, and that the firmware's regions are disjoint
(`DisjointAssumption`). Disjoint regions may still become the same frames, as 256 to 3583, which
spans 0 to 2047, and one of order 14 from 4096 on, which spans 0 to 16383. So `Separate` is no
assumption: the properties have it in front, and `Invariant` says
`Separate(mem_map) => IInv`. `Refinement` has the hypothesis `ServedExactly`, as
`Implements` has no room for a condition.

`NoOverlap` is not inductive. `IInv` is about what blocks become (`Yield`), which splits and merges
keep whether or not a block is aligned, and adds four things: while booting exactly the
blocks placed so far are on the lists (`Booting`), or the next block might overlap
one of them; the recursion of `fill_free_list` has only passed empty lists
(`EmptyBelow`), because a split overwrites the list it fills; the frames of all
pieces are those of the map (`AllFrames`); and the property itself over all places
a block can be in, the block in hand included. A step after boot replaces pieces
by pieces with the same frames: one block by its two halves (`KeptSplit`), two
buddies by their union (`KeptMerge`), or the same block in another place
(`KeptMove`, `KeptTake`, `KeptFree`, `KeptPush`, `KeptReserve`). What a caller has is the
extent, and that it is the yield is a second invariant (`ExactAligned`): where the map is exact for an order,
all blocks of that order and above, on lists, held or in hand, start at a multiple of its size, because a
split, a merge and a search leave or make such starts only. `Exclusive` and `Conserved` are the two together.

`PhysicalMemoryMerging` is about maps of aligned blocks no two of which are buddies
(`Mergeless`); of another map the boot leaves blocks on the lists that the first
`free` of their buddy merges, or whose frames are not those `free` computes with. Its
invariant `Merging` says that blocks start at multiples of their size (`AlignedBlocks`;
of the top order only at multiples of half of it, since `AddTop` does not align) and
that no two free blocks are buddies (`Merged`), but for the orders a call is in
the middle of splitting (`BeingSplit`). It also says
why the machine halted (`WhyHalted`). The lemma the four properties
of the lists rest on is about sets of disjoint aligned blocks: a block whose frames
they cover, and none of which holds it, is cut by them into halves, in the end into two
buddies. So a free set without buddies has each covered span inside one of its
blocks, and two such sets with the same frames are equal. `Restored` is
the second of these, with `Conservation`; `HaltMeansExhausted` and
`IsAllocatedExact` are the first. `NodesAccounted` counts the nodes as pairs of a list
and a position (`Linked`): each step moves, adds or removes one or two of these pairs, and the cardinality
follows without a sum over the lists.

The refinement needs one more fact than `IInv`: a call is served only once the
whole map has been read (`Serving`). From `PiecesApart` and `AllFrames` the free
frames are then the map's less the held ones (`FreeIs`), before a step and after
it. So a step that hands no block over leaves the abstract state alone, whatever it
does to the lists (`ServeSame`); the block that leaves a list for a caller is an
extent of free frames, since its order is exact (`HeldServed`) (`ServeTake`); and a block that is returned is the only held
one with its frames, so that the extent that leaves `taken` is its own
(`ServeGive`). While the kernel boots each block pushed is memory added
(`BootAdds`), apart from the rest because the map is separate.

### The kernel heap

The theorems of `KernelHeapProofs` hold for every even width of an `int` of at least 4 bits with the source's
proportions (a word is two `int`s, `Scale` half of one, as many initial and emergency pages as an
`int` has bits: `WidthAssumption`), every number of orders that a page has chunks for, any finite set of
new pages and whatever their frames hold, with one hypothesis, `Regime`: of
order 0 callers hold, with the descriptors of new pages, at most `IntBits` - 3 chunks at once,
of order 1 at most `IntBits` - 2 (29 and 30 on the machine), and the bitmap left in a new page has a
slot open. It is not an assumption of the module, since `KernelHeap_reserved` is a run outside of it,
where the heap gives out its own header. `KernelHeap_within` is a run inside of it. `PowerAssumption` states what
the provers do not know of `^`; TLC evaluates it.

What makes the heap work is not what its code intends. `kfree` sees 10 bits of an address, so that it takes a
chunk of the second word of the order-0 bitmap for the one in the same place of the first, and
frees that one's bit. None of the properties is inductive, for a bitmap alone does not say which of its
marked slots is used. `Paired` is the fact that saves them: of the two slots that `kfree` cannot tell
apart at most one is used, by a chunk or by a descriptor, and then both are marked; when none is used, at
least one is marked. So freeing opens exactly one slot, maybe the other one, that nobody uses, and the open
slots and the used ones add up to a constant (`Page0`). That is why the regime is a capacity: as long as the sum leaves
an open slot in the first half-words (`Low`), `kmalloc` takes it there (`FirstLow`), before it reaches the bits
that a 32-bit shift cannot set alone, or the bits of headers that `kfree` could clear (`HeaderBits`). Order 1 has one word
and no such pair (`Page1`), and a new page serves one chunk (`PagesN`). `Counted` is `CountsMatch`, in which
the bound of a count comes from the capacity (`CountBounds`); from it follow
which page `kmalloc` picks (`ListHeads`) and which gives the descriptors (`MostUsedHead`), that is, that only
the heads of the two lists are ever used.

`Booting` is the invariant of `malloc_init`: after n descriptors the bitmap of the page they come from is
`Filled(n)`, first half-word, then on in the second word, and the scaled pointers stay
in front of the page that `kmalloc` will use (`DirectPlaces`). The pages it ends with are those of `Page0` and `Page1`
(`FilledPage`, `EmptyPage`). The arithmetic is in lemmas about division (`DivisionIs`), least elements (`MinIs`), what a
shift marks (`Masks`), and where a chunk lies (`ChunkPlace`, `SlotsFit`).

### The virtual allocator

`IInv` is the type invariant, the tiling and `GivenKept` together, with the tiling
stated for any list (`TilesOf`): nodes follow each other without a gap, and, which
neighbours alone do not say, those further on are higher (`AscendingOf`) and none ends
beyond the address space (`InRegionOf`). Without the order of all nodes a given
region could be found twice, and the node a call cuts could be another one's. A cut
(`CutOf`) replaces one node by two that tile it, a mark (`MarkOf`) changes no
boundary; every operation is one of these or both. The theorems hold
for every region, all sizes and all places; `dangling` and `halt` are where the
list is not followed (see VirtualMemory above).

### Page tables, page faults and the boot

`KernelProofs` is about the machine that boots, so that the tables it begins with
are those of `64_init.s`, and for every number of entries of a table, every
recursive slot, memory, firmware map and set of calls. Besides the types of the constants it assumes:

- `TablesAssumption`: the tables of `64_init.s` are a tree, and all of them are there;
- `CallsAssumption`: callers do not map or set pages of the windows, and ranges
  end within the address space;
- `MemoryAssumption`: the contents of the frames that come out of usable regions are known
  to the model, and no frame comes out of two regions;
- `TestAssumption`: nothing is mapped at the test address, which is not page 0.

TLC evaluates all of them on the machines and calls of the run.

The arithmetic comes first: a page is its four indices (`NumParts`, `NumIndices`), and
the page of a window is the recursive slot followed by the first indices of the page that it is about
(`Windows`). A walk through the recursive slot is then the walk itself, one level shorter, and what
the code reaches through a window is the table it means (`WindowReaches`). This
holds in any memory whose slot leads back to the root, and is all that
`GettersExact` takes. `GettersRight` says it in that form: in every state that is not `spoilt`, and in
those that are whose slot still leads to the root. The run checks the property without the
condition, on the spoilt machines it has.

That the slot survives, that a table is not overwritten by the entry of a page, and that
the write for one page leaves the walk of every other alone are one fact: the tables
are a tree (`Tree`), reached by one path each. A new table is made of a frame that
is no table (`Apart`) and has no entries (not `spoilt`), so that it is a leaf of the tree
(`TreeGrows`, `CreateTables`), and the last-level entries are written at leaves
(`LeafStays`, `WriteTables`). The rest of the invariant says what the code is in the middle
of: the instruction that runs or was interrupted fits the call (`Runs`), the pages still to be
written are not in the windows (`Remaining`), the tables an instruction needs are
there (`Progress`), the page of a fault has no entry until the handler writes it
(`Pending`), and before `physical_memory::initialize()` there is neither a frame nor a call
(`Early`). `Clean` is what holds until `spoilt`, and `StepIInv` has one lemma per kind
of step. `TlbCoherent` then needs that a fault happens only where no translation can
be cached; `HaltJustified` that a second fault comes of a missing
frame only, that is, that `Accessed` is reached wherever `Progress` says so.

`MapCopied` relates the two loops by counting: the k-th entry, if it is usable, is
at the place of the copy that is the number of usable ones up to it
(`UsableUpTo`, `Counting`), and while fewer are copied than were counted there is one left
(`NextFound`). `BootOutcome` needs what happens without a frame: the test address has no entry, the
touch of it faults, and the handler's own fault stops the machine before
`kernel_init()` is up (`Starved`).

### What calls leave behind

`KernelCalls` goes on from there, to what a call of `page_manip.cpp` does to the entries
of all pages. Two lemmas carry it. A new table, made of a frame all of whose entries are zero, changes the entry of
no page (`GrowEffect`): that is why `spoilt` asks for a frame that is clear, and not only
for one in which nothing is present. The write of the entry of a page changes no
other page's entry and no table (`WriteEffect`), since the tables are a tree. Every step is then
a table that grows, an entry that is written, or one that only reads
(`Kinds`).

- `CallsDoWhatTheyAre` has no hypothesis. `CallEffect` speaks of the end of a call; `Effect` says what each
  place in the code has done so far: `map_range` has written the entries of the first `i` pages
  (`MapDone`), `unmap_range` has cleared those up to the first page without a table, where it stays
  (`UnmapEffect`), an access has left every entry or has its own made by the handler (`TouchEffect`), a
  setter has not written yet (`SetEffect`). It needs `Asked`, that the call that runs is the one that was
  asked for, advanced by `i`, and `Faulted`, that the fault being handled is that of the access the call
  is about, since the address is read from `cr2` again by every part of the handler.
- `FramesInOnePlace` rests on `Once`: a frame is in one entry, and in none while it is free or
  in the handler's hands. It has a hypothesis, `CallersApart`: neither the tables of `64_init.s` nor the callers map
  a frame that the firmware reports. Callers could, and would then have put the frame in two places themselves.
  As to the tables of the boot the code ensures nothing: the firmware reports the frames of the kernel's image as
  usable too (`init.cpp:96`), which is listed as a hazard, and so it is a hypothesis and no
  assumption of the module.
- `TestPasses` adds that no caller maps or unmaps the page of the test (`TestKept`; the setters are in the property itself).
  `Tested` follows the page through the last steps of `kernel_init()`, and `Cached` says that a frame
  which the CPU caches for a page is no other page's and is not given again.
  For this the copy of the firmware's map must not change any more (`MapKept`), nor
  memory before the frame allocator starts (`Untouched`).
- `NoResetLater` is about the table of `initialize_idt()`: the last registration of a vector is
  its gate (`GreatestElement`), each one names a handler (`HandlersNamed`), and vector 13, that a vector without a gate is
  raised as, has one.

TLC evaluates `CallersApart` and `TestKept` on the machines and calls of the run (`MCKernel`).

### The terminal

`TerminalProofs` proves the three invariants of `Terminal` for every size of the
screen of at least two rows and columns and every larger `UInt`
(`SizeAssumption`), for all strings over the characters (`TextAssumption`) and
numbers whose digits are characters (`NumberAssumption`).

Neither `CursorKept` nor `ScreenShows` is inductive alone: where a character is written follows
from where the cursor is, and that the cursor is where the text ends needs the
lengths of all lines. `IInv` is the three of them together. The arithmetic is in a few lemmas: an
index on the screen does not wrap and belongs to one cell (`IndexUnique`), and a
scroll moves the screen and the lines alike. Each action then has one step for
the cursor and one for the screen.

### Formatted output

The theorems of `PrintfProofs` hold for all formats and calls, for every size and number of chunks
with at least three of an order, and whatever they hold when they are taken. `IntAssumption` is the
proportion that the machine has: an `int` has no more octal digits than the smallest chunk has bytes, without
those of a sign, a prefix of two and the NUL. It also states what the provers do not know of `^`.
`FormatAssumption` says that a format is a text. TLC evaluates both.

`HeapRestored` speaks of the time between calls. In between, the second pass of `kvprintf` has its buffer (`InUse`),
and each turn takes up to two more chunks, one for a text and one for the text that replaces it, when
it is justified or given a precision. `Holds` says which chunks are in use, `IsText` that a text has one of its
own; every conversion is a lemma about these (`ItoaText`, `IntPrecisionText`, and so on), and a turn
gives back what it took (`TurnKeeps`). That no two texts share a chunk needs the order of the chunks
(`Places`, `ChunkLeft`) and, of texts that need a page, that the page is given only once and that the second such
request is stuck in `allocate_kern`.

`IntsFit` is about `itoa`, which asks for fewer bytes than it writes. The digits of a number are a recursive
function; that it is what it says for every number is shown from the well-founded order of the naturals
(`RightTo`, `DigitsUnfold`), and that a number below 8^j has at most j digits in any base by the least j for which that
fails (`DigitsLength`). `TextFits` adds sign, prefix and NUL; a negative number in base 8 or 16 makes one
digit and no more, which is what the loop of the code does. Where directives are read is `Position`. The theorem has a
hypothesis, `NumberPassed`: for the directive of a number there is one among the arguments. This is
what a caller of any `printf` has to see to, and it is part of `TypeOK`, which the run checks.

### Only model-checked

- `CallReturns` of both modules and `BootEnds`: the prover has no rules for fairness.
- `KprintfExact`, `KsnprintfExact` and `PassesAgree` of Printf: they compare texts in memory, byte by byte, with
  what a format means, directive by directive from its start. That is induction over the format, and over each of its
  texts.
- `TypeOK` of Printf: which bytes are in memory is a bound of the instance, and which
  arguments there are is the callers' choice.

## Not modelled, and limits

- The heap as the frame allocator sees it is `HasNode`. Beyond 29 live chunks of
  16 bytes the real heap corrupts its own bitmaps (`KernelHeap_reserved`), and a
  kernel with more free blocks than that is outside both models.
- Memory maps with two regions that become the same frames: neither the runs nor the theorems on frames
  say anything of them (`Separate`; `MemoryAssumption` of `Kernel`). Frame 0, which the splits of an unaligned
  block below its own size may make, is no frame of the machines of `Kernel`.
- Shifts such as `j<<(order+12)` are computed in 32 bits; the node limit keeps the
  regions for which that matters out of reach.
- `initialize` floors region starts to frames, as every later use does.
- Requests above 1024 bytes, a non-empty emergency store and descriptors written
  beyond the initial pages (KernelHeap).
- `decompose_block`, `malloc_allocate_descriptor_page`, the prev-merge of
  `free_region`, `concatentate_strings` and `atoi` are never executed.
- What a machine does after `spoilt` (a table made of a frame that was not clear):
  the steps go on, the properties of `Kernel` claim nothing. That the kernel's own
  image may lie in a region given to the frame allocator is the same hazard.
- `panic` and `kassert`: nothing calls them; `dtoa` and `dtosn`: their
  directives are commented out in the source.
- Of a call of `kprintf` that outgrows a chunk only `PassesAgree`, `IntsFit` and `HeapRestored` say
  something, of one that reads an unterminated text only the last two. A width below -1 asks the heap
  for more than there is: the model stops there (`stuck`). What lies behind the format in memory
  (`Astray`) is unknown.
- Smart pointers and containers: no file of the kernel includes them, and they do
  not compile as they are (undeclared names, missing returns), so that there is no behaviour to be
  faithful to. ELF and utilities do not compile either.
- The switch to long mode, the stubs of `interrupts.s` (they save and restore
  registers) and the register dump of a trap.

## What could come next

1. The hazards without a property: the loops of `reserve` and `is_allocated_region` as runs of their own.
2. `PhysicalMemory` composed with `Kernel`, in the place of the set of free frames that it implements.
3. `PassesAgree` without memory: that the pass which counts and the one which prints make the same text of
   each directive.

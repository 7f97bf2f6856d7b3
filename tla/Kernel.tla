------------------------------- MODULE Kernel -------------------------------
(***************************************************************************)
(* The boot of the kernel, os/boot/x86-64/init.cpp, and its interrupts,    *)
(* os/arch/x86-64/isr.cpp, composed with Paging: kernel_init() brings up   *)
(* one service after the other, and a page fault or another interrupt may  *)
(* reach the machine at any point of it.  Where kernel_init() would stop   *)
(* the CPU for good, callers use the services.                             *)
(***************************************************************************)
EXTENDS Paging, SequencesExt

CONSTANTS
  Machines,  \* what the firmware reports, and what the memory holds
  TestPage,  \* test_address
  Vectors,   \* the interrupts that the CPU may raise by itself
  LowFrames  \* the frames of the first MiB: 256

\* An entry of the firmware's map, in frames.
Region == [type : Nat, base_addr : Nat, length : Nat]

ASSUME KernelAssumption ==
  /\ TestPage \in Pages
  /\ Vectors \subseteq (0..255) \ {14}
  /\ LowFrames \in Nat
  /\ \A M \in Machines :
       /\ M.regions \in Seq(Region)
       /\ \A f \in DOMAIN M.memory : f \in Nat \ {0} /\ M.memory[f] \in Table

VARIABLES
  at,           \* where kernel_init() is
  machine,      \* the machine it runs on
  cur,          \* the entry of the firmware's map it looks at
  n_mem_ranges, \* the ranges it counted
  null,         \* kmalloc() gave no memory for the copy
  mmap          \* the copy

boot_vars == <<at, machine, cur, n_mem_ranges, null, mmap>>

-----------------------------------------------------------------------------
(* isr.cpp                                                                 *)

NoGate == "none"

\* initialize_idt(), call by call: vectors 9 and 48 to 254 are left out, and
\* vector 30 is registered twice.
Registrations ==
  << <<0, "div_zero">>, <<1, "debug">>, <<2, "nmi">>, <<3, "breakpoint">>, <<4, "overflow">>,
     <<5, "boundrange">>, <<6, "invalidop">>, <<7, "devnotavail">>, <<8, "dfault">>,
     <<10, "invalidTSS">>, <<11, "segnotpresent">>, <<12, "stackseg">>, <<13, "gpfault">>,
     <<14, "pagefault">>, <<15, "reserved">>, <<16, "fpexcept">>, <<17, "align">>,
     <<18, "machine">>, <<19, "simd_fp">>, <<20, "virt">> >>
  \o [k \in 1..11 |-> <<20 + k, "reserved">>]
  \o << <<30, "security">> >>
  \o [k \in 1..16 |-> <<31 + k, "irq">>]
  \o << <<255, "test">> >>

\* add_interrupt_entry(): the calls that fill entry n, of which the last one stays.
Filling(n) == {j \in DOMAIN Registrations : Registrations[j][1] = n}

idt == [n \in 0..255 |->
          IF Filling(n) = {} THEN NoGate ELSE Registrations[Max(Filling(n))][2]]

\* The entry of a vector without a gate is no gate at all, which raises a
\* general protection fault.
Gate(n) == IF idt[n] # NoGate THEN idt[n] ELSE idt[13]

\* The gates are filled once initialize_idt() is done; without one the CPU is
\* reset.
\* (Mutant: that is after malloc_init().)
LoadedLate == at \notin {"idt", "malloc"}
Loaded == at # "idt"

\* Every handler but that of the page fault prints and halts, wherever the
\* machine was.
Interrupt(n) ==
  /\ pc \notin Stops
  /\ pc' = IF Loaded /\ Gate(n) # NoGate THEN "trapped" ELSE "reset"
  /\ UNCHANGED <<tlb, byhand, table_vars, handler_vars, call_vars, boot_vars>>

-----------------------------------------------------------------------------
(* kernel_init()                                                           *)

BootInit ==
  /\ \E M \in Machines : machine = M /\ InitWith(M.memory)
  /\ free = {}
  /\ at = "idt" /\ cur = 1 /\ n_mem_ranges = 0 /\ null = FALSE /\ mmap = <<>>

paging_vars == vars

\* A step of kernel_init() proper, between two page faults.
Boot(here, next) == at = here /\ pc = "idle" /\ at' = next

\* terminal_initialize(), initialize_idt()
BootIdt ==
  /\ Boot("idt", "malloc")
  /\ UNCHANGED <<paging_vars, machine, cur, n_mem_ranges, null, mmap>>

\* malloc_init()
BootMalloc ==
  /\ Boot("malloc", "count")
  /\ UNCHANGED <<paging_vars, machine, cur, n_mem_ranges, null, mmap>>

\* "silently drop pages in the 1st MiB"
Usable(r) == r.type = 1 /\ r.base_addr >= LowFrames

\* (Mutant: an entry that is not usable is looked at again.)
BootCountStay ==
  /\ Boot("count", "count")
  /\ cur <= Len(machine.regions)
  /\ Usable(machine.regions[cur])
  /\ n_mem_ranges' = n_mem_ranges + 1
  /\ cur' = cur + 1
  /\ UNCHANGED <<paging_vars, machine, null, mmap>>

BootCount ==
  /\ Boot("count", "count")
  /\ cur <= Len(machine.regions)
  /\ n_mem_ranges' = n_mem_ranges + IF Usable(machine.regions[cur]) THEN 1 ELSE 0
  /\ cur' = cur + 1
  /\ UNCHANGED <<paging_vars, machine, null, mmap>>

\* kmalloc(16 * n, MFLAGS_EMERG): malloc_init() made pages of orders 0 and 1
\* only, so that 64 bytes and more are not to be had; more than 1024 would come
\* from a region allocator that has no list yet.
MaxRanges == 3

BootMap ==
  /\ Boot("count", "copy")
  /\ cur > Len(machine.regions)
  /\ null' = (n_mem_ranges > MaxRanges)
  /\ cur' = 1
  /\ UNCHANGED <<paging_vars, machine, n_mem_ranges, mmap>>

\* The next usable entry, at or after the cur-th.
\* (Mutant: the next entry.)
NextEntry  == cur
NextUsable == SelectInSubSeq(machine.regions, cur, Len(machine.regions), Usable)

BootCopy ==
  /\ Boot("copy", "copy")
  /\ Len(mmap) < n_mem_ranges
  /\ ~null
  /\ mmap' = Append(mmap, machine.regions[NextUsable])
  /\ cur' = NextUsable + 1
  /\ UNCHANGED <<paging_vars, machine, n_mem_ranges, null>>

\* mmap[0] is at address 0.
BootCopyFault ==
  /\ Boot("copy", "copy")
  /\ Len(mmap) < n_mem_ranges
  /\ null
  /\ Trap(0)
  /\ UNCHANGED <<machine, cur, n_mem_ranges, null, mmap>>

\* physical_memory::initialize() cuts a region of n frames into blocks of this
\* size: the greatest power of two that fits, or single frames when the search
\* for it finds none.
Cut(n) == IF n >= 2^19 THEN 1 ELSE Max({1} \union {s \in {2^k : k \in 0..18} : s <= n})

\* What the blocks of region r give in single frames.  fill_free_list() splits
\* with an exclusive or: out of a block come the frames of the aligned block that
\* its first frame lies in, some of them not of the region.
FramesOf(r) ==
  LET s     == Cut(r.length)
      first == s * (r.base_addr \div s)
  IN  first..(first + (s * (r.length \div s)) - 1)

\* Of the frames that may become tables the contents are known, and no frame
\* comes out of two regions.
ASSUME MemoryAssumption ==
  \A M \in Machines :
    /\ \A r \in Range(M.regions) :
         Usable(r) => FramesOf(r) \subseteq DOMAIN BootTables \union DOMAIN M.memory
    /\ \A j, k \in DOMAIN M.regions :
         j # k /\ Usable(M.regions[j]) /\ Usable(M.regions[k]) =>
           FramesOf(M.regions[j]) \intersect FramesOf(M.regions[k]) = {}

\* (Mutant: the ranges are taken from the firmware's map, of every type.)
BootPhysicalUntyped ==
  /\ Boot("copy", "virtual")
  /\ Len(mmap) = n_mem_ranges
  /\ free' = UNION {FramesOf(r) : r \in {x \in Range(machine.regions) : x.base_addr >= LowFrames}}
  /\ UNCHANGED <<mem, spoilt, tlb, byhand, handler_vars, call_vars, pc,
                 machine, cur, n_mem_ranges, null, mmap>>

BootPhysical ==
  /\ Boot("copy", "virtual")
  /\ Len(mmap) = n_mem_ranges
  /\ free' = UNION {FramesOf(r) : r \in Range(mmap)}
  /\ UNCHANGED <<mem, spoilt, tlb, byhand, handler_vars, call_vars, pc,
                 machine, cur, n_mem_ranges, null, mmap>>

\* virtual_memory::initialize()
BootVirtual ==
  /\ Boot("virtual", "write")
  /\ UNCHANGED <<paging_vars, machine, cur, n_mem_ranges, null, mmap>>

\* The page-fault test: a write and a read of an address nothing is mapped at.
ASSUME TestAssumption ==
  TestPage # 0 /\ ~InWindow(TestPage) /\ Walk(BootTables, TestPage) = NoFrame

TestTouch == [op |-> "touch", page |-> TestPage, frame |-> 0, n |-> 1, flags |-> {}]

BootTest(here, next) ==
  /\ Boot(here, next)
  /\ Call(TestTouch)
  /\ UNCHANGED <<machine, cur, n_mem_ranges, null, mmap>>

BootWrite == BootTest("write", "read")
BootRead  == BootTest("read", "up")

-----------------------------------------------------------------------------
BootStep == \/ BootIdt \/ BootMalloc \/ BootCount \/ BootMap \/ BootCopy \/ BootCopyFault
            \/ BootPhysical \/ BootVirtual \/ BootWrite \/ BootRead

PagingStep == Step /\ UNCHANGED boot_vars

Stopped == pc \in Stops /\ UNCHANGED <<vars, boot_vars>>

BootNext ==
  \/ BootStep
  \/ PagingStep
  \/ \E n \in Vectors : Interrupt(n)
  \/ at = "up" /\ UNCHANGED boot_vars /\ \E c \in Calls : Call(c)
  \/ Stopped

\* The CPU goes on: nothing but an interrupt keeps it from its next instruction.
BootSpec == BootInit /\ [][BootNext]_<<vars, boot_vars>>
                     /\ WF_<<vars, boot_vars>>(BootStep \/ PagingStep)

-----------------------------------------------------------------------------
(* Properties.                                                             *)

\* The usable entries among the first k.
UsableUpTo(k) == Cardinality({j \in 1..k : Usable(machine.regions[j])})

\* What physical_memory::initialize() is given are the usable regions of the
\* firmware's map, each once and in their order: the two loops over the map
\* agree on what is usable and on how many there are.
MapCopied ==
  at \in {"virtual", "write", "read", "up"} =>
    /\ Len(mmap) = UsableUpTo(Len(machine.regions))
    /\ \A k \in DOMAIN machine.regions :
         Usable(machine.regions[k]) => mmap[UsableUpTo(k)] = machine.regions[k]

\* What some of the proofs rest on: neither the tables of 64_init.s nor the
\* callers map a frame that the firmware reports, and no caller maps or unmaps
\* the page of the test.
CallersApart ==
  \A M \in Machines : \A f \in DOMAIN M.memory \ DOMAIN BootTables :
    /\ \A t \in DOMAIN BootTables : \A idx \in 0..(Slots - 1) : BootTables[t][idx].frame # f
    /\ \A c \in Calls :
         /\ c.op = "map" => f \notin c.frame..(c.frame + c.n - 1)
         /\ c.op \in {"set_entry", "set_frame"} => f # c.frame

TestKept ==
  \A c \in Calls : c.op \in {"map", "unmap"} => TestPage \notin c.page..(c.page + c.n - 1)

\* The frames that the allocator makes of the firmware's usable regions.
UsableFrames == UNION {FramesOf(r) : r \in {x \in Range(machine.regions) : Usable(x)}}

\* The page-fault test reads what it wrote: the address it used has a frame, one
\* of those that the allocator made of the firmware's usable regions, which it
\* gives to nobody else until a caller maps the address anew.
TestPassed ==
  at = "up" /\ pc = "idle" /\ ~spoilt /\ TestPage \notin byhand =>
    /\ Walk(mem, TestPage) \in UsableFrames \ free
    /\ \A t \in tlb : t[1] = TestPage <=> t[2] = Walk(mem, TestPage)

\* Once initialize_idt() is done no interrupt resets the machine: a vector
\* without a gate is raised as one that has one.
ResetsEarly == pc = "reset" => at = "idt"

\* kernel_init() comes to its end with one to three usable regions, and stops
\* with none, for want of a frame, or with four, at the first entry of the copy
\* for which there was no memory.
BootOutcome ==
  /\ at = "up" /\ pc = "idle" => n_mem_ranges \in 1..MaxRanges
  /\ pc = "halt" /\ at # "up" /\ ~spoilt => n_mem_ranges \notin 1..MaxRanges \/ free = {}

\* kernel_init() does not hang: it comes to its end, or the machine stops.
BootEnds == <>(at = "up" \/ pc \in Stops)
=============================================================================

------------------------------- MODULE Paging -------------------------------
(***************************************************************************)
(* Page tables and page faults, os/arch/x86-64/page_manip.cpp.             *)
(*                                                                         *)
(* Memory is what the CPU sees: a page is looked up by a walk over four    *)
(* levels of tables, and the code reaches the tables themselves through    *)
(* the recursive slot, by walks over the same tables.  An instruction that *)
(* touches a page without an entry is interrupted, handle_pagefault() runs *)
(* and the instruction is tried again; so also where the instruction is    *)
(* part of the code of this module.                                        *)
(*                                                                         *)
(* Addresses are page numbers, virtual ones below NPages.  Every frame     *)
(* that may become a table has contents, which nobody clears.              *)
(***************************************************************************)
EXTENDS Integers, FiniteSetsExt, TLC

CONSTANTS
  Slots,       \* entries of a table: 512
  RecSlot,     \* MEM_RECURSIVE_SLOT: 510
  Root,        \* the frame in CR3, BootPML4T
  BootTables,  \* the tables of 64_init.s, each a function from indices to entries
  Calls,       \* what callers ask for
  Watched      \* the pages the properties look at

Flags == {"present", "rw", "global", "avl"}
Entry == [frame : Nat, flags : SUBSET Flags]
Zero  == [frame |-> 0, flags |-> {}]
Table == [0..(Slots - 1) -> Entry]

\* The pages that an entry of a table covers, and all pages.
Span(level) == CASE level = 1 -> 1
                 [] level = 2 -> Slots
                 [] level = 3 -> Slots * Slots
                 [] level = 4 -> Slots * Slots * Slots
NPages == Slots * Span(4)
Pages  == 0..(NPages - 1)

NoPage  == -1
NoFrame == -1
NoCall  == [op |-> "none", page |-> 0, frame |-> 0, n |-> 0, flags |-> {}]

Ops == {"touch", "map", "unmap", "set_entry", "set_frame", "set_flags"}

ASSUME PagingAssumption ==
  /\ Slots \in Nat \ {0, 1} /\ RecSlot \in 0..(Slots - 1)
  /\ Root \in DOMAIN BootTables
  /\ \A f \in DOMAIN BootTables : f \in Nat /\ BootTables[f] \in Table
  /\ BootTables[Root][RecSlot] = [frame |-> Root, flags |-> {"present"}]
  /\ Watched \subseteq Pages
  /\ Calls \subseteq [op : Ops, page : Pages, frame : Nat, n : Nat, flags : SUBSET Flags]

VARIABLES
  mem,        \* the contents of the frames, where they are looked at as tables
  free,       \* the frames physical_memory::allocate() has left
  tlb,        \* the translations the CPU may have cached, pairs of page and frame
  pfaulting,  \* the handler's guard against recursion
  cr2,        \* the page whose fault is being handled
  new_page,   \* the frame the handler allocated for it
  resume,     \* the interrupted instruction
  call,       \* the call that runs, its page and frame advanced by its loop
  i,          \* the counter of that loop
  pc,         \* the next instruction
  asked,      \* ghost: the call as it was made, and the tables at that time
  spoilt,     \* ghost: a table was made of a frame that holds entries, or a frame in use
  byhand      \* ghost: the pages whose entry a setter wrote and nobody refreshed

vars == <<mem, free, tlb, pfaulting, cr2, new_page, resume, call, i, pc, asked, spoilt, byhand>>

-----------------------------------------------------------------------------
(* The CPU.                                                                *)

\* MEM_PML4_INDEX (level 4), MEM_PDPT_INDEX, MEM_PDIR_INDEX, MEM_PTBL_INDEX.
Index(v, level) == (v \div Span(level)) % Slots

Present(e) == "present" \in e.flags

\* The entry in the frame, zero where the model does not look into the memory.
In(m, f, idx) == IF f \in DOMAIN m THEN m[f][idx] ELSE Zero

Child(m, f, idx) == LET e == In(m, f, idx) IN IF Present(e) THEN e.frame ELSE NoFrame

\* The table of a level that a walk for v reaches, the entry of v in the last
\* one, and what v is mapped to.
TableAt(m, v, level) ==
  CASE level = 4 -> Root
    [] level = 3 -> Child(m, Root, Index(v, 4))
    [] level = 2 -> Child(m, Child(m, Root, Index(v, 4)), Index(v, 3))
    [] level = 1 -> Child(m, Child(m, Child(m, Root, Index(v, 4)), Index(v, 3)), Index(v, 2))
TableOf(m, v) == TableAt(m, v, 1)
EntryOf(m, v) == In(m, TableOf(m, v), Index(v, 1))
Walk(m, v)    == Child(m, TableOf(m, v), Index(v, 1))

-----------------------------------------------------------------------------
(* The windows the recursive slot opens on the tables.                     *)

MEM_RECURSIVE_PTBLS == RecSlot * Span(4)
MEM_RECURSIVE_PDIRS == MEM_RECURSIVE_PTBLS + RecSlot * Span(3)
MEM_RECURSIVE_PDPTS == MEM_RECURSIVE_PDIRS + RecSlot * Span(2)
MEM_PML4T_ADDR   == MEM_RECURSIVE_PDPTS + RecSlot
\* (Mutant: the directory pointer table is looked for among the directories.)
PDPTShifted(v)   == MEM_RECURSIVE_PDIRS + ((v \div Span(4)) % Slots)
MEM_PDPT_ADDR(v) == MEM_RECURSIVE_PDPTS + ((v \div Span(4)) % Slots)
MEM_PDIR_ADDR(v) == MEM_RECURSIVE_PDIRS + ((v \div Span(3)) % Span(3))
MEM_PTBL_ADDR(v) == MEM_RECURSIVE_PTBLS + ((v \div Span(2)) % Span(4))

Window(v, level) == CASE level = 4 -> MEM_PML4T_ADDR
                      [] level = 3 -> MEM_PDPT_ADDR(v)
                      [] level = 2 -> MEM_PDIR_ADDR(v)
                      [] level = 1 -> MEM_PTBL_ADDR(v)

\* The pages of the windows: mapping them would be writing tables.
InWindow(v) == Index(v, 4) = RecSlot

\* Every table of a page outside of the windows is reached by one path only:
\* the tables are a tree.
Tree(m) ==
  \A p, q \in Pages, k, l \in 1..4 :
    /\ ~InWindow(p) /\ ~InWindow(q)
    /\ TableAt(m, p, k) # NoFrame
    /\ TableAt(m, p, k) = TableAt(m, q, l)
    => k = l /\ \A level \in (k + 1)..4 : Index(p, level) = Index(q, level)

\* The tables of 64_init.s are one, and all of them are there.
ASSUME TablesAssumption ==
  /\ Tree(BootTables)
  /\ \A p \in Pages, k \in 1..4 :
       ~InWindow(p) => TableAt(BootTables, p, k) \in DOMAIN BootTables \union {NoFrame}

\* Callers leave the windows alone, and their ranges end with the address space.
ASSUME CallsAssumption ==
  \A c \in Calls : c.op # "touch" =>
    \A v \in {c.page} \union (c.page..(c.page + c.n - 1)) : v \in Pages /\ ~InWindow(v)

\* A read, and a write, of the entry of v through the window on its table.
Load(v, level) == In(mem, Walk(mem, Window(v, level)), Index(v, level))
Store(v, level, e) ==
  LET f == Walk(mem, Window(v, level))
  IN  IF f \in DOMAIN mem THEN [mem EXCEPT ![f][Index(v, level)] = e] ELSE mem

mem_check_pagetable(v) == \A level \in 2..4 : Present(Load(v, level))

\* page_entry(raw) and back: the bits above the ninth are dropped.
PageEntry(e) == [e EXCEPT !.flags = @ \ {"avl"}]

mem_get_mmu_entry(v)        == IF mem_check_pagetable(v) THEN PageEntry(Load(v, 1)) ELSE Zero
mem_get_physical_address(v) == IF mem_check_pagetable(v) THEN Load(v, 1).frame ELSE 0
mem_get_flags(v)            == IF mem_check_pagetable(v) THEN Load(v, 1).flags ELSE {}

-----------------------------------------------------------------------------
\* The frames of the boot tables may be among those the firmware reports.
InitWith(m) ==
  /\ mem = [f \in DOMAIN BootTables \union DOMAIN m |->
             IF f \in DOMAIN BootTables THEN BootTables[f] ELSE m[f]]
  /\ tlb = {} /\ byhand = {}
  /\ pfaulting = FALSE /\ cr2 = NoPage /\ new_page = NoFrame
  /\ call = NoCall /\ i = 0 /\ pc = "idle" /\ resume = "idle"
  /\ asked = <<>> /\ spoilt = FALSE

handler_vars == <<pfaulting, cr2, new_page, resume>>
table_vars   == <<mem, free, spoilt>>
call_vars    == <<call, i, asked>>

\* physical_memory::allocate(1) gives a free frame.  Which one makes no
\* difference to a model in which they may hold anything: the lowest.
NextFrame == Min(free)

\* (Mutant: it stays on the free lists.)
KeepFrame(f) == UNCHANGED free
TakeFrame(f) == free' = free \ {f}

\* A frame in use, or one that is not clear, becomes a table.
Spoils(f) == f \in DOMAIN BootTables \/ \E idx \in 0..(Slots - 1) : mem[f][idx] # Zero

\* The page that the instruction at pc reads or writes.
Instruction == {"access", "map_entry", "pml4e", "pdpte", "pde", "fault_entry"}
Target == IF pfaulting THEN cr2 ELSE call.page
Accessed ==
  CASE pc = "access"      -> IF call.op = "touch" THEN call.page ELSE MEM_PTBL_ADDR(call.page)
    [] pc = "map_entry"   -> MEM_PTBL_ADDR(Target)
    [] pc = "pml4e"       -> MEM_PML4T_ADDR
    [] pc = "pdpte"       -> MEM_PDPT_ADDR(Target)
    [] pc = "pde"         -> MEM_PDIR_ADDR(Target)
    [] pc = "fault_entry" -> MEM_PTBL_ADDR(Target)

\* The instruction finds its page, or is interrupted by a fault.
Reaches == pc \in Instruction /\ Walk(mem, Accessed) # NoFrame
Trap(page) ==
  /\ cr2' = page
  /\ resume' = pc
  /\ pc' = "handle"
  /\ UNCHANGED <<mem, free, tlb, pfaulting, new_page, call, i, asked, spoilt, byhand>>
Fault == pc \in Instruction /\ Walk(mem, Accessed) = NoFrame /\ Trap(Accessed)

-----------------------------------------------------------------------------
(* mem_create_pagetable(Target): one step per level.                       *)

\* The entry that points to a new table: present, and bit 8.
NewTable(f) == [frame |-> f, flags |-> {"present", "global"}]

\* (Mutant: a table is made whether there is one or not.)
MakeAlways(level) == TRUE
Missing(level) == ~Present(Load(Target, level))

Create(here, level, next) ==
  /\ pc = here
  /\ Reaches
  /\ \/ /\ ~Missing(level)
        /\ UNCHANGED table_vars
     \/ /\ Missing(level)
        /\ free # {}
        /\ TakeFrame(NextFrame)
        /\ mem' = Store(Target, level, NewTable(NextFrame))
        /\ spoilt' = (spoilt \/ Spoils(NextFrame))
  /\ pc' = next
  /\ UNCHANGED <<tlb, byhand, handler_vars, call_vars>>

\* What follows the tables is the handler's code, or that of map_range().
\* (Mutant: no directory is made.)
CreateNoPd == Create("pml4e", 4, "pde")
CreatePdpt == Create("pml4e", 4, "pdpte")
CreatePd   == Create("pdpte", 3, "pde")
CreatePt   == Create("pde", 2, IF pfaulting THEN "fault_entry" ELSE "map_entry")

\* allocate() without a frame left reads the head of an empty list through NULL.
CreateFault ==
  /\ Reaches
  /\ \/ pc = "pml4e" /\ Missing(4)
     \/ pc = "pdpte" /\ Missing(3)
     \/ pc = "pde" /\ Missing(2)
  /\ free = {}
  /\ Trap(0)

-----------------------------------------------------------------------------
(* handle_pagefault(errcode, cr2)                                          *)

HandleHalt ==
  /\ pc = "handle"
  /\ pfaulting \/ cr2 = 0
  /\ pc' = "halt"
  /\ UNCHANGED <<tlb, byhand, table_vars, handler_vars, call_vars>>

HandleAllocate ==
  /\ pc = "handle"
  /\ ~pfaulting /\ cr2 # 0
  /\ pfaulting' = TRUE
  /\ free # {}
  /\ new_page' = NextFrame
  /\ TakeFrame(NextFrame)
  /\ pc' = IF mem_check_pagetable(cr2) THEN "fault_entry" ELSE "pml4e"
  /\ UNCHANGED <<mem, spoilt, tlb, byhand, cr2, resume, call_vars>>

\* allocate() reads through NULL, the handler's guard already up.
HandleFault ==
  /\ pc = "handle"
  /\ ~pfaulting /\ cr2 # 0
  /\ free = {}
  /\ pfaulting' = TRUE
  /\ cr2' = 0
  /\ UNCHANGED <<tlb, byhand, table_vars, new_page, resume, pc, call_vars>>

\* invlpg
\* (Mutant: it is left out.)
Unrefreshed(v) == tlb
Refreshed(v) == {t \in tlb : t[1] # v}

\* (Mutant: the guard stays up.)
GuardKept == UNCHANGED pfaulting
GuardDown == pfaulting' = FALSE

\* The page table of the fault gets its entry; a page of the windows is itself
\* a table.
HandleEntry ==
  /\ pc = "fault_entry"
  /\ Reaches
  /\ mem' = Store(cr2, 1, [frame |-> new_page, flags |-> {"present"}])
  /\ spoilt' = (spoilt \/ new_page \in DOMAIN BootTables \/ (InWindow(cr2) /\ Spoils(new_page)))
  /\ tlb' = Refreshed(cr2)
  /\ byhand' = byhand \ {cr2}
  /\ GuardDown
  /\ cr2' = NoPage /\ new_page' = NoFrame /\ resume' = "idle"
  /\ pc' = resume
  /\ UNCHANGED <<free, call_vars>>

-----------------------------------------------------------------------------
(* The calls.                                                              *)

Call(c) ==
  /\ pc = "idle"
  /\ call' = c
  /\ i' = 0
  /\ asked' = [call |-> c, mem |-> mem]
  /\ pc' = IF c.op \in {"map", "unmap"} THEN c.op ELSE "access"
  /\ UNCHANGED <<tlb, byhand, table_vars, handler_vars>>

Return ==
  /\ pc = "return"
  /\ call' = NoCall /\ i' = 0 /\ asked' = <<>>
  /\ pc' = "idle"
  /\ UNCHANGED <<tlb, byhand, table_vars, handler_vars>>

\* Any instruction of the kernel: with a translation the CPU has cached, or
\* with one it looks up.
Touch ==
  /\ pc = "access" /\ call.op = "touch"
  /\ \E f \in {t[2] : t \in {u \in tlb : u[1] = call.page}} \union ({Walk(mem, call.page)} \ {NoFrame}) :
       tlb' = tlb \union {<<call.page, f>>}
  /\ pc' = "return"
  /\ UNCHANGED <<byhand, table_vars, handler_vars, call_vars>>

\* (Mutant: the frame is not advanced.)
AdvancePage == i' = i + 1 /\ call' = [call EXCEPT !.page = (@ + 1) % NPages]
Advance == i' = i + 1 /\ call' = [call EXCEPT !.page = (@ + 1) % NPages, !.frame = @ + 1]

\* An iteration of map_range(): the tables are made first if they are missing.
\* (Mutant: one more than asked for.)
MapCheckPast ==
  /\ pc = "map"
  /\ pc' = IF i > call.n THEN "return"
           ELSE IF mem_check_pagetable(call.page) THEN "map_entry" ELSE "pml4e"
  /\ UNCHANGED <<tlb, byhand, table_vars, handler_vars, call_vars>>

MapCheck ==
  /\ pc = "map"
  /\ pc' = IF i = call.n THEN "return"
           ELSE IF mem_check_pagetable(call.page) THEN "map_entry" ELSE "pml4e"
  /\ UNCHANGED <<tlb, byhand, table_vars, handler_vars, call_vars>>

MapEntry ==
  /\ pc = "map_entry"
  /\ Reaches
  /\ mem' = Store(call.page, 1, [frame |-> call.frame, flags |-> call.flags])
  /\ tlb' = Refreshed(call.page)
  /\ byhand' = byhand \ {call.page}
  /\ Advance
  /\ pc' = "map"
  /\ UNCHANGED <<free, spoilt, asked, handler_vars>>

\* An iteration of unmap_range(): "continue" does not advance the address.
UnmapEntry ==
  /\ pc = "unmap"
  /\ i < call.n
  /\ mem_check_pagetable(call.page)
  /\ mem' = Store(call.page, 1, Zero)
  /\ tlb' = Refreshed(call.page)
  /\ byhand' = byhand \ {call.page}
  /\ Advance
  /\ UNCHANGED <<free, spoilt, asked, pc, handler_vars>>

\* (Mutant: the counter is not advanced either.)
UnmapStay ==
  /\ pc = "unmap"
  /\ i < call.n
  /\ ~mem_check_pagetable(call.page)
  /\ UNCHANGED vars

UnmapSkip ==
  /\ pc = "unmap"
  /\ i < call.n
  /\ ~mem_check_pagetable(call.page)
  /\ i' = i + 1
  /\ UNCHANGED <<tlb, byhand, table_vars, handler_vars, call, asked, pc>>

UnmapDone ==
  /\ pc = "unmap"
  /\ i = call.n
  /\ pc' = "return"
  /\ UNCHANGED <<tlb, byhand, table_vars, handler_vars, call_vars>>

\* mem_set_mmu_entry(), mem_set_physical_address(), mem_set_flags(): none
\* looks at what mem_check_pagetable() says, and none refreshes the page.
SetTo ==
  CASE call.op = "set_entry" -> PageEntry([frame |-> call.frame, flags |-> call.flags])
    [] call.op = "set_frame" -> [Load(call.page, 1) EXCEPT !.frame = call.frame]
    [] call.op = "set_flags" -> [Load(call.page, 1) EXCEPT !.flags = call.flags]

Set ==
  /\ pc = "access" /\ call.op # "touch"
  /\ Reaches
  /\ mem' = Store(call.page, 1, SetTo)
  /\ byhand' = byhand \union {call.page}
  /\ pc' = "return"
  /\ UNCHANGED <<free, spoilt, tlb, handler_vars, call_vars>>

-----------------------------------------------------------------------------
Step == \/ Fault \/ CreatePdpt \/ CreatePd \/ CreatePt \/ CreateFault
        \/ HandleHalt \/ HandleAllocate \/ HandleFault \/ HandleEntry
        \/ Touch \/ MapCheck \/ MapEntry \/ UnmapEntry \/ UnmapSkip \/ UnmapDone
        \/ Set \/ Return

-----------------------------------------------------------------------------
(* Properties.                                                             *)

\* Where the machine stops: in handle_pagefault(), or (see Kernel) in the handler
\* of another interrupt, or it is reset.
Stops == {"halt", "trapped", "reset"}

\* The variables keep their types.
TypeOK ==
  /\ mem \in [DOMAIN mem -> Table]
  /\ free \subseteq DOMAIN mem
  /\ tlb \subseteq (Pages \X Nat)
  /\ pfaulting \in BOOLEAN
  /\ cr2 \in Pages \union {NoPage} /\ new_page \in Nat \union {NoFrame}
  /\ call.op \in Ops \union {"none"} /\ call.page \in Pages
  /\ i \in 0..call.n
  /\ pc \in Instruction \union {"idle", "map", "unmap", "return", "handle"} \union Stops
  /\ byhand \subseteq Pages

\* What the getters read through the windows is what a walk of the CPU finds:
\* of a page without tables, of pages of the windows, and in the middle of
\* every call that builds or changes tables.
GettersExact ==
  \A v \in Watched :
    /\ mem_check_pagetable(v) <=> TableOf(mem, v) # NoFrame
    /\ mem_get_physical_address(v) = EntryOf(mem, v).frame
    /\ mem_get_flags(v) = EntryOf(mem, v).flags

\* The tables in use, and the places in them that hold an entry for frame f.
Below(tables) ==
  {Child(mem, t[1], t[2]) : t \in tables \X (0..(Slots - 1))} \ {NoFrame, Root}
InUse == {Root} \union Below({Root}) \union Below(Below({Root})) \union Below(Below(Below({Root})))
PlacesOf(f) ==
  {t \in ((InUse \intersect DOMAIN mem) \X (0..(Slots - 1))) : Present(mem[t[1]][t[2]]) /\ mem[t[1]][t[2]].frame = f}

\* A frame that allocate() gave, to the handler or for a table, is in one
\* place, and a free frame is in none: no two tables share an entry and no
\* page shows a table (until a frame that was not clear becomes a table).
FrameOnce ==
  ~spoilt => \A f \in DOMAIN mem \ DOMAIN BootTables :
    Cardinality(PlacesOf(f)) <= IF f \in free \/ f = new_page THEN 0 ELSE 1

\* Outside the windows.
InRange(v, c) == v \in c.page..(c.page + c.n - 1)

\* The first page of the range for which there was no table, or its length.
Hole(m, c) == Min({c.n} \union {k \in 0..(c.n - 1) : TableOf(m, c.page + k) = NoFrame})

\* What a call is to leave in the last-level entry of page v.
Wanted(m, c, v) ==
  CASE c.op = "map" /\ InRange(v, c) ->
         {[frame |-> c.frame + (v - c.page), flags |-> c.flags]}
    [] c.op = "unmap" /\ v \in c.page..(c.page + Hole(m, c) - 1) -> {Zero}
    [] c.op = "touch" /\ v = c.page /\ v \notin byhand /\ Walk(m, v) = NoFrame ->
         {[frame |-> f, flags |-> {"present"}] : f \in DOMAIN mem \ free}
    [] c.op = "set_entry" /\ v = c.page -> {PageEntry([frame |-> c.frame, flags |-> c.flags])}
    [] c.op = "set_frame" /\ v = c.page -> {[EntryOf(m, v) EXCEPT !.frame = c.frame]}
    [] c.op = "set_flags" /\ v = c.page -> {[EntryOf(m, v) EXCEPT !.flags = c.flags]}
    [] OTHER -> {EntryOf(m, v)}

\* When a call returns, the pages it was asked for have the entries it was
\* asked for, whatever tables had to be made, by itself or by the handler in
\* the middle of it, and every other page has the entry it had.  unmap_range()
\* clears the pages up to the first one without a table.
CallEffect ==
  pc = "return" /\ ~spoilt =>
    \A v \in Watched : ~InWindow(v) => EntryOf(mem, v) \in Wanted(asked.mem, asked.call, v)

\* The CPU uses no translation the tables do not give any more, but for pages
\* whose entry a setter changed.
TlbCoherent == ~spoilt => \A t \in tlb : t[1] \in byhand \/ Walk(mem, t[1]) = t[2]

\* The machine stops where page 0 is touched, and where no frame is left.  It
\* does not stop because the handler, or the code that makes tables, touches a
\* table that is missing.
HaltJustified ==
  pc = "halt" /\ ~spoilt => cr2 = 0 /\ (free = {} \/ call = NoCall \/ (call.op = "touch" /\ call.page = 0))

\* A table once in use stays where it is.
TablesStay ==
  [][ ~spoilt' => \A v \in Watched : TableOf(mem, v) # NoFrame => TableOf(mem', v) = TableOf(mem, v) ]_vars

\* Every call returns or stops the machine: a fault is resolved, and the
\* instruction it interrupted goes on.
CallReturns == pc # "idle" ~> pc \in {"idle"} \union Stops
=============================================================================

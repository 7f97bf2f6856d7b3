---------------------------- MODULE KernelCalls ----------------------------
(***************************************************************************)
(* Theorems about what a call of page_manip.cpp leaves behind: the entries *)
(* of the pages, the frames that are given away and the page of the test   *)
(* of kernel_init(); and about the interrupt table.                        *)
(***************************************************************************)
EXTENDS KernelProofs, SequenceTheorems

(***************************************************************************)
(* The invariants.                                                         *)
(***************************************************************************)

\* The frames that the machine may give away.
Own == DOMAIN machine.memory \ DOMAIN BootTables

Initial(M) ==
  [f \in DOMAIN BootTables \union DOMAIN M.memory |->
    IF f \in DOMAIN BootTables THEN BootTables[f] ELSE M.memory[f]]

\* A table of the tree.
UsedTable(m, t) ==
  t # NoFrame /\ \E p \in Pages, k \in 1..4 : ~InWindow(p) /\ At(m, p, k) = t

\* Nothing is written before the frame allocator starts.
Untouched == at \in Booting => mem = Initial(machine)

\* The call that runs is the one that was asked for, its page and frame
\* advanced.
Asked ==
  /\ pc = "return" => call.op # "none"
  /\ call.op # "none" =>
       LET c == asked.call
       IN  /\ c \in Calls \union {TestTouch}
           /\ call.op = c.op /\ call.n = c.n /\ call.flags = c.flags
           /\ call.op \notin {"map", "unmap"} => call = c
           /\ call.op = "map" => call.frame = c.frame + i
           /\ call.op = "map" /\ i < c.n => call.page = c.page + i
           /\ call.op = "unmap" /\ i < c.n => call.page \in c.page..(c.page + i)

\* The handler resolves the fault of the access that the call is for.
Faulted ==
  (pc \in Handling /\ pfaulting) \/ (pc = "handle" /\ ~pfaulting /\ cr2 # 0)
    => cr2 = IF call.op = "touch" THEN call.page ELSE MEM_PTBL_ADDR(call.page)

\* An entry of a page, and what it leads to.
Same(m, q) == EntryOf(mem, q) = EntryOf(m, q)

Made(m, c, q) ==
  /\ q = c.page /\ q \notin byhand /\ Walk(m, q) = NoFrame
  /\ EntryOf(mem, q) \in {[frame |-> f, flags |-> {"present"}] : f \in DOMAIN mem \ free}

\* What the call did so far.
MapDone(m, c) ==
  /\ \A q \in Pages : ~InWindow(q) =>
       EntryOf(mem, q) = IF q \in c.page..(c.page + i - 1)
                           THEN [frame |-> c.frame + (q - c.page), flags |-> c.flags]
                           ELSE EntryOf(m, q)
  /\ pc = "return" => i = c.n

Least(a, b) == IF a <= b THEN a ELSE b

UnmapEffect(m, c) ==
  LET d == Least(i, Hole(m, c))
  IN  /\ i < c.n => call.page = c.page + d
      /\ \A q \in Pages : TableOf(mem, q) = TableOf(m, q)
      /\ \A q \in Pages : ~InWindow(q) =>
           EntryOf(mem, q) = IF q \in c.page..(c.page + d - 1) THEN Zero ELSE EntryOf(m, q)
      /\ pc = "return" => i = c.n

TouchEffect(m, c) ==
  /\ \A q \in Pages : ~InWindow(q) => Same(m, q) \/ Made(m, c, q)
  /\ pc = "return" /\ Same(m, c.page) => c.page \in byhand \/ Walk(m, c.page) # NoFrame \/ InWindow(c.page)

SetEffect(m, c) ==
  /\ pc \notin Stops \union {"return"} => \A q \in Pages : ~InWindow(q) => Same(m, q)
  /\ pc = "return" => \A q \in Pages : ~InWindow(q) => EntryOf(mem, q) \in Wanted(m, c, q)

Effect ==
  LET c == asked.call
      m == asked.mem
  IN  /\ call.op = "map" => MapDone(m, c)
      /\ call.op = "unmap" => UnmapEffect(m, c)
      /\ call.op = "touch" => TouchEffect(m, c)
      /\ call.op \in {"set_entry", "set_frame", "set_flags"} => SetEffect(m, c)

\* A frame of the machine is in one entry, and in none while it is free or in
\* the hands of the handler.
Once ==
  \A f \in Own :
    /\ \A t \in DOMAIN mem : \A x \in Indices :
         UsedTable(mem, t) /\ mem[t][x].frame = f => f \notin free \union {new_page}
    /\ \A t, u \in DOMAIN mem : \A x, y \in Indices :
         /\ mem[t][x].frame = f /\ mem[u][y].frame = f
         /\ UsedTable(mem, t) /\ UsedTable(mem, u)
         => t = u /\ x = y

\* A frame that the CPU caches is not free, and not that of another page.
Cached ==
  \A t \in tlb : t[2] \in Own =>
    /\ t[2] \notin free \union {new_page}
    /\ \A q \in Pages : ~InWindow(q) /\ EntryOf(mem, q).frame = t[2] => t[1] = q

\* What the allocator made of the ranges that it was given.
Reported == UNION {FramesOf(r) : r \in Range(mmap)}

\* The page of the test has one of these frames, once it is written.
Tested ==
  /\ free \union {new_page} \subseteq Reported \union {NoFrame}
  /\ TestPage \notin byhand => Walk(mem, TestPage) \in {NoFrame} \union (Reported \ DOMAIN BootTables)
  /\ (at = "up" \/ (at = "read" /\ pc \in {"return", "idle"})) /\ TestPage \notin byhand =>
       Walk(mem, TestPage) # NoFrame

(***************************************************************************)
(* What a write of a table does to the entries of the pages.               *)
(***************************************************************************)

\* The entry of a page, in the table that the walk for it reaches, and where
\* it leads to.
LEMMA EntryRead ==
  ASSUME NEW m, IsMem(m), NEW q \in Pages
  PROVE  /\ EntryOf(m, q) = In(m, At(m, q, 1), Index(q, 1)) /\ At(m, q, 1) = TableOf(m, q)
         /\ EntryOf(m, q) \in Entry
         /\ At(m, q, 1) = NoFrame => EntryOf(m, q) = Zero
         /\ Walk(m, q) = IF Present(EntryOf(m, q)) THEN EntryOf(m, q).frame ELSE NoFrame
<1>1. Index(q, 1) \in Indices
  BY PageIndices
<1>2. At(m, q, 1) = TableOf(m, q)
  BY Down
<1>3. EntryOf(m, q) \in Entry
  BY <1>1, Entries DEF EntryOf
<1>4. NoFrame \notin DOMAIN m
  BY DEF IsMem, NoFrame
<1> QED BY <1>2, <1>3, <1>4 DEF EntryOf, Walk, Child, In

\* The table that the code writes through a window is one of the tree, and one
\* of a higher level unless the page is outside of the windows.
LEMMA WrittenTable ==
  ASSUME NEW m, Recursive(m), NEW v \in Pages, NEW level \in 1..4
  PROVE  \E u \in Pages, l \in 1..4 :
           /\ ~InWindow(u) /\ At(m, v, level) = At(m, u, l)
           /\ InWindow(v) \/ level # 1 => l # 1
<1>1. CASE ~InWindow(v)
  BY <1>1
<1>2. CASE InWindow(v) /\ level # 4
  <2>1. level \in 0..3 /\ level >= 1
    BY <1>2
  <2>2. PICK u \in Pages, l \in 1..4 :
          /\ ~InWindow(u) /\ l > level
          /\ \A mm : Recursive(mm) => At(mm, v, level) = At(mm, u, l)
    BY <1>2, <2>1, WindowWalks
  <2> QED BY <2>1, <2>2
<1>3. CASE InWindow(v) /\ level = 4
  <2>1. 4 \in 1..4 /\ 4 # 1
    OBVIOUS
  <2>2. PICK u \in Pages, l \in 1..4 : ~InWindow(u) /\ At(m, v, 4) = At(m, u, l)
    BY <2>1, AnyTable
  <2>3. At(m, u, 4) = At(m, v, 4)
    BY Down
  <2> QED BY <1>3, <2>1, <2>2, <2>3
<1> QED BY <1>1, <1>2, <1>3

\* The code writes a table through its window.
LEMMA StoreIs ==
  ASSUME IsMem(mem), Recursive(mem), NEW v \in Pages, NEW level \in 1..4, NEW e,
         At(mem, v, level) \in DOMAIN mem
  PROVE  Store(v, level, e) = [mem EXCEPT ![At(mem, v, level)][Index(v, level)] = e]
BY WindowReaches DEF Store

\* A write changes one entry of one table.
LEMMA OneEntry ==
  ASSUME NEW m, IsMem(m), NEW f \in DOMAIN m, NEW x \in Indices, NEW e \in Entry,
         NEW n, n = [m EXCEPT ![f][x] = e]
  PROVE  /\ DOMAIN n = DOMAIN m
         /\ n[f][x] = e
         /\ \A t \in DOMAIN m : \A y \in Indices : t # f \/ y # x => n[t][y] = m[t][y]
         /\ \A t \in DOMAIN m : t # f => n[t] = m[t]
         /\ \A t : \A y \in Indices : t # f \/ y # x => In(n, t, y) = In(m, t, y)
         /\ In(n, f, x) = e
         /\ IsMem(n)
<1>1. m[f] \in Table
  BY DEF IsMem
<1>2. DOMAIN n = DOMAIN m /\ n[f] = [m[f] EXCEPT ![x] = e] /\ \A t \in DOMAIN m : t # f => n[t] = m[t]
  OBVIOUS
<1>3. n[f][x] = e /\ \A y \in Indices : y # x => n[f][y] = m[f][y]
  BY <1>1, <1>2 DEF Table, Indices
<1>4. n[f] \in Table
  BY <1>1, <1>2 DEF Table, Indices
<1>5. n \in [DOMAIN n -> Table]
  BY <1>2, <1>4 DEF IsMem
<1> QED BY <1>2, <1>3, <1>5 DEF In, IsMem

\* A frame that spoils nothing makes an empty table.
LEMMA BlankTable ==
  ASSUME NEW g, ~Spoils(g)
  PROVE  g \notin DOMAIN BootTables /\ \A y \in Indices : mem[g][y] = Zero
BY DEF Spoils, Indices

\* A new table, made of a frame all of whose entries are zero, changes the entry
\* of no page.
LEMMA GrowEffect ==
  ASSUME IsMem(mem), Tree(mem), Recursive(mem), TablesIn(mem, DOMAIN mem),
         NEW v \in Pages, NEW level \in 1..4, InWindow(v) \/ level # 1,
         At(mem, v, level) # NoFrame, Child(mem, At(mem, v, level), Index(v, level)) = NoFrame,
         NEW g \in DOMAIN mem, ~Spoils(g), ~UsedTable(mem, g),
         NEW e \in Entry, Present(e), e.frame = g,
         NEW n, n = Store(v, level, e)
  PROVE  LET f == At(mem, v, level)
             x == Index(v, level)
         IN  /\ UsedTable(mem, f) /\ f \in DOMAIN mem /\ x \in Indices /\ f # g
             /\ n = [mem EXCEPT ![f][x] = e]
             /\ \A q \in Pages : ~InWindow(q) => EntryOf(n, q) = EntryOf(mem, q)
             /\ \A t : UsedTable(n, t) => UsedTable(mem, t) \/ t = g
             /\ \A t : UsedTable(mem, t) => UsedTable(n, t)
<1> DEFINE f == At(mem, v, level)
           x == Index(v, level)
<1>0. x \in Indices /\ 1 \in 1..4 /\ 1 \in 0..3 /\ \A k \in 1..4 : k \in 0..4
  BY LevelIndex
<1>1. PICK u \in Pages, l \in 1..4 : ~InWindow(u) /\ f = At(mem, u, l) /\ l # 1
  BY WrittenTable
<1>2. UsedTable(mem, f) /\ f \in DOMAIN mem /\ f # g
  BY <1>1 DEF UsedTable, TablesIn
<1>3. n = [mem EXCEPT ![f][x] = e]
  BY <1>2, StoreIs
<1>4. g \in Nat /\ g # NoFrame
  BY DEF IsMem, NoFrame
<1>5. \A p \in Pages, k \in 1..4 : ~InWindow(p) => At(mem, p, k) # g
  BY <1>4 DEF UsedTable
<1>6. /\ \A p \in Pages, k \in 0..4 : At(mem, p, k) # NoFrame => At(n, p, k) = At(mem, p, k)
      /\ \A p \in Pages : \A k \in 0..3 : At(mem, p, k) = NoFrame /\ At(n, p, k) # NoFrame => At(n, p, k) = g
      /\ \A p \in Pages, k \in 1..4 : At(n, p, k) = At(mem, p, k) \/ At(n, p, k) = g
  BY <1>5, TableAdded
<1>7. /\ \A t : \A y \in Indices : t # f \/ y # x => In(n, t, y) = In(mem, t, y)
      /\ IsMem(n)
  <2> HIDE DEF f, x
  <2>1. IsMem(n)
    BY ONLY IsMem(mem), e \in Entry, <1>0, <1>2, <1>3, OneEntry
  <2>2. \A t \in DOMAIN mem : \A y \in Indices : t # f \/ y # x => n[t][y] = mem[t][y]
    BY ONLY IsMem(mem), e \in Entry, <1>0, <1>2, <1>3, OneEntry
  <2>3. DOMAIN n = DOMAIN mem
    BY ONLY IsMem(mem), e \in Entry, <1>0, <1>2, <1>3, OneEntry
  <2> QED BY <2>1, <2>2, <2>3 DEF In
<1> HIDE DEF f, x
<1>8. ASSUME NEW q \in Pages, ~InWindow(q)
      PROVE  EntryOf(n, q) = EntryOf(mem, q)
  <2>1. Index(q, 1) \in Indices
    BY PageIndices
  <2>2. CASE At(mem, q, 1) # NoFrame
    <3>1. At(mem, q, 1) # f
      BY <1>0, <1>1, <1>8, <2>2 DEF Tree, At
    <3>2. At(n, q, 1) = At(mem, q, 1)
      BY <1>0, <1>6, <2>2
    <3> QED BY <1>7, <2>1, <3>1, <3>2, EntryRead
  <2>3. CASE At(mem, q, 1) = NoFrame /\ At(n, q, 1) = NoFrame
    BY <1>7, <2>3, EntryRead
  <2>4. CASE At(mem, q, 1) = NoFrame /\ At(n, q, 1) # NoFrame
    <3>1. At(n, q, 1) = g
      BY <1>0, <1>6, <2>4
    <3>2. EntryOf(n, q) = In(mem, g, Index(q, 1))
      BY <1>2, <1>7, <2>1, <3>1, EntryRead
    <3>3. In(mem, g, Index(q, 1)) = Zero
      BY <2>1, BlankTable DEF In
    <3> QED BY <2>4, <3>2, <3>3, EntryRead
  <2> QED BY <2>2, <2>3, <2>4
<1>9. \A t : UsedTable(n, t) => UsedTable(mem, t) \/ t = g
  BY <1>6 DEF UsedTable
<1>10. \A t : UsedTable(mem, t) => UsedTable(n, t)
  BY <1>0, <1>6 DEF UsedTable
<1> QED BY <1>0, <1>2, <1>3, <1>8, <1>9, <1>10 DEF f, x

\* The entry of a page outside of the windows is written: no other page has it.
LEMMA WriteEffect ==
  ASSUME IsMem(mem), Tree(mem), Recursive(mem), TablesIn(mem, DOMAIN mem),
         NEW v \in Pages, ~InWindow(v), At(mem, v, 1) # NoFrame,
         NEW e \in Entry, NEW n, n = Store(v, 1, e)
  PROVE  LET f == At(mem, v, 1)
             x == Index(v, 1)
         IN  /\ UsedTable(mem, f) /\ f \in DOMAIN mem /\ x \in Indices
             /\ n = [mem EXCEPT ![f][x] = e]
             /\ EntryOf(n, v) = e
             /\ \A q \in Pages : ~InWindow(q) /\ q # v => EntryOf(n, q) = EntryOf(mem, q)
             /\ \A p \in Pages, k \in 1..4 : At(n, p, k) = At(mem, p, k)
             /\ \A t : UsedTable(n, t) <=> UsedTable(mem, t)
<1> DEFINE f == At(mem, v, 1)
           x == Index(v, 1)
<1>0. x \in Indices /\ 1 \in 1..4
  BY PageIndices
<1>1. UsedTable(mem, f) /\ f \in DOMAIN mem
  BY <1>0 DEF UsedTable, TablesIn
<1>2. n = [mem EXCEPT ![f][x] = e]
  BY <1>0, <1>1, StoreIs
<1>3. Differs(mem, n, f, x)
  BY <1>0, <1>1, StoreEntry
<1>4. \A p \in Pages, k \in 1..4 : At(n, p, k) = At(mem, p, k)
  BY <1>3, LeafStays
<1>5. /\ \A t : \A y \in Indices : t # f \/ y # x => In(n, t, y) = In(mem, t, y)
      /\ In(n, f, x) = e
      /\ IsMem(n)
  BY <1>0, <1>1, <1>2, OneEntry
<1>6. EntryOf(n, v) = e
  BY <1>0, <1>4, <1>5, EntryRead
<1> HIDE DEF f, x
<1>7. ASSUME NEW q \in Pages, ~InWindow(q), q # v
      PROVE  EntryOf(n, q) = EntryOf(mem, q)
  <2>1. Index(q, 1) \in Indices /\ At(n, q, 1) = At(mem, q, 1)
    BY <1>0, <1>4, PageIndices
  <2>2. CASE At(mem, q, 1) = f
    <3>1. \A j \in 2..4 : Index(q, j) = Index(v, j)
      BY <1>0, <1>7, <2>2 DEF Tree, At, f
    <3>2. Index(q, 1) # x
      <4>1. Index(q, 2) = Index(v, 2) /\ Index(q, 3) = Index(v, 3) /\ Index(q, 4) = Index(v, 4)
        BY <3>1
      <4> QED BY <1>7, <4>1, PageIndices DEF x
    <3> QED BY <1>5, <2>1, <3>2, EntryRead
  <2>3. CASE At(mem, q, 1) # f
    BY <1>5, <2>1, <2>3, EntryRead
  <2> QED BY <2>2, <2>3
<1>8. \A t : UsedTable(n, t) <=> UsedTable(mem, t)
  BY <1>4 DEF UsedTable
<1> QED BY <1>0, <1>1, <1>2, <1>4, <1>6, <1>7, <1>8 DEF f, x

(***************************************************************************)
(* The three kinds of steps: the memory stays, a table is made, the entry  *)
(* of a page is written.                                                   *)
(***************************************************************************)

\* Entry x of table f becomes e.
Puts(f, x, e) ==
  /\ UsedTable(mem, f) /\ f \in DOMAIN mem /\ x \in Indices /\ e \in Entry
  /\ mem' = [mem EXCEPT ![f][x] = e]
  /\ \A t : UsedTable(mem, t) => UsedTable(mem', t)

\* A table is made of frame g, which was free or in the hands of the handler.
Grows(g) ==
  \E f, x, e :
    /\ Puts(f, x, e) /\ f # g /\ e.frame = g
    /\ g \in DOMAIN mem \ DOMAIN BootTables /\ ~UsedTable(mem, g)
    /\ \A y \in Indices : mem[g][y] = Zero
    /\ g \in free \union {new_page} /\ g \notin free' \union {new_page'}
    /\ \A q \in Pages : ~InWindow(q) => EntryOf(mem', q) = EntryOf(mem, q)
    /\ \A t : UsedTable(mem', t) => UsedTable(mem, t) \/ t = g

\* The entry of page v becomes e.
Writes(v, e) ==
  /\ v \in Pages /\ ~InWindow(v)
  /\ Puts(At(mem, v, 1), Index(v, 1), e)
  /\ EntryOf(mem', v) = e
  /\ \A q \in Pages : ~InWindow(q) /\ q # v => EntryOf(mem', q) = EntryOf(mem, q)
  /\ \A q \in Pages : TableOf(mem', q) = TableOf(mem, q)
  /\ \A t : UsedTable(mem', t) <=> UsedTable(mem, t)

LEMMA OwnFrames == Types => Own = DOMAIN mem \ DOMAIN BootTables
BY DEF Own, Types

\* No frame that the allocator or the handler holds is in use.
LEMMA NotUsed ==
  ASSUME Types, Clean, NEW g \in free \union {new_page}, g \notin DOMAIN BootTables
  PROVE  ~UsedTable(mem, g)
BY DEF Clean, Apart, UsedTable

\* The write of an entry of a page that has its tables.
LEMMA WritesEntry ==
  ASSUME Types, Clean, NEW v \in Pages, ~InWindow(v), At(mem, v, 1) # NoFrame,
         NEW e \in Entry, mem' = Store(v, 1, e)
  PROVE  Writes(v, e)
<1>1. IsMem(mem) /\ Tree(mem) /\ Recursive(mem) /\ TablesIn(mem, DOMAIN mem) /\ 1 \in 1..4
  BY DEF Types, Clean
<1>2. LET f == At(mem, v, 1)
          x == Index(v, 1)
      IN  /\ UsedTable(mem, f) /\ f \in DOMAIN mem /\ x \in Indices
          /\ mem' = [mem EXCEPT ![f][x] = e]
          /\ EntryOf(mem', v) = e
          /\ \A q \in Pages : ~InWindow(q) /\ q # v => EntryOf(mem', q) = EntryOf(mem, q)
          /\ \A p \in Pages, k \in 1..4 : At(mem', p, k) = At(mem, p, k)
          /\ \A t : UsedTable(mem', t) <=> UsedTable(mem, t)
  BY <1>1, WriteEffect
<1>3. \A q \in Pages : TableOf(mem', q) = TableOf(mem, q)
  <2>1. \A q : At(mem', q, 1) = TableOf(mem', q) /\ At(mem, q, 1) = TableOf(mem, q)
    BY Down
  <2> QED BY <1>1, <1>2, <2>1
<1> QED BY <1>2, <1>3 DEF Writes, Puts

\* mem_create_pagetable()
LEMMA CreateKind ==
  ASSUME Types, Clean,
         NEW here \in Creating, NEW level \in 1..4, level # 1, NEW next,
         Create(here, level, next), ~spoilt', At(mem, Target, level) # NoFrame
  PROVE  \/ mem' = mem /\ free' = free
         \/ Grows(NextFrame) /\ NextFrame \in free /\ free' = free \ {NextFrame}
<1> DEFINE f == At(mem, Target, level)
           x == Index(Target, level)
           g == NextFrame
<1>1. pc = here /\ new_page' = new_page
  BY DEF Create, handler_vars
<1>2. Target \in Pages
  BY <1>1, AccessedPage DEF Creating, Following, Instruction
<1>3. IsMem(mem) /\ Tree(mem) /\ Recursive(mem) /\ TablesIn(mem, DOMAIN mem)
  BY DEF Types, Clean
<1>4. Missing(level) <=> Child(mem, f, x) = NoFrame
  BY <1>2, <1>3, Loads, PresentLeads, LevelIndex DEF Missing
<1>5. CASE UNCHANGED table_vars
  BY <1>5 DEF table_vars
<1>6. CASE /\ Missing(level) /\ free # {} /\ TakeFrame(NextFrame)
           /\ mem' = Store(Target, level, NewTable(NextFrame))
           /\ spoilt' = (spoilt \/ Spoils(NextFrame))
  <2>1. g \in free /\ g \in DOMAIN mem /\ g \in Nat /\ free' = free \ {g}
    BY <1>6, NextFrameFree DEF TakeFrame
  <2>2. ~Spoils(g)
    BY <1>6
  <2>3. g \notin DOMAIN BootTables
    BY <2>2 DEF Spoils
  <2>4. ~UsedTable(mem, g)
    BY <2>1, <2>3, NotUsed
  <2>5. \A y \in Indices : mem[g][y] = Zero
    BY <2>2, BlankTable
  <2>6. NewTable(g) \in Entry /\ Present(NewTable(g)) /\ NewTable(g).frame = g
    BY <2>1, NewEntries
  <2>7. mem' = Store(Target, level, NewTable(g))
    BY <1>6
  <2> HIDE DEF g
  <2>8. /\ UsedTable(mem, f) /\ f \in DOMAIN mem /\ x \in Indices /\ f # g
        /\ mem' = [mem EXCEPT ![f][x] = NewTable(g)]
        /\ \A q \in Pages : ~InWindow(q) => EntryOf(mem', q) = EntryOf(mem, q)
        /\ \A t : UsedTable(mem', t) => UsedTable(mem, t) \/ t = g
        /\ \A t : UsedTable(mem, t) => UsedTable(mem', t)
    BY <1>2, <1>3, <1>4, <1>6, <2>1, <2>2, <2>4, <2>5, <2>6, <2>7, GrowEffect
  <2>9. new_page # g
    BY <2>1 DEF Clean, Apart
  <2> HIDE DEF f, x
  <2>10. Grows(g)
    BY <1>1, <2>1, <2>3, <2>4, <2>5, <2>6, <2>8, <2>9 DEF Grows, Puts
  <2> QED BY <2>1, <2>10 DEF g
<1> QED BY <1>5, <1>6 DEF Create

\* The handler's entry.
LEMMA HandleKind ==
  ASSUME Types, Clean, HandleEntry, ~spoilt'
  PROVE  /\ cr2 \in Pages /\ Walk(mem, cr2) = NoFrame /\ resume = "access" /\ pfaulting
         /\ new_page \in DOMAIN mem \ DOMAIN BootTables /\ new_page \notin free /\ new_page' = NoFrame
         /\ InWindow(cr2) => Grows(new_page)
         /\ ~InWindow(cr2) => Writes(cr2, [frame |-> new_page, flags |-> {"present"}])
<1> DEFINE e == [frame |-> new_page, flags |-> {"present"}]
           g == new_page
           f == At(mem, cr2, 1)
           x == Index(cr2, 1)
<1>0. 1 \in 1..4
  OBVIOUS
<1>1. /\ pc = "fault_entry" /\ new_page' = NoFrame /\ free' = free
      /\ mem' = Store(cr2, 1, e)
      /\ spoilt' = (spoilt \/ new_page \in DOMAIN BootTables \/ (InWindow(cr2) /\ Spoils(new_page)))
  BY DEF HandleEntry
<1>2. pfaulting /\ g \in DOMAIN mem /\ cr2 \in Pages
  BY <1>1 DEF Types, HandlerType, Handling
<1>3. g \in Nat
  BY <1>2 DEF Types, IsMem
<1>4. e \in Entry /\ Present(e) /\ e.frame = g
  BY <1>3, NewEntries
<1>5. IsMem(mem) /\ Tree(mem) /\ Recursive(mem) /\ TablesIn(mem, DOMAIN mem)
  BY DEF Types, Clean
<1>6. f # NoFrame /\ Child(mem, f, x) = NoFrame /\ Walk(mem, cr2) = NoFrame
  <2>1. f # NoFrame /\ Walk(mem, cr2) = NoFrame
    BY <1>1, <1>2 DEF Clean, Progress, Pending, Handling, Target
  <2> QED BY <2>1, Down
<1>7. resume = "access"
  BY <1>1, <1>2 DEF Clean, Progress, Handling
<1>8. g \notin DOMAIN BootTables /\ g \notin free /\ g # NoFrame /\ NoFrame \notin free
  <2>1. g \notin DOMAIN BootTables
    BY <1>1
  <2>2. g \notin free /\ g # NoFrame /\ NoFrame \notin free
    BY <1>3 DEF Clean, Apart, NoFrame, Types, IsMem
  <2> QED BY <2>1, <2>2
<1>9. ~UsedTable(mem, g)
  BY <1>8, NotUsed
<1>10. ASSUME InWindow(cr2) PROVE Grows(g)
  <2>1. ~Spoils(g)
    BY <1>1, <1>10
  <2>2. \A y \in Indices : mem[g][y] = Zero
    BY <2>1, BlankTable
  <2> HIDE DEF e, g
  <2>3. /\ UsedTable(mem, f) /\ f \in DOMAIN mem /\ x \in Indices /\ f # g
        /\ mem' = [mem EXCEPT ![f][x] = e]
        /\ \A q \in Pages : ~InWindow(q) => EntryOf(mem', q) = EntryOf(mem, q)
        /\ \A t : UsedTable(mem', t) => UsedTable(mem, t) \/ t = g
        /\ \A t : UsedTable(mem, t) => UsedTable(mem', t)
    BY <1>0, <1>1, <1>2, <1>4, <1>5, <1>6, <1>9, <1>10, <2>1, <2>2, GrowEffect
  <2> HIDE DEF f, x
  <2>4. g \in free \union {new_page} /\ g \notin free' \union {new_page'}
    BY <1>1, <1>8 DEF g
  <2> QED BY <1>2, <1>4, <1>8, <1>9, <2>2, <2>3, <2>4 DEF Grows, Puts
<1>11. ASSUME ~InWindow(cr2) PROVE Writes(cr2, e)
  <2> HIDE DEF e
  <2> QED BY <1>1, <1>2, <1>4, <1>6, <1>11, WritesEntry
<1> QED BY <1>1, <1>2, <1>6, <1>7, <1>8, <1>10, <1>11

\* The entries that a call writes.
LEMMA WriteKind ==
  ASSUME Types, Runs, Remaining, Clean
  PROVE  /\ MapEntry => /\ call.op = "map" /\ i < call.n
                        /\ Writes(call.page, [frame |-> call.frame, flags |-> call.flags])
         /\ UnmapEntry => call.op = "unmap" /\ i < call.n /\ Writes(call.page, Zero)
         /\ Set => /\ call.op \in {"set_entry", "set_frame", "set_flags"}
                   /\ Writes(call.page, SetTo)
<1> DEFINE v == call.page
<1>0. 1 \in 1..4
  OBVIOUS
<1>1. MapEntry \/ UnmapEntry \/ Set => pc \in {"map_entry", "unmap", "access"}
  BY DEF MapEntry, UnmapEntry, Set
<1>2. MapEntry \/ UnmapEntry \/ Set => ~pfaulting
  BY <1>1 DEF Types, HandlerType, Handling, Creating, Stops
<1>3. v \in Pages /\ (~pfaulting => Target = v)
  BY DEF Target, Types, CallType
<1>4. IsMem(mem) /\ Recursive(mem)
  BY DEF Types, Clean
<1>5. MapEntry \/ UnmapEntry \/ Set => Fits(pc)
  BY <1>1, <1>2 DEF Runs, Stops
<1>6. ASSUME call.op \in {"map", "unmap"}, i < call.n
      PROVE  ~InWindow(v)
  <2>1. i \in Nat /\ call.n \in Nat /\ v \in Int
    BY <1>3 DEF Types, CallType, Pages
  <2>2. v \in v..(v + (call.n - i) - 1)
    BY <1>6, <2>1
  <2> QED BY <1>6, <2>2 DEF Remaining
<1>7. ASSUME MapEntry
      PROVE  call.op = "map" /\ i < call.n /\ Writes(v, [frame |-> call.frame, flags |-> call.flags])
  <2>1. pc = "map_entry" /\ mem' = Store(v, 1, [frame |-> call.frame, flags |-> call.flags])
    BY <1>7 DEF MapEntry
  <2>2. call.op = "map" /\ i < call.n
    BY <1>5, <1>7, <2>1 DEF Fits
  <2>3. At(mem, v, 1) # NoFrame
    BY <1>2, <1>3, <1>7, <2>1 DEF Clean, Progress
  <2> QED BY <1>3, <1>6, <2>1, <2>2, <2>3, NewEntries, WritesEntry
<1>8. ASSUME UnmapEntry
      PROVE  call.op = "unmap" /\ i < call.n /\ Writes(v, Zero)
  <2>1. pc = "unmap" /\ i < call.n /\ mem' = Store(v, 1, Zero) /\ mem_check_pagetable(v)
    BY <1>8 DEF UnmapEntry
  <2>2. call.op = "unmap"
    BY <1>5, <1>8, <2>1 DEF Fits
  <2>3. At(mem, v, 1) # NoFrame
    BY <1>3, <1>4, <2>1, Checks
  <2> QED BY <1>3, <1>6, <2>1, <2>2, <2>3, NewEntries, WritesEntry
<1>9. ASSUME Set
      PROVE  call.op \in {"set_entry", "set_frame", "set_flags"} /\ Writes(v, SetTo)
  <2>1. pc = "access" /\ call.op # "touch" /\ Reaches /\ mem' = Store(v, 1, SetTo)
    BY <1>9 DEF Set
  <2>2. call.op \in {"set_entry", "set_frame", "set_flags"}
    BY <1>5, <1>9, <2>1 DEF Fits, Ops
  <2>3. Walk(mem, Window(v, 1)) # NoFrame
    BY <2>1 DEF Reaches, Accessed, Window
  <2>4. At(mem, v, 1) # NoFrame
    BY <1>0, <1>3, <1>4, <2>3, WindowReaches
  <2>5. SetTo \in Entry
    BY <2>2, SetEntries
  <2>6. ~InWindow(v)
    BY <2>2 DEF Remaining
  <2> QED BY <1>3, <2>1, <2>2, <2>4, <2>5, <2>6, WritesEntry
<1> QED BY <1>7, <1>8, <1>9

\* The instructions of mem_create_pagetable() make a table or nothing.
LEMMA CreateSteps ==
  ASSUME Types, Clean, CreatePdpt \/ CreatePd \/ CreatePt, ~spoilt'
  PROVE  /\ \/ mem' = mem /\ free' = free
            \/ Grows(NextFrame) /\ NextFrame \in free /\ free' = free \ {NextFrame}
         /\ UNCHANGED <<tlb, byhand, pfaulting, cr2, new_page, resume, call, i, asked>>
         /\ pc \in Creating /\ pc' \in Following
<1>1. IsMem(mem)
  BY DEF Types
<1>2. CASE CreatePdpt
  <2>1. Create("pml4e", 4, "pdpte") /\ pc = "pml4e" /\ pc' = "pdpte"
    BY <1>2 DEF CreatePdpt, Create
  <2>2. Target \in Pages
    BY <2>1, AccessedPage DEF Instruction
  <2>3. At(mem, Target, 4) # NoFrame
    BY <1>1, <2>2, WalkEnds
  <2>4. "pml4e" \in Creating /\ 4 \in 1..4 /\ 4 # 1
    BY DEF Creating
  <2>5. UNCHANGED <<tlb, byhand, pfaulting, cr2, new_page, resume, call, i, asked>>
    BY <2>1 DEF Create, handler_vars, call_vars
  <2> QED BY <2>1, <2>3, <2>4, <2>5, CreateKind DEF Creating, Following
<1>3. CASE CreatePd
  <2>1. Create("pdpte", 3, "pde") /\ pc = "pdpte" /\ pc' = "pde"
    BY <1>3 DEF CreatePd, Create
  <2>2. At(mem, Target, 3) # NoFrame
    BY <2>1 DEF Clean, Progress
  <2>3. "pdpte" \in Creating /\ 3 \in 1..4 /\ 3 # 1
    BY DEF Creating
  <2>4. UNCHANGED <<tlb, byhand, pfaulting, cr2, new_page, resume, call, i, asked>>
    BY <2>1 DEF Create, handler_vars, call_vars
  <2> QED BY <2>1, <2>2, <2>3, <2>4, CreateKind DEF Creating, Following
<1>4. CASE CreatePt
  <2> DEFINE next == IF pfaulting THEN "fault_entry" ELSE "map_entry"
  <2>1. Create("pde", 2, next) /\ pc = "pde" /\ pc' = next
    BY <1>4 DEF CreatePt, Create
  <2>2. At(mem, Target, 2) # NoFrame
    BY <2>1 DEF Clean, Progress
  <2>3. "pde" \in Creating /\ next \in Following /\ 2 \in 1..4 /\ 2 # 1
    BY DEF Creating, Following
  <2> HIDE DEF next
  <2>4. UNCHANGED <<tlb, byhand, pfaulting, cr2, new_page, resume, call, i, asked>>
    BY <2>1 DEF Create, handler_vars, call_vars
  <2> QED BY <2>1, <2>2, <2>3, <2>4, CreateKind DEF Creating
<1> QED BY <1>2, <1>3, <1>4

\* The other steps write no table.
Reading ==
  \/ Fault \/ CreateFault \/ BootCopyFault
  \/ HandleHalt \/ HandleAllocate \/ HandleFault
  \/ Touch \/ MapCheck \/ UnmapSkip \/ UnmapDone \/ Return
  \/ \E n \in Vectors : Interrupt(n)
  \/ (at = "up" /\ UNCHANGED boot_vars /\ \E c \in Calls : Call(c))
  \/ BootIdt \/ BootMalloc \/ BootCount \/ BootMap \/ BootCopy \/ BootVirtual
  \/ BootPhysical \/ BootWrite \/ BootRead
  \/ UNCHANGED <<vars, boot_vars>>

LEMMA ReadingKeeps == Reading => mem' = mem
<1>1. \A page : Trap(page) => mem' = mem
  BY DEF Trap
<1>2. Fault \/ CreateFault \/ BootCopyFault => mem' = mem
  BY <1>1 DEF Fault, CreateFault, BootCopyFault
<1>3. HandleHalt \/ HandleAllocate \/ HandleFault \/ Touch \/ MapCheck \/ UnmapSkip \/ UnmapDone \/ Return => mem' = mem
  BY DEF HandleHalt, HandleAllocate, HandleFault, Touch, MapCheck, UnmapSkip, UnmapDone, Return, table_vars
<1>4. \A n : Interrupt(n) => mem' = mem
  BY DEF Interrupt, table_vars
<1>5. \A c : Call(c) => mem' = mem
  BY DEF Call, table_vars
<1>6. BootWrite \/ BootRead => mem' = mem
  BY <1>5 DEF BootWrite, BootRead, BootTest
<1>7. BootIdt \/ BootMalloc \/ BootCount \/ BootMap \/ BootCopy \/ BootVirtual \/ BootPhysical
        \/ UNCHANGED <<vars, boot_vars>> => mem' = mem
  BY DEF BootIdt, BootMalloc, BootCount, BootMap, BootCopy, BootVirtual, BootPhysical, paging_vars, vars
<1> QED BY <1>2, <1>3, <1>4, <1>5, <1>6, <1>7 DEF Reading

\* Every step is of one of them.
LEMMA Kinds ==
  ASSUME [BootNext]_<<vars, boot_vars>>
  PROVE  \/ CreatePdpt \/ CreatePd \/ CreatePt
         \/ HandleEntry \/ MapEntry \/ UnmapEntry \/ Set
         \/ Reading
<1>1. BootNext \/ UNCHANGED <<vars, boot_vars>>
  OBVIOUS
<1> QED BY <1>1, Actions DEF Reading

\* Before the frame allocator starts nothing is written.
LEMMA EarlyReads ==
  ASSUME Types, Early, [BootNext]_<<vars, boot_vars>>, at' \in Booting
  PROVE  at \in Booting /\ Reading
<1>1. at \in Booting
  <2>1. CASE UNCHANGED boot_vars
    BY <2>1 DEF boot_vars
  <2>2. CASE BootStep
    BY <2>2 DEF BootStep, BootIdt, BootMalloc, BootCount, BootMap, BootCopy, BootCopyFault, BootPhysical,
       BootVirtual, BootWrite, BootRead, BootTest, Boot, Booting
  <2> QED BY <2>1, <2>2, SameMachine DEF Types
<1>2. pc \in {"idle", "handle"} \union Stops
  BY <1>1 DEF Early, Booting
<1>3. ~(CreatePdpt \/ CreatePd \/ CreatePt \/ HandleEntry \/ MapEntry \/ UnmapEntry \/ Set)
  BY <1>2 DEF CreatePdpt, CreatePd, CreatePt, Create, HandleEntry, MapEntry, UnmapEntry, Set, Stops
<1> QED BY <1>1, <1>3, Kinds

\* What a step that writes does, whatever it is.
LEMMA Puttings ==
  ASSUME Types, Runs, Remaining, Clean, [BootNext]_<<vars, boot_vars>>, ~spoilt'
  PROVE  \/ mem' = mem
         \/ \E f, x, e : Puts(f, x, e)
<1>1. CASE CreatePdpt \/ CreatePd \/ CreatePt
  BY <1>1, CreateSteps DEF Grows
<1>2. CASE HandleEntry
  BY <1>2, HandleKind DEF Grows, Writes
<1>3. CASE MapEntry \/ UnmapEntry \/ Set
  BY <1>3, WriteKind DEF Writes
<1>4. CASE Reading
  BY <1>4, ReadingKeeps
<1> QED BY <1>1, <1>2, <1>3, <1>4, Kinds

LEMMA UntouchedStep ==
  ASSUME Types, Early, Untouched, [BootNext]_<<vars, boot_vars>>
  PROVE  Untouched'
<1>1. machine' = machine
  BY SameMachine
<1>2. at' \in Booting => mem' = mem /\ at \in Booting
  BY EarlyReads, ReadingKeeps
<1> QED BY <1>1, <1>2 DEF Untouched, Initial

LEMMA UntouchedInit == BootInit => Untouched
BY DEF BootInit, InitWith, Untouched, Initial

(***************************************************************************)
(* The call that runs is the one that was asked for.                       *)
(***************************************************************************)

\* An instruction of a call, and not of the handler, is about the call's page.
LEMMA CallRuns ==
  ASSUME Types, Runs, pc \in {"map", "map_entry", "unmap", "access"}
  PROVE  ~pfaulting /\ Fits(pc) /\ Target = call.page
<1>1. ~pfaulting
  BY DEF Types, HandlerType, Handling, Creating, Stops
<1> QED BY <1>1 DEF Runs, Stops, Target

\* Most steps leave the call alone.
LEMMA CallKept ==
  ASSUME [BootNext]_<<vars, boot_vars>>
  PROVE  \/ UNCHANGED <<call, i, asked>>
         \/ MapEntry \/ UnmapEntry \/ UnmapSkip \/ Return
         \/ \E c \in Calls \union {TestTouch} : Call(c)
<1> USE DEF call_vars
<1>1. \A page : Trap(page) => UNCHANGED <<call, i, asked>>
  BY DEF Trap
<1>2. Fault \/ CreateFault \/ BootCopyFault => UNCHANGED <<call, i, asked>>
  BY <1>1 DEF Fault, CreateFault, BootCopyFault
<1>3. CreatePdpt \/ CreatePd \/ CreatePt => UNCHANGED <<call, i, asked>>
  BY DEF CreatePdpt, CreatePd, CreatePt, Create
<1>4. HandleHalt \/ HandleAllocate \/ HandleFault \/ HandleEntry \/ Touch \/ MapCheck \/ UnmapDone \/ Set
        => UNCHANGED <<call, i, asked>>
  BY DEF HandleHalt, HandleAllocate, HandleFault, HandleEntry, Touch, MapCheck, UnmapDone, Set
<1>5. \A n : Interrupt(n) => UNCHANGED <<call, i, asked>>
  BY DEF Interrupt
<1>6. BootWrite \/ BootRead => Call(TestTouch)
  BY DEF BootWrite, BootRead, BootTest
<1>7. BootIdt \/ BootMalloc \/ BootCount \/ BootMap \/ BootCopy \/ BootVirtual \/ BootPhysical
        \/ UNCHANGED <<vars, boot_vars>> => UNCHANGED <<call, i, asked>>
  BY DEF BootIdt, BootMalloc, BootCount, BootMap, BootCopy, BootVirtual, BootPhysical, paging_vars, vars
<1> HIDE DEF call_vars
<1>8. BootNext \/ UNCHANGED <<vars, boot_vars>>
  OBVIOUS
<1> QED BY <1>2, <1>3, <1>4, <1>5, <1>6, <1>7, <1>8, Actions

\* What comes to the end of a call.
LEMMA Returns ==
  ASSUME Types, [BootNext]_<<vars, boot_vars>>, pc' = "return"
  PROVE  \/ Touch \/ (MapCheck /\ i = call.n) \/ UnmapDone \/ Set
         \/ UNCHANGED <<vars, boot_vars>>
<1>1. \A page : ~Trap(page)
  BY DEF Trap
<1>2. ~(Fault \/ CreateFault \/ BootCopyFault)
  BY <1>1 DEF Fault, CreateFault, BootCopyFault
<1>3. ~(CreatePdpt \/ CreatePd \/ CreatePt)
  BY DEF CreatePdpt, CreatePd, CreatePt, Create
<1>4. ~(HandleHalt \/ HandleAllocate \/ HandleFault \/ MapEntry \/ UnmapEntry \/ UnmapSkip \/ Return)
  BY DEF HandleHalt, HandleAllocate, HandleFault, MapEntry, UnmapEntry, UnmapSkip, Return
<1>5. ~HandleEntry
  BY DEF HandleEntry, Types, HandlerType, Instruction
<1>6. \A n : ~Interrupt(n)
  BY DEF Interrupt
<1>7. \A c : ~Call(c)
  BY DEF Call
<1>8. ~(BootWrite \/ BootRead)
  BY <1>7 DEF BootWrite, BootRead, BootTest
<1>9. ~(BootIdt \/ BootMalloc \/ BootCount \/ BootMap \/ BootCopy \/ BootVirtual \/ BootPhysical)
  BY DEF BootIdt, BootMalloc, BootCount, BootMap, BootCopy, BootVirtual, BootPhysical, paging_vars, vars, Boot
<1>10. MapCheck => i = call.n
  BY DEF MapCheck
<1>11. BootNext \/ UNCHANGED <<vars, boot_vars>>
  OBVIOUS
<1> QED BY <1>2, <1>3, <1>4, <1>5, <1>6, <1>7, <1>8, <1>9, <1>10, <1>11, Actions

\* The pages of a range are pages, outside of the windows.
LEMMA RangePages ==
  ASSUME NEW c \in Calls \union {TestTouch}, c.op \in {"map", "unmap"}
  PROVE  /\ c \in Calls /\ c.page \in Nat /\ c.n \in Nat /\ c.frame \in Nat
         /\ \A k \in Nat : k < c.n => c.page + k \in Pages /\ ~InWindow(c.page + k)
         /\ \A k \in Nat : k < c.n => (c.page + k) % NPages = c.page + k
<1>1. c \in Calls
  BY DEF TestTouch
<1>2. c.page \in Nat /\ c.n \in Nat /\ c.frame \in Nat
  BY <1>1, PagingAssumption DEF Pages
<1>3. \A v \in c.page..(c.page + c.n - 1) : v \in Pages /\ ~InWindow(v)
  BY <1>1, CallsAssumption
<1>4. ASSUME NEW k \in Nat, k < c.n PROVE c.page + k \in Pages /\ ~InWindow(c.page + k)
  <2>1. c.page + k \in c.page..(c.page + c.n - 1)
    BY <1>2, <1>4
  <2> QED BY <1>3, <2>1
<1>5. NPages \in Nat \ {0}
  BY Spans, SlotsType DEF NPages
<1>6. \A v \in Pages : v % NPages = v
  BY <1>5 DEF Pages
<1> QED BY <1>1, <1>2, <1>4, <1>6

LEMMA AskedInit == BootInit => Asked
BY DEF BootInit, InitWith, Asked, NoCall

LEMMA AskedStep ==
  ASSUME Types, Runs, Asked, [BootNext]_<<vars, boot_vars>>
  PROVE  Asked'
<1>0. /\ call.n \in Nat /\ i \in 0..call.n /\ call.page \in Nat /\ call.frame \in Nat
      /\ call \in [op : Ops \union {"none"}, page : Pages, frame : Nat, n : Nat, flags : SUBSET Flags]
  BY DEF Types, CallType, Pages
<1>1. pc' = "return" => call.op # "none" /\ UNCHANGED <<call, i, asked>>
  <2> SUFFICES ASSUME pc' = "return" PROVE call.op # "none" /\ UNCHANGED <<call, i, asked>>
    OBVIOUS
  <2>1. CASE Touch \/ MapCheck \/ UnmapDone \/ Set
    <3>1. pc \in {"map", "unmap", "access"} /\ UNCHANGED <<call, i, asked>>
      BY <2>1 DEF Touch, MapCheck, UnmapDone, Set, call_vars
    <3>2. Fits(pc)
      BY <3>1, CallRuns
    <3> QED BY <3>1, <3>2 DEF Fits, Creating, Ops
  <2>2. CASE UNCHANGED <<vars, boot_vars>>
    BY <2>2 DEF Asked, vars
  <2> QED BY <2>1, <2>2, Returns
<1>2. CASE UNCHANGED <<call, i, asked>>
  BY <1>1, <1>2 DEF Asked
<1>3. CASE MapEntry
  <2> DEFINE c == asked.call
  <2>1. pc = "map_entry" /\ Advance /\ asked' = asked /\ pc' = "map"
    BY <1>3 DEF MapEntry
  <2>2. call.op = "map" /\ i < call.n
    BY <2>1, CallRuns DEF Fits
  <2>3. /\ c \in Calls \union {TestTouch} /\ call.op = c.op /\ call.n = c.n /\ call.flags = c.flags
        /\ call.frame = c.frame + i /\ call.page = c.page + i
    BY <2>2 DEF Asked
  <2>4. /\ call'.op = call.op /\ call'.n = call.n /\ call'.flags = call.flags
        /\ call'.frame = call.frame + 1 /\ call'.page = (call.page + 1) % NPages /\ i' = i + 1
    BY <1>0, <2>1 DEF Advance
  <2> HIDE DEF c
  <2>5. c.page \in Nat /\ c.frame \in Nat /\ \A k \in Nat : k < c.n => (c.page + k) % NPages = c.page + k
    BY <2>2, <2>3, RangePages
  <2>6. i' < c.n => call'.page = c.page + i'
    <3>1. i' \in Nat /\ call.page + 1 = c.page + i'
      BY <1>0, <2>3, <2>4, <2>5
    <3> QED BY <2>4, <2>5, <3>1
  <2>7. call'.frame = c.frame + i'
    BY <1>0, <2>3, <2>4, <2>5
  <2> QED BY <2>1, <2>2, <2>3, <2>4, <2>6, <2>7 DEF Asked, c
<1>4. CASE UnmapEntry \/ UnmapSkip
  <2> DEFINE c == asked.call
  <2>1. pc = "unmap" /\ i < call.n /\ asked' = asked /\ pc' = "unmap" /\ i' = i + 1
        /\ (Advance \/ call' = call)
    BY <1>4 DEF UnmapEntry, UnmapSkip, Advance
  <2>2. call.op = "unmap"
    BY <2>1, CallRuns DEF Fits
  <2>3. /\ c \in Calls \union {TestTouch} /\ call.op = c.op /\ call.n = c.n /\ call.flags = c.flags
        /\ call.page \in c.page..(c.page + i)
    BY <2>1, <2>2 DEF Asked
  <2>4. /\ call'.op = call.op /\ call'.n = call.n /\ call'.flags = call.flags
        /\ call'.page = (call.page + 1) % NPages \/ call'.page = call.page
    BY <1>0, <2>1 DEF Advance
  <2> HIDE DEF c
  <2>5. c.page \in Nat /\ c.n \in Nat /\ \A k \in Nat : k < c.n => (c.page + k) % NPages = c.page + k
    BY <2>2, <2>3, RangePages
  <2>6. ASSUME i' < c.n PROVE call'.page \in c.page..(c.page + i')
    <3>1. PICK k \in Nat : call.page = c.page + k /\ k <= i
      <4>1. call.page - c.page \in Nat /\ call.page = c.page + (call.page - c.page) /\ call.page - c.page <= i
        BY <1>0, <2>3, <2>5
      <4> QED BY <4>1
    <3>2. k + 1 \in Nat /\ k + 1 < c.n /\ call.page + 1 = c.page + (k + 1)
      BY <1>0, <2>1, <2>5, <2>6, <3>1
    <3>3. (call.page + 1) % NPages = c.page + (k + 1)
      BY <2>5, <3>2
    <3> QED BY <1>0, <2>1, <2>4, <2>5, <3>1, <3>3
  <2> QED BY <2>1, <2>2, <2>3, <2>4, <2>6 DEF Asked, c
<1>5. CASE Return
  BY <1>5 DEF Return, Asked, NoCall
<1>6. ASSUME NEW c \in Calls \union {TestTouch}, Call(c) PROVE Asked'
  <2>1. call' = c /\ i' = 0 /\ asked'.call = c /\ pc' \in {"map", "unmap", "access"}
    BY <1>6 DEF Call
  <2>2. c.page \in Nat /\ c.frame \in Nat
    BY PagingAssumption, KernelAssumption DEF TestTouch, Pages
  <2>3. c.frame = c.frame + 0 /\ c.page = c.page + 0 /\ c.page \in c.page..(c.page + 0)
    BY <2>2
  <2> QED BY <2>1, <2>3 DEF Asked
<1> QED BY <1>2, <1>3, <1>4, <1>5, <1>6, CallKept

(***************************************************************************)
(* A frame is in one place.                                                *)
(***************************************************************************)

\* The entries that are there after a new one was put into a table.
LEMMA PutEntries ==
  ASSUME Types, NEW f, NEW x, NEW e, Puts(f, x, e)
  PROVE  /\ DOMAIN mem' = DOMAIN mem /\ mem'[f][x] = e
         /\ \A t \in DOMAIN mem : \A y \in Indices : t # f \/ y # x => mem'[t][y] = mem[t][y]
<1>1. IsMem(mem) /\ f \in DOMAIN mem /\ x \in Indices /\ e \in Entry /\ mem' = [mem EXCEPT ![f][x] = e]
  BY DEF Types, Puts
<1>2. DOMAIN mem' = DOMAIN mem
  BY ONLY <1>1, OneEntry
<1>3. mem'[f][x] = e
  <2>1. mem[f] \in Table /\ mem'[f] = [mem[f] EXCEPT ![x] = e]
    BY <1>1 DEF IsMem
  <2> QED BY <1>1, <2>1 DEF Table, Indices
<1>4. \A t \in DOMAIN mem : \A y \in Indices : t # f \/ y # x => mem'[t][y] = mem[t][y]
  BY ONLY <1>1, OneEntry
<1> QED BY ONLY <1>2, <1>3, <1>4

\* Only physical_memory::initialize() adds frames to those that are free.
LEMMA FramesShrink ==
  ASSUME Types, [BootNext]_<<vars, boot_vars>>
  PROVE  BootPhysical \/ (free' \subseteq free /\ new_page' \in free \union {new_page, NoFrame})
<1> DEFINE Shrinks == free' \subseteq free /\ new_page' \in free \union {new_page, NoFrame}
<1> USE DEF table_vars, handler_vars
<1>1. \A page : Trap(page) => Shrinks
  BY DEF Trap
<1>2. Fault \/ CreateFault \/ BootCopyFault => Shrinks
  BY <1>1 DEF Fault, CreateFault, BootCopyFault
<1>3. CreatePdpt \/ CreatePd \/ CreatePt => Shrinks
  BY DEF CreatePdpt, CreatePd, CreatePt, Create, TakeFrame
<1>4. HandleAllocate => Shrinks
  BY NextFrameFree DEF HandleAllocate, TakeFrame
<1>5. HandleHalt \/ HandleFault \/ HandleEntry \/ Touch \/ MapCheck \/ MapEntry \/ UnmapEntry \/ UnmapSkip
        \/ UnmapDone \/ Set \/ Return => Shrinks
  BY DEF HandleHalt, HandleFault, HandleEntry, Touch, MapCheck, MapEntry, UnmapEntry, UnmapSkip,
         UnmapDone, Set, Return
<1>6. \A n : Interrupt(n) => Shrinks
  BY DEF Interrupt
<1>7. \A c : Call(c) => Shrinks
  BY DEF Call
<1>8. BootWrite \/ BootRead => Shrinks
  BY <1>7 DEF BootWrite, BootRead, BootTest
<1>9. BootIdt \/ BootMalloc \/ BootCount \/ BootMap \/ BootCopy \/ BootVirtual
        \/ UNCHANGED <<vars, boot_vars>> => Shrinks
  BY DEF BootIdt, BootMalloc, BootCount, BootMap, BootCopy, BootVirtual, paging_vars, vars
<1> HIDE DEF table_vars, handler_vars, Shrinks
<1>10. BootNext \/ UNCHANGED <<vars, boot_vars>>
  OBVIOUS
<1>11. BootPhysical \/ Shrinks
  BY <1>2, <1>3, <1>4, <1>5, <1>6, <1>7, <1>8, <1>9, <1>10, Actions
<1> QED BY <1>11 DEF Shrinks

LEMMA OwnNumbers == Types => Own \subseteq Nat \ {0, NoFrame}
BY KernelAssumption DEF Types, Own, NoFrame

\* A new table is a leaf without entries, so that no frame gets a second place.
LEMMA OnceGrows ==
  ASSUME Types, Once, Own' = Own, NEW g, Grows(g),
         free' \union {new_page'} \subseteq free \union {new_page, NoFrame}
  PROVE  Once'
<1>1. PICK f0, x0, e :
        /\ Puts(f0, x0, e) /\ f0 # g /\ e.frame = g
        /\ g \in DOMAIN mem \ DOMAIN BootTables /\ ~UsedTable(mem, g)
        /\ \A y \in Indices : mem[g][y] = Zero
        /\ g \in free \union {new_page} /\ g \notin free' \union {new_page'}
        /\ \A t : UsedTable(mem', t) => UsedTable(mem, t) \/ t = g
  BY DEF Grows
<1>2. /\ DOMAIN mem' = DOMAIN mem /\ mem'[f0][x0] = e
      /\ \A t \in DOMAIN mem : \A y \in Indices : t # f0 \/ y # x0 => mem'[t][y] = mem[t][y]
  BY <1>1, PutEntries
<1>3. Zero.frame = 0 /\ \A f \in Own : f # 0 /\ f # NoFrame
  BY OwnNumbers DEF Zero
<1> DEFINE Old(t, x, f) == UsedTable(mem, t) /\ mem[t][x].frame = f
           New(t, x, f) == UsedTable(mem', t) /\ mem'[t][x].frame = f
<1>4. ASSUME NEW f \in Own, NEW t \in DOMAIN mem, NEW x \in Indices, New(t, x, f)
      PROVE  Old(t, x, f) \/ (t = f0 /\ x = x0 /\ f = g)
  <2>1. CASE t = f0 /\ x = x0
    BY <1>1, <1>2, <1>4, <2>1
  <2>2. CASE t # f0 \/ x # x0
    <3>1. mem[t][x].frame = f
      BY <1>2, <1>4, <2>2
    <3>2. t # g
      BY <1>1, <1>3, <3>1
    <3> QED BY <1>1, <1>4, <3>1, <3>2
  <2> QED BY <2>1, <2>2
<1>5. \A f \in Own : \A t \in DOMAIN mem : \A x \in Indices : Old(t, x, f) => f \notin free \union {new_page}
  BY DEF Once
<1>6. \A f \in Own : \A t, u \in DOMAIN mem : \A x, y \in Indices : Old(t, x, f) /\ Old(u, y, f) => t = u /\ x = y
  BY DEF Once
<1> HIDE DEF Old
<1>7. ASSUME NEW f \in Own, NEW t \in DOMAIN mem, NEW x \in Indices, New(t, x, f)
      PROVE  f \notin free' \union {new_page'}
  <2>1. CASE Old(t, x, f)
    <3>1. f \notin free \union {new_page} /\ f # NoFrame
      BY <1>3, <1>5, <2>1
    <3> QED BY <3>1
  <2>2. CASE f = g
    BY <1>1, <2>2
  <2> QED BY <1>4, <1>7, <2>1, <2>2
<1>8. ASSUME NEW f \in Own, NEW t \in DOMAIN mem, NEW u \in DOMAIN mem, NEW x \in Indices, NEW y \in Indices,
             New(t, x, f), New(u, y, f)
      PROVE  t = u /\ x = y
  <2>1. Old(t, x, f) \/ (t = f0 /\ x = x0 /\ f = g)
    BY <1>4, <1>8
  <2>2. Old(u, y, f) \/ (u = f0 /\ y = x0 /\ f = g)
    BY <1>4, <1>8
  <2>3. f = g => ~Old(t, x, f) /\ ~Old(u, y, f)
    BY <1>1, <1>5
  <2> QED BY <1>6, <2>1, <2>2, <2>3
<1> QED BY <1>2, <1>7, <1>8 DEF Once

\* Neither does it by the write of an entry, whose frame is the one that was
\* there or the handler's, which is then in its hands no more.
LEMMA OnceWrites ==
  ASSUME Types, Once, Own' = Own, NEW v, NEW e, Writes(v, e),
         free' \union {new_page'} \subseteq free \union {new_page, NoFrame},
         e.frame \in Own => e.frame = EntryOf(mem, v).frame \/ (e.frame = new_page /\ e.frame \notin free' \union {new_page'})
  PROVE  Once'
<1> DEFINE f0 == At(mem, v, 1)
           x0 == Index(v, 1)
<1>1. Puts(f0, x0, e) /\ v \in Pages /\ \A t : UsedTable(mem', t) <=> UsedTable(mem, t)
  BY DEF Writes
<1>2. /\ DOMAIN mem' = DOMAIN mem /\ mem'[f0][x0] = e
      /\ \A t \in DOMAIN mem : \A y \in Indices : t # f0 \/ y # x0 => mem'[t][y] = mem[t][y]
  BY <1>1, PutEntries
<1>3. EntryOf(mem, v) = mem[f0][x0] /\ UsedTable(mem, f0) /\ f0 \in DOMAIN mem /\ x0 \in Indices
  <2>1. f0 \in DOMAIN mem /\ UsedTable(mem, f0) /\ x0 \in Indices
    BY <1>1 DEF Puts
  <2>2. EntryOf(mem, v) = In(mem, f0, x0)
    BY <1>1, EntryRead DEF Types
  <2> QED BY <2>1, <2>2 DEF In
<1> HIDE DEF f0, x0
<1>4. \A f \in Own : f # NoFrame
  BY OwnNumbers
<1> DEFINE Old(t, x, f) == UsedTable(mem, t) /\ mem[t][x].frame = f
           New(t, x, f) == UsedTable(mem', t) /\ mem'[t][x].frame = f
           Given(f) == f = new_page /\ f \notin free' \union {new_page'}
<1>5. ASSUME NEW f \in Own, NEW t \in DOMAIN mem, NEW x \in Indices, New(t, x, f)
      PROVE  Old(t, x, f) \/ (t = f0 /\ x = x0 /\ Given(f))
  <2>1. CASE t = f0 /\ x = x0
    <3>1. e.frame = f
      BY <1>2, <1>5, <2>1
    <3> QED BY <1>3, <2>1, <3>1
  <2>2. CASE t # f0 \/ x # x0
    BY <1>1, <1>2, <1>5, <2>2
  <2> QED BY <2>1, <2>2
<1>6. \A f \in Own : \A t \in DOMAIN mem : \A x \in Indices : Old(t, x, f) => f \notin free \union {new_page}
  BY DEF Once
<1>7. \A f \in Own : \A t, u \in DOMAIN mem : \A x, y \in Indices : Old(t, x, f) /\ Old(u, y, f) => t = u /\ x = y
  BY DEF Once
<1> HIDE DEF Old
<1>8. ASSUME NEW f \in Own, NEW t \in DOMAIN mem, NEW x \in Indices, New(t, x, f)
      PROVE  f \notin free' \union {new_page'}
  <2>1. CASE Old(t, x, f)
    <3>1. f \notin free \union {new_page} /\ f # NoFrame
      BY <1>4, <1>6, <2>1
    <3> QED BY <3>1
  <2> QED BY <1>5, <1>8, <2>1
<1>9. ASSUME NEW f \in Own, NEW t \in DOMAIN mem, NEW u \in DOMAIN mem, NEW x \in Indices, NEW y \in Indices,
             New(t, x, f), New(u, y, f)
      PROVE  t = u /\ x = y
  <2>1. Old(t, x, f) \/ (t = f0 /\ x = x0 /\ Given(f))
    BY <1>5, <1>9
  <2>2. Old(u, y, f) \/ (u = f0 /\ y = x0 /\ Given(f))
    BY <1>5, <1>9
  <2>3. Given(f) => ~Old(t, x, f) /\ ~Old(u, y, f)
    BY <1>6
  <2> QED BY <1>7, <2>1, <2>2, <2>3
<1> QED BY <1>2, <1>8, <1>9 DEF Once

\* The frames of the callers are not those of the machine.
LEMMA ForeignFrames ==
  ASSUME CallersApart, Types, Asked
  PROVE  /\ call.op = "map" /\ i < call.n => call.frame \notin Own
         /\ call.op \in {"set_entry", "set_frame"} => call.frame \notin Own
<1> DEFINE c == asked.call
<1>1. /\ machine \in Machines /\ call.n \in Nat /\ i \in 0..call.n
  BY DEF Types, CallType
<1>2. ASSUME call.op = "map", i < call.n PROVE call.frame \notin Own
  <2>1. c \in Calls \union {TestTouch} /\ c.op = "map" /\ call.n = c.n /\ call.frame = c.frame + i
    BY <1>2 DEF Asked
  <2>2. c \in Calls /\ c.frame \in Nat
    BY <2>1, RangePages
  <2>3. call.frame \in c.frame..(c.frame + c.n - 1)
    BY <1>1, <1>2, <2>1, <2>2
  <2> QED BY <1>1, <2>1, <2>2, <2>3 DEF CallersApart, Own
<1>3. ASSUME call.op \in {"set_entry", "set_frame"} PROVE call.frame \notin Own
  <2>1. c \in Calls \union {TestTouch} /\ call = c
    BY <1>3 DEF Asked
  <2>2. c \in Calls
    BY <1>3, <2>1 DEF TestTouch
  <2> QED BY <1>1, <1>3, <2>1, <2>2 DEF CallersApart, Own
<1> QED BY <1>2, <1>3

\* What a setter writes.
LEMMA SetWrites ==
  ASSUME Types, Clean, call.op \in {"set_entry", "set_frame", "set_flags"}
  PROVE  /\ call.op = "set_entry" => SetTo = PageEntry([frame |-> call.frame, flags |-> call.flags])
         /\ call.op = "set_frame" => SetTo = [EntryOf(mem, call.page) EXCEPT !.frame = call.frame]
         /\ call.op = "set_flags" => SetTo = [EntryOf(mem, call.page) EXCEPT !.flags = call.flags]
         /\ SetTo.frame \in {call.frame, EntryOf(mem, call.page).frame}
         /\ call.op # "set_flags" => SetTo.frame = call.frame
         /\ call.op = "set_flags" => SetTo.frame = EntryOf(mem, call.page).frame
<1>1. call.page \in Pages /\ IsMem(mem) /\ Recursive(mem) /\ 1 \in 1..4
  BY DEF Types, CallType, Clean
<1>2. Load(call.page, 1) = EntryOf(mem, call.page) /\ EntryOf(mem, call.page) \in Entry
  BY <1>1, Loads, EntryRead
<1>3. /\ call.op = "set_entry" => SetTo = PageEntry([frame |-> call.frame, flags |-> call.flags])
      /\ call.op = "set_frame" => SetTo = [EntryOf(mem, call.page) EXCEPT !.frame = call.frame]
      /\ call.op = "set_flags" => SetTo = [EntryOf(mem, call.page) EXCEPT !.flags = call.flags]
  BY <1>2 DEF SetTo
<1>4. PageEntry([frame |-> call.frame, flags |-> call.flags]).frame = call.frame
  BY DEF PageEntry
<1>5. /\ [EntryOf(mem, call.page) EXCEPT !.frame = call.frame].frame = call.frame
      /\ [EntryOf(mem, call.page) EXCEPT !.flags = call.flags].frame = EntryOf(mem, call.page).frame
  BY <1>2 DEF Entry
<1> QED BY <1>3, <1>4, <1>5

\* The frames of callers are none of the machine's.
LEMMA OnceStep ==
  ASSUME CallersApart, IInv, Untouched, Asked, ~spoilt => Once,
         [BootNext]_<<vars, boot_vars>>, ~spoilt'
  PROVE  Once'
<1>1. Types /\ Runs /\ Remaining /\ Early /\ ~spoilt /\ Clean /\ Untouched /\ Once
  BY SpoiltStays DEF IInv, Types
<1>2. machine' = machine /\ Own' = Own
  BY <1>1, SameMachine DEF Types, Own
<1>3. CASE BootPhysical
  <2>1. at = "copy" /\ mem' = mem
    BY <1>3 DEF BootPhysical, Boot
  <2>2. mem = Initial(machine) /\ machine \in Machines
    BY <1>1, <2>1 DEF Untouched, Booting, Types
  <2>3. \A t : UsedTable(mem, t) => t \in DOMAIN BootTables
    BY <1>1, <2>1 DEF Early, UsedTable
  <2>4. ASSUME NEW f \in Own, NEW t \in DOMAIN mem, NEW x \in Indices, UsedTable(mem, t)
        PROVE  mem[t][x].frame # f
    <3>1. mem[t] = BootTables[t] /\ t \in DOMAIN BootTables
      BY <2>2, <2>3, <2>4 DEF Initial
    <3> QED BY <2>2, <3>1 DEF CallersApart, Own, Indices
  <2> QED BY <1>2, <2>1, <2>4 DEF Once
<1>4. CASE ~BootPhysical
  <2>1. free' \union {new_page'} \subseteq free \union {new_page, NoFrame}
    BY <1>1, <1>4, FramesShrink
  <2>2. CASE mem' = mem
    <3>1. \A f \in Own : f # NoFrame
      BY <1>1, OwnNumbers
    <3> QED BY <1>1, <1>2, <2>1, <2>2, <3>1 DEF Once
  <2>3. CASE CreatePdpt \/ CreatePd \/ CreatePt
    BY <1>1, <1>2, <2>1, <2>2, <2>3, CreateSteps, OnceGrows
  <2>4. CASE HandleEntry
    <3>1. /\ new_page \in DOMAIN mem \ DOMAIN BootTables /\ new_page \notin free /\ new_page' = NoFrame
          /\ InWindow(cr2) => Grows(new_page)
          /\ ~InWindow(cr2) => Writes(cr2, [frame |-> new_page, flags |-> {"present"}])
      BY <1>1, <2>4, HandleKind
    <3>2. free' = free
      BY <2>4 DEF HandleEntry
    <3>3. new_page \notin free' \union {new_page'}
      BY <1>1, <3>1, <3>2 DEF Types, IsMem, NoFrame
    <3>4. [frame |-> new_page, flags |-> {"present"}].frame = new_page
      OBVIOUS
    <3> QED BY <1>1, <1>2, <2>1, <3>1, <3>3, <3>4, OnceGrows, OnceWrites
  <2>5. CASE MapEntry
    <3> DEFINE e == [frame |-> call.frame, flags |-> call.flags]
    <3>1. call.op = "map" /\ i < call.n /\ Writes(call.page, e)
      BY <1>1, <2>5, WriteKind
    <3>2. e.frame \notin Own
      BY <1>1, <3>1, ForeignFrames
    <3> QED BY <1>1, <1>2, <2>1, <3>1, <3>2, OnceWrites
  <2>6. CASE UnmapEntry
    <3>1. Writes(call.page, Zero)
      BY <1>1, <2>6, WriteKind
    <3>2. Zero.frame \notin Own
      BY <1>1, OwnNumbers DEF Zero
    <3> QED BY <1>1, <1>2, <2>1, <3>1, <3>2, OnceWrites
  <2>7. CASE Set
    <3>1. call.op \in {"set_entry", "set_frame", "set_flags"} /\ Writes(call.page, SetTo)
      BY <1>1, <2>7, WriteKind
    <3>2. SetTo.frame \in Own => SetTo.frame = EntryOf(mem, call.page).frame
      BY <1>1, <3>1, ForeignFrames, SetWrites
    <3> QED BY <1>1, <1>2, <2>1, <3>1, <3>2, OnceWrites
  <2> QED BY <2>2, <2>3, <2>4, <2>5, <2>6, <2>7, Kinds, ReadingKeeps
<1> QED BY <1>3, <1>4

LEMMA OnceInit ==
  ASSUME BootInit, CallersApart
  PROVE  Once
<1>1. mem = Initial(machine) /\ machine \in Machines
  BY DEF BootInit, InitWith, Initial
<1>2. \A t : UsedTable(mem, t) => t \in DOMAIN BootTables
  BY FirstTables DEF UsedTable
<1>3. ASSUME NEW f \in Own, NEW t \in DOMAIN mem, NEW x \in Indices, UsedTable(mem, t)
      PROVE  mem[t][x].frame # f
  <2>1. mem[t] = BootTables[t] /\ t \in DOMAIN BootTables
    BY <1>1, <1>2, <1>3 DEF Initial
  <2> QED BY <1>1, <2>1 DEF CallersApart, Own, Indices
<1> QED BY <1>3 DEF Once

\* A table in use is one of the tree.
LEMMA BelowTables ==
  ASSUME NEW T, NEW u \in Below(T)
  PROVE  u # NoFrame /\ u # Root /\ \E t \in T : \E x \in Indices : u = Child(mem, t, x)
BY DEF Below, Indices

\* The tables that FrameOnce looks at are those of the tree.
LEMMA UsedTables ==
  ASSUME IsMem(mem), Recursive(mem), NEW t \in InUse
  PROVE  UsedTable(mem, t)
<1> DEFINE A == Below({Root})
           B == Below(A)
<1>0. 0 \in Indices /\ 1 \in 1..4 /\ 2 \in 1..4 /\ 3 \in 1..4 /\ 4 \in 1..4 /\ RecSlot \in Indices
  BY SlotsType DEF Indices
<1>1. ASSUME NEW x \in Indices, NEW y \in Indices, NEW z \in Indices, x # RecSlot
      PROVE  LET p == Num(x, y, z, 0)
             IN  /\ p \in Pages /\ ~InWindow(p)
                 /\ At(mem, p, 4) = Root
                 /\ At(mem, p, 3) = Child(mem, Root, x)
                 /\ At(mem, p, 2) = Child(mem, Child(mem, Root, x), y)
                 /\ At(mem, p, 1) = Child(mem, Child(mem, Child(mem, Root, x), y), z)
  <2> DEFINE p == Num(x, y, z, 0)
  <2>1. p \in Pages /\ Index(p, 4) = x /\ Index(p, 3) = y /\ Index(p, 2) = z
    BY <1>0, <1>1, NumIndices
  <2>2. ~InWindow(p)
    BY <1>1, <2>1 DEF InWindow
  <2> HIDE DEF p
  <2>3. /\ At(mem, p, 4) = Root
        /\ At(mem, p, 3) = Child(mem, Root, x)
        /\ At(mem, p, 2) = Child(mem, Child(mem, Root, x), y)
        /\ At(mem, p, 1) = Child(mem, Child(mem, Child(mem, Root, x), y), z)
    BY <2>1, Down
  <2> QED BY <2>1, <2>2, <2>3 DEF p
<1>2. \A x \in Indices : Child(mem, Root, x) # Root => x # RecSlot
  BY DEF Recursive
<1>3. PICK s \in Indices : s # RecSlot
  <2>1. Slots \in Nat /\ Slots > 1 /\ RecSlot \in 0..(Slots - 1)
    BY SlotsType DEF Indices
  <2>2. \E s \in 0..(Slots - 1) : s # RecSlot
    <3>1. 0 \in 0..(Slots - 1) /\ 1 \in 0..(Slots - 1) /\ 0 # 1
      BY <2>1
    <3> QED BY <3>1
  <2> QED BY <2>2 DEF Indices
<1>4. CASE t = Root
  <2>1. Root # NoFrame
    BY SlotsType DEF NoFrame
  <2> QED BY <1>0, <1>1, <1>3, <1>4, <2>1 DEF UsedTable
<1>5. \A u \in A : \E x \in Indices : u = Child(mem, Root, x) /\ x # RecSlot /\ u # NoFrame
  BY <1>2, BelowTables
<1> HIDE DEF A
<1>6. CASE t \in A
  <2>1. PICK x \in Indices : t = Child(mem, Root, x) /\ x # RecSlot /\ t # NoFrame
    BY <1>5, <1>6
  <2> QED BY <1>0, <1>1, <2>1 DEF UsedTable
<1>7. \A u \in B : \E x, y \in Indices : u = Child(mem, Child(mem, Root, x), y) /\ x # RecSlot /\ u # NoFrame
  BY <1>5, BelowTables
<1> HIDE DEF B
<1>8. CASE t \in B
  <2>1. PICK x \in Indices, y \in Indices : t = Child(mem, Child(mem, Root, x), y) /\ x # RecSlot /\ t # NoFrame
    BY <1>7, <1>8
  <2> QED BY <1>0, <1>1, <2>1 DEF UsedTable
<1>9. CASE t \in Below(B)
  <2>1. PICK u \in B, z \in Indices : t = Child(mem, u, z) /\ t # NoFrame
    BY <1>9, BelowTables
  <2>2. PICK x \in Indices, y \in Indices : u = Child(mem, Child(mem, Root, x), y) /\ x # RecSlot
    BY <1>7, <2>1
  <2> QED BY <1>0, <1>1, <2>1, <2>2 DEF UsedTable
<1> QED BY <1>4, <1>6, <1>8, <1>9 DEF InUse, A, B

\* What was shown of a machine whose callers leave it alone holds of each state
\* it reaches.
Base == IInv /\ Asked /\ Untouched /\ (~spoilt => Once)

LEMMA InitBase ==
  ASSUME CallersApart, BootInit
  PROVE  Base
BY InitIInv, AskedInit, UntouchedInit, OnceInit DEF Base

\* What all that follows rests on is kept together.
LEMMA StepBase ==
  ASSUME CallersApart, Base, [BootNext]_<<vars, boot_vars>>
  PROVE  Base'
<1>1. IInv /\ Asked /\ Untouched /\ Types /\ Runs /\ Early /\ (~spoilt => Once)
  BY DEF Base, IInv
<1>2. IInv' /\ Asked'
  BY <1>1, StepIInv, AskedStep
<1>3. Untouched'
  BY <1>1, UntouchedStep
<1>4. ~spoilt' => Once'
  BY <1>1, OnceStep
<1> QED BY <1>2, <1>3, <1>4 DEF Base

\* A frame that allocate() gave is in one entry of one table, as long as the
\* callers bring no frame of their own that the firmware reports as usable: a
\* frame that is free or in the hands of the handler is in none.
THEOREM FramesInOnePlace ==
  ASSUME CallersApart
  PROVE  BootSpec => []FrameOnce
<1>1. Base => FrameOnce
  <2> SUFFICES ASSUME Base, ~spoilt, NEW f \in DOMAIN mem \ DOMAIN BootTables
               PROVE  Cardinality(PlacesOf(f)) <= IF f \in free \/ f = new_page THEN 0 ELSE 1
    BY DEF FrameOnce
  <2>1. Types /\ Clean /\ Once /\ IsMem(mem) /\ Recursive(mem)
    BY DEF Base, IInv, Types, Clean
  <2>2. f \in Own
    BY <2>1, OwnFrames
  <2>3. \A t \in PlacesOf(f) :
          /\ t = <<t[1], t[2]>> /\ t[1] \in DOMAIN mem /\ t[2] \in Indices
          /\ UsedTable(mem, t[1]) /\ mem[t[1]][t[2]].frame = f
    BY <2>1, UsedTables DEF PlacesOf, Indices
  <2> HIDE DEF PlacesOf
  <2>4. CASE f \in free \/ f = new_page
    <3>1. PlacesOf(f) = {}
      BY <2>1, <2>2, <2>3, <2>4 DEF Once
    <3> QED BY <2>4, <3>1, FS_EmptySet
  <2>5. CASE ~(f \in free \/ f = new_page)
    <3>1. ASSUME NEW t \in PlacesOf(f), NEW u \in PlacesOf(f) PROVE t = u
      BY <2>1, <2>2, <2>3 DEF Once
    <3>2. PlacesOf(f) = {} \/ \E t : PlacesOf(f) = {t}
      BY <3>1
    <3>3. Cardinality(PlacesOf(f)) <= 1
      BY <3>2, FS_EmptySet, FS_Singleton
    <3> QED BY <2>5, <3>3
  <2> QED BY <2>4, <2>5
<1>2. BootInit => Base
  BY InitBase
<1>3. Base /\ [BootNext]_<<vars, boot_vars>> => Base'
  BY StepBase
<1> QED BY <1>1, <1>2, <1>3, PTL DEF BootSpec

(***************************************************************************)
(* What a call leaves in the entries of the pages.                         *)
(***************************************************************************)

\* Only a setter writes an entry that it does not refresh.
LEMMA ByHand ==
  ASSUME [BootNext]_<<vars, boot_vars>>
  PROVE  /\ Set \/ byhand' \subseteq byhand
         /\ Set \/ HandleEntry \/ MapEntry \/ UnmapEntry \/ byhand' = byhand
<1>1. \A page : Trap(page) => byhand' = byhand
  BY DEF Trap
<1>2. Fault \/ CreateFault \/ BootCopyFault => byhand' = byhand
  BY <1>1 DEF Fault, CreateFault, BootCopyFault
<1>3. CreatePdpt \/ CreatePd \/ CreatePt => byhand' = byhand
  BY DEF CreatePdpt, CreatePd, CreatePt, Create
<1>4. /\ HandleHalt \/ HandleAllocate \/ HandleFault \/ Touch \/ MapCheck
           \/ UnmapSkip \/ UnmapDone \/ Return => byhand' = byhand
      /\ HandleEntry \/ MapEntry \/ UnmapEntry => byhand' \subseteq byhand
  BY DEF HandleHalt, HandleAllocate, HandleFault, HandleEntry, Touch, MapCheck, MapEntry,
         UnmapEntry, UnmapSkip, UnmapDone, Return
<1>5. \A n : Interrupt(n) => byhand' = byhand
  BY DEF Interrupt
<1>6. \A c : Call(c) => byhand' = byhand
  BY DEF Call
<1>7. BootWrite \/ BootRead => byhand' = byhand
  BY <1>6 DEF BootWrite, BootRead, BootTest
<1>8. BootIdt \/ BootMalloc \/ BootCount \/ BootMap \/ BootCopy \/ BootVirtual \/ BootPhysical
        \/ UNCHANGED <<vars, boot_vars>> => byhand' = byhand
  BY DEF BootIdt, BootMalloc, BootCount, BootMap, BootCopy, BootVirtual, BootPhysical, paging_vars, vars
<1>9. BootNext \/ UNCHANGED <<vars, boot_vars>>
  OBVIOUS
<1> QED BY <1>2, <1>3, <1>4, <1>5, <1>6, <1>7, <1>8, <1>9, Actions

\* What follows the end of a call, and what follows a stop.
LEMMA Ends ==
  ASSUME [BootNext]_<<vars, boot_vars>>, pc \in Stops \union {"return"}
  PROVE  Return \/ pc' = pc \/ pc' \in Stops
<1>1. ~(Fault \/ CreateFault \/ BootCopyFault)
  BY DEF Fault, CreateFault, BootCopyFault, Reaches, Instruction, Stops, Boot
<1>2. ~(CreatePdpt \/ CreatePd \/ CreatePt)
  BY DEF CreatePdpt, CreatePd, CreatePt, Create, Stops
<1>3. ~(HandleHalt \/ HandleAllocate \/ HandleFault \/ HandleEntry \/ Touch \/ MapCheck \/ MapEntry
         \/ UnmapEntry \/ UnmapSkip \/ UnmapDone \/ Set)
  BY DEF HandleHalt, HandleAllocate, HandleFault, HandleEntry, Touch, MapCheck, MapEntry,
         UnmapEntry, UnmapSkip, UnmapDone, Set, Stops
<1>4. \A n : Interrupt(n) => pc' \in Stops
  BY DEF Interrupt, Stops
<1>5. \A c : ~Call(c)
  BY DEF Call, Stops
<1>6. ~(BootWrite \/ BootRead)
  BY <1>5 DEF BootWrite, BootRead, BootTest
<1>7. BootIdt \/ BootMalloc \/ BootCount \/ BootMap \/ BootCopy \/ BootVirtual \/ BootPhysical
        \/ UNCHANGED <<vars, boot_vars>> => pc' = pc
  BY DEF BootIdt, BootMalloc, BootCount, BootMap, BootCopy, BootVirtual, BootPhysical, paging_vars, vars
<1>8. BootNext \/ UNCHANGED <<vars, boot_vars>>
  OBVIOUS
<1> QED BY <1>1, <1>2, <1>3, <1>4, <1>5, <1>6, <1>7, <1>8, Actions

\* The page of the fault is that of the access: a fault of the code that makes
\* tables would not be resolved.
LEMMA FaultedStep ==
  ASSUME Types, Runs, Faulted, Clean', [BootNext]_<<vars, boot_vars>>
  PROVE  Faulted'
<1> DEFINE Page == IF call.op = "touch" THEN call.page ELSE MEM_PTBL_ADDR(call.page)
<1>1. CASE Fault
  <2>1. cr2' = Accessed /\ resume' = pc /\ pc' = "handle" /\ UNCHANGED <<pfaulting, call>>
    BY <1>1 DEF Fault, Trap
  <2>2. ~pfaulting' /\ cr2' # 0 => pc = "access"
    BY <2>1 DEF Clean, Progress
  <2>3. pc = "access" => Accessed = Page
    BY DEF Accessed
  <2> QED BY <2>1, <2>2, <2>3 DEF Faulted, Handling, Creating
<1>2. CASE CreateFault \/ BootCopyFault \/ HandleFault
  BY <1>2 DEF CreateFault, BootCopyFault, HandleFault, Trap, Faulted, Handling, Creating
<1>3. CASE CreatePdpt \/ CreatePd \/ CreatePt
  <2>1. pc \in Handling /\ UNCHANGED <<pfaulting, cr2, call>> /\ pc' # "handle"
    BY <1>3 DEF CreatePdpt, CreatePd, CreatePt, Create, handler_vars, call_vars, Handling, Creating
  <2> QED BY <2>1 DEF Faulted
<1>4. CASE HandleAllocate
  BY <1>4 DEF HandleAllocate, Faulted, call_vars
<1>5. CASE HandleEntry
  <2>1. pfaulting' = FALSE /\ pc' = resume /\ resume \in Instruction \union {"idle"}
    BY <1>5 DEF HandleEntry, GuardDown, Types, HandlerType
  <2> QED BY <2>1 DEF Faulted, Instruction
<1>6. CASE HandleHalt \/ Touch \/ MapEntry \/ UnmapEntry \/ UnmapSkip \/ UnmapDone \/ Set \/ Return
  <2>1. pc' \notin Handling \union {"handle"}
    BY <1>6 DEF HandleHalt, Touch, MapEntry, UnmapEntry, UnmapSkip, UnmapDone, Set, Return, Handling, Creating
  <2> QED BY <2>1 DEF Faulted
<1>7. CASE MapCheck
  <2>1. pc = "map" /\ pc' # "handle" /\ pfaulting' = pfaulting
    BY <1>7 DEF MapCheck, handler_vars
  <2> QED BY <2>1, CallRuns DEF Faulted
<1>8. ASSUME NEW n, Interrupt(n) PROVE Faulted'
  BY <1>8 DEF Interrupt, Faulted, Handling, Creating
<1>9. ASSUME NEW c, Call(c) PROVE Faulted'
  BY <1>9 DEF Call, Faulted, Handling, Creating, Ops
<1>10. BootWrite \/ BootRead => Faulted'
  BY <1>9 DEF BootWrite, BootRead, BootTest
<1>11. BootIdt \/ BootMalloc \/ BootCount \/ BootMap \/ BootCopy \/ BootVirtual \/ BootPhysical
        \/ UNCHANGED <<vars, boot_vars>> => UNCHANGED <<pc, pfaulting, cr2, call>>
  BY DEF BootIdt, BootMalloc, BootCount, BootMap, BootCopy, BootVirtual, BootPhysical, paging_vars, vars,
     handler_vars, call_vars
<1>12. CASE UNCHANGED <<pc, pfaulting, cr2, call>>
  BY <1>12 DEF Faulted
<1>13. BootNext \/ UNCHANGED <<vars, boot_vars>>
  OBVIOUS
<1> QED BY <1>1, <1>2, <1>3, <1>4, <1>5, <1>6, <1>7, <1>8, <1>9, <1>10, <1>11, <1>12, <1>13, Actions

LEMMA FaultedInit == BootInit => Faulted
BY DEF BootInit, InitWith, Faulted, Handling, Creating

\* What an entry leads to.
LEMMA EntryLeads ==
  ASSUME NEW m, NEW q
  PROVE  Walk(m, q) = IF Present(EntryOf(m, q)) THEN EntryOf(m, q).frame ELSE NoFrame
BY DEF Walk, Child, EntryOf

\* The first page of a range without a table.
LEMMA HoleIs ==
  ASSUME NEW m, NEW c, c.n \in Nat
  PROVE  /\ Hole(m, c) \in 0..c.n
         /\ Hole(m, c) < c.n => TableOf(m, c.page + Hole(m, c)) = NoFrame
         /\ \A k \in 0..(c.n - 1) : TableOf(m, c.page + k) = NoFrame => Hole(m, c) <= k
<1> DEFINE T == {c.n} \union {k \in 0..(c.n - 1) : TableOf(m, c.page + k) = NoFrame}
<1>1. T \in SUBSET Nat /\ T # {}
  OBVIOUS
<1>2. Hole(m, c) = Min(T)
  BY DEF Hole
<1>3. Min(T) \in T /\ \A y \in T : Min(T) <= y
  BY ONLY <1>1, LeastElement
<1>4. \A k \in T : k \in 0..c.n /\ (k < c.n => TableOf(m, c.page + k) = NoFrame)
  OBVIOUS
<1>5. c.n \in T /\ \A k \in 0..(c.n - 1) : TableOf(m, c.page + k) = NoFrame => k \in T
  OBVIOUS
<1> QED BY <1>2, <1>3, <1>4, <1>5

\* A call begins.
LEMMA EffectStarts ==
  ASSUME NEW c \in Calls \union {TestTouch}, Call(c)
  PROVE  Effect'
<1>1. /\ call' = c /\ i' = 0 /\ asked'.call = c /\ asked'.mem = mem /\ mem' = mem
      /\ pc' \notin Stops \union {"return"}
  BY DEF Call, Stops, table_vars
<1>2. c.page \in Nat /\ c.n \in Nat
  BY PagingAssumption, KernelAssumption DEF TestTouch, Pages
<1>3. Hole(mem, c) \in 0..c.n
  BY <1>2, HoleIs
<1>4. Least(0, Hole(mem, c)) = 0 /\ c.page..(c.page + 0 - 1) = {} /\ c.page + 0 = c.page
  BY <1>2, <1>3 DEF Least
<1>5. MapDone(asked.mem, asked.call)'
  BY <1>1, <1>4 DEF MapDone
<1>6. UnmapEffect(asked.mem, asked.call)'
  BY <1>1, <1>4 DEF UnmapEffect
<1>7. TouchEffect(asked.mem, asked.call)'
  BY <1>1 DEF TouchEffect, Same
<1>8. SetEffect(asked.mem, asked.call)'
  BY <1>1 DEF SetEffect, Same
<1> QED BY <1>5, <1>6, <1>7, <1>8 DEF Effect

\* What is known of a step in the middle of a call.
Middle ==
  /\ Types /\ Runs /\ Remaining /\ Early /\ Clean /\ Asked /\ Faulted
  /\ [BootNext]_<<vars, boot_vars>> /\ ~spoilt'

\* The steps of map_range().
LEMMA MapSteps ==
  ASSUME Middle, call.op = "map",
         UNCHANGED <<call, i, asked>> \/ MapEntry, MapDone(asked.mem, asked.call)
  PROVE  MapDone(asked.mem, asked.call)'
<1> DEFINE c == asked.call
           m == asked.mem
<1>0. /\ Types /\ Runs /\ Remaining /\ Clean /\ Asked
      /\ [BootNext]_<<vars, boot_vars>> /\ ~spoilt'
  BY DEF Middle
<1>1. /\ c \in Calls \union {TestTouch} /\ c.op = "map" /\ call.n = c.n /\ call.flags = c.flags
      /\ call.frame = c.frame + i /\ (i < c.n => call.page = c.page + i)
  BY <1>0 DEF Asked
<1>2. c.page \in Nat /\ c.n \in Nat /\ c.frame \in Nat /\ i \in 0..c.n
  BY <1>0, <1>1, RangePages DEF Types, CallType
<1>3. /\ \A q \in Pages : ~InWindow(q) =>
           EntryOf(mem, q) = IF q \in c.page..(c.page + i - 1)
                               THEN [frame |-> c.frame + (q - c.page), flags |-> c.flags]
                               ELSE EntryOf(m, q)
      /\ pc = "return" => i = c.n
  BY DEF MapDone
<1>4. ~UnmapEntry /\ ~Set /\ ~HandleEntry
  <2>1. ~UnmapEntry /\ ~Set
    BY <1>0, WriteKind
  <2>2. HandleEntry => pc \in Handling /\ pfaulting /\ resume = "access"
    BY <1>0, HandleKind DEF HandleEntry, Handling
  <2>3. ~Fits("access")
    BY DEF Fits
  <2> QED BY <1>0, <2>1, <2>2, <2>3 DEF Runs
<1>5. CASE MapEntry
  <2>1. /\ i < c.n /\ Writes(call.page, [frame |-> call.frame, flags |-> call.flags])
        /\ asked' = asked /\ i' = i + 1 /\ pc' = "map"
    BY <1>0, <1>1, <1>5, WriteKind DEF MapEntry, Advance
  <2> DEFINE e == [frame |-> c.frame + i, flags |-> c.flags]
  <2>2. Writes(c.page + i, e)
    BY <1>1, <2>1
  <2> HIDE DEF c, m
  <2>3. ASSUME NEW q \in Pages, ~InWindow(q)
        PROVE  EntryOf(mem', q) = IF q \in c.page..(c.page + i' - 1)
                                    THEN [frame |-> c.frame + (q - c.page), flags |-> c.flags]
                                    ELSE EntryOf(m, q)
    <3>1. q \in Nat
      BY Spans, SlotsType DEF Pages
    <3>2. q \in c.page..(c.page + i' - 1) <=> q \in c.page..(c.page + i - 1) \/ q = c.page + i
      BY <1>2, <2>1, <3>1
    <3>3. CASE q = c.page + i
      <4>1. q - c.page = i
        BY <1>2, <3>1, <3>3
      <4>2. EntryOf(mem', q) = e
        BY <2>2, <3>3 DEF Writes
      <4> QED BY <3>2, <3>3, <4>1, <4>2
    <3>4. CASE q # c.page + i
      <4>1. EntryOf(mem', q) = EntryOf(mem, q)
        BY <2>2, <2>3, <3>4 DEF Writes
      <4> QED BY <1>3, <2>3, <3>2, <3>4, <4>1
    <3> QED BY <3>3, <3>4
  <2> QED BY <2>1, <2>3 DEF MapDone, c, m
<1>6. CASE UNCHANGED <<call, i, asked>>
  <2>1. pc' = "return" => i = c.n
    <3>1. Touch \/ UnmapDone \/ Set => pc \in {"access", "unmap"}
      BY DEF Touch, UnmapDone, Set
    <3>2. ~(Touch \/ UnmapDone \/ Set)
      BY <1>0, <3>1, CallRuns DEF Fits
    <3>3. UNCHANGED <<vars, boot_vars>> => pc' = pc
      BY DEF vars
    <3> QED BY <1>0, <1>1, <1>3, <3>2, <3>3, Returns
  <2>2. ASSUME NEW q \in Pages, ~InWindow(q) PROVE EntryOf(mem', q) = EntryOf(mem, q)
    <3>1. CASE mem' = mem
      BY <3>1
    <3>2. CASE CreatePdpt \/ CreatePd \/ CreatePt
      BY <1>0, <2>2, <3>1, <3>2, CreateSteps DEF Grows
    <3>3. ~MapEntry
      BY <1>2, <1>6 DEF MapEntry, Advance
    <3> QED BY <1>0, <1>4, <3>1, <3>2, <3>3, Kinds, ReadingKeeps
  <2> HIDE DEF c, m
  <2>3. c' = c /\ m' = m
    BY <1>6 DEF c, m
  <2> QED BY <1>3, <1>6, <2>1, <2>2, <2>3 DEF MapDone, c, m
<1> QED BY <1>5, <1>6

\* The steps of unmap_range(): it makes no table, and once it meets a page
\* without one it stays there.
LEMMA UnmapSteps ==
  ASSUME Middle, call.op = "unmap",
         UNCHANGED <<call, i, asked>> \/ UnmapEntry \/ UnmapSkip, UnmapEffect(asked.mem, asked.call)
  PROVE  UnmapEffect(asked.mem, asked.call)'
<1> DEFINE c == asked.call
           m == asked.mem
           h == Hole(m, c)
           d == Least(i, h)
<1>0. /\ Types /\ Runs /\ Remaining /\ Clean /\ Asked
      /\ [BootNext]_<<vars, boot_vars>> /\ ~spoilt'
  BY DEF Middle
<1>1. c \in Calls \union {TestTouch} /\ c.op = "unmap" /\ call.n = c.n
  BY <1>0 DEF Asked
<1>2. /\ c.page \in Nat /\ c.n \in Nat /\ i \in 0..c.n
      /\ \A k \in Nat : k < c.n => (c.page + k) % NPages = c.page + k
  BY <1>0, <1>1, RangePages DEF Types, CallType
<1>3. /\ h \in 0..c.n
      /\ h < c.n => TableOf(m, c.page + h) = NoFrame
      /\ \A k \in 0..(c.n - 1) : TableOf(m, c.page + k) = NoFrame => h <= k
  BY <1>2, HoleIs
<1>4. /\ i < c.n => call.page = c.page + d
      /\ \A q \in Pages : TableOf(mem, q) = TableOf(m, q)
      /\ \A q \in Pages : ~InWindow(q) =>
           EntryOf(mem, q) = IF q \in c.page..(c.page + d - 1) THEN Zero ELSE EntryOf(m, q)
      /\ pc = "return" => i = c.n
  BY DEF UnmapEffect
<1>5. ~MapEntry /\ ~Set /\ ~HandleEntry
  <2>1. ~MapEntry /\ ~Set
    BY <1>0, WriteKind
  <2>2. HandleEntry => pc \in Handling /\ pfaulting /\ resume = "access"
    BY <1>0, HandleKind DEF HandleEntry, Handling
  <2>3. ~Fits("access")
    BY DEF Fits
  <2> QED BY <1>0, <2>1, <2>2, <2>3 DEF Runs
<1>6. ~(CreatePdpt \/ CreatePd \/ CreatePt)
  <2>1. ASSUME CreatePdpt \/ CreatePd \/ CreatePt PROVE pc \in Creating
    BY <1>0, <2>1, CreateSteps
  <2>2. pc \in Creating => pc \in Handling /\ pc \notin Stops \union {"handle"}
    BY DEF Creating, Handling, Stops
  <2>3. pc \in Creating => ~Fits(pc) /\ ~Fits("access")
    BY DEF Fits
  <2>4. pc \in Creating /\ pfaulting => resume = "access"
    BY <1>0, <2>2 DEF Clean, Progress
  <2> QED BY <1>0, <2>1, <2>2, <2>3, <2>4 DEF Runs
<1>7. IsMem(mem) /\ Recursive(mem) /\ call.page \in Pages
  BY <1>0 DEF Types, CallType, Clean
<1>8. mem_check_pagetable(call.page) <=> TableOf(m, call.page) # NoFrame
  <2>1. At(mem, call.page, 1) = TableOf(mem, call.page)
    BY Down
  <2> QED BY <1>4, <1>7, <2>1, Checks
<1>9. CASE UnmapEntry
  <2>1. /\ i < c.n /\ Writes(call.page, Zero) /\ asked' = asked /\ i' = i + 1 /\ pc' = "unmap"
        /\ mem_check_pagetable(call.page) /\ call'.page = (call.page + 1) % NPages
    BY <1>0, <1>1, <1>9, WriteKind DEF UnmapEntry, Advance, Types, CallType
  <2> HIDE DEF c, m, h
  <2>2. i < h /\ call.page = c.page + i
    <3>1. ~(h <= i)
      <4>1. h <= i => d = h /\ h < c.n
        BY <1>2, <1>3, <2>1 DEF Least
      <4> QED BY <1>3, <1>4, <1>8, <2>1, <4>1
    <3> QED BY <1>2, <1>3, <1>4, <2>1, <3>1 DEF Least
  <2>3. Least(i', h) = i + 1 /\ d = i
    BY <1>2, <1>3, <2>1, <2>2 DEF Least
  <2>4. i' < c.n => call'.page = c.page + Least(i', h)
    <3>1. i + 1 \in Nat /\ call.page + 1 = c.page + (i + 1)
      BY <1>2, <2>2
    <3> QED BY <1>2, <2>1, <2>3, <3>1
  <2>5. \A q \in Pages : TableOf(mem', q) = TableOf(m, q)
    BY <1>4, <2>1 DEF Writes
  <2>6. ASSUME NEW q \in Pages, ~InWindow(q)
        PROVE  EntryOf(mem', q) = IF q \in c.page..(c.page + Least(i', h) - 1) THEN Zero ELSE EntryOf(m, q)
    <3>1. q \in Nat
      BY Spans, SlotsType DEF Pages
    <3>2. q \in c.page..(c.page + Least(i', h) - 1) <=> q \in c.page..(c.page + d - 1) \/ q = call.page
      BY <1>2, <2>2, <2>3, <3>1
    <3> HIDE DEF d
    <3>3. CASE q = call.page
      BY <2>1, <3>2, <3>3 DEF Writes
    <3>4. CASE q # call.page
      <4>1. EntryOf(mem', q) = EntryOf(mem, q)
        BY <2>1, <2>6, <3>4 DEF Writes
      <4> QED BY <1>4, <2>6, <3>2, <3>4, <4>1
    <3> QED BY <3>3, <3>4
  <2>7. c' = c /\ m' = m /\ h' = h
    BY <2>1 DEF c, m, h
  <2> QED BY <2>1, <2>4, <2>5, <2>6, <2>7 DEF UnmapEffect, c, m, h
<1>10. CASE UnmapSkip
  <2>1. /\ i < c.n /\ asked' = asked /\ i' = i + 1 /\ pc' = "unmap" /\ call' = call /\ mem' = mem
        /\ ~mem_check_pagetable(call.page)
    BY <1>1, <1>10 DEF UnmapSkip, table_vars
  <2> HIDE DEF c, m, h
  <2>2. h <= i
    <3>1. i < h => d = i
      BY <1>2, <1>3 DEF Least
    <3>2. i \in 0..(c.n - 1)
      BY <1>2, <2>1
    <3> QED BY <1>2, <1>3, <1>4, <1>8, <2>1, <3>1, <3>2
  <2>3. d = h /\ Least(i', h) = h
    BY <1>2, <1>3, <2>1, <2>2 DEF Least
  <2>4. c' = c /\ m' = m /\ h' = h
    BY <2>1 DEF c, m, h
  <2> HIDE DEF d
  <2> QED BY <1>4, <2>1, <2>3, <2>4 DEF UnmapEffect, c, m, h
<1>11. CASE UNCHANGED <<call, i, asked>>
  <2>1. pc' = "return" => i = c.n
    <3>1. Touch \/ MapCheck \/ Set => pc \in {"access", "map"}
      BY DEF Touch, MapCheck, Set
    <3>2. ~(Touch \/ MapCheck \/ Set)
      BY <1>0, <3>1, CallRuns DEF Fits
    <3>3. UNCHANGED <<vars, boot_vars>> => pc' = pc
      BY DEF vars
    <3>4. UnmapDone => i = call.n
      BY DEF UnmapDone
    <3> QED BY <1>0, <1>1, <1>4, <3>2, <3>3, <3>4, Returns
  <2>2. mem' = mem
    <3>1. ~UnmapEntry
      BY <1>2, <1>11 DEF UnmapEntry, Advance
    <3> QED BY <1>0, <1>5, <1>6, <3>1, Kinds, ReadingKeeps
  <2> HIDE DEF c, m, h
  <2>3. c' = c /\ m' = m /\ h' = h /\ d' = d
    BY <1>11 DEF c, m, h
  <2> HIDE DEF d
  <2> QED BY <1>4, <1>11, <2>1, <2>2, <2>3 DEF UnmapEffect, c, m, h, d
<1> QED BY <1>9, <1>10, <1>11

\* A window is in the windows.
LEMMA WindowIsOne ==
  ASSUME NEW v \in Pages
  PROVE  InWindow(Window(v, 1))
<1>1. /\ Window(v, 1) = Num(RecSlot, Index(v, 4), Index(v, 3), Index(v, 2))
      /\ RecSlot \in Indices /\ Index(v, 4) \in Indices /\ Index(v, 3) \in Indices /\ Index(v, 2) \in Indices
  BY Windows, PageIndices, SlotsType
<1>2. Index(Window(v, 1), 4) = RecSlot
  BY <1>1, NumIndices
<1> QED BY <1>2 DEF InWindow

\* An access, and the fault in the middle of it.
LEMMA TouchSteps ==
  ASSUME Middle, call.op = "touch",
         UNCHANGED <<call, i, asked>>, TouchEffect(asked.mem, asked.call)
  PROVE  TouchEffect(asked.mem, asked.call)'
<1> DEFINE c == asked.call
           m == asked.mem
<1>0. /\ Types /\ Runs /\ Remaining /\ Early /\ Clean /\ Asked /\ Faulted
      /\ [BootNext]_<<vars, boot_vars>> /\ ~spoilt'
  BY DEF Middle
<1>1. c = call /\ c.page \in Pages
  BY <1>0 DEF Asked, Types, CallType
<1>2. /\ \A q \in Pages : ~InWindow(q) => Same(m, q) \/ Made(m, c, q)
      /\ pc = "return" /\ Same(m, c.page) => c.page \in byhand \/ Walk(m, c.page) # NoFrame \/ InWindow(c.page)
  BY DEF TouchEffect
<1>3. ~MapEntry /\ ~UnmapEntry /\ ~Set
  BY <1>0, WriteKind
<1>4. byhand' \subseteq byhand
  BY <1>0, <1>3, ByHand
<1>5. free' \subseteq free /\ DOMAIN mem' = DOMAIN mem
  <2>1. ~BootPhysical
    BY <1>0 DEF BootPhysical, Boot, Early
  <2>2. CASE mem' = mem
    BY <1>0, <2>1, <2>2, FramesShrink
  <2>3. ASSUME NEW f, NEW x, NEW e, Puts(f, x, e) PROVE DOMAIN mem' = DOMAIN mem
    BY <1>0, <2>3, PutEntries
  <2> QED BY <1>0, <2>1, <2>2, <2>3, FramesShrink, Puttings
<1>6. c' = c /\ m' = m
  OBVIOUS
<1> HIDE DEF c, m
<1>7. ASSUME NEW q \in Pages, ~InWindow(q), EntryOf(mem', q) = EntryOf(mem, q)
      PROVE  (Same(m, q) \/ Made(m, c, q))'
  <2>1. CASE Same(m, q)
    BY <1>6, <1>7, <2>1 DEF Same
  <2>2. CASE Made(m, c, q)
    BY <1>4, <1>5, <1>6, <1>7, <2>2 DEF Made
  <2> QED BY <1>2, <1>7, <2>1, <2>2
<1>8. ASSUME pc' = "return"
      PROVE  mem' = mem /\ byhand' = byhand /\ (Touch \/ pc = "return")
  <2>1. ~MapCheck /\ ~UnmapDone
    <3>1. MapCheck \/ UnmapDone => pc \in {"map", "unmap"}
      BY DEF MapCheck, UnmapDone
    <3> QED BY <1>0, <3>1, CallRuns DEF Fits
  <2>2. Touch => mem' = mem /\ byhand' = byhand
    BY DEF Touch, table_vars
  <2>3. UNCHANGED <<vars, boot_vars>> => mem' = mem /\ byhand' = byhand /\ pc' = pc
    BY DEF vars
  <2> QED BY <1>0, <1>3, <1>8, <2>1, <2>2, <2>3, Returns
<1>9. ASSUME pc' = "return", Same(m, c.page)'
      PROVE  (c.page \in byhand \/ Walk(m, c.page) # NoFrame \/ InWindow(c.page))'
  <2>1. mem' = mem /\ byhand' = byhand /\ Same(m, c.page)
    BY <1>6, <1>8, <1>9 DEF Same
  <2>2. CASE pc = "return"
    BY <1>2, <1>6, <2>1, <2>2
  <2>3. CASE Touch
    <3>1. PICK f \in {t[2] : t \in {u \in tlb : u[1] = call.page}} \union ({Walk(mem, call.page)} \ {NoFrame}) : TRUE
      BY <2>3 DEF Touch
    <3>2. call.page \in byhand \/ Walk(mem, call.page) = f
      BY <1>0, <3>1 DEF Clean, Coherent
    <3>3. f # NoFrame
      BY <1>0, <3>1 DEF Types, NoFrame
    <3>4. Walk(mem, call.page) = Walk(m, call.page)
      BY <1>1, <2>1, EntryLeads DEF Same
    <3> QED BY <1>1, <1>6, <2>1, <3>2, <3>3, <3>4
  <2> QED BY <1>8, <1>9, <2>2, <2>3
<1>10. ASSUME NEW q \in Pages, ~InWindow(q)
       PROVE  (Same(m, q) \/ Made(m, c, q))'
  <2>1. CASE mem' = mem
    BY <1>7, <1>10, <2>1
  <2>2. CASE CreatePdpt \/ CreatePd \/ CreatePt
    BY <1>0, <1>7, <1>10, <2>1, <2>2, CreateSteps DEF Grows
  <2>3. CASE HandleEntry
    <3> DEFINE e == [frame |-> new_page, flags |-> {"present"}]
    <3>1. /\ cr2 \in Pages /\ Walk(mem, cr2) = NoFrame
          /\ new_page \in DOMAIN mem /\ new_page \notin free
          /\ InWindow(cr2) => Grows(new_page)
          /\ ~InWindow(cr2) => Writes(cr2, e)
      BY <1>0, <2>3, HandleKind
    <3>2. pc \in Handling /\ pfaulting /\ free' = free /\ byhand' = byhand \ {cr2}
      BY <1>0, <2>3 DEF HandleEntry, Handling, Types, HandlerType
    <3>3. cr2 = c.page
      BY <1>0, <1>1, <3>2 DEF Faulted
    <3>4. CASE InWindow(cr2) \/ q # cr2
      BY <1>7, <1>10, <3>1, <3>4 DEF Grows, Writes
    <3>5. CASE ~InWindow(cr2) /\ q = cr2
      <4>1. EntryOf(mem', q) = e
        BY <3>1, <3>5 DEF Writes
      <4>2. Walk(m, q) = NoFrame
        <5>1. Same(m, q) => Walk(m, q) = Walk(mem, q)
          BY EntryLeads DEF Same
        <5> QED BY <1>2, <1>10, <3>1, <3>5, <5>1 DEF Made
      <4>3. e \in {[frame |-> f, flags |-> {"present"}] : f \in DOMAIN mem' \ free'}
        BY <1>5, <3>1, <3>2
      <4>4. q \notin byhand'
        BY <3>2, <3>5
      <4> QED BY <1>6, <3>3, <3>5, <4>1, <4>2, <4>3, <4>4 DEF Made
    <3> QED BY <3>4, <3>5
  <2> QED BY <1>0, <1>3, <2>1, <2>2, <2>3, Kinds, ReadingKeeps
<1> QED BY <1>9, <1>10 DEF TouchEffect, c, m

\* A setter.
LEMMA SetSteps ==
  ASSUME Middle, call.op \in {"set_entry", "set_frame", "set_flags"},
         UNCHANGED <<call, i, asked>>, SetEffect(asked.mem, asked.call)
  PROVE  SetEffect(asked.mem, asked.call)'
<1> DEFINE c == asked.call
           m == asked.mem
<1>0. /\ Types /\ Runs /\ Remaining /\ Clean /\ Asked /\ Faulted
      /\ [BootNext]_<<vars, boot_vars>> /\ ~spoilt'
  BY DEF Middle
<1>1. c = call /\ c.page \in Pages
  BY <1>0 DEF Asked, Types, CallType
<1>2. /\ pc \notin Stops \union {"return"} => \A q \in Pages : ~InWindow(q) => Same(m, q)
      /\ pc = "return" => \A q \in Pages : ~InWindow(q) => EntryOf(mem, q) \in Wanted(m, c, q)
  BY DEF SetEffect
<1>3. ~MapEntry /\ ~UnmapEntry
  BY <1>0, WriteKind
<1>4. c' = c /\ m' = m
  OBVIOUS
<1> HIDE DEF c, m
<1>5. CASE Set
  <2>1. Writes(call.page, SetTo) /\ pc = "access" /\ pc' = "return"
    BY <1>0, <1>5, WriteKind DEF Set
  <2>2. \A q \in Pages : ~InWindow(q) => Same(m, q)
    BY <1>2, <2>1 DEF Stops
  <2>3. call.page \in Pages /\ ~InWindow(call.page)
    BY <2>1 DEF Writes
  <2>4. SetTo \in Wanted(m, c, call.page)
    <3>1. EntryOf(mem, call.page) = EntryOf(m, call.page)
      BY <2>2, <2>3 DEF Same
    <3>2. /\ call.op = "set_entry" => SetTo = PageEntry([frame |-> call.frame, flags |-> call.flags])
          /\ call.op = "set_frame" => SetTo = [EntryOf(m, call.page) EXCEPT !.frame = call.frame]
          /\ call.op = "set_flags" => SetTo = [EntryOf(m, call.page) EXCEPT !.flags = call.flags]
      BY <1>0, <3>1, SetWrites
    <3>3. CASE c.op = "set_entry"
      BY <1>1, <3>2, <3>3 DEF Wanted
    <3>4. CASE c.op = "set_frame"
      BY <1>1, <3>2, <3>4 DEF Wanted
    <3>5. CASE c.op = "set_flags"
      BY <1>1, <3>2, <3>5 DEF Wanted
    <3> QED BY <1>1, <3>3, <3>4, <3>5
  <2>5. ASSUME NEW q \in Pages, ~InWindow(q) PROVE (EntryOf(mem, q) \in Wanted(m, c, q))'
    <3>1. Wanted(m, c, q)' = Wanted(m, c, q)
      <4>1. c'.op = c.op /\ c.op \in {"set_entry", "set_frame", "set_flags"}
        BY <1>1, <1>4
      <4> QED BY <1>4, <4>1 DEF Wanted
    <3>2. CASE q = call.page
      BY <2>1, <2>4, <3>1, <3>2 DEF Writes
    <3>3. CASE q # call.page
      <4>1. EntryOf(mem', q) = EntryOf(m, q)
        BY <2>1, <2>2, <2>5, <3>3 DEF Writes, Same
      <4>2. Wanted(m, c, q) = {EntryOf(m, q)}
        BY <1>1, <3>3 DEF Wanted
      <4> QED BY <3>1, <4>1, <4>2
    <3> QED BY <3>2, <3>3
  <2> QED BY <2>1, <2>5 DEF SetEffect, c, m
<1>6. CASE ~Set
  <2>1. ASSUME NEW q \in Pages, ~InWindow(q) PROVE EntryOf(mem', q) = EntryOf(mem, q)
    <3>1. CASE mem' = mem
      BY <3>1
    <3>2. CASE CreatePdpt \/ CreatePd \/ CreatePt
      BY <1>0, <2>1, <3>1, <3>2, CreateSteps DEF Grows
    <3>3. CASE HandleEntry
      <4>1. pc \in Handling /\ pfaulting
        BY <1>0, <3>3 DEF HandleEntry, Handling, Types, HandlerType
      <4>2. cr2 = Window(call.page, 1)
        BY <1>0, <4>1 DEF Faulted, Window
      <4>3. InWindow(cr2)
        BY <1>0, <4>2, WindowIsOne DEF Types, CallType
      <4> QED BY <1>0, <2>1, <3>3, <4>3, HandleKind DEF Grows
    <3> QED BY <1>0, <1>3, <1>6, <3>1, <3>2, <3>3, Kinds, ReadingKeeps
  <2>2. pc' = "return" => UNCHANGED <<vars, boot_vars>>
    <3>1. Touch \/ MapCheck \/ UnmapDone => pc \in {"access", "map", "unmap"} /\ (pc = "access" => call.op = "touch")
      BY DEF Touch, MapCheck, UnmapDone
    <3>2. ~(Touch \/ MapCheck \/ UnmapDone)
      BY <1>0, <3>1, CallRuns DEF Fits
    <3> QED BY <1>0, <1>6, <3>2, Returns
  <2>3. pc' \notin Stops \union {"return"} => pc \notin Stops \union {"return"}
    <3>1. pc \in Stops \union {"return"} => Return \/ pc' = pc \/ pc' \in Stops
      BY <1>0, Ends
    <3>2. ~Return
      BY <1>0 DEF Return, NoCall, Ops
    <3> QED BY <3>1, <3>2
  <2>4. pc' \notin Stops \union {"return"} => \A q \in Pages : ~InWindow(q) => Same(m, q)'
    BY <1>2, <1>4, <2>1, <2>3 DEF Same
  <2>5. ASSUME pc' = "return", NEW q \in Pages, ~InWindow(q) PROVE (EntryOf(mem, q) \in Wanted(m, c, q))'
    <3>1. UNCHANGED <<vars, boot_vars>>
      BY <2>2, <2>5
    <3>2. pc = "return" /\ mem' = mem /\ byhand' = byhand /\ free' = free
      BY <2>5, <3>1 DEF vars
    <3>3. Wanted(m, c, q)' = Wanted(m, c, q)
      BY <1>4, <3>2 DEF Wanted
    <3> QED BY <1>2, <2>5, <3>2, <3>3
  <2> QED BY <2>4, <2>5 DEF SetEffect, c, m
<1> QED BY <1>5, <1>6

\* Every instruction leaves of the call what its place in the code says.
LEMMA EffectStep ==
  ASSUME Middle, Effect
  PROVE  Effect'
<1>0. /\ Types /\ Runs /\ Asked /\ [BootNext]_<<vars, boot_vars>>
  BY DEF Middle
<1>1. CASE Return
  <2>1. call'.op = "none"
    BY <1>1 DEF Return, NoCall
  <2> QED BY <2>1 DEF Effect
<1>2. CASE \E c \in Calls \union {TestTouch} : Call(c)
  BY <1>2, EffectStarts
<1>3. CASE UNCHANGED <<call, i, asked>> \/ MapEntry \/ UnmapEntry \/ UnmapSkip
  <2>1. /\ MapEntry => call.op = "map"
        /\ UnmapEntry \/ UnmapSkip => call.op = "unmap"
    <3>1. MapEntry => pc = "map_entry"
      BY DEF MapEntry
    <3>2. UnmapEntry \/ UnmapSkip => pc = "unmap"
      BY DEF UnmapEntry, UnmapSkip
    <3> QED BY <1>0, <3>1, <3>2, CallRuns DEF Fits
  <2>2. call'.op = call.op
    BY <1>0, <1>3 DEF MapEntry, UnmapEntry, UnmapSkip, Advance, Types, CallType
  <2>3. call.op = "map" => MapDone(asked.mem, asked.call)'
    BY <1>3, <2>1, MapSteps DEF Effect
  <2>4. call.op = "unmap" => UnmapEffect(asked.mem, asked.call)'
    BY <1>3, <2>1, UnmapSteps DEF Effect
  <2>5. call.op = "touch" => TouchEffect(asked.mem, asked.call)'
    BY <1>3, <2>1, TouchSteps DEF Effect
  <2>6. call.op \in {"set_entry", "set_frame", "set_flags"} => SetEffect(asked.mem, asked.call)'
    BY <1>3, <2>1, SetSteps DEF Effect
  <2> QED BY <2>2, <2>3, <2>4, <2>5, <2>6 DEF Effect
<1> QED BY <1>0, <1>1, <1>2, <1>3, CallKept

LEMMA EffectInit == BootInit => Effect
BY DEF BootInit, InitWith, NoCall, Effect

\* What was shown of a machine that gives frames without entries.
Called == IInv /\ Asked /\ (~spoilt => Faulted /\ Effect)

\* The invariant of the calls.
LEMMA StepCalled ==
  ASSUME Called, [BootNext]_<<vars, boot_vars>>
  PROVE  Called'
<1>1. IInv /\ Asked /\ Types /\ Runs /\ Remaining /\ Early /\ (~spoilt => Clean /\ Faulted /\ Effect)
  BY DEF Called, IInv
<1>2. IInv' /\ Asked'
  BY <1>1, StepIInv, AskedStep
<1>3. ASSUME ~spoilt' PROVE Faulted' /\ Effect'
  <2>1. ~spoilt /\ Clean'
    BY <1>1, <1>2, <1>3, SpoiltStays DEF IInv, Types
  <2>2. Faulted'
    BY <1>1, <1>3, <2>1, FaultedStep
  <2>3. Middle
    BY <1>1, <1>3, <2>1 DEF Middle
  <2> QED BY <1>1, <2>1, <2>2, <2>3, EffectStep
<1> QED BY <1>2, <1>3 DEF Called

\* When a call returns, the pages it was asked for have the entries it was asked
\* for and every other page has its own, whatever tables had to be made and
\* wherever a fault interrupted it.
THEOREM CallsDoWhatTheyAre == BootSpec => []CallEffect
<1>1. Called => CallEffect
  <2> SUFFICES ASSUME Called, pc = "return", ~spoilt, NEW v \in Watched, ~InWindow(v)
               PROVE  EntryOf(mem, v) \in Wanted(asked.mem, asked.call, v)
    BY DEF CallEffect
  <2> DEFINE c == asked.call
             m == asked.mem
  <2>1. Types /\ Asked /\ Effect /\ v \in Pages
    BY PagingAssumption DEF Called, IInv
  <2>2. /\ c \in Calls \union {TestTouch} /\ call.op = c.op /\ call.n = c.n /\ i \in 0..c.n
        /\ c.n \in Nat /\ c.op \in Ops
    BY <2>1, PagingAssumption DEF Asked, TestTouch, Types, CallType, Ops
  <2> HIDE DEF c, m
  <2>3. CASE c.op = "map"
    <3>1. EntryOf(mem, v) = IF v \in c.page..(c.page + c.n - 1)
                              THEN [frame |-> c.frame + (v - c.page), flags |-> c.flags]
                              ELSE EntryOf(m, v)
      BY <2>1, <2>2, <2>3 DEF Effect, MapDone, c, m
    <3> QED BY <2>3, <3>1 DEF Wanted, InRange, c, m
  <2>4. CASE c.op = "unmap"
    <3>1. /\ EntryOf(mem, v) = IF v \in c.page..(c.page + Least(i, Hole(m, c)) - 1) THEN Zero ELSE EntryOf(m, v)
          /\ i = c.n
      BY <2>1, <2>2, <2>4 DEF Effect, UnmapEffect, c, m
    <3>2. Least(i, Hole(m, c)) = Hole(m, c)
      BY <2>2, <3>1, HoleIs DEF Least
    <3> QED BY <2>4, <3>1, <3>2 DEF Wanted, c, m
  <2>5. CASE c.op = "touch"
    <3>1. /\ Same(m, v) \/ Made(m, c, v)
          /\ Same(m, c.page) => c.page \in byhand \/ Walk(m, c.page) # NoFrame \/ InWindow(c.page)
      BY <2>1, <2>2, <2>5 DEF Effect, TouchEffect, c, m
    <3>2. CASE v = c.page /\ v \notin byhand /\ Walk(m, v) = NoFrame
      BY <2>5, <3>1, <3>2 DEF Wanted, Made, c, m
    <3>3. CASE ~(v = c.page /\ v \notin byhand /\ Walk(m, v) = NoFrame)
      <4>1. Wanted(m, c, v) = {EntryOf(m, v)}
        BY <2>5, <3>3 DEF Wanted
      <4>2. EntryOf(mem, v) = EntryOf(m, v)
        BY <3>1, <3>3 DEF Made, Same
      <4> QED BY <4>1, <4>2 DEF c, m
    <3> QED BY <3>2, <3>3
  <2>6. CASE c.op \in {"set_entry", "set_frame", "set_flags"}
    BY <2>1, <2>2, <2>6 DEF Effect, SetEffect, c, m
  <2> QED BY <2>2, <2>3, <2>4, <2>5, <2>6 DEF Ops
<1>2. BootInit => Called
  BY InitIInv, AskedInit, FaultedInit, EffectInit DEF Called
<1>3. Called /\ [BootNext]_<<vars, boot_vars>> => Called'
  BY StepCalled
<1> QED BY <1>1, <1>2, <1>3, PTL DEF BootSpec

(***************************************************************************)
(* The page of the test.                                                   *)
(***************************************************************************)

\* The steps that write the entry of a page, and what they write.
LEMMA EntryKept ==
  ASSUME Middle, NEW q \in Pages, ~InWindow(q)
  PROVE  \/ EntryOf(mem', q) = EntryOf(mem, q)
         \/ HandleEntry /\ q = cr2 /\ EntryOf(mem', q) = [frame |-> new_page, flags |-> {"present"}]
         \/ /\ MapEntry /\ q = call.page /\ call.op = "map" /\ i < call.n
            /\ EntryOf(mem', q) = [frame |-> call.frame, flags |-> call.flags]
         \/ UnmapEntry /\ q = call.page /\ call.op = "unmap" /\ i < call.n /\ EntryOf(mem', q) = Zero
         \/ /\ Set /\ q = call.page /\ call.op \in {"set_entry", "set_frame", "set_flags"}
            /\ EntryOf(mem', q) = SetTo
<1>0. /\ Types /\ Runs /\ Remaining /\ Clean
      /\ [BootNext]_<<vars, boot_vars>> /\ ~spoilt'
  BY DEF Middle
<1>1. CASE mem' = mem
  BY <1>1
<1>2. CASE CreatePdpt \/ CreatePd \/ CreatePt
  BY <1>0, <1>1, <1>2, CreateSteps DEF Grows
<1>3. CASE HandleEntry
  BY <1>0, <1>3, HandleKind DEF Grows, Writes
<1>4. CASE MapEntry \/ UnmapEntry \/ Set
  BY <1>0, <1>4, WriteKind DEF Writes
<1> QED BY <1>0, <1>1, <1>2, <1>3, <1>4, Kinds, ReadingKeeps

\* A translation is a page with its frame.
LEMMA CachedPairs ==
  ASSUME NEW T, NEW p, NEW f \in {t[2] : t \in {u \in T : u[1] = p}}, T \subseteq Pages \X Nat
  PROVE  <<p, f>> \in T
OBVIOUS

\* What the CPU adds to the translations that it caches.
LEMMA CacheGrows ==
  ASSUME Types, [BootNext]_<<vars, boot_vars>>
  PROVE  \/ tlb' \subseteq tlb
         \/ /\ Touch /\ mem' = mem /\ free' = free /\ new_page' = new_page
            /\ tlb' \subseteq tlb \union ({<<call.page, Walk(mem, call.page)>>} \ {<<call.page, NoFrame>>})
<1> USE DEF Refreshed
<1>1. \A page : Trap(page) => tlb' \subseteq tlb
  BY DEF Trap
<1>2. Fault \/ CreateFault \/ BootCopyFault => tlb' \subseteq tlb
  BY <1>1 DEF Fault, CreateFault, BootCopyFault
<1>3. CreatePdpt \/ CreatePd \/ CreatePt => tlb' \subseteq tlb
  BY DEF CreatePdpt, CreatePd, CreatePt, Create
<1>4. HandleHalt \/ HandleAllocate \/ HandleFault \/ HandleEntry \/ MapCheck \/ MapEntry
        \/ UnmapEntry \/ UnmapSkip \/ UnmapDone \/ Set \/ Return => tlb' \subseteq tlb
  BY DEF HandleHalt, HandleAllocate, HandleFault, HandleEntry, MapCheck, MapEntry,
         UnmapEntry, UnmapSkip, UnmapDone, Set, Return
<1>5. ASSUME Touch
      PROVE  /\ mem' = mem /\ free' = free /\ new_page' = new_page
             /\ tlb' \subseteq tlb \union ({<<call.page, Walk(mem, call.page)>>} \ {<<call.page, NoFrame>>})
  <2>1. PICK f \in {t[2] : t \in {u \in tlb : u[1] = call.page}} \union ({Walk(mem, call.page)} \ {NoFrame}) :
          tlb' = tlb \union {<<call.page, f>>}
    BY <1>5 DEF Touch
  <2>2. UNCHANGED <<mem, free, new_page>>
    BY <1>5 DEF Touch, table_vars, handler_vars
  <2>3. CASE f = Walk(mem, call.page) /\ f # NoFrame
    BY <2>1, <2>2, <2>3
  <2>4. CASE <<call.page, f>> \in tlb
    BY <2>1, <2>2, <2>4
  <2>5. tlb \subseteq Pages \X Nat
    BY DEF Types
  <2> QED BY <2>1, <2>2, <2>3, <2>4, <2>5, CachedPairs
<1>6. \A n : Interrupt(n) => tlb' \subseteq tlb
  BY DEF Interrupt
<1>7. \A c : Call(c) => tlb' \subseteq tlb
  BY DEF Call
<1>8. BootWrite \/ BootRead => tlb' \subseteq tlb
  BY <1>7 DEF BootWrite, BootRead, BootTest
<1>9. BootIdt \/ BootMalloc \/ BootCount \/ BootMap \/ BootCopy \/ BootVirtual \/ BootPhysical
        \/ UNCHANGED <<vars, boot_vars>> => tlb' \subseteq tlb
  BY DEF BootIdt, BootMalloc, BootCount, BootMap, BootCopy, BootVirtual, BootPhysical, paging_vars, vars
<1> HIDE DEF Refreshed
<1>10. BootNext \/ UNCHANGED <<vars, boot_vars>>
  OBVIOUS
<1> QED BY <1>2, <1>3, <1>4, <1>5, <1>6, <1>7, <1>8, <1>9, <1>10, Actions

\* The page of a window shows a table, which no entry of a page leads to; any
\* other frame is reached by one page only.
LEMMA OnePage ==
  ASSUME Types, Clean, Once, NEW p \in Pages, Walk(mem, p) \in Own
  PROVE  /\ Walk(mem, p) \notin free \union {new_page}
         /\ \A q \in Pages : ~InWindow(q) /\ EntryOf(mem, q).frame = Walk(mem, p) => p = q
<1> DEFINE f == Walk(mem, p)
           t == At(mem, p, 1)
<1>0. IsMem(mem) /\ Recursive(mem) /\ Tree(mem) /\ 1 \in 1..4 /\ 1 \in 0..3 /\ NoFrame \notin DOMAIN mem
  BY DEF Types, Clean, IsMem, NoFrame
<1>1. f # NoFrame /\ f # 0
  BY OwnNumbers
<1>2. Index(p, 1) \in Indices /\ \A q \in Pages : Index(q, 1) \in Indices
  BY PageIndices
<1>3. f = Child(mem, t, Index(p, 1))
  BY Down
<1>4. t \in DOMAIN mem /\ mem[t][Index(p, 1)].frame = f
  BY <1>0, <1>1, <1>2, <1>3, Entries
<1>5. UsedTable(mem, t)
  <2>1. PICK u \in Pages, l \in 1..4 : ~InWindow(u) /\ t = At(mem, u, l)
    BY <1>0, AnyTable
  <2> QED BY <1>0, <1>4, <2>1 DEF UsedTable
<1>6. f \notin free \union {new_page}
  BY <1>2, <1>4, <1>5 DEF Once
<1>7. ASSUME NEW q \in Pages, ~InWindow(q), EntryOf(mem, q).frame = f PROVE p = q
  <2> DEFINE s == At(mem, q, 1)
  <2>1. s \in DOMAIN mem /\ mem[s][Index(q, 1)].frame = f
    <3>1. EntryOf(mem, q) = In(mem, s, Index(q, 1))
      BY <1>0, EntryRead
    <3>2. Zero.frame = 0
      BY DEF Zero
    <3> QED BY <1>1, <1>7, <3>1, <3>2 DEF In
  <2>2. UsedTable(mem, s)
    BY <1>0, <1>7, <2>1 DEF UsedTable
  <2>3. s = t /\ Index(q, 1) = Index(p, 1)
    BY <1>2, <1>4, <1>5, <2>1, <2>2 DEF Once
  <2>4. CASE InWindow(p)
    <3>1. PICK u \in Pages, l \in 1..4 : ~InWindow(u) /\ l > 1 /\ t = At(mem, u, l)
      BY <1>0, <2>4, WindowWalks
    <3>2. TableAt(mem, q, 1) = TableAt(mem, u, l) /\ TableAt(mem, q, 1) # NoFrame
      BY <1>0, <2>1, <2>3, <3>1 DEF At
    <3>3. 1 = l
      BY <1>0, <1>7, <3>1, <3>2 DEF Tree
    <3> QED BY <3>1, <3>3
  <2>5. CASE ~InWindow(p)
    <3>1. TableAt(mem, q, 1) = TableAt(mem, p, 1) /\ TableAt(mem, q, 1) # NoFrame
      BY <1>0, <2>1, <2>3 DEF At
    <3>2. \A level \in 2..4 : Index(q, level) = Index(p, level)
      BY <1>0, <1>7, <2>5, <3>1 DEF Tree
    <3>3. Index(q, 2) = Index(p, 2) /\ Index(q, 3) = Index(p, 3) /\ Index(q, 4) = Index(p, 4)
      BY <3>2
    <3> QED BY <2>3, <3>3, PageIndices
  <2> QED BY <2>4, <2>5
<1> QED BY <1>6, <1>7

\* A translation that is added is that of the tables, and the frame of a page
\* that is unmapped is not handed out again: nothing frees frames.
LEMMA CachedStep ==
  ASSUME CallersApart, Middle, Once, Cached
  PROVE  Cached'
<1>0. /\ Types /\ Runs /\ Remaining /\ Early /\ Clean /\ Asked
      /\ [BootNext]_<<vars, boot_vars>> /\ ~spoilt'
  BY DEF Middle
<1>1. Own' = Own /\ \A f \in Own : f # NoFrame /\ f # 0
  BY <1>0, SameMachine, OwnNumbers DEF Own
<1>2. ASSUME NEW t \in tlb, t[2] \in Own
      PROVE  /\ t[2] \notin free' \union {new_page'}
             /\ \A q \in Pages : ~InWindow(q) /\ EntryOf(mem', q).frame = t[2] => t[1] = q
  <2>1. t[2] \notin free \union {new_page}
    BY <1>2 DEF Cached
  <2>2. ~BootPhysical
    BY <1>0, <1>2 DEF BootPhysical, Boot, Early
  <2>3. t[2] \notin free' \union {new_page'}
    BY <1>0, <1>1, <1>2, <2>1, <2>2, FramesShrink
  <2>4. ASSUME NEW q \in Pages, ~InWindow(q), EntryOf(mem', q).frame = t[2] PROVE t[1] = q
    <3>1. EntryOf(mem, q).frame = t[2]
      <4>1. [frame |-> new_page, flags |-> {"present"}].frame = new_page
        OBVIOUS
      <4>2. call.op = "map" /\ i < call.n => [frame |-> call.frame, flags |-> call.flags].frame \notin Own
        BY <1>0, ForeignFrames
      <4>3. Zero.frame = 0
        BY DEF Zero
      <4>4. q = call.page /\ call.op \in {"set_entry", "set_frame", "set_flags"} =>
              SetTo.frame = EntryOf(mem, q).frame \/ SetTo.frame \notin Own
        BY <1>0, ForeignFrames, SetWrites
      <4> QED BY <1>1, <1>2, <2>1, <2>4, <4>1, <4>2, <4>3, <4>4, EntryKept
    <3> QED BY <1>2, <2>4, <3>1 DEF Cached
  <2> QED BY <2>3, <2>4
<1>3. CASE tlb' \subseteq tlb
  BY <1>1, <1>2, <1>3 DEF Cached
<1>4. CASE /\ mem' = mem /\ free' = free /\ new_page' = new_page
           /\ tlb' \subseteq tlb \union ({<<call.page, Walk(mem, call.page)>>} \ {<<call.page, NoFrame>>})
  <2>1. ASSUME NEW t \in tlb', t[2] \in Own, t \notin tlb
        PROVE  /\ t[2] \notin free' \union {new_page'}
               /\ \A q \in Pages : ~InWindow(q) /\ EntryOf(mem', q).frame = t[2] => t[1] = q
    <3>1. t = <<call.page, Walk(mem, call.page)>>
      BY <1>4, <2>1
    <3>2. t[1] = call.page /\ t[2] = Walk(mem, call.page) /\ call.page \in Pages
      BY <1>0, <3>1 DEF Types, CallType
    <3> QED BY <1>0, <1>4, <2>1, <3>2, OnePage
  <2> QED BY <1>1, <1>2, <2>1 DEF Cached
<1> QED BY <1>0, <1>3, <1>4, CacheGrows

\* The copy of the firmware's map grows before any frame is given away.
LEMMA MapKept ==
  ASSUME [BootNext]_<<vars, boot_vars>>
  PROVE  BootCopy \/ mmap' = mmap
<1>1. CASE UNCHANGED boot_vars
  BY <1>1 DEF boot_vars
<1>2. CASE BootStep
  BY <1>2 DEF BootStep, BootIdt, BootMalloc, BootCount, BootMap, BootCopyFault, BootPhysical, BootVirtual,
     BootWrite, BootRead, BootTest
<1> QED BY <1>1, <1>2, SameMachine

\* How kernel_init() comes to its last steps.
LEMMA LastSteps ==
  ASSUME [BootNext]_<<vars, boot_vars>>, at' \in {"read", "up"}
  PROVE  \/ at' = at
         \/ at' = "read" /\ pc' = "access"
         \/ at' = "up" /\ at = "read" /\ pc = "idle"
<1>1. CASE UNCHANGED boot_vars
  BY <1>1 DEF boot_vars
<1>2. CASE BootStep
  <2>1. ~(BootIdt \/ BootMalloc \/ BootCount \/ BootMap \/ BootCopy \/ BootPhysical \/ BootVirtual)
    BY DEF BootIdt, BootMalloc, BootCount, BootMap, BootCopy, BootPhysical, BootVirtual, Boot
  <2>2. BootCopyFault => at' = at
    BY DEF BootCopyFault, Boot
  <2>3. BootWrite => at' = "read" /\ pc' = "access"
    BY DEF BootWrite, BootTest, Boot, Call, TestTouch
  <2>4. BootRead => at' = "up" /\ at = "read" /\ pc = "idle"
    BY DEF BootRead, BootTest, Boot
  <2> QED BY <1>2, <2>1, <2>2, <2>3, <2>4 DEF BootStep
<1> QED BY <1>1, <1>2, SameMachine

\* What comes to a state in which nothing runs.
LEMMA Idles ==
  ASSUME [BootNext]_<<vars, boot_vars>>, pc' = "idle"
  PROVE  pc = "idle" \/ Return \/ HandleEntry
<1>1. \A page : ~Trap(page)
  BY DEF Trap
<1>2. ~(Fault \/ CreateFault \/ BootCopyFault)
  BY <1>1 DEF Fault, CreateFault, BootCopyFault
<1>3. ~(CreatePdpt \/ CreatePd \/ CreatePt)
  BY DEF CreatePdpt, CreatePd, CreatePt, Create
<1>4. ~(HandleHalt \/ HandleAllocate \/ HandleFault \/ Touch \/ MapCheck \/ MapEntry
         \/ UnmapEntry \/ UnmapSkip \/ UnmapDone \/ Set)
  BY DEF HandleHalt, HandleAllocate, HandleFault, Touch, MapCheck, MapEntry,
         UnmapEntry, UnmapSkip, UnmapDone, Set
<1>5. \A n : ~Interrupt(n)
  BY DEF Interrupt
<1>6. \A c : Call(c) => pc = "idle"
  BY DEF Call
<1>7. BootWrite \/ BootRead => pc = "idle"
  BY DEF BootWrite, BootRead, BootTest, Boot
<1>8. BootIdt \/ BootMalloc \/ BootCount \/ BootMap \/ BootCopy \/ BootVirtual \/ BootPhysical
        \/ UNCHANGED <<vars, boot_vars>> => pc' = pc
  BY DEF BootIdt, BootMalloc, BootCount, BootMap, BootCopy, BootVirtual, BootPhysical, paging_vars, vars
<1>9. BootNext \/ UNCHANGED <<vars, boot_vars>>
  OBVIOUS
<1> QED BY <1>2, <1>3, <1>4, <1>5, <1>6, <1>7, <1>8, <1>9, Actions

\* Only the fault of the test writes the entry of its page, but for the setters.
LEMMA TestWritten ==
  ASSUME TestKept, Middle, TestPage \notin byhand'
  PROVE  \/ Walk(mem', TestPage) = Walk(mem, TestPage) /\ TestPage \notin byhand
         \/ /\ Walk(mem', TestPage) = new_page
            /\ new_page \in DOMAIN mem \ DOMAIN BootTables
<1>0. /\ Types /\ Runs /\ Clean /\ Asked
      /\ [BootNext]_<<vars, boot_vars>> /\ ~spoilt'
  BY DEF Middle
<1>1. TestPage \in Pages /\ ~InWindow(TestPage)
  BY KernelAssumption, TestAssumption
<1>2. /\ call.n \in Nat /\ i \in 0..call.n
      /\ (MapEntry => call.op = "map" /\ i < call.n)
      /\ (UnmapEntry => call.op = "unmap" /\ i < call.n)
  BY <1>0, WriteKind DEF Types, CallType, Middle
<1>3. MapEntry \/ UnmapEntry => call.page # TestPage
  <2> SUFFICES ASSUME MapEntry \/ UnmapEntry PROVE call.page # TestPage
    OBVIOUS
  <2> DEFINE c == asked.call
  <2>1. /\ c \in Calls \union {TestTouch} /\ c.op \in {"map", "unmap"} /\ i < c.n /\ call.n = c.n
        /\ call.page = c.page + i \/ call.page \in c.page..(c.page + i)
    BY <1>0, <1>2 DEF Asked
  <2> HIDE DEF c
  <2>2. c \in Calls /\ c.page \in Nat /\ c.n \in Nat
    BY <2>1, RangePages
  <2>3. call.page \in c.page..(c.page + c.n - 1)
    BY <1>2, <2>1, <2>2
  <2> QED BY <2>1, <2>2, <2>3 DEF TestKept
<1>4. Set => call.page # TestPage
  BY DEF Set
<1>5. CASE EntryOf(mem', TestPage) = EntryOf(mem, TestPage) /\ TestPage \notin byhand
  BY <1>5, EntryLeads
<1>6. CASE HandleEntry /\ cr2 = TestPage
  <2> DEFINE e == [frame |-> new_page, flags |-> {"present"}]
  <2>1. new_page \in DOMAIN mem \ DOMAIN BootTables /\ Writes(TestPage, e)
    BY <1>0, <1>1, <1>6, HandleKind
  <2>2. EntryOf(mem', TestPage) = e /\ Present(e) /\ e.frame = new_page
    BY <2>1 DEF Writes, Present
  <2> QED BY <2>1, <2>2, EntryLeads
<1>7. TestPage \in byhand => HandleEntry /\ cr2 = TestPage
  <2>1. MapEntry \/ UnmapEntry => byhand' = byhand \ {call.page}
    BY DEF MapEntry, UnmapEntry
  <2>2. Set => byhand' = byhand \union {call.page}
    BY DEF Set
  <2>3. HandleEntry => byhand' = byhand \ {cr2}
    BY DEF HandleEntry
  <2> QED BY <1>0, <1>3, <2>1, <2>2, <2>3, ByHand
<1> QED BY <1>1, <1>3, <1>4, <1>5, <1>6, <1>7, EntryKept

\* Only the handler, and the callers' setters, write the entry of the test page.
LEMMA TestedStep ==
  ASSUME TestKept, Middle, Outcome, Copy, Tested
  PROVE  Tested'
<1>0. /\ Types /\ Runs /\ Early /\ Clean /\ Asked /\ [BootNext]_<<vars, boot_vars>> /\ ~spoilt'
  BY DEF Middle
<1>1. free' \union {new_page'} \subseteq Reported' \union {NoFrame}
  <2>1. CASE BootPhysical
    <3>1. free' = Reported /\ mmap' = mmap /\ new_page' = new_page
      BY <2>1 DEF BootPhysical, Reported, handler_vars
    <3> QED BY <3>1 DEF Tested, Reported
  <2>2. CASE BootCopy
    <3>1. free' = free /\ new_page' = new_page /\ free = {} /\ ~pfaulting
      BY <1>0, <2>2 DEF BootCopy, Boot, paging_vars, vars, Early
    <3> QED BY <1>0, <3>1 DEF Types, HandlerType
  <2>3. CASE ~BootPhysical /\ mmap' = mmap
    BY <1>0, <2>3, FramesShrink DEF Tested, Reported
  <2> QED BY <1>0, <2>1, <2>2, <2>3, MapKept
<1>2. ASSUME TestPage \notin byhand'
      PROVE  Walk(mem', TestPage) \in {NoFrame} \union (Reported' \ DOMAIN BootTables)
  <2>1. CASE BootCopy
    <3>1. at = "copy" /\ mem' = mem
      BY <2>1 DEF BootCopy, Boot, paging_vars, vars
    <3>2. Walk(mem, TestPage) = NoFrame
      BY <3>1 DEF Outcome, Starved, Booting
    <3> QED BY <3>1, <3>2
  <2>2. CASE mmap' = mmap
    <3>1. new_page \in DOMAIN mem => new_page # NoFrame
      BY <1>0 DEF Types, IsMem, NoFrame
    <3> QED BY <1>2, <2>2, <3>1, TestWritten DEF Tested, Reported
  <2> QED BY <1>0, <2>1, <2>2, MapKept
<1>3. ASSUME at' = "up" \/ (at' = "read" /\ pc' \in {"return", "idle"}), TestPage \notin byhand'
      PROVE  Walk(mem', TestPage) # NoFrame
  <2>1. CASE Walk(mem', TestPage) = new_page /\ new_page \in DOMAIN mem
    BY <1>0, <2>1 DEF Types, IsMem, NoFrame
  <2>2. CASE Walk(mem', TestPage) = Walk(mem, TestPage) /\ TestPage \notin byhand
    <3>1. CASE at = "up" \/ (at = "read" /\ pc \in {"return", "idle"})
      BY <2>2, <3>1 DEF Tested
    <3>2. CASE at' = at /\ at = "read" /\ pc' = "return" /\ pc # "return"
      <4>1. MapCheck \/ UnmapDone \/ Set => pc \in {"map", "unmap", "access"} /\ (pc = "access" => call.op # "touch")
        BY DEF MapCheck, UnmapDone, Set
      <4>2. call.op = "none" \/ (call.op = "touch" /\ call.page = TestPage)
        BY <3>2 DEF Outcome
      <4>3. ~(MapCheck \/ UnmapDone \/ Set)
        BY <1>0, <4>1, <4>2, CallRuns DEF Fits, Ops
      <4>4. UNCHANGED <<vars, boot_vars>> => pc' = pc
        BY DEF vars
      <4>5. Touch
        BY <1>0, <3>2, <4>3, <4>4, Returns
      <4>6. PICK f \in {t[2] : t \in {u \in tlb : u[1] = call.page}} \union ({Walk(mem, call.page)} \ {NoFrame}) : TRUE
        BY <4>5 DEF Touch
      <4>7. call.page = TestPage
        BY <4>2, <4>5 DEF Touch
      <4>8. Walk(mem, TestPage) = f
        BY <1>0, <2>2, <4>6, <4>7 DEF Clean, Coherent
      <4>9. f # NoFrame
        BY <1>0, <4>6 DEF Types, NoFrame
      <4> QED BY <2>2, <4>8, <4>9
    <3>3. CASE at' = at /\ at = "read" /\ pc' = "idle" /\ pc # "idle"
      <4>1. Return => pc = "return"
        BY DEF Return
      <4>2. HandleEntry => pc' = resume /\ pc \in Handling /\ pfaulting
        BY <1>0 DEF HandleEntry, Handling, Types, HandlerType
      <4>3. ~HandleEntry
        BY <1>0, <3>3, <4>2 DEF Clean, Progress
      <4> QED BY <1>0, <3>1, <3>3, <4>1, <4>3, Idles
    <3> QED BY <1>0, <1>3, <3>1, <3>2, <3>3, LastSteps
  <2> QED BY <1>3, <2>1, <2>2, TestWritten
<1> QED BY <1>1, <1>2, <1>3 DEF Tested

LEMMA TestedInit ==
  ASSUME BootInit
  PROVE  Cached /\ Tested
<1>1. free = {} /\ new_page = NoFrame /\ tlb = {} /\ at = "idt"
  BY DEF BootInit, InitWith
<1>2. Walk(mem, TestPage) = NoFrame
  BY <1>1, OutcomeInit DEF Outcome, Starved, Booting
<1> QED BY <1>1, <1>2 DEF Cached, Tested

\* What is reported is known to the model.
LEMMA ReportedFrames ==
  ASSUME Types, Copy
  PROVE  Reported \subseteq DOMAIN BootTables \union DOMAIN machine.memory
<1>1. \A r \in Range(mmap) : r \in Range(machine.regions) /\ Usable(r)
  BY DEF Copy, Range
<1>2. machine \in Machines
  BY DEF Types
<1> QED BY <1>1, <1>2, MemoryAssumption DEF Reported

LEMMA ReportedUsable ==
  ASSUME Copy
  PROVE  Reported \subseteq UsableFrames
BY DEF Copy, Range, Reported, UsableFrames

\* The page-fault test of kernel_init() reads what it wrote: its page has one of
\* the frames that the allocator makes of the firmware's usable regions, which
\* nobody else has, and the CPU caches no other for it.
THEOREM TestPasses ==
  ASSUME CallersApart, TestKept
  PROVE  BootSpec => []TestPassed
<1> DEFINE Passing == Called /\ Outcome /\ Untouched /\ (~spoilt => Once /\ Cached /\ Tested)
<1>1. Passing => TestPassed
  <2> SUFFICES ASSUME Passing, at = "up", pc = "idle", ~spoilt, TestPage \notin byhand
               PROVE  /\ Walk(mem, TestPage) \in UsableFrames \ free
                      /\ \A t \in tlb : t[1] = TestPage <=> t[2] = Walk(mem, TestPage)
    <3> HIDE DEF Passing
    <3> QED BY DEF TestPassed
  <2> DEFINE w == Walk(mem, TestPage)
  <2>1. Types /\ Copy /\ Clean /\ Once /\ Cached /\ Tested
    BY DEF Called, IInv
  <2>2. TestPage \in Pages /\ ~InWindow(TestPage)
    BY KernelAssumption, TestAssumption
  <2>3. w \in Reported \ DOMAIN BootTables /\ w # NoFrame
    BY <2>1 DEF Tested
  <2>4. w \in Own
    BY <2>1, <2>3, ReportedFrames DEF Own
  <2>5. w \notin free
    BY <2>1, <2>2, <2>4, OnePage
  <2>6. EntryOf(mem, TestPage).frame = w
    BY <2>3, EntryLeads
  <2>7. ASSUME NEW t \in tlb PROVE t[1] = TestPage <=> t[2] = w
    BY <2>1, <2>2, <2>4, <2>6 DEF Clean, Coherent, Cached
  <2> QED BY <2>1, <2>3, <2>5, <2>7, ReportedUsable
<1>2. BootInit => Passing
  <2>1. BootInit => Called
    BY InitIInv, AskedInit, FaultedInit, EffectInit DEF Called
  <2> QED BY <2>1, OutcomeInit, UntouchedInit, OnceInit, TestedInit
<1>3. Passing /\ [BootNext]_<<vars, boot_vars>> => Passing'
  <2> SUFFICES ASSUME Passing, [BootNext]_<<vars, boot_vars>>
               PROVE  Passing'
    OBVIOUS
  <2>1. IInv /\ Asked /\ Types /\ Runs /\ Remaining /\ Early /\ Copy /\ Outcome /\ Untouched /\ Called'
    BY StepCalled DEF Called, IInv
  <2>2. Outcome' /\ Untouched'
    BY <2>1, OutcomeStep, UntouchedStep
  <2>3. ASSUME ~spoilt' PROVE Once' /\ Cached' /\ Tested'
    <3>1. ~spoilt /\ Clean /\ Faulted /\ Once /\ Cached /\ Tested
      BY <2>1, <2>3, SpoiltStays DEF Called, IInv, Types
    <3>2. Middle
      BY <2>1, <2>3, <3>1 DEF Middle
    <3>3. Once'
      BY <2>1, <2>3, <3>1, OnceStep
    <3>4. Cached' /\ Tested'
      BY <2>1, <3>1, <3>2, CachedStep, TestedStep
    <3> QED BY <3>3, <3>4
  <2> QED BY <2>1, <2>2, <2>3
<1> HIDE DEF Passing
<1> QED BY <1>1, <1>2, <1>3, PTL DEF BootSpec

(***************************************************************************)
(* The interrupt table: the last registration of a vector is its gate, and *)
(* every registration names a handler.                                     *)
(***************************************************************************)

\* What stays where it is when more registrations follow.
LEMMA Prefixed ==
  ASSUME NEW P, NEW a \in Seq(P), NEW b \in Seq(P), NEW n \in 1..Len(a)
  PROVE  a \o b \in Seq(P) /\ n \in 1..Len(a \o b) /\ (a \o b)[n] = a[n]
BY ConcatProperties

\* Every call of initialize_idt() names a handler.
LEMMA HandlersNamed ==
  /\ \E l \in Nat : DOMAIN Registrations = 1..l
  /\ \A j \in DOMAIN Registrations : Registrations[j][2] # NoGate
  /\ \E j \in DOMAIN Registrations : Registrations[j][1] = 13
<1> DEFINE a == << <<0, "div_zero">>, <<1, "debug">>, <<2, "nmi">>, <<3, "breakpoint">>, <<4, "overflow">>,
     <<5, "boundrange">>, <<6, "invalidop">>, <<7, "devnotavail">>, <<8, "dfault">>,
     <<10, "invalidTSS">>, <<11, "segnotpresent">>, <<12, "stackseg">>, <<13, "gpfault">>,
     <<14, "pagefault">>, <<15, "reserved">>, <<16, "fpexcept">>, <<17, "align">>,
     <<18, "machine">>, <<19, "simd_fp">>, <<20, "virt">> >>
           b == [k \in 1..11 |-> <<20 + k, "reserved">>]
           c == << <<30, "security">> >>
           d == [k \in 1..16 |-> <<31 + k, "irq">>]
           e == << <<255, "test">> >>
           H == {"div_zero", "debug", "nmi", "breakpoint", "overflow", "boundrange", "invalidop",
     "devnotavail", "dfault", "invalidTSS", "segnotpresent", "stackseg", "gpfault", "pagefault",
     "reserved", "fpexcept", "align", "machine", "simd_fp", "virt", "security", "irq", "test"}
           P == Nat \X H
<1>p. \A n \in Nat : \A s \in H : <<n, s>> \in P
  OBVIOUS
<1>h. \A s \in H : s # NoGate
  BY DEF NoGate
<1>n. /\ "div_zero" \in H /\ "debug" \in H /\ "nmi" \in H /\ "breakpoint" \in H /\ "overflow" \in H
      /\ "boundrange" \in H /\ "invalidop" \in H /\ "devnotavail" \in H /\ "dfault" \in H
      /\ "invalidTSS" \in H /\ "segnotpresent" \in H /\ "stackseg" \in H /\ "gpfault" \in H
      /\ "pagefault" \in H /\ "reserved" \in H /\ "fpexcept" \in H /\ "align" \in H /\ "machine" \in H
      /\ "simd_fp" \in H /\ "virt" \in H /\ "security" \in H /\ "irq" \in H /\ "test" \in H
  OBVIOUS
<1> HIDE DEF H, P
<1>a. a \in Seq(P) /\ Len(a) = 20 /\ a[13] = <<13, "gpfault">>
  <2>1. Len(a) = 20 /\ a[13] = <<13, "gpfault">>
    OBVIOUS
  <2>2. /\ a[1] \in P /\ a[2] \in P /\ a[3] \in P /\ a[4] \in P /\ a[5] \in P /\ a[6] \in P /\ a[7] \in P
        /\ a[8] \in P /\ a[9] \in P /\ a[10] \in P
    BY <1>p, <1>n
  <2>3. /\ a[11] \in P /\ a[12] \in P /\ a[13] \in P /\ a[14] \in P /\ a[15] \in P /\ a[16] \in P
        /\ a[17] \in P /\ a[18] \in P /\ a[19] \in P /\ a[20] \in P
    BY <1>p, <1>n
  <2>4. \A k \in 1..20 : a[k] \in P
    <3> HIDE DEF a
    <3> QED BY <2>2, <2>3
  <2>5. a = [k \in 1..20 |-> a[k]]
    OBVIOUS
  <2> QED BY <2>1, <2>4, <2>5, IsASeq
<1>b. b \in Seq(P)
  <2>1. \A k \in 1..11 : <<20 + k, "reserved">> \in P
    BY <1>p, <1>n
  <2> QED BY <2>1, IsASeq
<1>c. c \in Seq(P)
  BY <1>p, <1>n
<1>d. d \in Seq(P)
  <2>1. \A k \in 1..16 : <<31 + k, "irq">> \in P
    BY <1>p, <1>n
  <2> QED BY <2>1, IsASeq
<1>e. e \in Seq(P)
  BY <1>p, <1>n
<1>1. Registrations = (((a \o b) \o c) \o d) \o e
  BY DEF Registrations
<1> HIDE DEF a, b, c, d, e
<1> HIDE DEF H
<1> DEFINE ab == a \o b
           abc == ab \o c
           abcd == abc \o d
<1>2. ab \in Seq(P) /\ 13 \in 1..Len(ab) /\ ab[13] = a[13]
  <2>1. a \in Seq(P) /\ 13 \in 1..Len(a)
    BY <1>a
  <2> QED BY <2>1, <1>b, Prefixed
<1> HIDE DEF ab
<1>3. abc \in Seq(P) /\ 13 \in 1..Len(abc) /\ abc[13] = a[13]
  BY <1>2, <1>c, Prefixed
<1> HIDE DEF abc
<1>4. abcd \in Seq(P) /\ 13 \in 1..Len(abcd) /\ abcd[13] = a[13]
  BY <1>3, <1>d, Prefixed
<1> HIDE DEF abcd
<1>5. Registrations = abcd \o e
  BY <1>1 DEF ab, abc, abcd
<1>6. Registrations \in Seq(P) /\ 13 \in 1..Len(Registrations) /\ Registrations[13] = <<13, "gpfault">>
  BY <1>4, <1>5, <1>e, <1>a, Prefixed
<1>7. \A j \in DOMAIN Registrations : Registrations[j][2] # NoGate
  BY <1>6, <1>h DEF P
<1>8. DOMAIN Registrations = 1..Len(Registrations) /\ 13 \in DOMAIN Registrations /\ Len(Registrations) \in Nat
  BY <1>6
<1>9. Registrations[13][1] = 13
  BY <1>6
<1> QED BY <1>7, <1>8, <1>9

\* A set of registrations that is not empty has a last one.
LEMMA GreatestElement ==
  ASSUME NEW l \in Nat, NEW T \in SUBSET (1..l), T # {}
  PROVE  Max(T) \in T
<1> DEFINE U == {l - x : x \in T}
<1>1. U \in SUBSET Nat /\ U # {}
  <2>1. \A x \in T : l - x \in Nat
    OBVIOUS
  <2> QED BY <2>1
<1>2. PICK x \in T : Min(U) = l - x
  BY <1>1, LeastElement
<1>3. \A y \in T : l - x <= l - y
  BY <1>1, <1>2, LeastElement
<1>4. x \in T /\ \A y \in T : x >= y
  BY <1>3
<1> QED BY <1>4 DEF Max

\* Once initialize_idt() is done every vector has a gate, its own or that of the
\* general protection fault.
LEMMA GatesFilled == \A n \in 0..255 : Gate(n) # NoGate
<1>1. ASSUME NEW n \in 0..255, Filling(n) # {} PROVE idt[n] # NoGate
  <2>1. PICK l \in Nat : Filling(n) \subseteq 1..l
    BY HandlersNamed DEF Filling
  <2>2. Max(Filling(n)) \in Filling(n)
    BY <1>1, <2>1, GreatestElement
  <2> QED BY <1>1, <2>2, HandlersNamed DEF idt, Filling
<1>2. Filling(13) # {}
  BY HandlersNamed DEF Filling
<1> QED BY <1>1, <1>2 DEF Gate

\* Once initialize_idt() is done no interrupt resets the machine.
THEOREM NoResetLater == BootSpec => []ResetsEarly
<1>1. BootInit => ResetsEarly
  BY DEF BootInit, InitWith, ResetsEarly
<1>2. ASSUME IInv, ResetsEarly, [BootNext]_<<vars, boot_vars>>
      PROVE  ResetsEarly'
  <2>1. CASE \E n \in Vectors : Interrupt(n)
    <3>1. PICK n \in Vectors : Interrupt(n)
      BY <2>1
    <3>2. Gate(n) # NoGate
      BY GatesFilled, KernelAssumption
    <3> QED BY <3>1, <3>2 DEF Interrupt, ResetsEarly, Loaded, boot_vars
  <2>2. CASE UNCHANGED <<vars, boot_vars>>
    BY <1>2, <2>2 DEF ResetsEarly, vars, boot_vars
  <2>3. CASE BootStep
    <3>1. pc = "idle" /\ pc' \in {"idle", "handle", "access"}
      BY <2>3 DEF BootStep, Boot, BootIdt, BootMalloc, BootCount, BootMap, BootCopy, BootCopyFault, Trap,
         BootPhysical, BootVirtual, BootWrite, BootRead, BootTest, Call, TestTouch, paging_vars, vars
    <3> QED BY <3>1 DEF ResetsEarly
  <2>4. CASE PagingStep
    <3>1. resume # "reset"
      BY <1>2 DEF IInv, Types, HandlerType, Instruction
    <3>2. pc' # "reset"
      BY <2>4, <3>1, Zenon DEF PagingStep, Step, Fault, CreatePdpt, CreatePd, CreatePt, CreateFault, Create,
         Trap, HandleHalt, HandleAllocate, HandleFault, HandleEntry, Touch, MapCheck, MapEntry, UnmapEntry,
         UnmapSkip, UnmapDone, Set, Return
    <3> QED BY <3>2 DEF ResetsEarly
  <2>5. ASSUME NEW c \in Calls, Call(c) PROVE ResetsEarly'
    BY <2>5 DEF Call, ResetsEarly
  <2> QED BY <1>2, <2>1, <2>2, <2>3, <2>4, <2>5 DEF BootNext, Stopped
<1> QED BY <1>1, <1>2, Invariant, PTL DEF BootSpec
=============================================================================

------------------------------ MODULE MCKernel ------------------------------
(***************************************************************************)
(* A machine whose tables have four entries: the recursive slot is 2, the  *)
(* kernel is in slot 3.  Frames 1 to 6 and 14 are tables of 64_init.s.     *)
(***************************************************************************)
EXTENDS Kernel

Page(a, b, c, d) == (((((a * Slots) + b) * Slots) + c) * Slots) + d
Leads(f) == [frame |-> f, flags |-> {"present"}]
Leaf(f)  == [frame |-> f, flags |-> {"present", "rw", "global"}]
Tab(es)  == [x \in 0..(Slots - 1) |-> IF x \in DOMAIN es THEN es[x] ELSE Zero]

MCBoot ==
   1 :> Tab(0 :> Leads(2) @@ 2 :> Leads(1) @@ 3 :> Leads(5))
@@ 2 :> Tab(0 :> Leads(3))
@@ 3 :> Tab(0 :> Leads(4))
@@ 4 :> Tab(1 :> Leaf(30) @@ 2 :> Leaf(31))
@@ 5 :> Tab(0 :> Leads(6))
@@ 6 :> Tab(0 :> Leads(14))
@@ 14 :> Tab(0 :> Leaf(32) @@ 1 :> Leaf(33))

Clear(P) == [f \in P |-> Tab(<<>>)]
Stale == Tab(0 :> Leads(11))

R(type, base, length) == [type |-> type, base_addr |-> base, length |-> length]

\* Regions that are no powers of two and blocks that are not aligned, which give
\* 20..23 for 21..24 and 16..17 for 17..18, seven frames with 24: the page-fault
\* test takes three, a mapping of A and B four; low memory, and a frame that is
\* not clear; a frame that is in use; few frames; too many regions; none.
MCMachines == {
  [regions |-> <<R(2, 8, 4), R(1, 21, 5), R(1, 17, 3), R(1, 24, 1)>>, memory |-> Clear((8..11) \union (16..17) \union (20..24))],
  [regions |-> <<R(1, 0, 8), R(1, 9, 5), R(1, 17, 2)>>, memory |-> [Clear((8..11) \union (16..17)) EXCEPT ![17] = Stale]],
  [regions |-> <<R(1, 9, 4), R(1, 14, 2)>>, memory |-> 14 :> MCBoot[14] @@ Clear((8..11) \union {15})],
  [regions |-> <<R(1, 12, 2), R(1, 10, 2)>>, memory |-> Clear(10..13)],
  [regions |-> <<R(1, 10, 2)>>, memory |-> Clear(10..11)],
  [regions |-> <<R(1, 10, 1), R(1, 11, 1), R(1, 12, 1), R(1, 13, 1)>>, memory |-> Clear(10..13)],
  [regions |-> <<R(1, 0, 8)>>, memory |-> Clear({})]}

MCTestPage == Page(3, 1, 0, 0)

A == Page(1, 0, 0, 3)
B == Page(1, 0, 1, 0)

MCWatched == {0, A - 1, A, B, Page(3, 0, 0, 1), MCTestPage, Page(2, 1, 0, 0), Page(2, 2, 2, 1)}

C(op, page, frame, n, flags) == [op |-> op, page |-> page, frame |-> frame, n |-> n, flags |-> flags]

\* B follows A, in a table of its own.
MCCalls == {
  C("touch", 0, 0, 1, {}),
  C("touch", A, 0, 1, {}),
  C("map", A, 40, 2, {"present", "rw"}),
  C("unmap", A - 1, 0, 3, {}),
  C("set_entry", B, 44, 1, {"present", "avl"}),
  C("set_frame", B, 45, 1, {}),
  C("set_flags", A, 0, 1, {})}

\* These callers keep apart from the machines' frames, and from the test.
ASSUME MCCallersAssumption == CallersApart /\ TestKept
=============================================================================

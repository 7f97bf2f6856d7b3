--------------------------- MODULE FrameAllocator ---------------------------
(***************************************************************************)
(* What the physical memory manager promises, with no word of how: memory  *)
(* is made known while the kernel boots; after that a call takes a free    *)
(* extent of frames or gives back one it holds, in one step.  A frame is   *)
(* never handed out twice and none is lost.                                *)
(***************************************************************************)
CONSTANT Extents  \* the sets of frames that are handed out in one piece

VARIABLES
  up,    \* initialize() has returned
  free,  \* the free frames
  taken  \* the extents that callers hold

vars == <<up, free, taken>>

Init == up = FALSE /\ free = {} /\ taken = {}

\* initialize() adds the frames that it makes a block of.
AddMemory(E) ==
  /\ ~up
  /\ E \intersect free = {}
  /\ free' = free \union E
  /\ UNCHANGED <<up, taken>>

Open == ~up /\ up' = TRUE /\ UNCHANGED <<free, taken>>

\* allocate() and reserve().
Take(E) ==
  /\ up
  /\ E \subseteq free
  /\ free' = free \ E
  /\ taken' = taken \union {E}
  /\ UNCHANGED up

\* free().
Give(E) ==
  /\ up
  /\ E \in taken
  /\ taken' = taken \ {E}
  /\ free' = free \union E
  /\ UNCHANGED up

Next == \/ Open
        \/ \E E \in Extents : AddMemory(E) \/ Take(E) \/ Give(E)

Spec == Init /\ [][Next]_vars
=============================================================================

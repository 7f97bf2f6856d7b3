-------------------------- MODULE MCPhysicalMemory --------------------------
(***************************************************************************)
(* Constant values for the runs of PhysicalMemory.                         *)
(***************************************************************************)
EXTENDS PhysicalMemory

\* 2^k.
MCBlockSize[k \in 0..ALLOC_MAX_ORDER] == IF k = 0 THEN 1 ELSE 2 * MCBlockSize[k-1]

R(beginning, size) == [beginning |-> beginning, size |-> size]

\* Regions that start anywhere: below the size of their block, with a rest
\* that is dropped, two of them, an empty one, none at all, one so large that
\* it is cut into single frames.
AnyMaps == { <<R(3, 6)>>, <<R(1, 5), R(9, 3)>>, <<R(0, 4), R(4, 4)>>,
             <<R(3, 0), R(5, 2)>>, <<>>, <<R(2, 9)>> }

\* Maps that have exact blocks for what is asked of them, single frames, pairs
\* and fours: aligned ones of which no two blocks could be merged; one that is
\* not aligned; two blocks that can be merged.
ExactMaps == { <<R(0, 8)>>, <<R(8, 6), R(2, 2)>>, <<R(4, 1), R(12, 5)>>,
               <<R(4, 8)>>, <<R(0, 4), R(4, 4)>> }

\* The callers of reserve() ask for these.
ExactReservations == {<<1, 1>>, <<6, 2>>}

\* Regions of memory above LowFrames, as kernel_init() selects them.
HighMaps == { <<R(4, 8)>>, <<R(4, 3), R(8, 4)>> }

\* The frames below 1 MiB: 256 of them with ALLOC_MAX_ORDER = 18, 4 with 3.
LowFrames == 4

\* The callers of reserve() ask for these.
SomeReservations == {<<1, 1>>, <<5, 2>>, <<6, 1>>, <<4, 4>>}

\* "silently drop pages in the 1st MiB": memory below it is not handed out,
\* kernel_init() having left it out of the memory map.
LowMemoryDropped == \A b \in held : Extent(b) \intersect 0..(LowFrames - 1) = {}
=============================================================================

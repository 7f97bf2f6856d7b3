-------------------------- MODULE MCVirtualMemory --------------------------
(***************************************************************************)
(* What comments in virtual_mem.cpp say of the program, and it does not do. *)
(***************************************************************************)
EXTENDS VirtualMemory

\* Sizes from a page to more pages than there are.
SomeSizes == {1, 2, 3, 4, RegSize + 1}

\* Regions in the middle of the higher half, and ones that end with it.
SomePlaces == {HHStart, HHStart + 2, AddrPages - 3, AddrPages - 1}

\* "Search for the first unallocated block of vmem large enough to fit"
\* (virtual_mem.cpp:56): allocate_region() comes to an end.
AllocateReturns == pc # "spin in allocate"

\* "bisect twice: once to get the beginning, once to get the end"
\* (virtual_mem.cpp:125): what reserve_region() said it reserved is not given.
ReservedNotGiven ==
  \A r \in given, s \in reserved : Extent(r) \intersect Extent(s) = {}
=============================================================================

---------------------------- MODULE MCKernelHeap ----------------------------
(***************************************************************************)
(* Constant values for the runs of KernelHeap: a quarter of the machine's  *)
(* page, word and int, and of its numbers of pages.                        *)
(***************************************************************************)
EXTENDS KernelHeap

\* The chunks of orders 0 and 1 the first half-words of the bitmaps mark, less
\* the one whose place the descriptor of the new page takes.
Within[k \in Orders] == CASE k = 0 -> 4 [] k = 1 -> 3 [] OTHER -> 1

\* One chunk more than the half-word marks.
Beyond[k \in Orders] == IF k = 0 THEN 6 ELSE 0

\* A new page is empty, or a bit of its bitmap is set already.
SomeLeft == {{}, {1, 2}}

-----------------------------------------------------------------------------
(* What a comment in the source says of the program, and it does not do.   *)

\* "3 chunks for a 16-byte chunk page" (malloc.cpp:14) are reserved, the bitmap
\* in them: kmalloc() never hands out the header of a page, although kfree()
\* clears bits of it.
HeaderReserved ==
  \A c \in live :
    Extent(c.address, c.order) \intersect HeaderExtent(PageOf(c.address)) = {}
=============================================================================

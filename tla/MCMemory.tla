------------------------------ MODULE MCMemory ------------------------------
(***************************************************************************)
(* A small machine for Memory: three words per table, two bytes per page.  *)
(* User pages are then 27..53 (L0 slot 1), the heap is at L1 slot 2, and   *)
(* the ring's page lies under another L3 than the segments and the stack,  *)
(* as in the code's layout.                                                *)
(***************************************************************************)
EXTENDS Memory

Segment(load, vaddr, memsz, flags) ==
    [load |-> load, vaddr |-> vaddr, memsz |-> memsz, flags |-> flags]

\* Code and data, a header that is not PT_LOAD and an empty segment.
CodeAndData ==
    <<Segment(TRUE, 54, 2, {"X"}), Segment(FALSE, 0, 4, {}),
      Segment(TRUE, 56, 1, {"W"}), Segment(TRUE, 58, 0, {"W"})>>

\* Code that ends in the middle of its second page.
LongCode == <<Segment(TRUE, 54, 3, {"X"})>>

SmallImages == {CodeAndData, LongCode}

\* Every byte of the four pages in use and of their neighbours, both ends of
\* the address space; lengths around a page and one that wraps.
Addrs == 50..65 \union {0, 1, 126, 127}
Lens == {0, 1, 2, 3, 5, 127}
=============================================================================

---------------------------- MODULE BumpAllocator ----------------------------
(***************************************************************************)
(* The kernel heap: the bump allocator of allocator.rs, used as Rust's     *)
(* collections use it (allocate and fill, grow by allocating, copying and  *)
(* freeing, free in any order), with the memory routines of mem.rs.        *)
(*                                                                         *)
(* Freed space is not reused until every block is free, when next goes     *)
(* back to the start.  A null answer ends in the panic handler: halted.    *)
(***************************************************************************)
EXTENDS FiniteSets, MemRoutines

CONSTANTS HeapStart, HeapSize,  \* HEAP_VBASE and HEAP_SIZE
          AddrTop,              \* 2^64
          Sizes, Aligns,        \* the layouts asked for
          Owners                \* what holds a block: a stack, a vector, a list

VARIABLES next, allocations,    \* struct BumpAllocator
          heap,                 \* the bytes of the window
          live,                 \* who holds which block
          halted

vars == <<next, allocations, heap, live, halted>>

heap_end == HeapStart + HeapSize
Window == HeapStart..heap_end - 1
Block(start, size) == [start |-> start, size |-> size]
Bytes(b) == b.start..b.start + b.size - 1

\* BumpAllocator::init, by init_heap.
Init ==
    /\ next = HeapStart /\ allocations = 0
    /\ heap = [a \in Window |-> "none"]
    /\ live = [o \in {} |-> Block(0, 0)]
    /\ halted = FALSE

\* Mutant of AlignUp: the address is rounded down.
AlignDown(addr, align) == (addr \div align) * align

AlignUp(addr, align) == ((addr + align - 1) \div align) * align

\* checked_add, then the comparison with heap_end.
Fits(start, size) == start + size < AddrTop /\ start + size <= heap_end

\* alloc answers null, and handle_alloc_error panics.
OutOfMemory(size, align) ==
    /\ ~Fits(AlignUp(next, align), size)
    /\ halted' = TRUE
    /\ UNCHANGED <<next, allocations, heap, live>>

\* alloc, and the owner fills the block.
Alloc(o, size, align) ==
    LET start == AlignUp(next, align) IN
    /\ o \notin DOMAIN live
    /\ Fits(start, size)
    /\ next' = start + size
    /\ allocations' = allocations + 1
    /\ heap' = Memset(heap, start, o, size)
    /\ live' = [p \in DOMAIN live \union {o} |-> IF p = o THEN Block(start, size) ELSE live[p]]
    /\ UNCHANGED halted

\* Mutant of Freed: the last block but one resets the heap.
FreedEarly(count, top) ==
    [allocations |-> count - 1, next |-> IF count - 1 <= 1 THEN HeapStart ELSE top]

\* The allocator after dealloc, with count allocations and next at top.
Freed(count, top) ==
    [allocations |-> count - 1, next |-> IF count - 1 = 0 THEN HeapStart ELSE top]

Dealloc(o) ==
    LET after == Freed(allocations, next) IN
    /\ o \in DOMAIN live
    /\ next' = after.next
    /\ allocations' = after.allocations
    /\ live' = [p \in DOMAIN live \ {o} |-> live[p]]
    /\ UNCHANGED <<heap, halted>>

\* GlobalAlloc::realloc, by which a vector grows: alloc, memcpy, dealloc, fill the rest.
Grow(o, size, align) ==
    LET start == AlignUp(next, align)
        old   == live[o]
        after == Freed(allocations + 1, start + size)
    IN
    /\ o \in DOMAIN live /\ size > old.size
    /\ Fits(start, size)
    /\ next' = after.next
    /\ allocations' = after.allocations
    /\ heap' = Memset(Memcpy(heap, start, old.start, old.size),
                      start + old.size, o, size - old.size)
    /\ live' = [live EXCEPT ![o] = Block(start, size)]
    /\ UNCHANGED halted

Next ==
    /\ ~halted
    /\ \/ \E o \in Owners, size \in Sizes, align \in Aligns :
             Alloc(o, size, align) \/ Grow(o, size, align)
       \/ \E size \in Sizes, align \in Aligns : OutOfMemory(size, align)
       \/ \E o \in Owners : Dealloc(o)

Spec == Init /\ [][Next]_vars

-----------------------------------------------------------------------------
(* Properties.                                                             *)

(***************************************************************************)
(* Every live block lies in the mapped window and holds what its owner     *)
(* wrote, whatever the others allocate, grow and free, and through every   *)
(* reset of next by dealloc.                                               *)
(***************************************************************************)
BlocksIntact ==
    \A o \in DOMAIN live :
        /\ Bytes(live[o]) \subseteq Window
        /\ \A a \in Bytes(live[o]) : heap[a] = o

(***************************************************************************)
(* allocations counts the live blocks, none of which reaches beyond next,  *)
(* so the whole heap is free again once they all are: dealloc's reset is   *)
(* neither missed nor early.                                               *)
(***************************************************************************)
HeapReclaimed ==
    /\ allocations = Cardinality(DOMAIN live)
    /\ live = [o \in {} |-> Block(0, 0)] => next = HeapStart
    /\ \A o \in DOMAIN live : live[o].start + live[o].size <= next
==============================================================================

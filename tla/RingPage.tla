------------------------------ MODULE RingPage ------------------------------
(***************************************************************************)
(* The ring page of abi/src/lib.rs, store by store: four free-running      *)
(* u32 indices (here modulo IndexRange) and two arrays of RingEntries      *)
(* slots, written by the program (uring.rs sqe, reap) and by the kernel    *)
(* (ring.rs drain, complete).                                              *)
(*                                                                         *)
(* The program can be interrupted between any two of its stores.  reap()'s *)
(* loads of the indices and of the entry are one step: the kernel only     *)
(* appends to the completion queue, so that an entry once seen stays.      *)
(* The kernel's operations run with IRQs masked on the only core, so each  *)
(* is one step; the program sees a page that changed under it.  An entry   *)
(* has two words, the arguments and the tag.  The request is named by its  *)
(* tag: both words hold it, and a result repeats the arguments, so that a  *)
(* torn or stale entry shows.                                              *)
(***************************************************************************)
EXTENDS Integers, FiniteSets, Sequences, Loops

CONSTANTS RingEntries,  \* RING_ENTRIES, 16 in the code
          IndexRange,   \* number of values of an index, 2^32 in the code
          Tags,         \* what tag() hands out; a tag is reused once returned
          InFlight      \* requests a program has in flight at most

VARIABLES page,     \* the shared page
          todo,     \* the stores sqe() has still to make
          tag,      \* ... and for which request
          got,      \* the entry reap() has loaded and not consumed
          held,     \* requests the kernel has consumed and not completed
          reaped    \* the completion reap() last consumed

vars == <<page, todo, tag, got, held, reaped>>

None == 0

EmptySqe == [arg |-> None, user_data |-> None]
EmptyCqe == [user_data |-> None, result |-> None]

\* SYS_RING_SETUP zeroes the page.
Init ==
    /\ page = [sq_head |-> 0, sq_tail |-> 0, cq_head |-> 0, cq_tail |-> 0,
               sq |-> [i \in 0..RingEntries - 1 |-> EmptySqe],
               cq |-> [i \in 0..RingEntries - 1 |-> EmptyCqe]]
    /\ todo = <<>> /\ tag = None
    /\ got = EmptyCqe /\ held = {} /\ reaped = EmptyCqe

Slot(index) == index % RingEntries

WrappingAdd(index) == (index + 1) % IndexRange

\* Mutant of Distance: an ordinary subtraction, saturating at the largest index.
DistanceUnwrapped(tail, head) == IF tail >= head THEN tail - head ELSE IndexRange

\* tail.wrapping_sub(head)
Distance(tail, head) == (tail - head) % IndexRange

\* The entries from head up to tail, oldest first.
Entries(slots, head, tail) ==
    [i \in 1..Distance(tail, head) |-> slots[Slot(head + i - 1)]]

SqEntries == Entries(page.sq, page.sq_head, page.sq_tail)
CqEntries == Entries(page.cq, page.cq_head, page.cq_tail)

\* The program's requests that have not come back.
Flight ==
    ({tag, got.user_data} \union held
       \union {e.user_data : e \in Range(SqEntries) \union Range(CqEntries)}) \ {None}

-----------------------------------------------------------------------------
(* The program.                                                            *)

\* sqe()'s stores, in program order.
SqeStores == <<"arg", "user_data", "tail">>

\* sqe() is called with a fresh tag.  It does not look whether there is room.
SqeBegin(t) ==
    /\ todo = <<>> /\ got = EmptyCqe
    /\ t \notin Flight /\ Cardinality(Flight) < InFlight
    /\ todo' = SqeStores /\ tag' = t
    /\ UNCHANGED <<page, got, held, reaped>>

SqeStore ==
    /\ todo # <<>>
    /\ todo' = Tail(todo)
    /\ tag' = IF Tail(todo) = <<>> THEN None ELSE tag
    /\ LET slot == Slot(page.sq_tail) IN
       page' = CASE Head(todo) = "arg"       -> [page EXCEPT !.sq[slot].arg = tag]
                 [] Head(todo) = "user_data" -> [page EXCEPT !.sq[slot].user_data = tag]
                 [] Head(todo) = "tail"      -> [page EXCEPT !.sq_tail = WrappingAdd(@)]
    /\ UNCHANGED <<got, held, reaped>>

\* reap() loads the indices and the entry, ...
ReapLoad ==
    /\ todo = <<>> /\ got = EmptyCqe
    /\ page.cq_head # page.cq_tail
    /\ got' = page.cq[Slot(page.cq_head)]
    /\ UNCHANGED <<page, todo, tag, held, reaped>>

\* Mutant of ReapStore: the head is set to the tail, not one further.
ReapStoreAll ==
    /\ got # EmptyCqe
    /\ page' = [page EXCEPT !.cq_head = page.cq_tail]
    /\ reaped' = got
    /\ got' = EmptyCqe
    /\ UNCHANGED <<todo, tag, held>>

\* ... then gives the slot back.
ReapStore ==
    /\ got # EmptyCqe
    /\ page' = [page EXCEPT !.cq_head = WrappingAdd(@)]
    /\ reaped' = got
    /\ got' = EmptyCqe
    /\ UNCHANGED <<todo, tag, held>>

-----------------------------------------------------------------------------
(* The kernel.                                                             *)

Complete(p, userData, result) ==
    IF Distance(p.cq_tail, p.cq_head) >= RingEntries
    THEN p
    ELSE [p EXCEPT !.cq[Slot(p.cq_tail)] = [user_data |-> userData, result |-> result],
                   !.cq_tail = WrappingAdd(@)]

\* One turn of drain's loop: the entry is completed at once, or kept.
ProcessSqe(p, parked) ==
    LET sqe == p.sq[Slot(p.sq_head)] IN
    [(IF sqe.user_data \in parked THEN p ELSE Complete(p, sqe.user_data, sqe.arg))
       EXCEPT !.sq_head = WrappingAdd(@)]

\* drain's loop, over what is published when it begins.
Drained(p, parked) ==
    Loop(LAMBDA w, i : ProcessSqe(w, parked), p, [i \in 1..Distance(p.sq_tail, p.sq_head) |-> i])

Drain ==
    /\ page.sq_head # page.sq_tail
    /\ \E parked \in SUBSET {e.user_data : e \in Range(SqEntries)} :
          /\ page' = Drained(page, parked)
          /\ held' = held \union parked
    /\ UNCHANGED <<todo, tag, got, reaped>>

\* A parked read or wait is completed by an interrupt or by another's exit.
CompleteHeld(t) ==
    /\ t \in held
    /\ page' = Complete(page, t, t)
    /\ held' = held \ {t}
    /\ UNCHANGED <<todo, tag, got, reaped>>

Next ==
    \/ \E t \in Tags : SqeBegin(t) \/ CompleteHeld(t)
    \/ SqeStore \/ ReapLoad \/ ReapStore \/ Drain

Spec == Init /\ [][Next]_vars

-----------------------------------------------------------------------------
(* Properties.                                                             *)

(***************************************************************************)
(* A program with at most RING_ENTRIES requests in flight never overruns a *)
(* queue, though sqe() does not check for room and complete() drops what   *)
(* does not fit: the requests being published, queued, held, posted and    *)
(* being reaped are never more than that together, and none is in two      *)
(* places.  It takes the wrap of an index to go wrong.                     *)
(***************************************************************************)
RoomForAll ==
    /\ Len(SqEntries) + Cardinality(held) + Len(CqEntries) <= InFlight
    /\ Cardinality(Flight) =
          Len(SqEntries) + Cardinality(held) + Len(CqEntries) + (IF tag = None THEN 0 ELSE 1)

(***************************************************************************)
(* The page implements a pair of queues: across the wrap of the indices,   *)
(* with the kernel running between any two accesses of the program, every  *)
(* entry is read whole, once and in order, and no completion is dropped    *)
(* (the Release stores of sqe, complete and reap, and the slots of both).  *)
(***************************************************************************)
Queue == INSTANCE Queues WITH
    sq <- [i \in DOMAIN SqEntries |-> SqEntries[i].user_data],
    cq <- CqEntries

ImplementsQueues == Queue!Spec
=============================================================================

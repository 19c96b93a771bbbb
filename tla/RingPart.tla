------------------------------ MODULE RingPart ------------------------------
(***************************************************************************)
(* The ring page among the self-contained parts: module RingPage and its   *)
(* properties, under names of their own.                                   *)
(***************************************************************************)
EXTENDS Naturals

CONSTANTS RingEntries, IndexRange, Tags, InFlight

VARIABLES page, todo, tag, got, held, reaped
ringVars == <<page, todo, tag, got, held, reaped>>

Ring == INSTANCE RingPage

-----------------------------------------------------------------------------
\* complete() and sqe() never overrun a queue (RingPage).
RoomForAll == Ring!RoomForAll

\* The ring page implements a pair of queues (RingPage).
ImplementsQueues == Ring!ImplementsQueues
=============================================================================

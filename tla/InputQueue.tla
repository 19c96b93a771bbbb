----------------------------- MODULE InputQueue -----------------------------
(***************************************************************************)
(* What kernel/src/input.rs promises, and what module Jring takes it to    *)
(* be: a bounded queue of bytes with flow control.  Receive interrupts are *)
(* off exactly from the moment the queue fills until a byte is taken.      *)
(***************************************************************************)
EXTENDS Naturals, Sequences

CONSTANTS Keys, Cap

VARIABLES queue,    \* buffered bytes, oldest first
          device,   \* bytes the UART still holds
          rxOn      \* whether the receive interrupt is unmasked

vars == <<queue, device, rxOn>>

Init == queue = <<>> /\ device = <<>> /\ rxOn = FALSE

TurnOn == queue = <<>> /\ rxOn' = TRUE /\ UNCHANGED <<queue, device>>

Type == (\E b \in Keys : device' = Append(device, b)) /\ UNCHANGED <<queue, rxOn>>

\* As much as fits moves over.
Receive ==
    \E k \in 0..Len(device) :
        /\ k = Len(device) \/ Len(queue) + k = Cap
        /\ Len(queue) + k <= Cap
        /\ queue' = queue \o SubSeq(device, 1, k)
        /\ device' = SubSeq(device, k + 1, Len(device))
        /\ rxOn' = (Len(queue) + k < Cap)

Take ==
    /\ queue # <<>>
    /\ queue' = Tail(queue)
    /\ rxOn' = TRUE
    /\ UNCHANGED device

Next == TurnOn \/ Type \/ Receive \/ Take

Spec == Init /\ [][Next]_vars
=============================================================================

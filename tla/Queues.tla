------------------------------- MODULE Queues -------------------------------
(***************************************************************************)
(* What the ring page stands for, and what module Jring takes it to be: a  *)
(* queue of submissions, the requests the kernel holds (parked reads and   *)
(* waits), and a queue of completions that nothing is ever missing from.   *)
(***************************************************************************)
EXTENDS Sequences, Loops

CONSTANT Tags

VARIABLES sq,       \* published submissions
          held,     \* consumed, not completed
          cq,       \* posted completions: the tag, and what was asked under it
          reaped    \* the completion reap() last took

vars == <<sq, held, cq, reaped>>

Completion(request) == [user_data |-> request, result |-> request]

Init == sq = <<>> /\ held = {} /\ cq = <<>> /\ reaped = Completion(0)

Publish ==
    /\ \E t \in Tags : sq' = Append(sq, t)
    /\ UNCHANGED <<held, cq, reaped>>

\* A request is answered at once, unless it is one of those that stay open.
Answered(posted, parked, t) ==
    IF t \in parked THEN posted ELSE Append(posted, Completion(t))

Posted(before, parked, requests) ==
    Loop(LAMBDA posted, t : Answered(posted, parked, t), before, requests)

\* Everything published is consumed, in order.
Drain ==
    /\ \E parked \in SUBSET Range(sq) :
          /\ held' = held \union parked
          /\ cq' = Posted(cq, parked, sq)
    /\ sq' = <<>>
    /\ UNCHANGED reaped

Post ==
    /\ \E t \in held : held' = held \ {t} /\ cq' = Append(cq, Completion(t))
    /\ UNCHANGED <<sq, reaped>>

Reap ==
    /\ cq # <<>>
    /\ reaped' = Head(cq)
    /\ cq' = Tail(cq)
    /\ UNCHANGED <<sq, held>>

Next == Publish \/ Drain \/ Post \/ Reap

Spec == Init /\ [][Next]_vars
=============================================================================

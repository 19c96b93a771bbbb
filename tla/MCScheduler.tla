----------------------------- MODULE MCScheduler -----------------------------
(***************************************************************************)
(* The scheduler with a history of how often each waiting task has been    *)
(* passed over, for model checking.                                        *)
(***************************************************************************)
EXTENDS Scheduler

VARIABLE passed   \* context switches to others since t became ready to run

mcVars == <<vars, passed>>

Waiting(t) == t < n /\ state[t] = "Runnable" /\ t # current

MCInit == Init /\ passed = [t \in TaskId |-> 0]

MCNext ==
    /\ Next
    /\ passed' = [t \in TaskId |->
                    IF ~Waiting(t)' THEN 0
                    ELSE IF current' = current THEN passed[t]
                    ELSE passed[t] + 1]

MCSpec == MCInit /\ [][MCNext]_mcVars /\ Fairness

\* Round robin is fair by a bound: schedule() switches to other tasks at most n - 1
\* times between a task becoming ready (woken, spawned or preempted) and its turn.
BoundedWait == \A t \in 0..(n - 1) : passed[t] <= n - 1
=============================================================================

------------------------------ MODULE MCSqpoll ------------------------------
(***************************************************************************)
(* The poller, started warm for model checking: the shell has set up its   *)
(* ring while the poller was polling.                                      *)
(***************************************************************************)
EXTENDS Sqpoll

WarmInit ==
    /\ state = [t \in Tasks |-> IF t <= Task(0) THEN "Runnable" ELSE "Exited"]
    /\ current = Task(0)
    /\ live = 0
    /\ count = 1
    /\ ring = [p \in Pids |-> p = 0]
    /\ frame = [p \in Pids |-> p]
    /\ husk = [p \in Pids |-> FALSE]
    /\ parent = [p \in Pids |-> NumProcs]
    /\ parked = [p \in Pids |-> FALSE]
    /\ waiter = [p \in Pids |-> FALSE]
    /\ sq = [p \in Pids |-> <<>>]
    /\ cq = [p \in Pids |-> 0]
    /\ flag = [p \in Pids |-> FALSE]
    /\ idle = 0
    /\ poll = [pc |-> "loop", pid |-> 0, lim |-> 0, worked |-> FALSE, on |-> FALSE]
    /\ user = [p \in Pids |-> [pc |-> IF p = 0 THEN "ready" ELSE "start", out |-> 0]]

WarmSpec == WarmInit /\ [][Next]_vars /\ Fairness
=============================================================================

----------------------------- MODULE RoundRobin -----------------------------
(***************************************************************************)
(* The choice made by schedule() in kernel/src/sched.rs: scan the task     *)
(* vector cyclically, starting after the running task and ending with it,  *)
(* and take the first Runnable one; keep the running task when there is    *)
(* none.                                                                   *)
(***************************************************************************)
EXTENDS Naturals

\* enum State
TaskStates == {"Runnable", "Blocked", "Exited"}

\* Mutant of RunnableOffsets: any task that has not exited will do.
UnexitedOffsets(st, cur, n) ==
    {i \in 1..n : st[(cur + i) % n] # "Exited"}

\* The offsets i of the loop at which the candidate (cur + i) % n is Runnable.
RunnableOffsets(st, cur, n) ==
    {i \in 1..n : st[(cur + i) % n] = "Runnable"}

\* Mutant of NextTask: the scan starts at task 0 instead of after the running task.
NextTaskFromZero(st, cur, n) ==
    LET ready == {t \in 0..(n - 1) : t # cur /\ st[t] = "Runnable"}
    IN  IF ready = {} THEN cur ELSE CHOOSE t \in ready : \A u \in ready : t <= u

\* Mutant of NextTask: the scan does not wrap at the end of the task vector.
NextTaskUnwrapped(st, cur, n) ==
    LET offsets == RunnableOffsets(st, cur, n)
    IN  IF offsets = {}
        THEN cur
        ELSE cur + (CHOOSE i \in offsets : \A j \in offsets : i <= j)

\* The task schedule() picks among tasks 0..n-1 whose states are st.
NextTask(st, cur, n) ==
    LET offsets == RunnableOffsets(st, cur, n)
    IN  IF offsets = {}
        THEN cur
        ELSE (cur + (CHOOSE i \in offsets : \A j \in offsets : i <= j)) % n
=============================================================================

------------------------------ MODULE Scheduler ------------------------------
(***************************************************************************)
(* The preemptive thread scheduler: kernel/src/sched.rs with switch.s, the *)
(* timer tick of timer.rs and the interrupt mask of irq.rs.                *)
(*                                                                         *)
(* Every operation runs with IRQs disabled from its first to its last      *)
(* access of SCHEDULER, so each is one action of the running task; the     *)
(* timer interrupt is an action of its own, enabled while the CPU has IRQs *)
(* unmasked.  Time is kept relative: wakeIn is wake_at - TICKS, the only   *)
(* way in which the code uses either.                                      *)
(***************************************************************************)
EXTENDS RoundRobin

CONSTANTS MaxTasks,   \* bound on the length of the task vector
          MaxSleep    \* bound on the argument of sleep_ticks

ASSUME MaxTasksAssumption == MaxTasks \in Nat \ {0}
ASSUME MaxSleepAssumption == MaxSleep \in Nat

VARIABLES n,        \* SCHEDULER.tasks.len()
          state,    \* Task.state
          wakeIn,   \* Task.wake_at - TICKS, 0 once the time has come
          sp,       \* Task.sp: the context saved there
          current,  \* SCHEDULER.current
          irqOn     \* PSTATE.I is clear on the CPU

vars == <<n, state, wakeIn, sp, current, irqOn>>

TaskId == 0..(MaxTasks - 1)

\* kmain, registered by init(); it loops on yield_now and never blocks or exits.
Idle == 0

\* wake_at = u64::MAX: no tick ever reaches it.
Never == MaxSleep + 1

\* What Task.sp points to: nothing yet (0), the frame spawn_inner fabricated, or
\* a frame context_switch saved, to be resumed with IRQs unmasked or masked.
Contexts == {"none", "fresh", "unmasked", "masked"}

\* The slots of the vector that are not in use keep these values.
Init ==
    /\ n = 1
    /\ state = [t \in TaskId |-> IF t = Idle THEN "Runnable" ELSE "Exited"]
    /\ wakeIn = [t \in TaskId |-> 0]
    /\ sp = [t \in TaskId |-> "none"]
    /\ current = Idle
    /\ irqOn = TRUE

-----------------------------------------------------------------------------
\* Mutant of ResumedIrq: the previous mask is not restored.
ResumedMasked(context) == context = "fresh"

\* A fresh task starts in task_trampoline, which unmasks IRQs; the others
\* return through irq::restore or ERET to the mask they had.
ResumedIrq(context) == context \in {"fresh", "unmasked"}

\* schedule(), called with the task states st: switch to the next task, saving
\* the context of the running one and resuming the saved one.
Schedule(st) ==
    LET next == NextTask(st, current, n)
    IN  /\ state' = st
        /\ current' = next
        /\ IF next = current
           THEN UNCHANGED <<sp, irqOn>>
           ELSE /\ sp' = [sp EXCEPT ![current] =
                            IF irqOn THEN "unmasked" ELSE "masked"]
                /\ irqOn' = ResumedIrq(sp[next])
        /\ UNCHANGED n

-----------------------------------------------------------------------------
\* Mutant of Spawn: the new task's sp is never set.
SpawnWithoutContext ==
    /\ n < MaxTasks
    /\ n' = n + 1
    /\ state' = [state EXCEPT ![n] = "Runnable"]
    /\ wakeIn' = [wakeIn EXCEPT ![n] = 0]
    /\ UNCHANGED <<sp, current, irqOn>>

\* spawn, spawn_user: push a Runnable task with a fabricated context.
Spawn ==
    /\ n < MaxTasks
    /\ n' = n + 1
    /\ state' = [state EXCEPT ![n] = "Runnable"]
    /\ wakeIn' = [wakeIn EXCEPT ![n] = 0]
    /\ sp' = [sp EXCEPT ![n] = "fresh"]
    /\ UNCHANGED <<current, irqOn>>

YieldNow ==
    /\ Schedule(state)
    /\ UNCHANGED wakeIn

BlockCurrent ==
    /\ current # Idle
    /\ wakeIn' = [wakeIn EXCEPT ![current] = Never]
    /\ Schedule([state EXCEPT ![current] = "Blocked"])

SleepTicks(ticks) ==
    /\ current # Idle
    /\ wakeIn' = [wakeIn EXCEPT ![current] = ticks]
    /\ Schedule([state EXCEPT ![current] = "Blocked"])

\* wake(task), by the running task or by an interrupt handler on its stack.
Wake(task) ==
    /\ task < n
    /\ state' = [state EXCEPT ![task] = IF @ = "Blocked" THEN "Runnable" ELSE @]
    /\ UNCHANGED <<n, wakeIn, sp, current, irqOn>>

\* task_exit: from the trampoline or from exit_current.
TaskExit ==
    /\ current # Idle
    /\ Schedule([state EXCEPT ![current] = "Exited"])
    /\ UNCHANGED wakeIn

\* on_tick: one tick less to wait for everyone.
OnTick(waits) ==
    [t \in TaskId |-> IF waits[t] \in 1..MaxSleep THEN waits[t] - 1 ELSE waits[t]]

\* Mutant of WakeSleepers: only on the very tick of wake_at, `==` for `<=`.
WakeSleepersExactly(st, waits) ==
    [t \in TaskId |-> IF st[t] = "Blocked" /\ waits[t] = 0 /\ wakeIn[t] = 1
                      THEN "Runnable" ELSE st[t]]

\* wake_sleepers: the Blocked tasks whose time has come.
WakeSleepers(st, waits) ==
    [t \in TaskId |-> IF st[t] = "Blocked" /\ waits[t] = 0 THEN "Runnable" ELSE st[t]]

\* Mutant of Tick: the sleepers are woken and nobody is preempted.
TickWithoutPreempting ==
    /\ irqOn
    /\ wakeIn' = OnTick(wakeIn)
    /\ state' = WakeSleepers(state, OnTick(wakeIn))
    /\ UNCHANGED <<n, sp, current, irqOn>>

\* The timer interrupt: on_tick, EOI, then tick(), which wakes the sleepers and
\* preempts.  The interrupted task resumes unmasked, through ERET.
Tick ==
    /\ irqOn
    /\ wakeIn' = OnTick(wakeIn)
    /\ Schedule(WakeSleepers(state, OnTick(wakeIn)))

\* A user task takes an SVC: the handler runs masked and may block.
Trap ==
    /\ irqOn
    /\ current # Idle
    /\ irqOn' = FALSE
    /\ UNCHANGED <<n, state, wakeIn, sp, current>>

\* ERET from that handler.
Eret ==
    /\ ~irqOn
    /\ irqOn' = TRUE
    /\ UNCHANGED <<n, state, wakeIn, sp, current>>

Next ==
    \/ Spawn
    \/ YieldNow
    \/ BlockCurrent
    \/ \E ticks \in 0..MaxSleep : SleepTicks(ticks)
    \/ \E task \in TaskId : Wake(task)
    \/ TaskExit
    \/ Tick
    \/ Trap
    \/ Eret

\* The timer keeps firing and its interrupt stays pending until it is taken, so
\* a task that keeps trapping cannot hold it off; handlers run to their ERET.
Fairness == SF_vars(Tick) /\ WF_vars(Eret)

Spec == Init /\ [][Next]_vars /\ Fairness

-----------------------------------------------------------------------------
\* The variables stay in their types.
TypeOK ==
    /\ n \in 1..MaxTasks
    /\ state \in [TaskId -> TaskStates]
    /\ wakeIn \in [TaskId -> 0..Never]
    /\ sp \in [TaskId -> Contexts]
    /\ current \in 0..(n - 1)
    /\ irqOn \in BOOLEAN

\* The task on the CPU is always Runnable: the early return of schedule(), taken
\* when no other task is Runnable, never leaves a Blocked or Exited task running.
CurrentRunnable == state[current] = "Runnable"

\* schedule() only ever hands context_switch a context that exists: any task that
\* could be picked next has one, task 0 included, whose sp starts as 0.
ContextsSaved ==
    \A t \in 0..(n - 1) :
        t # current /\ state[t] # "Exited" => sp[t] # "none"

\* The idle task never runs with IRQs masked: nothing but an interrupt can get the
\* machine out of it when every other task is blocked.
IdleUnmasked == current = Idle => irqOn

\* Round robin under the timer: a task that is Runnable gets the CPU, whatever the
\* other tasks do.
RunnableRuns ==
    \A t \in TaskId : (t < n /\ state[t] = "Runnable") ~> (current = t)

\* A task in sleep_ticks becomes Runnable again by the timer alone.
SleeperWakes ==
    \A t \in TaskId :
        (state[t] = "Blocked" /\ wakeIn[t] # Never) ~> (state[t] = "Runnable")

\* What makes CurrentRunnable, ContextsSaved and IdleUnmasked inductive: the idle
\* task is always there to fall back on, and it was never switched out masked.
SchedulerInv ==
    /\ TypeOK
    /\ state[Idle] = "Runnable"
    /\ sp[Idle] # "masked"
    /\ CurrentRunnable
    /\ ContextsSaved
    /\ IdleUnmasked
=============================================================================

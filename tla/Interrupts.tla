----------------------------- MODULE Interrupts -----------------------------
(***************************************************************************)
(* Interrupt delivery and the part of boot that depends on it: gic.rs,     *)
(* timer.rs and exceptions.rs's handle_irq, under kmain (main.rs) from     *)
(* gic::init to the end of sched_self_check, with the threads it starts.   *)
(*                                                                         *)
(* Keys may be typed and the timer may expire at any time, also before     *)
(* sched::init has registered a task.  A handler is the sequence of its    *)
(* calls, on the stack of the task it interrupts; all of it runs masked.   *)
(* The code a task runs is one step per call.                              *)
(***************************************************************************)
EXTENDS InputBuffer, RoundRobin

CONSTANTS Ticks,    \* ticks irq_self_check waits for, 5 in the code
          Rounds,   \* rounds of sleeper and busy, 3
          Pause     \* ticks each round takes, 3

TIMER_INTID == 30
UART_INTID == 33

VARIABLES gic,      \* what the GIC lets through, and the interrupts it holds active
          timer,    \* CNTP: enabled, and whether the countdown has run out
          ticks,    \* TICKS, up to Ticks
          booted,   \* kmain's calls done, and PSTATE.I cleared by one of them
          tasks,    \* SCHEDULER.tasks, with the rounds each thread has left
          current,  \* SCHEDULER.current
          handler   \* each task's interrupt handler: the calls it has still to make

bootVars == <<gic, timer, ticks, booted, tasks, current, handler>>

vars == <<inputVars, bootVars>>

Kmain == 0
Sleeper == 1
Busy == 2

Thread == [state |-> "Runnable", rounds |-> Rounds, wait |-> 0]

\* kmain's calls, in order.
BootCalls == <<"gic::init", "enable_spi", "set_rx_irq", "timer::init", "irq::enable",
               "irq_self_check", "sched::init", "spawn sleeper", "spawn busy",
               "sched_self_check">>

\* Reset: nothing enabled, IRQs masked.
Init ==
    /\ InitInput
    /\ gic = [enabled |-> {}, grp1 |-> FALSE, active |-> {}]
    /\ timer = [on |-> FALSE, expired |-> FALSE]
    /\ ticks = 0 /\ booted = 0
    /\ tasks = <<>> /\ current = Kmain
    /\ handler = [t \in {Kmain, Sleeper, Busy} |-> <<>>]

Done(call) == \E i \in 1..booted : BootCalls[i] = call

-----------------------------------------------------------------------------
(* Hardware.                                                               *)

\* The countdown runs out.  An interval, 10 ms, outlasts the handler that reloads it.
Expire ==
    /\ timer.on /\ ~timer.expired
    /\ \A i \in DOMAIN handler[current] : handler[current][i] # "tick"
    /\ timer' = [timer EXCEPT !.expired = TRUE]
    /\ UNCHANGED <<inputVars, gic, ticks, booted, tasks, current, handler>>

Asserted == (IF timer.expired THEN {TIMER_INTID} ELSE {})
              \union (IF rxOn /\ device # <<>> THEN {UART_INTID} ELSE {})

\* What the CPU interface signals.  Both interrupts have priority 0, so neither is
\* signalled while one is active.
Signalled ==
    IF gic.grp1 /\ gic.active = {} THEN Asserted \intersect gic.enabled ELSE {}

Unmasked == Done("irq::enable") /\ handler[current] = <<>>

-----------------------------------------------------------------------------
(* handle_irq.                                                             *)

\* Mutant of HandleIrq: the interrupt is ended after the switch.
HandleIrqEoiLast(intid) ==
    IF intid = TIMER_INTID THEN <<"on_tick", "tick", "eoi timer">>
                           ELSE <<"drain_uart", "eoi uart">>

\* handle_irq after acknowledge.  poll_pending, after drain_uart, finds no ring before
\* there is a shell; once there is one its pops are Read's.  A spurious INTID returns
\* at once and changes nothing, a stuttering step; no other INTID is ever enabled.
HandleIrq(intid) ==
    IF intid = TIMER_INTID THEN <<"on_tick", "eoi timer", "tick">>
                           ELSE <<"drain_uart", "eoi uart">>

\* The IRQ vector is taken, and acknowledge makes the interrupt active.
TakeIrq(intid) ==
    /\ Unmasked /\ intid \in Signalled
    /\ gic' = [gic EXCEPT !.active = @ \union {intid}]
    /\ handler' = [handler EXCEPT ![current] = HandleIrq(intid)]
    /\ UNCHANGED <<inputVars, timer, ticks, booted, tasks, current>>

States(ts) == [t \in 0..Len(ts) - 1 |-> ts[t + 1].state]

\* schedule(); with no task registered yet it finds none and returns.
Schedule(ts) ==
    /\ tasks' = ts
    /\ current' = NextTask(States(ts), current, Len(ts))

\* wake_sleepers
Woken(t) == IF t.state = "Blocked" /\ t.wait = 0 THEN [t EXCEPT !.state = "Runnable"] ELSE t

Eoi(intid) == gic' = [gic EXCEPT !.active = @ \ {intid}]

\* on_tick: everyone has one tick less to wait; the countdown starts again.
OnTick ==
    /\ ticks' = IF ticks < Ticks THEN ticks + 1 ELSE ticks
    /\ tasks' = [i \in DOMAIN tasks |->
                    [tasks[i] EXCEPT !.wait = IF @ > 0 THEN @ - 1 ELSE 0]]
    /\ timer' = [timer EXCEPT !.expired = FALSE]

HandlerStep ==
    /\ handler[current] # <<>>
    /\ handler' = [handler EXCEPT ![current] = Tail(@)]
    /\ UNCHANGED booted
    /\ LET call == Head(handler[current]) IN
       \/ /\ call = "on_tick" /\ OnTick
          /\ UNCHANGED <<inputVars, gic, current>>
       \/ /\ call \in {"eoi timer", "eoi uart"}
          /\ Eoi(IF call = "eoi timer" THEN TIMER_INTID ELSE UART_INTID)
          /\ UNCHANGED <<inputVars, timer, ticks, tasks, current>>
       \/ /\ call = "tick"
          /\ Schedule([i \in DOMAIN tasks |-> Woken(tasks[i])])
          /\ UNCHANGED <<inputVars, gic, timer, ticks>>
       \/ /\ call = "drain_uart"
          /\ DrainUart
          /\ UNCHANGED <<gic, timer, ticks, tasks, current>>

-----------------------------------------------------------------------------
(* kmain and the threads.                                                  *)

\* Mutant of GicInit: ICC_IGRPEN1_EL1 is not set.
GicInitUngrouped == gic' = [gic EXCEPT !.enabled = {TIMER_INTID}]

GicInit == gic' = [gic EXCEPT !.enabled = {TIMER_INTID}, !.grp1 = TRUE]

EnableSpi(intid) == gic' = [gic EXCEPT !.enabled = @ \union {intid}]

SetRxIrq(on) == rxOn' = on /\ UNCHANGED <<buf, head, tail, device>>

TimerInit == timer' = [timer EXCEPT !.on = TRUE]

\* irq_self_check sleeps until this holds.
TicksSeen == ticks >= Ticks

\* sched::init for kmain, spawn for the two threads.
Spawn == tasks' = Append(tasks, Thread) /\ UNCHANGED <<inputVars, gic, timer, current>>

\* any_worker_alive
WorkersDone == \A t \in {Sleeper, Busy} : tasks[t + 1].state = "Exited"

BootStep ==
    /\ current = Kmain /\ handler[Kmain] = <<>> /\ booted < Len(BootCalls)
    /\ booted' = booted + 1
    /\ UNCHANGED <<ticks, handler>>
    /\ LET call == BootCalls[booted + 1] IN
       \/ /\ call = "gic::init" /\ GicInit
          /\ UNCHANGED <<inputVars, timer, tasks, current>>
       \/ /\ call = "enable_spi" /\ EnableSpi(UART_INTID)
          /\ UNCHANGED <<inputVars, timer, tasks, current>>
       \/ /\ call = "set_rx_irq" /\ SetRxIrq(TRUE)
          /\ UNCHANGED <<gic, timer, tasks, current>>
       \/ /\ call = "timer::init" /\ TimerInit
          /\ UNCHANGED <<inputVars, gic, tasks, current>>
       \/ /\ \/ call = "irq::enable"
             \/ call = "irq_self_check" /\ TicksSeen
             \/ call = "sched_self_check" /\ WorkersDone
          /\ UNCHANGED <<inputVars, gic, timer, tasks, current>>
       \/ /\ call \in {"sched::init", "spawn sleeper", "spawn busy"} /\ Spawn

\* yield_now, in sched_self_check's loop and then in the idle loop.
KmainYield ==
    /\ current = Kmain /\ handler[Kmain] = <<>> /\ Done("spawn busy")
    /\ Schedule(tasks)
    /\ UNCHANGED <<inputVars, gic, timer, ticks, booted, handler>>

\* The running thread, with its entry updated to t.
Switching(t) ==
    /\ Schedule([tasks EXCEPT ![current + 1] = t])
    /\ UNCHANGED <<inputVars, gic, timer, ticks, booted, handler>>

\* sleeper: sleep_ticks, round after round; a thread that returns exits.
SleeperStep ==
    /\ current = Sleeper /\ handler[Sleeper] = <<>>
    /\ LET t == tasks[Sleeper + 1] IN
       Switching(IF t.rounds = 0
                 THEN [t EXCEPT !.state = "Exited"]
                 ELSE [t EXCEPT !.state = "Blocked", !.wait = Pause, !.rounds = @ - 1])

\* busy: spin_ticks, round after round, never giving up the CPU; then it exits.
BusyStep ==
    /\ current = Busy /\ handler[Busy] = <<>>
    /\ LET t == tasks[Busy + 1] IN
       /\ t.wait = 0
       /\ IF t.rounds = 0
          THEN Switching([t EXCEPT !.state = "Exited"])
          ELSE /\ tasks' = [tasks EXCEPT ![Busy + 1].wait = Pause, ![Busy + 1].rounds = @ - 1]
               /\ UNCHANGED <<inputVars, gic, timer, ticks, booted, current, handler>>

\* Once the shell exists its reads take bytes out of the buffer.
Read ==
    /\ booted = Len(BootCalls)
    /\ Pop
    /\ UNCHANGED bootVars

Next ==
    \/ Type /\ UNCHANGED bootVars
    \/ Expire
    \/ \E intid \in {TIMER_INTID, UART_INTID} : TakeIrq(intid)
    \/ HandlerStep
    \/ BootStep \/ KmainYield \/ SleeperStep \/ BusyStep
    \/ Read

\* No interrupt comes before the running code's next step.
Quiet == Unmasked => Signalled = {}

\* The countdown always runs out; a handler runs to its ERET; an interrupt that stays
\* signalled is taken at the latest when IRQs are unmasked; and a task that is on the CPU
\* again and again with no interrupt to take gets on with its code.
Fairness ==
    /\ WF_vars(Expire) /\ WF_vars(HandlerStep)
    /\ SF_vars(TakeIrq(TIMER_INTID)) /\ SF_vars(TakeIrq(UART_INTID))
    /\ SF_vars(Quiet /\ BootStep) /\ SF_vars(Quiet /\ KmainYield)
    /\ SF_vars(Quiet /\ SleeperStep) /\ SF_vars(Quiet /\ BusyStep)

Spec == Init /\ [][Next]_vars /\ Fairness

-----------------------------------------------------------------------------
(* Properties.                                                             *)

(***************************************************************************)
(* No code runs with IRQs unmasked while the GIC holds an interrupt        *)
(* active: handle_irq's EOI comes before the switch, for a new thread      *)
(* starts in its trampoline and never reaches the handler's end ("EOI      *)
(* before switching away").                                                *)
(***************************************************************************)
EndedBeforeSwitch == Unmasked => gic.active = {}

(***************************************************************************)
(* Boot gets through its self-checks: interrupts that come before there is *)
(* a task to schedule do no harm, keys nobody reads do not drown the timer *)
(* (drain_uart masks a full buffer), the busy thread is preempted and the  *)
(* sleeper woken, so that kmain sees both exit and goes on.                *)
(***************************************************************************)
BootCompletes == <>(booted = Len(BootCalls))
=============================================================================

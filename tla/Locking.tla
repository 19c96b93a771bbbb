------------------------------ MODULE Locking ------------------------------
(***************************************************************************)
(* The spinlocks of sync.rs on one core, under the interrupt mask of       *)
(* irq.rs: which locks a piece of kernel code takes, and whether IRQs are  *)
(* masked while it holds them.                                             *)
(*                                                                         *)
(* A section is such a piece of code, reduced to its accesses to locks and *)
(* to the mask in the order it makes them; an access made once per entry,  *)
(* slot or byte is written once.  A thread runs its sections one after the *)
(* other, and an interrupt runs its handler's section on the stack of the  *)
(* thread it interrupts.  A switch may go to any thread that exists: who   *)
(* is picked is module Scheduler's subject.                                *)
(***************************************************************************)
EXTENDS Naturals, Sequences

Threads == {"kmain", "sqpoll", "shell"}
Locks == {"SCHEDULER", "PROCESSES", "INPUT", "RING", "FRAMES", "HEAP"}
Marks == {"shell spawned", "shell exited", "poller registered"}
Nobody == "nobody"

Op(do, of) == <<[do |-> do, of |-> of]>>

\* A section run with a lock held: lock() and, at the end of the guard's scope, drop.
Holding(lock, section) == Op("lock", lock) \o section \o Op("unlock", lock)

Guarded(lock) == Holding(lock, <<>>)

\* Code between irq::disable and irq::restore, or between an exception's entry
\* and its ERET.  (A nested disable/restore pair leaves the mask as it is.)
Masked(section) == Op("mask", "I") \o section \o Op("restore", "I")

Switch == Op("switch", "")

\* process::create: frames for the image and the stack, the list of them, and a push
\* to the table that may have to grow it.
Create == Guarded("FRAMES") \o Guarded("HEAP") \o Holding("PROCESSES", Guarded("HEAP"))

\* spawn_user: a stack from the heap, then the task vector, which may have to grow.
SpawnUser ==
    Guarded("HEAP")
      \o Masked(Holding("SCHEDULER", Guarded("HEAP")) \o Op("mark", "shell spawned"))

\* kmain from process::create on: set_foreground and ttbr0 follow, then spawn_user.
Boot == Create \o Guarded("PROCESSES") \o Guarded("PROCESSES") \o SpawnUser

\* sqpoll_main before its loop: sched::current, then RING.
Register ==
    Masked(Guarded("SCHEDULER")) \o Guarded("RING") \o Op("mark", "poller registered")

\* sqpoll_main's loop and its helpers ask the process table for count, ring_pa, ttbr0.
Lookup == Guarded("PROCESSES")

\* What drain does with a queue that holds a READ and a SPAWN: table accessors, the
\* input buffer, create and spawn_user.
Processing ==
    Guarded("PROCESSES") \o Guarded("INPUT") \o Create
      \o Guarded("HEAP") \o Holding("SCHEDULER", Guarded("HEAP"))

\* drain, as the poller calls it.
Drain == Masked(Processing)

\* Mutant of Yield: yield_now without irq::disable.
YieldUnmasked == Guarded("SCHEDULER") \o Switch

\* yield_now
Yield == Masked(Guarded("SCHEDULER") \o Switch)

\* block_current: set the state, then schedule.
Block == Masked(Guarded("SCHEDULER") \o Guarded("SCHEDULER") \o Switch)

\* user_task: current_process, then the entry point, with IRQs on up to the ERET.
EnterUser == Masked(Guarded("SCHEDULER")) \o Guarded("PROCESSES")

\* SYS_RING_SETUP: current_process, ring_pa, a frame, ttbr0, frames for the page
\* tables, and set_ring, whose list of frames may have to grow.
Setup ==
    Masked(Guarded("SCHEDULER") \o Guarded("PROCESSES") \o Guarded("FRAMES")
             \o Guarded("PROCESSES") \o Guarded("FRAMES")
             \o Holding("PROCESSES", Guarded("HEAP")))

\* SYS_EXIT: teardown (current_process; abort_user; notify_exit's on_exit, ring_pa,
\* take_waiter and wake; ttbr0, take_frames; the frames and their list; the page
\* tables; mark_exited), then task_exit.
Exit ==
    Masked(Guarded("SCHEDULER") \o Guarded("PROCESSES")
             \o Guarded("PROCESSES") \o Guarded("PROCESSES") \o Guarded("PROCESSES")
             \o Guarded("SCHEDULER") \o Guarded("PROCESSES") \o Guarded("PROCESSES")
             \o Guarded("FRAMES") \o Guarded("HEAP") \o Guarded("FRAMES")
             \o Guarded("PROCESSES")
             \o Guarded("SCHEDULER") \o Op("mark", "shell exited")
             \o Guarded("SCHEDULER") \o Switch)

\* SYS_RING_ENTER: current_process, ring_pa, drain, current, set_waiter, block_current.
Enter ==
    Masked(Guarded("SCHEDULER") \o Guarded("PROCESSES") \o Processing
             \o Guarded("SCHEDULER") \o Guarded("PROCESSES")
             \o Guarded("SCHEDULER") \o Guarded("SCHEDULER") \o Switch)

\* SYS_RING_ENTER with NEED_WAKEUP raised: RING and wake come first.
EnterWaking ==
    Masked(Guarded("SCHEDULER") \o Guarded("PROCESSES") \o Guarded("RING")
             \o Guarded("SCHEDULER") \o Processing)

\* tick: wake_sleepers, then schedule.
TimerIrq == Masked(Guarded("SCHEDULER") \o Guarded("SCHEDULER") \o Switch)

\* drain_uart, then poll_pending: table accessors, pop, take_waiter, wake.
UartIrq ==
    Masked(Guarded("INPUT") \o Guarded("PROCESSES") \o Guarded("INPUT")
             \o Guarded("PROCESSES") \o Guarded("SCHEDULER"))

VARIABLES holder,   \* Locked.locked: the thread holding each lock, or Nobody
          stack,    \* what is left of the sections each thread is in, innermost first
          irqOn,    \* whether each thread runs, or will resume, with IRQs unmasked
          current,  \* the thread on the CPU
          done      \* the Marks passed

vars == <<holder, stack, irqOn, current, done>>

\* kmain has just spawned the poller; the timer and the UART interrupt are on.
Init ==
    /\ holder = [l \in Locks |-> Nobody]
    /\ stack = [t \in Threads |-> CASE t = "kmain" -> <<Boot>>
                                    [] t = "sqpoll" -> <<Register>>
                                    [] t = "shell" -> <<EnterUser>>]
    /\ irqOn = [t \in Threads |-> TRUE]
    /\ current = "kmain"
    /\ done = {}

\* What each thread does after Init's sections.  There are submissions to drain only
\* once the shell exists, and enter finds NEED_WAKEUP raised only once the poller is
\* past its registration.
Sections(t) ==
    CASE t = "kmain"  -> {Yield}
      [] t = "sqpoll" -> {Lookup, Yield, Block}
                            \cup (IF "shell spawned" \in done THEN {Drain} ELSE {})
      [] t = "shell"  -> {Setup, Enter, Exit}
                            \cup (IF "poller registered" \in done THEN {EnterWaking} ELSE {})

Left == stack[current]

Instruction == Head(Head(Left))

At(do) == Left # <<>> /\ Instruction.do = do

\* The running thread begins its next section.
Begin ==
    /\ Left = <<>>
    /\ \E section \in Sections(current) : stack' = [stack EXCEPT ![current] = <<section>>]
    /\ UNCHANGED <<holder, irqOn, current, done>>

\* An interrupt: taken between any two instructions while unmasked.
Interrupt(handler) ==
    /\ irqOn[current]
    /\ stack' = [stack EXCEPT ![current] = <<Tail(handler)>> \o @]
    /\ irqOn' = [irqOn EXCEPT ![current] = FALSE]
    /\ UNCHANGED <<holder, current, done>>

\* The running thread's stack once the instruction is done.
Advance ==
    stack' = [stack EXCEPT ![current] =
                IF Len(Head(@)) = 1 THEN Tail(@) ELSE <<Tail(Head(@))>> \o Tail(@)]

\* lock(): compare_exchange, retried until the lock is free.
Lock ==
    /\ At("lock")
    /\ holder[Instruction.of] = Nobody
    /\ holder' = [holder EXCEPT ![Instruction.of] = current]
    /\ Advance
    /\ UNCHANGED <<irqOn, current, done>>

\* LockGuard::drop
Unlock ==
    /\ At("unlock")
    /\ holder' = [holder EXCEPT ![Instruction.of] = Nobody]
    /\ Advance
    /\ UNCHANGED <<irqOn, current, done>>

\* irq::disable and irq::restore; exception entry's mask is Interrupt's, or a trap's.
SetMask ==
    /\ At("mask") \/ At("restore")
    /\ irqOn' = [irqOn EXCEPT ![current] = At("restore")]
    /\ Advance
    /\ UNCHANGED <<holder, current, done>>

\* context_switch, to another thread or (nothing else runnable) to none.
SwitchTo(t) ==
    /\ At("switch")
    /\ t = "shell" => "shell spawned" \in done /\ "shell exited" \notin done
    /\ current' = t
    /\ Advance
    /\ UNCHANGED <<holder, irqOn, done>>

PassMark ==
    /\ At("mark")
    /\ done' = done \cup {Instruction.of}
    /\ Advance
    /\ UNCHANGED <<holder, irqOn, current>>

Next ==
    \/ Begin
    \/ Interrupt(TimerIrq)
    \/ Interrupt(UartIrq)
    \/ Lock
    \/ Unlock
    \/ SetMask
    \/ \E t \in Threads : SwitchTo(t)
    \/ PassMark

Spec == Init /\ [][Next]_vars

-----------------------------------------------------------------------------
\* The running context is about to take the lock, and somebody holds it.
Contends(lock) == At("lock") /\ Instruction.of = lock /\ holder[lock] # Nobody

\* Nobody ever spins on SCHEDULER and INPUT, taken with IRQs masked everywhere, nor on
\* RING, FRAMES and HEAP, which the poller and kmain take unmasked but before anybody
\* else asks for them; and SCHEDULER and INPUT are held by the thread on the CPU only,
\* so never across context_switch.
MaskedLocksFree ==
    /\ \A lock \in Locks \ {"PROCESSES"} : ~Contends(lock)
    /\ \A lock \in {"SCHEDULER", "INPUT"} : holder[lock] \in {Nobody, current}

\* What input.rs says a spinlock needs: no context with IRQs masked spins on a lock,
\* for the holder cannot run to release it.  (PROCESSES is taken unmasked by kmain, by
\* sqpoll_main and by enter_user, and by the UART handler and the system calls.)
NoMaskedSpin == \A lock \in Locks : Contends(lock) => irqOn[current]
=============================================================================

------------------------------- MODULE Sqpoll -------------------------------
(***************************************************************************)
(* The SQPOLL task of kernel/src/ring.rs against the processes whose rings *)
(* it polls, on one CPU: the poller, the user programs and the idle task   *)
(* interleave through the round-robin scheduler, and TTBR0 follows the     *)
(* running task.                                                           *)
(*                                                                         *)
(* Kernel code entered by an SVC or an IRQ runs with IRQs masked and is    *)
(* one action up to the point where it switches away.  The poller is a     *)
(* kernel thread with IRQs enabled: each of its accesses to shared state   *)
(* is a step of its own, and the timer may preempt it between any two.     *)
(***************************************************************************)
EXTENDS RoundRobin, Sequences, FiniteSets, Loops

CONSTANTS NumProcs,   \* bound on the process table
          IdleTicks,  \* SQ_IDLE_TICKS
          CqEntries,  \* RING_ENTRIES, of the completion queue
          Batch,      \* operations a program has in flight at most
          Spinning,   \* whether programs use wait_spin (jsh's spam)
          Exiting     \* whether programs exit

ASSUME SqpollAssumption ==
    /\ NumProcs \in Nat \ {0} /\ IdleTicks \in Nat \ {0} /\ Batch \in Nat \ {0}
    /\ CqEntries \in Nat /\ Batch <= CqEntries
    /\ Spinning \in BOOLEAN /\ Exiting \in BOOLEAN

Pids == 0..(NumProcs - 1)

\* Task indices: kmain, sqpoll, then one task for each process, in pid order.
Idle == 0
Poller == 1
Task(pid) == pid + 2
Pid(task) == task - 2
IsUser(task) == task >= 2
Tasks == 0..(NumProcs + 1)

\* The boot address space, as a value of `live`.
KernelSpace == NumProcs

VARIABLES state,    \* scheduler: Task.state
          current,  \* scheduler: the running task
          live,     \* TTBR0: the process whose space is installed, or KernelSpace
          count,    \* process::count()
          ring,     \* ring_pa # 0
          frame,    \* the frame ring_pa points to, or pointed to until the exit
          husk,     \* exit_code is set; the space and the ring frame are freed
          parent,   \* Process.parent
          parked,   \* Process.exit_waiter is Some
          waiter,   \* Process.ring_waiter is Some (it is always the own task)
          sq,       \* published, unconsumed SQEs
          cq,       \* number of unreaped CQEs
          flag,     \* NEED_WAKEUP
          idle,     \* TICKS - last_work, up to IdleTicks
          poll,     \* the poller's program counter and locals
          user      \* the programs' program counters and locals

vars == <<state, current, live, count, ring, frame, husk, parent, parked, waiter,
          sq, cq, flag, idle, poll, user>>

schedVars == <<state, current, live>>
procVars == <<count, husk, parent, parked>>
ringVars == <<ring, frame, sq, cq, flag>>

Sqes == [op : {"print", "spawn", "wait"}, child : Pids]

Init ==
    /\ state = [t \in Tasks |-> IF t \in {Idle, Poller} THEN "Runnable" ELSE "Exited"]
    /\ current = Idle
    /\ live = KernelSpace
    /\ count = 0
    /\ ring = [p \in Pids |-> FALSE]
    /\ frame = [p \in Pids |-> p]
    /\ husk = [p \in Pids |-> FALSE]
    /\ parent = [p \in Pids |-> NumProcs]
    /\ parked = [p \in Pids |-> FALSE]
    /\ waiter = [p \in Pids |-> FALSE]
    /\ sq = [p \in Pids |-> <<>>]
    /\ cq = [p \in Pids |-> 0]
    /\ flag = [p \in Pids |-> FALSE]
    /\ idle = 0
    /\ poll = [pc |-> "register", pid |-> 0, lim |-> 0, worked |-> FALSE, on |-> FALSE]
    /\ user = [p \in Pids |-> [pc |-> "start", out |-> 0]]

-----------------------------------------------------------------------------
(* The scheduler: sched.rs. *)

\* Mutant of Schedule: TTBR0 is not switched with the task.
ScheduleKeepingSpace(st, installed) ==
    /\ state' = st
    /\ current' = NextTask(st, current, count + 2)
    /\ live' = installed

\* schedule() from task states st with the space `installed` in TTBR0: a user
\* task gets its own space, a kernel task keeps the one it finds.
Schedule(st, installed) ==
    LET next == NextTask(st, current, count + 2)
    IN  /\ state' = st
        /\ current' = next
        /\ live' = IF next # current /\ IsUser(next) THEN Pid(next) ELSE installed

Woken(st, task) ==
    [st EXCEPT ![task] = IF @ = "Blocked" THEN "Runnable" ELSE @]

\* The timer interrupt.  A task between two rechecks of enter() has IRQs masked.
Tick ==
    /\ ~(IsUser(current) /\ user[Pid(current)].pc = "enter")
    /\ idle' = IF idle < IdleTicks THEN idle + 1 ELSE idle
    /\ Schedule(state, live)
    /\ UNCHANGED <<procVars, ringVars, waiter, poll, user>>

\* kmain creates the shell's process and its task ...
Boot ==
    /\ current = Idle
    /\ count = 0
    /\ count' = 1
    /\ state' = [state EXCEPT ![Task(0)] = "Runnable"]
    /\ UNCHANGED <<current, live, husk, parent, parked, ringVars, waiter, idle, poll, user>>

\* ... and becomes the idle task.
IdleYield ==
    /\ current = Idle
    /\ count > 0
    /\ Schedule(state, live)
    /\ UNCHANGED <<procVars, ringVars, waiter, idle, poll, user>>

-----------------------------------------------------------------------------
(* Consuming submissions: drain, process_sqe, spawn and wait of ring.rs. *)

\* Everything a drain may write.
World == [state |-> state, count |-> count, parent |-> parent, parked |-> parked,
          sq |-> sq, cq |-> cq]

\* complete: one more CQE, dropped when the queue is full.
Completed(unreaped) == IF unreaped < CqEntries THEN unreaped + 1 ELSE unreaped

\* Mutant of ProcessSqe: wait() does not look at the child's exit code.
ProcessSqeParking(w, pid, sqe, readable) ==
    IF sqe.op = "spawn" /\ readable
    THEN [w EXCEPT !.cq[pid] = Completed(@),
                   !.count = @ + 1,
                   !.parent[w.count] = pid,
                   !.state[Task(w.count)] = "Runnable"]
    ELSE IF sqe.op = "wait" /\ w.parent[sqe.child] = pid
    THEN [w EXCEPT !.parked[sqe.child] = TRUE]
    ELSE [w EXCEPT !.cq[pid] = Completed(@)]

\* One SQE of process pid.  `readable` tells whether its payload was read in the
\* right address space; in another one a program's name is not found.  A wait for
\* a living child parks; for an exited one, or no child, it is answered at once.
ProcessSqe(w, pid, sqe, readable) ==
    IF sqe.op = "spawn" /\ readable
    THEN [w EXCEPT !.cq[pid] = Completed(@),
                   !.count = @ + 1,
                   !.parent[w.count] = pid,
                   !.state[Task(w.count)] = "Runnable"]
    ELSE IF sqe.op = "wait" /\ w.parent[sqe.child] = pid /\ ~husk[sqe.child]
    THEN [w EXCEPT !.parked[sqe.child] = TRUE]
    ELSE [w EXCEPT !.cq[pid] = Completed(@)]

\* The loop of drain: every published SQE of pid, in order.
Consumed(w, pid, readable) ==
    Loop(LAMBDA acc, sqe : ProcessSqe(acc, pid, sqe, readable), w, sq[pid])

\* Mutant of Drained: sq_head is not stored back, so the entries stay published.
DrainedKeepingHead(w, pid, readable) ==
    IF ring[pid] THEN Consumed(w, pid, readable) ELSE w

\* drain: with IRQs disabled nobody sees sq_head before it has reached the tail.
Drained(w, pid, readable) ==
    IF ring[pid] THEN [Consumed(w, pid, readable) EXCEPT !.sq[pid] = <<>>] ELSE w

\* The queues and the process table, all but the task states.
SetWorld(w) ==
    /\ count' = w.count
    /\ parent' = w.parent
    /\ parked' = w.parked
    /\ sq' = w.sq
    /\ cq' = w.cq

-----------------------------------------------------------------------------
(* The programs: user/src/uring.rs, lib.rs and bin/jsh.rs over the system  *)
(* calls of syscall.rs.                                                    *)

At(pid, pc) == current = Task(pid) /\ user[pid].pc = pc

Goto(pid, pc) == user' = [user EXCEPT ![pid].pc = pc]

\* SYS_RING_SETUP: a zeroed ring page, in a frame that was never one (and is named
\* by the pid that gets it) or in the one a dead process left on the free list.
Setup(pid) ==
    /\ At(pid, "start")
    /\ \E f \in Pids :
          /\ f = pid \/ husk[f]
          /\ \A p \in Pids : ring[p] => frame[p] # f
          /\ frame' = [frame EXCEPT ![pid] = f]
    /\ ring' = [ring EXCEPT ![pid] = TRUE]
    /\ Goto(pid, "ready")
    /\ UNCHANGED <<schedVars, procVars, sq, cq, flag, waiter, idle, poll>>

\* A program waits for each of its children once, and spawns while there is room.
MayPublish(pid, sqe) ==
    CASE sqe.op = "print" -> sqe.child = 0
      [] sqe.op = "spawn" -> /\ sqe.child = 0
                             /\ count < NumProcs
                             /\ \A p \in Pids : sqe \notin Range(sq[p])
      [] sqe.op = "wait"  -> /\ parent[sqe.child] = pid
                             /\ ~parked[sqe.child]
                             /\ sqe \notin Range(sq[pid])

\* uring::sqe: write the entry and publish the tail.
Publish(pid, sqe) ==
    /\ At(pid, "ready") \/ At(pid, "sent")
    /\ user[pid].out < Batch
    /\ MayPublish(pid, sqe)
    /\ sq' = [sq EXCEPT ![pid] = Append(@, sqe)]
    /\ user' = [user EXCEPT ![pid] = [pc |-> "submit", out |-> @.out + 1]]
    /\ UNCHANGED <<schedVars, procVars, ring, frame, cq, flag, waiter, idle, poll>>

\* uring::submit: trap only when NEED_WAKEUP is up.
Submit(pid) ==
    /\ At(pid, "submit")
    /\ Goto(pid, IF flag[pid] THEN "trap" ELSE "sent")
    /\ UNCHANGED <<schedVars, procVars, ringVars, waiter, idle, poll>>

\* wait or wait_spin for everything in flight.
StartReap(pid) ==
    /\ At(pid, "sent")
    /\ \E pc \in {"reap"} \union (IF Spinning THEN {"spin"} ELSE {}) : Goto(pid, pc)
    /\ UNCHANGED <<schedVars, procVars, ringVars, waiter, idle, poll>>

\* One turn of the loop of uring::reap.
Reap(pid) ==
    /\ At(pid, "reap") \/ At(pid, "spin")
    /\ IF cq[pid] > 0
       THEN /\ cq' = [cq EXCEPT ![pid] = @ - 1]
            /\ user' = [user EXCEPT ![pid] =
                          [pc |-> IF @.out = 1 THEN "ready" ELSE @.pc, out |-> @.out - 1]]
       ELSE /\ Goto(pid, IF user[pid].pc = "reap" THEN "svc" ELSE "spin")
            /\ UNCHANGED cq
    /\ UNCHANGED <<schedVars, procVars, ring, frame, sq, flag, waiter, idle, poll>>

\* Mutant of EnterWorld: enter() leaves the queue to the poller it wakes.
EnterWorldUndrained(pid) ==
    LET poller == IF flag[pid] /\ poll.pc # "register" THEN Woken(state, Poller) ELSE state
    IN  [World EXCEPT !.state = poller]

\* SYS_RING_ENTER up to the first check of the completion queue: lower the flag
\* and wake the poller if it was up, then drain in the caller's own space.
EnterWorld(pid) ==
    LET poller == IF flag[pid] /\ poll.pc # "register" THEN Woken(state, Poller) ELSE state
    IN  Drained([World EXCEPT !.state = poller], pid, TRUE)

\* enter(0): submit only.
EnterSubmit(pid) ==
    /\ At(pid, "trap")
    /\ SetWorld(EnterWorld(pid))
    /\ state' = EnterWorld(pid).state
    /\ flag' = [flag EXCEPT ![pid] = FALSE]
    /\ Goto(pid, "sent")
    /\ UNCHANGED <<current, live, husk, ring, frame, waiter, idle, poll>>

\* Check the queue: return to EL0, or register as the waiter and block.
CheckOrBlock(pid, st, unreaped) ==
    IF unreaped >= 1
    THEN /\ Goto(pid, "reap")
         /\ state' = st
         /\ UNCHANGED <<current, live, waiter>>
    ELSE /\ Goto(pid, "enter")
         /\ waiter' = [waiter EXCEPT ![pid] = TRUE]
         /\ Schedule([st EXCEPT ![Task(pid)] = "Blocked"], live)

\* enter(1): the same, then wait for a completion.
EnterWait(pid) ==
    /\ At(pid, "svc")
    /\ SetWorld(EnterWorld(pid))
    /\ flag' = [flag EXCEPT ![pid] = FALSE]
    /\ CheckOrBlock(pid, EnterWorld(pid).state, EnterWorld(pid).cq[pid])
    /\ UNCHANGED <<husk, ring, frame, idle, poll>>

\* The task was woken inside enter: recheck, never trust a wake.
EnterRecheck(pid) ==
    /\ At(pid, "enter")
    /\ CheckOrBlock(pid, state, cq[pid])
    /\ UNCHANGED <<procVars, ringVars, idle, poll>>

\* SYS_EXIT, or a fault of the program: teardown (abort_user, notify_exit, free
\* the frames, leave for the kernel's space, free the tables, mark_exited), then
\* task_exit.  Programs exit here between two batches, with nothing in flight.
Exit(pid) ==
    LET par == parent[pid]
        notified == [state EXCEPT ![Task(pid)] = "Exited"]
    IN  /\ Exiting
        /\ At(pid, "ready")
        /\ husk' = [husk EXCEPT ![pid] = TRUE]
        /\ ring' = [ring EXCEPT ![pid] = FALSE]
        /\ flag' = [flag EXCEPT ![pid] = FALSE]
        /\ parked' = [parked EXCEPT ![pid] = FALSE]
        /\ cq' = [p \in Pids |-> IF parked[pid] /\ p = par /\ ring[p] THEN Completed(cq[p]) ELSE cq[p]]
        /\ waiter' = [p \in Pids |-> waiter[p] /\ p # pid /\ ~(parked[pid] /\ p = par)]
        /\ Schedule(IF parked[pid] /\ waiter[par] THEN Woken(notified, Task(par)) ELSE notified,
                    KernelSpace)
        /\ UNCHANGED <<count, parent, frame, sq, idle, poll, user>>

UserStep(pid) ==
    \/ Setup(pid)
    \/ \E sqe \in Sqes : Publish(pid, sqe)
    \/ Submit(pid)
    \/ StartReap(pid)
    \/ Reap(pid)
    \/ EnterSubmit(pid)
    \/ EnterWait(pid)
    \/ EnterRecheck(pid)
    \/ Exit(pid)

-----------------------------------------------------------------------------
(* The poller: sqpoll_main, has_submissions and set_all_wakeup. *)

PollAt(pc) == current = Poller /\ poll.pc = pc

\* RING.poller = current(), last_work = ticks().
Register ==
    /\ PollAt("register")
    /\ poll' = [poll EXCEPT !.pc = "loop"]
    /\ idle' = 0
    /\ UNCHANGED <<schedVars, procVars, ringVars, waiter, user>>

\* The head of the loop: no work yet, and the bound of `0..process::count()`.
PollLoop ==
    /\ PollAt("loop")
    /\ poll' = [poll EXCEPT !.pc = "scan", !.pid = 0, !.lim = count, !.worked = FALSE]
    /\ UNCHANGED <<schedVars, procVars, ringVars, waiter, idle, user>>

\* has_submissions, first access: ring_pa under the lock of the process table.
Scan ==
    /\ PollAt("scan") /\ poll.pid < poll.lim
    /\ poll' = IF ring[poll.pid] THEN [poll EXCEPT !.pc = "peek"]
                                 ELSE [poll EXCEPT !.pid = @ + 1]
    /\ UNCHANGED <<schedVars, procVars, ringVars, waiter, idle, user>>

\* Whose ring page is the frame that was pid's when ring_pa was read: pid's still,
\* that of the process the frame went to when pid exited, or nobody's.
PageOwners(pid) == {p \in Pids : ring[p] /\ frame[p] = frame[pid]}

\* What the indices there show; a frame that is no ring page holds anything.
Peeked(pid) ==
    IF PageOwners(pid) = {} THEN BOOLEAN ELSE {sq[p] # <<>> : p \in PageOwners(pid)}

\* has_submissions, second access: the indices in the ring page.
Peek ==
    /\ PollAt("peek")
    /\ \E busy \in Peeked(poll.pid) :
          poll' = IF busy THEN [poll EXCEPT !.pc = "activate"]
                          ELSE [poll EXCEPT !.pc = "scan", !.pid = @ + 1]
    /\ UNCHANGED <<schedVars, procVars, ringVars, waiter, idle, user>>

\* mmu::activate(process::ttbr0(pid)).
Activate ==
    /\ PollAt("activate")
    /\ live' = poll.pid
    /\ poll' = [poll EXCEPT !.pc = "drain"]
    /\ UNCHANGED <<state, current, procVars, ringVars, waiter, idle, user>>

\* drain(pid), IRQs disabled, in whatever space is installed by now.
Drain ==
    /\ PollAt("drain")
    /\ \E readable \in {TRUE, live = poll.pid} :
          LET w == Drained(World, poll.pid, readable)
          IN  SetWorld(w) /\ state' = w.state
    /\ poll' = [poll EXCEPT !.pc = "scan", !.pid = @ + 1, !.worked = TRUE]
    /\ UNCHANGED <<current, live, husk, ring, frame, flag, waiter, idle, user>>

\* Enter set_all_wakeup(on).
SetAllWakeup(on) == [poll EXCEPT !.pc = "flags", !.pid = 0, !.lim = count, !.on = on]

\* After the scan: lower the flags if there was work, raise them after IdleTicks
\* without any, else poll again.
Decide ==
    /\ PollAt("scan") /\ poll.pid >= poll.lim
    /\ poll' = IF poll.worked THEN SetAllWakeup(FALSE)
               ELSE IF idle >= IdleTicks THEN SetAllWakeup(TRUE)
               ELSE [poll EXCEPT !.pc = "yield"]
    /\ UNCHANGED <<schedVars, procVars, ringVars, waiter, idle, user>>

\* set_all_wakeup, first access: ring_pa.
Flags ==
    /\ PollAt("flags") /\ poll.pid < poll.lim
    /\ poll' = IF ring[poll.pid] THEN [poll EXCEPT !.pc = "store"]
                                 ELSE [poll EXCEPT !.pid = @ + 1]
    /\ UNCHANGED <<schedVars, procVars, ringVars, waiter, idle, user>>

\* set_all_wakeup, second access: the flags word of whoever's ring page it is now.
\* What the store does to a frame that became a page table or user memory is not
\* shown here.
Store ==
    /\ PollAt("store")
    /\ flag' = [p \in Pids |-> IF p \in PageOwners(poll.pid) THEN poll.on ELSE flag[p]]
    /\ poll' = [poll EXCEPT !.pc = "flags", !.pid = @ + 1]
    /\ UNCHANGED <<schedVars, procVars, ring, frame, sq, cq, waiter, idle, user>>

\* The flags are set: with them up, scan once more; with them down, stamp
\* last_work and give the producers their turn.
FlagsSet ==
    /\ PollAt("flags") /\ poll.pid >= poll.lim
    /\ IF poll.on
       THEN /\ poll' = [poll EXCEPT !.pc = "rescan", !.pid = 0, !.lim = count]
            /\ UNCHANGED idle
       ELSE /\ poll' = [poll EXCEPT !.pc = "yield"]
            /\ idle' = 0
    /\ UNCHANGED <<schedVars, procVars, ringVars, waiter, user>>

\* (0..count()).any(has_submissions), in the two accesses of Scan and Peek.
Rescan ==
    /\ PollAt("rescan")
    /\ poll' = IF poll.pid >= poll.lim THEN [poll EXCEPT !.pc = "block"]
               ELSE IF ring[poll.pid] THEN [poll EXCEPT !.pc = "repeek"]
               ELSE [poll EXCEPT !.pid = @ + 1]
    /\ UNCHANGED <<schedVars, procVars, ringVars, waiter, idle, user>>

Repeek ==
    /\ PollAt("repeek")
    /\ \E busy \in Peeked(poll.pid) :
          poll' = IF busy THEN SetAllWakeup(FALSE)
                          ELSE [poll EXCEPT !.pc = "rescan", !.pid = @ + 1]
    /\ UNCHANGED <<schedVars, procVars, ringVars, waiter, idle, user>>

\* block_current, until enter() wakes the poller.
Block ==
    /\ PollAt("block")
    /\ poll' = [poll EXCEPT !.pc = "woken"]
    /\ Schedule([state EXCEPT ![Poller] = "Blocked"], live)
    /\ UNCHANGED <<procVars, ringVars, waiter, idle, user>>

\* Mutant of WokenUp: the other rings' flags stay up.
WokenUpFlagsUp ==
    /\ PollAt("woken")
    /\ poll' = [poll EXCEPT !.pc = "yield"]
    /\ idle' = 0
    /\ UNCHANGED <<schedVars, procVars, ringVars, waiter, user>>

\* enter() lowered the flag of the ring it was called for; lower the rest.
WokenUp ==
    /\ PollAt("woken")
    /\ poll' = SetAllWakeup(FALSE)
    /\ UNCHANGED <<schedVars, procVars, ringVars, waiter, idle, user>>

PollYield ==
    /\ PollAt("yield")
    /\ poll' = [poll EXCEPT !.pc = "loop"]
    /\ Schedule(state, live)
    /\ UNCHANGED <<procVars, ringVars, waiter, idle, user>>

PollStep ==
    \/ Register \/ PollLoop \/ Scan \/ Peek \/ Activate \/ Drain \/ Decide
    \/ Flags \/ Store \/ FlagsSet \/ Rescan \/ Repeek \/ Block \/ WokenUp \/ PollYield

-----------------------------------------------------------------------------
\* Under a freed L0, whose kernel slot the free list has overwritten, not even
\* the exception vectors are mapped: the machine takes no further step.
KernelMapped == live \in {KernelSpace} \union {p \in Pids : ~husk[p]}

Next ==
    /\ KernelMapped
    /\ \/ Tick
       \/ Boot
       \/ IdleYield
       \/ PollStep
       \/ \E pid \in Pids : UserStep(pid)

\* The timer keeps firing; and a tick is much longer than a step, so a task that
\* gets the CPU again and again also takes steps again and again.
Fairness ==
    /\ SF_vars(KernelMapped /\ Tick)
    /\ SF_vars(KernelMapped /\ Boot)
    /\ SF_vars(KernelMapped /\ PollStep)
    /\ \A pid \in Pids : SF_vars(KernelMapped /\ UserStep(pid))

Spec == Init /\ [][Next]_vars /\ Fairness

-----------------------------------------------------------------------------
\* schedule() restores a process's own space whenever its task runs, whatever the
\* poller activated in the meantime: programs and their system calls, drain
\* included, never see another process's memory.
UserInOwnSpace == IsUser(current) => live = Pid(current)

\* While the poller is polling no ring has NEED_WAKEUP up, so submit() costs no
\* system call ("with the SQ poller awake this is zero syscalls").
NoTrapWhilePolling ==
    poll.pc \in {"loop", "scan", "peek", "activate", "drain"} => \A p \in Pids : ~flag[p]

\* A task blocked in enter() still has a wake coming: its queue is empty, it is
\* registered as the waiter, and an OP_WAIT of its process is parked on a child
\* that has not exited.
BlockedHasWaker ==
    \A p \in Pids :
        state[Task(p)] = "Blocked" =>
            /\ cq[p] = 0
            /\ waiter[p]
            /\ \E c \in Pids : parent[c] = p /\ parked[c] /\ ~husk[c]

\* Nothing in flight gets lost between the poller and enter(): every operation a
\* process has published and not reaped is in its queue, parked or completed.
InFlightAccounted ==
    \A p \in Pids :
        ring[p] => user[p].out = Len(sq[p]) + cq[p]
                     + Cardinality({c \in Pids : parent[c] = p /\ parked[c]})

\* wait() always returns: a program that sleeps for its completions gets them, even
\* when the poller is asleep with the flag down, because enter() drains for itself.
WaitReturns ==
    \A p \in Pids : (user[p].pc \in {"reap", "svc", "enter"}) ~> (user[p].pc = "ready")

-----------------------------------------------------------------------------
(* What comments of the repository say of the poller, and the code does not do. *)

\* "The caller must ensure pid's address space is live ...: the poller activates
\* it": when the poller drains submissions it does so in their owner's space.
DrainInOwnSpace ==
    PollAt("drain") /\ ring[poll.pid] /\ sq[poll.pid] # <<>> => live = poll.pid

\* "Slot 0 of every such table aliases the kernel L1, so kernel code and the
\* current stack remain mapped across the switch": activate never installs an
\* address space that has been freed.
LiveSpaceNotFreed == KernelMapped

\* "Any SQE published just before catches here; any published after sees
\* NEED_WAKEUP and traps to wake us": every published SQE is consumed.
PublishedIsConsumed ==
    \A p \in Pids : (sq[p] # <<>>) ~> (sq[p] = <<>>)
=============================================================================

-------------------------------- MODULE Jring --------------------------------
(***************************************************************************)
(* jring, request by request: the operations of kernel/src/ring.rs on the  *)
(* process table of process.rs and the console input of input.rs, driven   *)
(* by programs that use user/src/uring.rs.                                 *)
(*                                                                         *)
(* Every kernel entry (SVC, UART interrupt, a drain of the poller) runs    *)
(* with IRQs masked and is one action; programs interleave at every system *)
(* call and at every access to their ring.  When the poller drains is left *)
(* open here; module Sqpoll has its schedule.                              *)
(***************************************************************************)
EXTENDS Integers, Sequences, FiniteSets, Loops

CONSTANTS NumProcs,    \* bound on the process table
          Quota,       \* bound on the tags a process hands out
          InFlight,    \* requests a program keeps in flight at most
          MaxPending,  \* MAX_PENDING
          CqEntries,   \* RING_ENTRIES, of the completion queue
          StashSlots,  \* STASH.len()
          InputCap,    \* INPUT_BUF_SIZE - 1
          MaxKeys,     \* bound on the keys typed
          WaitTwice,   \* whether programs wait twice for the same child
          None         \* Option::None

Pids == 0..(NumProcs - 1)
ERR == -1

\* A submission queue entry: the request, its argument and its tag (user_data).
Sqe == [op : {"nop", "bad", "read", "spawn", "wait"}, arg : Nat, tag : Nat]

ASSUME JringAssumption ==
    /\ NumProcs \in Nat \ {0}
    /\ Quota \in [Pids -> Nat]
    /\ InFlight \in Nat /\ MaxPending \in Nat /\ CqEntries \in Nat
    /\ StashSlots \in Nat /\ InputCap \in Nat \ {0} /\ MaxKeys \in Nat
    /\ WaitTwice \in BOOLEAN
    /\ None \notin Int /\ None \notin Sqe

\* The first process owns the keyboard; OP_SPAWN never passes it on.
Shell == 0

Slots == 1..MaxPending

VARIABLES count,       \* PROCESSES.len()
          parent,      \* Process.parent
          exitCode,    \* Process.exit_code; None while the process runs
          exitWaiter,  \* Process.exit_waiter: a tag of the parent, or None
          hasRing,     \* Process.ring_pa # 0
          pending,     \* Process.pending: slot -> SQE of the parked READ, or None
          ringWaiter,  \* Process.ring_waiter is Some
          blocked,     \* the process's task is Blocked in enter
          sq, cq,      \* the two queues of the ring page
          device,      \* bytes in the UART and behind it
          input,       \* INPUT: the kernel's input ring
          rxMasked,    \* the receive interrupt is masked
          nextTag,     \* NEXT_TAG of the process
          stash,       \* STASH of the process: the completions in it
          want,        \* the tag wait() is waiting for, or None
          pc,          \* where the program is
          inflight,    \* history: requests submitted and not yet returned
          typed, got   \* history: keys typed; bytes each process was given

procVars == <<count, parent, exitCode, exitWaiter, hasRing, pending, ringWaiter, blocked>>
consoleVars == <<device, input, rxMasked, typed, got>>
clientVars == <<nextTag, stash, want, pc, inflight>>
vars == <<procVars, sq, cq, consoleVars, clientVars>>

Init ==
    /\ count = 1
    /\ parent = [p \in Pids |-> None]
    /\ exitCode = [p \in Pids |-> None]
    /\ exitWaiter = [p \in Pids |-> None]
    /\ hasRing = [p \in Pids |-> FALSE]
    /\ pending = [p \in Pids |-> [s \in Slots |-> None]]
    /\ ringWaiter = [p \in Pids |-> FALSE]
    /\ blocked = [p \in Pids |-> FALSE]
    /\ sq = [p \in Pids |-> <<>>] /\ cq = [p \in Pids |-> <<>>]
    /\ device = <<>> /\ input = <<>> /\ rxMasked = FALSE
    /\ nextTag = [p \in Pids |-> 1]
    /\ stash = [p \in Pids |-> {}]
    /\ want = [p \in Pids |-> None]
    /\ pc = [p \in Pids |-> "start"]
    /\ inflight = [p \in Pids |-> {}]
    /\ typed = 0
    /\ got = [p \in Pids |-> <<>>]

-----------------------------------------------------------------------------
(* Requests and completions. *)

\* What a program asks for: something that completes at once (OP_NOP, OP_PRINT),
\* or not at all well-formed (a bad pointer or opcode, an unknown program), a READ
\* of so many bytes, a SPAWN, a WAIT for a handle.
Asks ==
    [op : {"nop", "bad", "spawn"}, arg : {0}]
        \union [op : {"read"}, arg : 0..2]
        \union [op : {"wait"}, arg : Pids]

Running(p) == p < count /\ exitCode[p] = None

\* process::foreground_pid() = Some(p).
Foreground(p) == p = Shell /\ Running(p)

\* Everything a kernel entry may write in one go.
World == [count |-> count, parent |-> parent, exitWaiter |-> exitWaiter,
          pending |-> pending, cq |-> cq, input |-> input, rxMasked |-> rxMasked, got |-> got]

SetWorld(w) ==
    /\ count' = w.count /\ parent' = w.parent /\ exitWaiter' = w.exitWaiter
    /\ pending' = w.pending /\ cq' = w.cq
    /\ input' = w.input /\ rxMasked' = w.rxMasked /\ got' = w.got

\* complete(): post a CQE, or drop it when the queue is full.
Complete(w, p, tag, result) ==
    IF Len(w.cq[p]) >= CqEntries
    THEN w
    ELSE [w EXCEPT !.cq[p] = Append(@, [tag |-> tag, res |-> result])]

\* drain_input() over pop(): move up to len bytes to the process; the first byte
\* out of a full ring unmasks the receive interrupt.
InputCount(w, len) == IF len < Len(w.input) THEN len ELSE Len(w.input)

\* Mutant of DrainInput: pop() never unmasks the receive interrupt.
DrainInputMasked(w, p, len) ==
    LET k == InputCount(w, len)
    IN  [w EXCEPT !.got[p] = @ \o SubSeq(w.input, 1, k), !.input = SubSeq(@, k + 1, Len(@))]

DrainInput(w, p, len) ==
    LET k == InputCount(w, len)
    IN  [w EXCEPT !.got[p] = @ \o SubSeq(w.input, 1, k),
                  !.input = SubSeq(@, k + 1, Len(@)),
                  !.rxMasked = @ /\ ~(k > 0 /\ Len(w.input) = InputCap)]

\* park_read(): the first free slot.
FreeSlots(w, p) == {s \in Slots : w.pending[p][s] = None}

\* Mutant of ParkRead: always the first slot.
ParkReadFirst(w, p, sqe) == [w EXCEPT !.pending[p][1] = sqe]

ParkRead(w, p, sqe) ==
    LET slot == CHOOSE s \in FreeSlots(w, p) : \A t \in FreeSlots(w, p) : s <= t
    IN  [w EXCEPT !.pending[p][slot] = sqe]

\* Mutant of Read: the input goes to whoever reads first.
ReadByAnyone(w, p, sqe) ==
    IF sqe.arg = 0 THEN Complete(w, p, sqe.tag, 0)
    ELSE IF w.input # <<>>
    THEN Complete(DrainInput(w, p, sqe.arg), p, sqe.tag, InputCount(w, sqe.arg))
    ELSE IF FreeSlots(w, p) = {} THEN Complete(w, p, sqe.tag, ERR)
    ELSE ParkRead(w, p, sqe)

\* OP_READ: complete at once with buffered input, for the foreground, else park.
Read(w, p, sqe) ==
    IF sqe.arg = 0 THEN Complete(w, p, sqe.tag, 0)
    ELSE IF Foreground(p) /\ w.input # <<>>
    THEN Complete(DrainInput(w, p, sqe.arg), p, sqe.tag, InputCount(w, sqe.arg))
    ELSE IF FreeSlots(w, p) = {} THEN Complete(w, p, sqe.tag, ERR)
    ELSE ParkRead(w, p, sqe)

\* spawn(): a new process, with the caller as its parent.
Spawn(w, p, sqe) ==
    Complete([w EXCEPT !.count = @ + 1, !.parent[w.count] = p], p, sqe.tag, w.count)

\* Mutant of Wait: park without looking at the exit code.
WaitParking(w, p, sqe) ==
    IF sqe.arg >= w.count \/ w.parent[sqe.arg] # p THEN Complete(w, p, sqe.tag, ERR)
    ELSE [w EXCEPT !.exitWaiter[sqe.arg] = sqe.tag]

\* wait(): reject what is not a child, complete if it has exited, else park.
Wait(w, p, sqe) ==
    IF sqe.arg >= w.count \/ w.parent[sqe.arg] # p THEN Complete(w, p, sqe.tag, ERR)
    ELSE IF exitCode[sqe.arg] # None THEN Complete(w, p, sqe.tag, exitCode[sqe.arg])
    ELSE [w EXCEPT !.exitWaiter[sqe.arg] = sqe.tag]

ProcessSqe(w, p, sqe) ==
    CASE sqe.op = "nop"   -> Complete(w, p, sqe.tag, 0)
      [] sqe.op = "bad"   -> Complete(w, p, sqe.tag, ERR)
      [] sqe.op = "read"  -> Read(w, p, sqe)
      [] sqe.op = "spawn" -> Spawn(w, p, sqe)
      [] sqe.op = "wait"  -> Wait(w, p, sqe)

\* drain(): every published SQE, in order.
Drain(p) == Loop(LAMBDA w, sqe : ProcessSqe(w, p, sqe), World, sq[p])

\* The poller finds submissions and drains them.
PollDrain(p) ==
    /\ hasRing[p] /\ sq[p] # <<>>
    /\ SetWorld(Drain(p))
    /\ sq' = [sq EXCEPT ![p] = <<>>]
    /\ UNCHANGED <<exitCode, hasRing, ringWaiter, blocked, device, typed, clientVars>>

-----------------------------------------------------------------------------
(* The console: input.rs and the UART interrupt. *)

\* A key is typed; what the device cannot hold waits in the host.
Key ==
    /\ typed < MaxKeys
    /\ typed' = typed + 1
    /\ device' = Append(device, typed + 1)
    /\ UNCHANGED <<procVars, sq, cq, input, rxMasked, got, clientVars>>

\* How many bytes drain_uart moves before the ring is full or the device empty.
UartCount ==
    LET room == InputCap - Len(input)
    IN  IF Len(device) < room THEN Len(device) ELSE room

\* The input ring after drain_uart, which masks the interrupt on a full ring.
DrainUart ==
    LET buf == input \o SubSeq(device, 1, UartCount)
    IN  [World EXCEPT !.input = buf, !.rxMasked = @ \/ Len(buf) = InputCap]

\* Mutant of PollSlot: the slot is not cleared.
PollSlotKept(w, s) ==
    LET sqe == w.pending[Shell][s]
    IN  IF sqe = None \/ w.input = <<>>
        THEN w
        ELSE Complete(DrainInput(w, Shell, sqe.arg), Shell, sqe.tag, InputCount(w, sqe.arg))

\* poll_pending: offer the input to the foreground's parked reads, slot by slot.
PollSlot(w, s) ==
    LET sqe == w.pending[Shell][s]
    IN  IF sqe = None \/ w.input = <<>>
        THEN w
        ELSE [Complete(DrainInput(w, Shell, sqe.arg), Shell, sqe.tag, InputCount(w, sqe.arg))
                EXCEPT !.pending[Shell][s] = None]

\* Mutant of PollPending: it stops after the first slot.
PollPendingOnce(w) ==
    IF Foreground(Shell) /\ hasRing[Shell] THEN PollSlot(w, 1) ELSE w

\* poll_pending: nothing without a foreground process that has a ring.
PollPending(w) ==
    IF Foreground(Shell) /\ hasRing[Shell]
    THEN Loop(PollSlot, w, [s \in Slots |-> s])
    ELSE w

\* Mutant of WakeWaiters: the waiter is taken and not woken.
TakeWaiters(ps) ==
    /\ ringWaiter' = [p \in Pids |-> ringWaiter[p] /\ p \notin ps]
    /\ UNCHANGED blocked

\* take_waiter and wake, for each of the processes ps.
WakeWaiters(ps) ==
    /\ ringWaiter' = [p \in Pids |-> ringWaiter[p] /\ p \notin ps]
    /\ blocked' = [p \in Pids |-> blocked[p] /\ ~(p \in ps /\ ringWaiter[p])]

\* handle_irq for the UART: level-triggered while there is something to receive.
UartIrq ==
    /\ ~rxMasked /\ device # <<>>
    /\ LET w == PollPending(DrainUart)
       IN  /\ SetWorld(w)
           /\ WakeWaiters(IF w.pending # pending THEN {Shell} ELSE {})
    /\ device' = SubSeq(device, UartCount + 1, Len(device))
    /\ UNCHANGED <<exitCode, hasRing, sq, typed, clientVars>>

-----------------------------------------------------------------------------
(* The system calls. *)

\* SYS_RING_SETUP.
Setup(p) ==
    /\ Running(p) /\ pc[p] = "start"
    /\ hasRing' = [hasRing EXCEPT ![p] = TRUE]
    /\ pc' = [pc EXCEPT ![p] = "run"]
    /\ UNCHANGED <<count, parent, exitCode, exitWaiter, pending, ringWaiter, blocked, sq, cq,
                   consoleVars, nextTag, stash, want, inflight>>

\* SYS_RING_ENTER(0), from submit().
EnterSubmit(p) ==
    /\ pc[p] = "run"
    /\ PollDrain(p)

\* The loop at the end of enter(1): return, or register as the waiter and block.
CheckOrBlock(p, unreaped) ==
    IF unreaped >= 1
    THEN /\ pc' = [pc EXCEPT ![p] = "reap"]
         /\ UNCHANGED <<ringWaiter, blocked>>
    ELSE /\ pc' = [pc EXCEPT ![p] = "enter"]
         /\ ringWaiter' = [ringWaiter EXCEPT ![p] = TRUE]
         /\ blocked' = [blocked EXCEPT ![p] = TRUE]

\* SYS_RING_ENTER(1), from reap(): drain, then wait for a completion.
EnterWait(p) ==
    /\ pc[p] = "svc"
    /\ SetWorld(Drain(p))
    /\ sq' = [sq EXCEPT ![p] = <<>>]
    /\ CheckOrBlock(p, Len(Drain(p).cq[p]))
    /\ UNCHANGED <<exitCode, hasRing, device, typed, nextTag, stash, want, inflight>>

\* Woken in enter(): recheck.
EnterRecheck(p) ==
    /\ pc[p] = "enter" /\ ~blocked[p]
    /\ CheckOrBlock(p, Len(cq[p]))
    /\ UNCHANGED <<count, parent, exitCode, exitWaiter, hasRing, pending, sq, cq, consoleVars,
                   nextTag, stash, want, inflight>>

\* Mutant of NotifyExit: the parent is told 0 whatever the code.
NotifySuccess(p) ==
    LET fired == [World EXCEPT !.exitWaiter[p] = None]
    IN  IF exitWaiter[p] # None /\ hasRing[parent[p]]
        THEN Complete(fired, parent[p], exitWaiter[p], 0)
        ELSE fired

\* notify_exit: record the code and fire the parent's parked wait, if its ring is
\* still there.
NotifyExit(p) ==
    LET fired == [World EXCEPT !.exitWaiter[p] = None]
    IN  IF exitWaiter[p] # None /\ hasRing[parent[p]]
        THEN Complete(fired, parent[p], exitWaiter[p], exitCode'[p])
        ELSE fired

\* Teardown and the end of the task.  Parked reads, the waiter
\* and the ring page go with the process; the husk keeps parent and exit code.
Exit(p, code) ==
    /\ Running(p) /\ pc[p] # "enter"
    /\ exitCode' = [exitCode EXCEPT ![p] = code]
    /\ LET w == NotifyExit(p)
       IN  SetWorld([w EXCEPT !.pending[p] = [s \in Slots |-> None], !.cq[p] = <<>>])
    /\ WakeWaiters({p} \union (IF exitWaiter[p] # None THEN {parent[p]} ELSE {}))
    /\ hasRing' = [hasRing EXCEPT ![p] = FALSE]
    /\ sq' = [sq EXCEPT ![p] = <<>>]
    /\ stash' = [stash EXCEPT ![p] = {}]
    /\ inflight' = [inflight EXCEPT ![p] = {}]
    /\ want' = [want EXCEPT ![p] = None]
    /\ pc' = [pc EXCEPT ![p] = "exited"]
    /\ UNCHANGED <<device, typed, nextTag>>

\* SYS_EXIT with a success code.
SysExit(p) == Exit(p, 0)

\* A fault at EL0 kills the program.
KillUser(p) == Exit(p, -1)

-----------------------------------------------------------------------------
(* The programs: uring.rs. *)

\* The spawns that are queued, by process and place in its queue.
QueuedSpawns ==
    UNION {{q} \X {i \in DOMAIN sq[q] : sq[q][i].op = "spawn"} : q \in Pids}

\* Bounds on what a program asks: children while there is room in the table, and
\* one wait at a time for a child unless WaitTwice.
MayAsk(p, ask) ==
    CASE ask.op = "spawn" -> count + Cardinality(QueuedSpawns) < NumProcs
      [] ask.op = "wait" -> WaitTwice \/ \A e \in inflight[p] : e.op # "wait" \/ e.arg # ask.arg
      [] OTHER -> TRUE

\* sqe(): take a tag, write the entry, publish the tail.
Publish(p, ask) ==
    /\ pc[p] = "run"
    /\ nextTag[p] <= Quota[p] /\ Cardinality(inflight[p]) < InFlight
    /\ MayAsk(p, ask)
    /\ LET sqe == [op |-> ask.op, arg |-> ask.arg, tag |-> nextTag[p]]
       IN  /\ sq' = [sq EXCEPT ![p] = Append(@, sqe)]
           /\ inflight' = [inflight EXCEPT ![p] = @ \union {sqe}]
    /\ nextTag' = [nextTag EXCEPT ![p] = @ + 1]
    /\ UNCHANGED <<procVars, cq, consoleVars, stash, want, pc>>

\* The completion for the tag is handed to the program.
Return(p, tag) ==
    inflight' = [inflight EXCEPT ![p] = {e \in @ : e.tag # tag}]

\* wait(tag), the stash first.
StartWait(p, tag) ==
    /\ pc[p] = "run"
    /\ \E e \in inflight[p] : e.tag = tag
    /\ IF \E c \in stash[p] : c.tag = tag
       THEN /\ stash' = [stash EXCEPT ![p] = {c \in @ : c.tag # tag}]
            /\ Return(p, tag)
            /\ UNCHANGED <<want, pc>>
       ELSE /\ want' = [want EXCEPT ![p] = tag]
            /\ pc' = [pc EXCEPT ![p] = "reap"]
            /\ UNCHANGED <<stash, inflight>>
    /\ UNCHANGED <<procVars, sq, cq, consoleVars, nextTag>>

\* Mutant of Reap: a completion for another tag is left at the head of the queue.
ReapInOrder(p) ==
    /\ pc[p] = "reap"
    /\ IF cq[p] = <<>> \/ Head(cq[p]).tag # want[p]
       THEN /\ pc' = [pc EXCEPT ![p] = "svc"]
            /\ UNCHANGED <<cq, want, inflight>>
       ELSE /\ cq' = [cq EXCEPT ![p] = Tail(@)]
            /\ Return(p, want[p])
            /\ want' = [want EXCEPT ![p] = None]
            /\ pc' = [pc EXCEPT ![p] = "run"]
    /\ UNCHANGED <<procVars, sq, consoleVars, nextTag, stash>>

\* One turn of the loop of reap(): pop a completion and return it if it is the
\* wanted one, else stash it while a slot is free; enter the kernel on an empty
\* queue.
Reap(p) ==
    /\ pc[p] = "reap"
    /\ IF cq[p] = <<>>
       THEN /\ pc' = [pc EXCEPT ![p] = "svc"]
            /\ UNCHANGED <<cq, stash, want, inflight>>
       ELSE /\ cq' = [cq EXCEPT ![p] = Tail(@)]
            /\ IF Head(cq[p]).tag = want[p]
               THEN /\ Return(p, want[p])
                    /\ want' = [want EXCEPT ![p] = None]
                    /\ pc' = [pc EXCEPT ![p] = "run"]
                    /\ UNCHANGED stash
               ELSE /\ stash' = [stash EXCEPT ![p] = IF Cardinality(@) < StashSlots
                                                     THEN @ \union {Head(cq[p])} ELSE @]
                    /\ UNCHANGED <<want, pc, inflight>>
    /\ UNCHANGED <<procVars, sq, consoleVars, nextTag>>

Client(p) ==
    \/ Setup(p)
    \/ \E ask \in Asks : Publish(p, ask)
    \/ EnterSubmit(p)
    \/ \E tag \in 1..Quota[p] : StartWait(p, tag)
    \/ Reap(p)
    \/ EnterWait(p)
    \/ EnterRecheck(p)
    \/ SysExit(p)
    \/ KillUser(p)

Next ==
    \/ Key
    \/ UartIrq
    \/ \E p \in Pids : PollDrain(p) \/ Client(p)

\* A task that is not blocked runs again and again, by the round robin of the
\* scheduler, and then takes the next step of a wait it is in; a pending UART
\* interrupt is taken.  Nobody has to type, publish or exit.
Fairness ==
    /\ WF_vars(UartIrq)
    /\ \A p \in Pids : WF_vars(Reap(p) \/ EnterWait(p) \/ EnterRecheck(p))

Spec == Init /\ [][Next]_vars /\ Fairness

-----------------------------------------------------------------------------
\* The keyboard is a queue: the bytes given to the shell, those in the kernel's ring
\* and those still in the device are the keys typed, in order, none lost and none
\* twice, through parked and immediate reads; and only the foreground is given any.
InputInOrder ==
    /\ got[Shell] \o input \o device = [i \in 1..typed |-> i]
    /\ \A p \in Pids \ {Shell} : got[p] = <<>>

\* Flow control cannot wedge: the receive interrupt is masked exactly while the
\* input ring is full, so whoever makes room also unmasks it.
MaskedIffFull == rxMasked <=> Len(input) = InputCap

\* A foreground read is parked only while there is no input for it.
ParkedMeansNoInput ==
    (Foreground(Shell) /\ \E s \in Slots : pending[Shell][s] # None) => input = <<>>

ParkedReads(p) == {pending[p][s].tag : s \in {x \in Slots : pending[p][x] # None}}
ParkedWaits(p) == {exitWaiter[c] : c \in {x \in Pids : parent[x] = p /\ exitWaiter[x] # None}}

\* No lost wakeup in enter(): a blocked task has no completion to reap, is
\* registered as the waiter, and still has a read parked, or a wait parked on a
\* child that has not exited.
BlockedHasWaker ==
    \A p \in Pids :
        blocked[p] =>
            /\ cq[p] = <<>> /\ ringWaiter[p]
            /\ \/ ParkedReads(p) # {}
               \/ \E c \in Pids : parent[c] = p /\ exitWaiter[c] # None /\ Running(c)

\* What a completion may say, given the request it answers.
TrueResult(p, e, res) ==
    CASE e.op = "nop"   -> res = 0
      [] e.op = "bad"   -> res = ERR
      [] e.op = "read"  -> res \in (IF e.arg = 0 THEN {0} ELSE {ERR} \union 1..e.arg)
      [] e.op = "spawn" -> res \in Pids /\ parent[res] = p
      [] e.op = "wait"  -> res = ERR \/ (parent[e.arg] = p /\ res = exitCode[e.arg])

\* Completions carry the result of the request whose tag they bear: a spawn the
\* caller's own child, a wait the exit code of a child that has exited.
ResultsTrue ==
    \A p \in Pids : \A c \in Range(cq[p]) \union stash[p] :
        \E e \in inflight[p] : e.tag = c.tag /\ TrueResult(p, e, c.res)

\* Every request a running program has submitted and not got back is queued, parked
\* or completed ("stashed, not lost"; "the child's exit fires it").
NothingLost ==
    \A p \in Pids : \A e \in inflight[p] :
        \/ e \in Range(sq[p])
        \/ e.tag \in ParkedReads(p) \union ParkedWaits(p)
        \/ \E c \in Range(cq[p]) \union stash[p] : c.tag = e.tag

TagsOf(records) == {r.tag : r \in records}

\* jring implements the requests a program is promised: each is completed at most
\* once and returned to the program exactly when it waits for it.
R == INSTANCE Requests WITH
    Procs <- Pids,
    Tags <- UNION {1..Quota[p] : p \in Pids},
    used <- [p \in Pids |-> 1..(nextTag[p] - 1)],
    open <- [p \in Pids |-> IF exitCode[p] # None THEN {}
                             ELSE TagsOf(Range(sq[p])) \union ParkedReads(p) \union ParkedWaits(p)],
    done <- [p \in Pids |-> TagsOf(Range(cq[p]) \union stash[p])],
    returned <- [p \in Pids |-> IF exitCode[p] # None THEN {}
                                 ELSE 1..(nextTag[p] - 1) \ TagsOf(inflight[p])]

ImplementsRequests == R!Spec

\* A key ends the sleep of a shell blocked on a read.
KeyWakesReader ==
    (blocked[Shell] /\ ParkedReads(Shell) # {} /\ device # <<>>) ~> (pc[Shell] = "reap")

\* A wait whose completion has been posted returns, past the completions ahead of it
\* in the queue, or the program is killed.
PostedIsReturned ==
    \A t \in 1..Quota[Shell] :
        (want[Shell] = t /\ t \in TagsOf(Range(cq[Shell]))) ~> (want[Shell] # t)

\* "A parent never hangs on a child that crashed": a wait for a child that has
\* exited, normally or by a fault, returns.
ExitWakesParent ==
    \A t \in 1..Quota[Shell] :
        (want[Shell] = t /\ \E e \in inflight[Shell] :
             e.tag = t /\ e.op = "wait" /\ exitCode[e.arg] # None) ~> (want[Shell] # t)
=============================================================================

----------------------------- MODULE TrapReturn -----------------------------
(***************************************************************************)
(* Entering EL0 and returning to it: user.rs's enter_user and the frame    *)
(* exceptions.s saves and restores around every exception, over the system *)
(* registers all tasks share: ELR_EL1, SPSR_EL1 and SP_EL0.                *)
(*                                                                         *)
(* A place is where a task's code runs: one of enter_user's instructions,  *)
(* at EL1 with IRQs unmasked; its program ("user") at EL0; "handler",      *)
(* between the saving and the restoring half of common_exception, IRQs     *)
(* masked; and "halted": its program's pages are not executable at EL1, so *)
(* an ERET there at EL1 ends in report_and_halt.  A user stack pointer is  *)
(* abstracted to the task that owns the stack.                             *)
(***************************************************************************)

CONSTANT Tasks      \* the tasks that host user programs

EnterCode == {"msr spsr", "msr elr", "msr sp", "eret"}

VARIABLES current,  \* the task on the CPU
          at,       \* each task's place
          elr,      \* ELR_EL1: the place of the task that last wrote it
          spsr,     \* SPSR_EL1: the level to return to
          spEl0,    \* SP_EL0: whose user stack it points into
          frame     \* the TrapFrame on each task's kernel stack

vars == <<current, at, elr, spsr, spEl0, frame>>

\* Every task is fresh: task_trampoline unmasks IRQs and calls user_task.  The
\* registers hold what an earlier exception, of whatever task, left in them.
Init ==
    /\ current \in Tasks
    /\ at = [t \in Tasks |-> "msr spsr"]
    /\ elr = [task |-> current, place |-> "msr spsr"]
    /\ spsr = "EL1h"
    /\ spEl0 = current
    /\ frame = [t \in Tasks |-> [elr |-> elr, spsr |-> "EL1h", spEl0 |-> current]]

\* ERET to an address: at the level, the running task goes to the place.
Landing(address, level) ==
    IF address.place = "user" /\ level = "EL1h" THEN "halted" ELSE address.place

\* The four instructions of enter_user.
EnterUser ==
    \/ /\ at[current] = "msr spsr"
       /\ spsr' = "EL0t"
       /\ at' = [at EXCEPT ![current] = "msr elr"]
       /\ UNCHANGED <<current, elr, spEl0, frame>>
    \/ /\ at[current] = "msr elr"
       /\ elr' = [task |-> current, place |-> "user"]
       /\ at' = [at EXCEPT ![current] = "msr sp"]
       /\ UNCHANGED <<current, spsr, spEl0, frame>>
    \/ /\ at[current] = "msr sp"
       /\ spEl0' = current
       /\ at' = [at EXCEPT ![current] = "eret"]
       /\ UNCHANGED <<current, elr, spsr, frame>>
    \/ /\ at[current] = "eret"
       /\ at' = [at EXCEPT ![current] = Landing(elr, spsr)]
       /\ UNCHANGED <<current, elr, spsr, spEl0, frame>>

\* Mutant of Return: SP_EL0 is left as the last task had it.
ReturnWithoutSp ==
    /\ at[current] = "handler"
    /\ elr' = frame[current].elr
    /\ spsr' = frame[current].spsr
    /\ at' = [at EXCEPT ![current] = Landing(elr', spsr')]
    /\ UNCHANGED <<current, spEl0, frame>>

\* An IRQ, or from EL0 an SVC: the CPU writes ELR_EL1 and SPSR_EL1 and masks IRQs,
\* the vector saves them and SP_EL0 in the frame.
Exception ==
    /\ at[current] \in EnterCode \cup {"user"}
    /\ elr' = [task |-> current, place |-> at[current]]
    /\ spsr' = IF at[current] = "user" THEN "EL0t" ELSE "EL1h"
    /\ frame' = [frame EXCEPT ![current] = [elr |-> elr', spsr |-> spsr', spEl0 |-> spEl0]]
    /\ at' = [at EXCEPT ![current] = "handler"]
    /\ UNCHANGED <<current, spEl0>>

\* exception_dispatch switches to another task, fresh or in a handler of its own.
SwitchTo(t) ==
    /\ at[current] = "handler"
    /\ t # current
    /\ current' = t
    /\ UNCHANGED <<at, elr, spsr, spEl0, frame>>

\* exception_dispatch returned: restore from the frame and ERET.
Return ==
    /\ at[current] = "handler"
    /\ elr' = frame[current].elr
    /\ spsr' = frame[current].spsr
    /\ spEl0' = frame[current].spEl0
    /\ at' = [at EXCEPT ![current] = Landing(elr', spsr')]
    /\ UNCHANGED <<current, frame>>

Next == EnterUser \/ Exception \/ (\E t \in Tasks : SwitchTo(t)) \/ Return

Spec == Init /\ [][Next]_vars

-----------------------------------------------------------------------------
\* TrapFrame's promise: a program at EL0 runs on its own user stack and, through
\* whatever exceptions and switches to other EL0 tasks, was resumed at its own code
\* and never at another task's.
OwnContext ==
    /\ at[current] = "user" => spEl0 = current
    /\ \A t \in Tasks : at[t] = "handler" =>
          /\ frame[t].elr.task = t
          /\ frame[t].elr.place = "user" => frame[t].spEl0 = t /\ frame[t].spsr = "EL0t"

\* enter_user's SAFETY comment: SPSR selects EL0t and ERET transfers to unprivileged
\* execution at the entry.
EretEntersUser == at[current] = "eret" => elr.place = "user" /\ elr.task = current /\ spsr = "EL0t"
=============================================================================

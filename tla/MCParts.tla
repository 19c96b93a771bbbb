------------------------------ MODULE MCParts ------------------------------
(***************************************************************************)
(* The self-contained parts, side by side: the ring page, interrupts with  *)
(* the input buffer, the heap, the shell, returns from traps, locks and    *)
(* the memory routines.  Each behaviour is one of one part: the others     *)
(* stay in their initial states.                                           *)
(***************************************************************************)
EXTENDS Sequences, TLC, RingPart, Parts

VARIABLE part

\* module Locking
VARIABLES holder, stack, irqOn, thread, done
lockVars == <<holder, stack, irqOn, thread, done>>
Lock == INSTANCE Locking WITH current <- thread

\* Values of the shell's constants: an i8 exit code, and two commands.
I8 == -128..127
TwoCommands == <<"s">> :> "spawn" @@ <<"s", "x">> :> "stop"

Names == {"ring", "interrupts", "heap", "shell", "trap", "locks", "routines"}

vars == <<part, ringVars, irqVars, heapVars, shellVars, trapVars, lockVars, memory>>

Init ==
    /\ part \in Names
    /\ Ring!Init /\ Irq!Init /\ Heap!Init /\ Sh!Init /\ Lock!Init
    /\ Trap!Init /\ (part # "trap" => running = "t1")
    /\ memory \in [0..(MemSize - 1) -> {0, 1, 255}]
    /\ part # "routines" => memory = [a \in 0..(MemSize - 1) |-> 0]

Next ==
    /\ UNCHANGED <<part, memory>>
    /\ \/ /\ part = "ring" /\ Ring!Next
          /\ UNCHANGED <<irqVars, heapVars, shellVars, trapVars, lockVars>>
       \/ /\ part = "interrupts" /\ Irq!Next
          /\ UNCHANGED <<ringVars, heapVars, shellVars, trapVars, lockVars>>
       \/ /\ part = "heap" /\ Heap!Next
          /\ UNCHANGED <<ringVars, irqVars, shellVars, trapVars, lockVars>>
       \/ /\ part = "shell" /\ Sh!Next
          /\ UNCHANGED <<ringVars, irqVars, heapVars, trapVars, lockVars>>
       \/ /\ part = "trap" /\ Trap!Next
          /\ UNCHANGED <<ringVars, irqVars, heapVars, shellVars, lockVars>>
       \/ /\ part = "locks" /\ Lock!Next
          /\ UNCHANGED <<ringVars, irqVars, heapVars, shellVars, trapVars>>

Spec == Init /\ [][Next]_vars /\ (part = "interrupts" => Irq!Fairness)

-----------------------------------------------------------------------------
(* Properties: RingPart, Parts and these. *)

\* kmain gets through irq_self_check and sched_self_check (Interrupts).
BootCompletes == part = "interrupts" => Irq!BootCompletes

\* print_dec shows the child's exit code (Shell).
ReportsExitCode == Sh!ReportsExitCode

\* Nobody spins on a lock other than PROCESSES (Locking).
MaskedLocksFree == Lock!MaskedLocksFree
=============================================================================

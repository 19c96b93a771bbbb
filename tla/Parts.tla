------------------------------- MODULE Parts -------------------------------
(***************************************************************************)
(* The other self-contained parts and their properties, under names of     *)
(* their own: returns from traps, interrupts with the input buffer, the    *)
(* memory routines, the heap and the shell.                                *)
(***************************************************************************)
EXTENDS Integers

\* module TrapReturn
CONSTANT Tasks
VARIABLES running, at, elr, spsr, spEl0, frame
trapVars == <<running, at, elr, spsr, spEl0, frame>>
Trap == INSTANCE TrapReturn WITH current <- running

\* module Interrupts, with InputBuffer
CONSTANTS INPUT_BUF_SIZE, Keys, Backlog, Ticks, Rounds, Pause
VARIABLES buf, head, tail, device, rxOn, gic, timer, ticks, booted, tasks, current, handler
irqVars == <<buf, head, tail, device, rxOn, gic, timer, ticks, booted, tasks, current, handler>>
Irq == INSTANCE Interrupts

\* module MemRoutines: a memory of MemSize bytes
CONSTANT MemSize
VARIABLE memory
Mem == INSTANCE MemRoutines

\* module BumpAllocator
CONSTANTS HeapStart, HeapSize, AddrTop, Sizes, Aligns, Owners
VARIABLES next, allocations, heap, live, halted
heapVars == <<next, allocations, heap, live, halted>>
Heap == INSTANCE BumpAllocator

\* module Shell
CONSTANTS MAX_LINE, Glyphs, Commands, Width, DecBuf, Codes
VARIABLES pc, line, len, row, cursor, entered, code, report
shellVars == <<pc, line, len, row, cursor, entered, code, report>>
Sh == INSTANCE Shell

-----------------------------------------------------------------------------
(* Properties: those of the parts, each stated where the part is modelled. *)

\* A task resumes at its own code on its own user stack (TrapReturn).
OwnContext == Trap!OwnContext

\* handle_irq ends an interrupt before it switches away (Interrupts).
EndedBeforeSwitch == Irq!EndedBeforeSwitch

\* The input buffer implements a bounded queue with flow control (InputBuffer).
ImplementsInputQueue == Irq!ImplementsInputQueue

\* mem.rs's routines do what C says of them, for every pair of ranges (MemRoutines).
RoutinesCorrect == Mem!RoutinesCorrect(memory, MemSize)

\* Live heap blocks keep their contents (BumpAllocator).
BlocksIntact == Heap!BlocksIntact

\* dealloc resets the heap when, and only when, all of it is free (BumpAllocator).
HeapReclaimed == Heap!HeapReclaimed

\* The shell runs the text the user saw (Shell).
RunsWhatIsShown == Sh!RunsWhatIsShown
=============================================================================

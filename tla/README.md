# jatuli in TLA+

A specification of the jatuli kernel (AArch64, one core, Rust) and of the user
library that talks to it: TLA+ modules translated from the source, TLC runs on
small instances, and TLAPS proofs. `PROJECT.json` maps each definition to the
lines it stands for and lists the runs, the hazards and the findings.

## The system and its parts

| Part | Source | What it does | Module |
|---|---|---|---|
| Scheduler | `sched.rs`, `switch.s` | Task vector, round robin, block, wake, sleep, exit, context switch | `RoundRobin`, `Scheduler` |
| Interrupts, timer, mask | `gic.rs`, `timer.rs`, `irq.rs` | 100 Hz tick and UART interrupt through the GIC; `disable`/`restore` | `Interrupts`, `Scheduler`, `Locking` |
| Spinlocks | `sync.rs` | `Locked<T>` around every global | `Locking` |
| Exceptions | `exceptions.rs`, `exceptions.s`, `user.rs` | Trap frames, IRQ dispatch, fault kill, first entry to EL0 | `TrapReturn`, `Interrupts` |
| System calls | `syscall.rs` | `ring_setup`, `ring_enter`, `exit` | `Jring`, `Sqpoll` |
| jring, kernel | `ring.rs` | Submission and completion queues in a page shared with the program | `Jring`, `RingPage` |
| SQPOLL | `ring.rs` | Kernel task that consumes submissions without a trap | `Sqpoll` |
| Processes | `process.rs` | Table of processes, parked reads and waits, foreground, owned memory | `Jring`, `Sqpoll`, `Memory` |
| Console input | `input.rs`, `uart.rs` | Input ring and its flow control | `InputBuffer`, as a queue in `Jring` |
| jring, user | `user/src/uring.rs` | `sqe`, `submit`, `wait`, the stash | `Jring`, `Sqpoll`, `RingPage` |
| Promise to programs | `abi/src/lib.rs` and the above | What a request is; what a queue is | `Requests`, `Queues`, `InputQueue` |
| Frames, address spaces, ELF loader | `frames.rs`, `mmu.rs`, `elf.rs` | Free list, page tables, `TTBR0`, building and reclaiming a process | `Memory` |
| Heap, memory routines | `allocator.rs`, `mem.rs` | Bump allocator; `memcpy` and the like | `BumpAllocator`, `MemRoutines` |
| Shell and user library | `user/src/bin/jsh.rs`, `user/src/lib.rs` | Prompt, line editor, dispatch, `print_dec` | `Shell` |
| Boot | `main.rs` | The order in which all this is set up | `Memory`, `Interrupts`, `Sqpoll` |

How they interact. There is one CPU. Kernel code entered by an exception has IRQs
masked, so it is atomic until it switches away itself. Two threads run kernel code
with IRQs enabled, `kmain` (which becomes the idle task) and `sqpoll_main`, and
every task starts in the trampoline with IRQs enabled. The timer may preempt
these, and programs at EL0, between any two instructions. A program publishes a
request in its ring page; the poller or the program's own `enter` drains it; the
completion is posted at once, or later by the UART interrupt (a parked read) or by
another process's exit (a parked wait); the program reaps it, sleeping in `enter`
when the queue is empty. Each module takes one of these interplays, and the grain
of its steps is the grain at which the code can be interrupted there.

## The modules

**RoundRobin**: the choice `schedule()` makes, as an operator. Used by `Scheduler`,
`Sqpoll` and `Interrupts`.

**Scheduler**: one action per operation of `sched.rs`. All of them run with IRQs
disabled. `sp[t]` is what `Task.sp` points to: nothing yet, the fabricated frame
of a new task, or a saved context that resumes masked or unmasked. Time is
relative: `wakeIn` is `wake_at - TICKS`, the only use the code makes of either.
`Trap` and `Eret` are the entry and exit of a system call. `MCScheduler` adds a
history variable that counts how often a waiting task was passed over.

**Sqpoll**: the poller against the programs. The poller is one step per access to
shared state: `has_submissions` reads `ring_pa`, then the page; `set_all_wakeup`
likewise, ring by ring. `live` is `TTBR0`. A drain under another process's space
reads payloads from the wrong memory, which is a nondeterministic `readable`.
`frame` says which frame a `ring_pa` points to. The poller may use one after its
process has exited: if the frame is another ring by then, it reads and writes that
ring; if not, it reads anything. Once a freed L0 is installed the machine
takes no further step (`KernelMapped`). Requests are a print, a spawn or a wait,
refused for a handle that is not the caller's child; completions are a count, and
one that finds the queue full (`CqEntries`) is dropped. A program exits here only between batches; `Jring` has
exits at every point of the program. `MCSqpoll` starts from a state in which the
shell has set its ring up while the poller was polling.

**Requests**: the abstract specification of jring. Per process, a tag is unused,
open, done or returned; a kernel entry completes open requests; exit ends them all.

**Jring**: the requests themselves: reads, spawns, waits, errors; parked reads and
waits; the input ring and the receive interrupt; the program's `wait` with its
stash. Each kernel entry is one action. When the poller drains is left open
(`PollDrain` is always possible), which covers every schedule of `Sqpoll`; its
drains in the wrong space are not repeated here. `inflight`, `typed` and `got` are
history variables.

**Locking**: every section of kernel code as the sequence of its accesses to locks
and to the interrupt mask. Threads run sections, interrupts push their handler's
section on the interrupted thread's stack. The shell's thread starts in
`enter_user`, with IRQs enabled, and then makes system calls until it exits.

**TrapReturn**: `ELR_EL1`, `SPSR_EL1` and `SP_EL0` are shared by all tasks;
`enter_user` is four instructions with IRQs enabled, an exception saves the
registers in a frame, a handler may switch, the return restores and ERETs.

**Memory**: memory word by word, because the free list and the page tables are kept
in the memory they manage. A frame is a function from `0..Entries - 1` to words; a
word is a descriptor (type bits, frame, permissions), and a free-list link is one
with type bits 0. `m` is the machine: memory, list head, `TTBR0`, `INSTALLED`, TLB.
Operations are functions from machine to machine, one per function of `frames.rs`
and `mmu.rs`, and an action applies a whole operation: spawn, ring setup, exit, a
switch, the poller's and the UART interrupt's excursions to another space. The TLB
caches any translation of the live space at any time. A failed `expect` sets `ok`
to FALSE and the machine stops. Programs write bytes that look like valid
descriptors, so a frame that is reused without being cleared shows.

**RingPage** and **Queues**: the shared page with its free-running indices, the
program one store at a time (the fields of an entry before its tag are one store,
the loads of `reap` one step: the kernel only appends), the kernel's operations atomic. `Queues` is what both sides may assume: two
sequences, entries whole and in order.

**InputBuffer** and **InputQueue**: the circular buffer of `input.rs` with its two
indices and the sacrificed slot, and the bounded queue with flow control that it
implements (the one `Jring` uses).

**Interrupts**: the GIC, the timer and `handle_irq`, call by call, under `kmain`
from `gic::init` to the end of `sched_self_check`. A handler belongs to the task it
interrupted, so one that switches away is finished when that task runs again. Time
is relative, as in `Scheduler`; the input side is `InputBuffer`.

**BumpAllocator** and **MemRoutines**: the heap as Rust's collections use it, with
the bytes each owner wrote, and the byte loops of `mem.rs` as functions of memory.

**Shell**: the prompt, `read_line`, `dispatch` and `print_dec`, with the terminal's
row as the user sees it.

**RingPart**, **Parts** and **MCParts**: the parts that share no state with the
others. `RingPart` (for `RingPage`) and `Parts` (for `TrapReturn`, `Interrupts`,
`MemRoutines`, `BumpAllocator` and `Shell`) give their properties the names that the
runs and the theorems use, for any values of the constants. `MCParts` puts them and
`Locking` side by side for TLC. The variable `part` picks one; the others keep their initial states,
so the reachable states are the union of the parts' own. It checks nothing about
their composition.

**Loops**: a pass over a queue or a table, as the fold that `Jring`, `RingPage`,
`InputBuffer` and `MemRoutines` write their loops with.

**The proofs.** `FoldInduction` is induction over the steps of such a loop;
`ProofBasics` holds what the proofs share about numbers, finite sets, queues and the
scheduler's choice. `KernelProofs` is about `MCScheduler` and `RingPage`;
`JringLoops`, `JringProofs` and `JringRefinement` are about `Jring`, in that order:
its invariant and its loops, its actions and safety, its refinement of `Requests`.
`SqpollProofs` is about `Sqpoll`, and `PartsProofs` about `TrapReturn`, `Interrupts`
with `InputBuffer`, `MemRoutines`, `BumpAllocator` and `Shell`.

Operators called "Mutant of X" are variants of the definition that follows, with a
mistake one could plausibly make in that code. Nothing uses them; substituting one
for its original makes the property listed with it in `PROJECT.json` fail.

## What is checked

Runs that pass:

| Run | Bounds | Shows |
|---|---|---|
| `scheduler` | 4 tasks, sleeps up to 1 tick | The running task is Runnable; only saved contexts are resumed; idle is never masked; a ready task is passed over at most n - 1 times; a Runnable task runs; a sleeper wakes |
| `sqpoll_safety` | 2 processes, 2 requests in flight, 2 completion entries, spinning, exits and reuse of the ring's frame | Programs run in their own space; no flag is up while the poller polls; nothing in flight is lost between poller and `enter`; a blocked program has a waker |
| `sqpoll_liveness` | 1 process, 2 requests | `wait` returns |
| `jring_safety` | Shell with 3 requests (2 in flight), child with 1; 3 keys, an input ring of 2, 2 read slots, 1 stash slot | Input is a queue; the receive interrupt is masked exactly when the ring is full; a read is parked only without input; no lost wakeup; results are true; no request is lost |
| `jring_requests` | Shell with 3 requests, a child that only exits; 1 key, input ring of 1, 1 read slot | `Jring` implements `Requests`; a key wakes the reader; a posted completion is returned; a child's exit or crash ends the parent's wait |
| `memory` | 3 programs of up to 2 segments, 3 words per table, 23 frames of 2 bytes, which run out | No frame is leaked, freed twice or held twice (`FramesAccounted`); tables map exactly what the process owns; the kernel stays mapped; a program runs in its own space although `activate` caches and roots are reused; the TLB is never stale; `is_user_range` accepts only mapped bytes, writable where asked |
| `parts`, ring | 2 entries, indices modulo 4, 2 requests in flight | The page implements two queues across every wrap; there is room for all |
| `parts`, interrupts | Input buffer of 3, 2 keys waiting at most, self-checks of 2 ticks and 1 round | The buffer implements the bounded queue; interrupts are ended before a switch; boot completes |
| `parts`, heap | 6 bytes, 2 owners, sizes 1 to 3, alignments 1 and 2 | Live blocks keep their contents; the heap resets when, and only when, all of it is free |
| `parts`, shell | Lines of 3, 2 glyphs, 8-bit numbers | The command run is the text shown; exit codes are printed right, the least one included |
| `parts`, trap | 3 tasks | Each program resumes at its own code on its own stack |
| `parts`, locks | The three threads, both interrupts | No spinning on any lock but `PROCESSES`; `SCHEDULER` and `INPUT` are never held across a switch |
| `parts`, routines | Every memory of 4 bytes from {0, 1, 255} | `memmove`, `memcpy` and `memcmp` do what C says of them, for every overlap (`RoutinesCorrect`) |

Only `Scheduler` has a type invariant among its checked properties: its proofs rest
on it. The other modules' properties relate several variables to each other.

Why the bounds are enough to be interesting. Four tasks give a running task, a
waiting one and two that keep waking each other. Two processes give a parent and a
child, and a second ring for the poller to be wrong about. Two requests in flight
let completions come out of order; an input ring of two with three keys fills,
masks and unmasks; two parked reads compete for one interrupt. In `memory` one
program can be dead, one running and one being built from the first one's frames,
and two programs with rings exhaust the frames. Indices modulo twice the number of
entries are the smallest multiple that tells full from empty, and every queue wraps several
times; `RingEntries` divides `IndexRange` as 16 divides 2^32. An 8-bit number has
the same relation to a 4-byte buffer as a 64-bit one to 20 bytes. Deadlock checking
is off where the system may stop: when all programs have used their quota or exited
(`Jring`), when the machine has halted (`TrapReturn`, `Memory` and `BumpAllocator`
after a panic, `Sqpoll` under a freed L0), when the shell has exited (`Shell`), for
`MemRoutines`, which take no steps, and in `Locking`, where contention is the
subject and the finding below is a deadlock.

Runs in which the code does not do what its comments say. Each checks one property
that states the comment:

| Run | What happens |
|---|---|
| `sqpoll_drain_space` | The poller activates a space, is preempted, and drains in another (`ring.rs:177`) |
| `sqpoll_freed_space` | The process the poller is about to activate exits first; its freed tables are installed |
| `sqpoll_lost_wake` | The wake arrives after the rescan and before `block_current`; the poller sleeps with the flag down, and a spinning program waits forever |
| `locking_process_table` | `PROCESSES` is held with IRQs enabled when a handler or a system call asks for it |
| `trap_return_enter` | An interrupt inside `enter_user` overwrites the registers its ERET uses |

More limits of the code are visible in the models without a run of their own:

* `ring_pa` is read under the lock and used after it (`ring.rs:212-217`,
  `ring.rs:223-227`), so the poller may touch the page of a process that has just
  exited, although the safety comment of `ring` asks for a live one (`ring.rs:46`).
  `Peek`, `Repeek` and `Store` have that case, and the one in which the frame is
  another process's ring page by then. The invariants of `sqpoll_safety` survive
  it: the late store writes the flag that every ring gets in that pass. What it does
  to a frame that became a page table or user memory is not modelled.
* A ring set up while the poller sleeps starts with `NEED_WAKEUP` down
  (`ring.rs:88`). A sleeping `wait` still returns (`WaitReturns`); a spinning one
  need not. `MCSqpoll` starts after set-up to keep this case apart from the lost
  wake.
* A second wait for a running child replaces the first (`process.rs:113`).
  `NothingLost` fails with `WaitTwice = TRUE`; the runs have it FALSE, which is how
  `wait_child` is used.
* `reap` drops a completion when the stash is full (`uring.rs:124`). `NothingLost`
  fails when `InFlight` exceeds `StashSlots + 1`; the runs keep within it, as the
  comment on `STASH` says the shell does.
* `sqe` does not look for room and `complete` drops what does not fit
  (`uring.rs:51`, `ring.rs:65`). `RoomForAll` holds while `InFlight` is at most
  `RingEntries`, which every program of the repository observes.
* Frames and the heap run out in the end (task stacks and process entries are never
  freed); the kernel panics. In `Memory` and `BumpAllocator` that is a last state.

Fairness. `Scheduler`: strong fairness of the tick, because the timer's interrupt
stays pending until IRQs are unmasked, and weak fairness of `Eret`, because
handlers run to their end. `Sqpoll`: strong fairness of the tick and of each
task's steps: a tick is 10 ms, so a task that is scheduled again and again also
executes instructions. `Jring`: weak fairness of the UART interrupt
(level-triggered) and of each program's steps inside a `wait`; that a task which is
not blocked gets to run is `RunnableRuns`. `Interrupts`: weak fairness of the
countdown and of a handler's steps; strong fairness of taking an interrupt that is
signalled whenever IRQs are unmasked; and strong fairness of each task's next step
at moments when no interrupt is waiting, since the 10 ms between ticks are longer
than a handler. `BootCompletes` does not assume that keys stop coming: a buffer
nobody reads fills and masks its interrupt. Nobody is obliged to type, to publish,
to exit, or, in `Jring`, to poll.

## What is proved

All theorems are for every value of the constants that satisfies the assumption
named with them. "Run" means that a run checks the same property on an instance.

| Theorem | Module | Says |
|---|---|---|
| `SchedulerInvariant`; `SchedulerTypeOK`, `SchedulerCurrentRunnable`, `SchedulerContextsSaved`, `SchedulerIdleUnmasked` | `KernelProofs` | The scheduler's invariant, and the four invariants of run `scheduler` |
| `SchedulerBoundedWait` | `KernelProofs` | A ready task is passed over at most n - 1 times (run `scheduler`) |
| `RingHasRoom`, `RingIsTwoQueues` | `KernelProofs` | `RoomForAll`, and the page implements `Queues` (run `parts`) |
| `JringInvariant`; `KeysInOrder`, `FlowControl`, `NoInputBehindReads`, `TrueResults` | `JringProofs` | jring's invariant; `InputInOrder`, `MaskedIffFull`, `ParkedMeansNoInput`, `ResultsTrue` (run `jring_safety`) |
| `NoRequestLost`, `NoLostWakeup` | `JringProofs` | `NothingLost` and `BlockedHasWaker`, under `Sized` (run `jring_safety`) |
| `JringImplementsRequests` | `JringRefinement` | `Jring` implements `Requests`, under `Sized` (run `jring_requests`) |
| `SqpollInvariant`; `OwnSpace`, `NoTrap`, `NothingInFlightLost`, `BlockedWillWake` | `SqpollProofs` | The poller's invariant and the four invariants of run `sqpoll_safety` |
| `OwnContextKept` | `PartsProofs` | `OwnContext`, for any set of tasks (run `parts`) |
| `EndedBeforeSwitching`, `InputIsAQueue` | `PartsProofs` | `EndedBeforeSwitch`, and the buffer implements `InputQueue` (run `parts`) |
| `RoutinesAreCorrect` | `PartsProofs` | `RoutinesCorrect`, for a memory of any size and content (run `parts`) |
| `HeapKeepsBlocks`, `HeapReclaims` | `PartsProofs` | `BlocksIntact` and `HeapReclaimed` (run `parts`) |
| `ShellRunsWhatIsShown` | `PartsProofs` | `RunsWhatIsShown`, for lines of any length (run `parts`) |

Assumptions. `Scheduler`: `MaxTasks` is a positive natural, `MaxSleep` a natural.
`Jring` and `Sqpoll`: what their `ASSUME`s say of the types of the sizes, and, in
`Sqpoll`, that a batch fits the completion queue. `Sized` is
the condition under which the code promises to lose nothing: no more requests in
flight than the completion queue holds, nor than the stash and the program's hand do,
and one wait per child. `RingSizes`: the number of entries divides the range of the
indices, as 16 divides 2^32, is smaller than it, and is no less than the requests in
flight. The heap: alignments are positive. The input buffer has at least two cells, as
one is given up to tell full from empty. The library's facts about finite sets and
least elements are collected in `LibraryFacts`, a hypothesis of the lemmas, which each
concluding module proves from the library (`LibraryHolds`); in the same way
`FoldInduction` takes induction over the naturals as a hypothesis, which
`ProofBasics!Inductive` proves.

The arguments, each with the reason the property alone is not inductive:

* **Scheduler.** A task that blocks is the running task until `schedule()` finds
  another, and `CurrentRunnable` does not say there is one. `SchedulerInv` adds that
  task 0 is always Runnable (`kmain` never blocks or exits) and that its saved context
  is never a masked one. `NextTaskPicks` says that the scan returns a Runnable task
  whenever there is one; `SchedulePreserves` shows once that `schedule()`
  re-establishes the invariant, and `NextPreserves` has one case per action.
  `BoundedWait` follows from `WaitInv`: the times a task was passed over and the
  places between the running task and it add up to at most n, since each switch that
  passes it over takes the CPU at least one place nearer.
* **The ring page.** `RingInv` says which slots hold which entries: walking from head
  to tail, slot by slot modulo the number of entries, gives the two queues
  (`PageHolds`); each request is in one place and they are not too many (`Apart`); what
  `sqe()` has stored so far of the entry at the tail (`Stage`); what `reap()` has
  loaded (`Loaded`). The slots from head to tail are distinct because fewer than
  `RingEntries` apart and the range is a multiple (`ModDiffer`). Room is then a count:
  the queues' entries are among the requests in flight. A drain is an induction over
  the submissions it takes, in which the slot the program is writing does not change.
  Every step is a step of `Queues` or a stutter, the publishing store of `tail` being
  the step.
* **jring.** `JringInv` has a part per concern: tags (`TagInv`), lives of processes
  (`LifeInv`), the program's place in `wait` (`WaitInv`), the console (`ConsoleInv`),
  and where each request is and what its result may be (`RequestInv`). `drain()` and
  `poll_pending` are folds, so each needs an invariant of its own of the state midway
  (`Midway`: the submissions not yet reached still count as queued), shown to survive
  one turn (`MidwayStep`) and carried over the loop by `FoldInduction`. That nothing is
  lost needs a count: the completions queued have distinct tags in flight, and the
  request being completed is one more, so there is room (`RoomInQueue`).
* **Refinement of `Requests`.** An open request is one in flight and not completed
  (`Open` = `Flight` less `Done`). A kernel entry moves tags from open to done in any
  number; `wait` returns one; exit ends them. Each action is shown to be one of these
  or a stutter, with `JringInv` before and after it.
* **The poller.** `InFlightAccounted` is a sum of queued, completed and parked
  requests. It is preserved only if no wait is queued twice, waits are parked on living
  children, a queued spawn has room in the table, and a batch is no larger than the
  completion queue, so that nothing is dropped (`RequestInv`); a drain is again
  an induction, over the prefix consumed. `NoTrapWhilePolling` needs to know how far
  `set_all_wakeup(false)` has come (`PollInv`), `UserInOwnSpace` that `schedule()`
  leaves the running task's space live (`SchedInv`).
* **Traps.** `TrapInv` adds that a task off the CPU is fresh or in its handler, where
  its frame holds its own registers.
* **Interrupts and input.** `IrqInv` ties what the running task's handler has left to
  do to the interrupt the GIC holds active. `InputInv` says which cells hold which
  bytes, and that the receive interrupt is on exactly while there is room.
* **Memory routines.** Each loop is a fold; its invariant is the memory with the bytes
  copied so far in place (`Image`), and the step uses that the byte read next has not
  been overwritten, which is what the direction of `memmove` is for.
* **Heap.** Live blocks lie below `next` and hold their owner's bytes (`HeapInv`);
  whatever is handed out starts at `next` or above.
* **Shell.** While a line is edited the row shows the line and blanks behind it, and
  the cursor is right after it (`Echoed`).

Only model-checked: the liveness properties (`RunnableRuns`, `SleeperWakes`,
`WaitReturns`, `BootCompletes` and those of `jring_requests`), because the prover has
no reasoning about fairness; `ReportsExitCode` of `Shell`, which takes an induction
over the digits of a number; the invariants of `Memory`, which are about free lists and
page tables kept in the memory they describe, walked by folds within folds; and
`MaskedLocksFree` of `Locking`, whose sections are a fixed set that the run covers
completely.

## What is not modelled

* Register contents other than `ELR_EL1`, `SPSR_EL1` and `SP_EL0` in `TrapReturn`;
  the report `exceptions.rs` prints before it halts.
* The values written to `MAIR`, `TCR`, `SCTLR` and to the GIC's registers, memory
  types, cache maintenance and barriers: on one core they have no order the model
  could tell apart.
* `boot.s`, and the self-checks of `main.rs` that run before interrupts are enabled:
  they run once, alone. `elf_self_check` and `programs.rs` are pure.
* Parsing of ELF headers and the contents of segments: the images are embedded at
  build time. `Memory` starts from the list of segments.
* UART transmission and the formatting of kernel messages: plain output.
* The composition of `Memory` with `Sqpoll`: `PollRing` is one step in `Memory`, and
  what a preemption between the poller's look and its `activate` leads to is
  `Sqpoll`'s subject (`sqpoll_freed_space`).

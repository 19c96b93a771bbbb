---------------------------- MODULE KernelProofs ----------------------------
(***************************************************************************)
(* What the kernel shares with its processes and among its tasks, for      *)
(* every size: the ring page and the scheduler's table.                    *)
(***************************************************************************)
EXTENDS MCScheduler, RingPart, ProofBasics

-----------------------------------------------------------------------------
(* The scheduler. *)

USE MaxTasksAssumption, MaxSleepAssumption

\* init() establishes the invariant: kmain is task 0 and runs.
LEMMA InitInv == Init => SchedulerInv
  BY DEF Init, SchedulerInv, TypeOK, CurrentRunnable, ContextsSaved, IdleUnmasked,
         TaskId, Idle, Never, TaskStates, Contexts

\* schedule(), called with task states in which the idle task is Runnable and no
\* task has come back from Exited, re-establishes the invariant on everything it
\* writes.
LEMMA SchedulePreserves ==
  ASSUME LibraryFacts, SchedulerInv,
         NEW st \in [TaskId -> TaskStates],
         st[Idle] = "Runnable",
         \A t \in TaskId : state[t] = "Exited" => st[t] = "Exited",
         Schedule(st),
         wakeIn' \in [TaskId -> 0..Never]
  PROVE  SchedulerInv'
<1> DEFINE chosen == NextTask(st, current, n)
<1>1. /\ n \in Nat \ {0} /\ n <= MaxTasks /\ current \in 0..(n - 1) /\ Idle \in 0..(n - 1)
      /\ 0..(n - 1) \subseteq TaskId /\ current \in TaskId /\ sp \in [TaskId -> Contexts]
      /\ irqOn \in BOOLEAN
  BY DEF SchedulerInv, TypeOK, Idle, TaskId
<1>2. chosen \in 0..(n - 1) /\ st[chosen] = "Runnable"
  BY <1>1, NextTaskPicks
<1>3. state' = st /\ current' = chosen /\ n' = n
  BY DEF Schedule
<1>4. state[chosen] # "Exited"
  BY <1>1, <1>2
<1> HIDE DEF chosen
<1>5. CASE chosen = current
  <2>1. sp' = sp /\ irqOn' = irqOn
    BY <1>5 DEF Schedule, chosen
  <2>2. ContextsSaved'
    BY <1>1, <1>3, <1>5, <2>1 DEF SchedulerInv, ContextsSaved
  <2> QED
    BY <1>1, <1>2, <1>3, <1>5, <2>1, <2>2
    DEF SchedulerInv, TypeOK, CurrentRunnable, IdleUnmasked
<1>6. CASE chosen # current
  <2>1. /\ sp' = [sp EXCEPT ![current] = IF irqOn THEN "unmasked" ELSE "masked"]
        /\ irqOn' = ResumedIrq(sp[chosen])
    BY <1>6 DEF Schedule, chosen
  <2>2. sp' \in [TaskId -> Contexts]
    BY <1>1, <2>1 DEF Contexts
  <2>3. sp'[Idle] # "masked"
    BY <1>1, <2>1 DEF SchedulerInv, IdleUnmasked
  <2>4. ContextsSaved'
    BY <1>1, <1>3, <2>1 DEF SchedulerInv, ContextsSaved
  <2>5. irqOn' \in BOOLEAN
    BY <2>1 DEF ResumedIrq
  <2>6. IdleUnmasked'
    <3>1. SUFFICES ASSUME chosen = Idle PROVE irqOn'
      BY <1>3 DEF IdleUnmasked
    <3>2. sp[Idle] \in {"fresh", "unmasked"}
      BY <1>1, <1>4, <1>6, <3>1 DEF SchedulerInv, ContextsSaved, Contexts
    <3> QED BY <2>1, <3>1, <3>2, ZenonT(60) DEF ResumedIrq
  <2> QED
    BY <1>1, <1>2, <1>3, <2>2, <2>3, <2>4, <2>5, <2>6
    DEF SchedulerInv, TypeOK, CurrentRunnable
<1> QED BY <1>5, <1>6

\* Every step of the scheduler preserves the invariant, one step per operation.
LEMMA NextPreserves ==
  ASSUME LibraryFacts
  PROVE  SchedulerInv /\ [Next]_vars => SchedulerInv'
<1> SUFFICES ASSUME SchedulerInv, [Next]_vars
             PROVE  SchedulerInv'
  OBVIOUS
<1>0. /\ n \in 1..MaxTasks /\ current \in TaskId /\ current < n /\ Idle \in TaskId
      /\ state \in [TaskId -> TaskStates] /\ state[Idle] = "Runnable"
      /\ wakeIn \in [TaskId -> 0..Never] /\ sp \in [TaskId -> Contexts]
      /\ state[current] = "Runnable"
  BY DEF SchedulerInv, TypeOK, CurrentRunnable, TaskId, Idle
<1>1. CASE Spawn
  <2>1. n \in TaskId /\ n # Idle /\ n # current
    BY <1>0, <1>1 DEF Spawn, TaskId, Idle
  <2>2. TypeOK'
    BY <1>0, <1>1, <2>1 DEF Spawn, SchedulerInv, TypeOK, TaskStates, Contexts, Never
  <2>3. ContextsSaved'
    <3> SUFFICES ASSUME NEW t \in 0..n, t # current, state'[t] # "Exited"
                 PROVE  sp'[t] # "none"
      BY <1>0, <1>1 DEF Spawn, ContextsSaved
    <3>1. CASE t = n
      BY <1>0, <1>1, <2>1, <3>1 DEF Spawn
    <3>2. CASE t # n
      BY <1>0, <1>1, <2>1, <3>2 DEF Spawn, SchedulerInv, ContextsSaved, TaskId
    <3> QED BY <3>1, <3>2
  <2> QED
    BY <1>0, <1>1, <2>1, <2>2, <2>3 DEF Spawn, SchedulerInv, CurrentRunnable, IdleUnmasked
<1>2. CASE YieldNow
  BY <1>0, <1>2, SchedulePreserves DEF YieldNow
<1>3. CASE BlockCurrent
  <2> DEFINE st == [state EXCEPT ![current] = "Blocked"]
  <2>1. st \in [TaskId -> TaskStates] /\ st[Idle] = "Runnable"
    BY <1>0, <1>3 DEF BlockCurrent, TaskStates
  <2>2. \A t \in TaskId : state[t] = "Exited" => st[t] = "Exited"
    BY <1>0
  <2>3. wakeIn' \in [TaskId -> 0..Never]
    BY <1>0, <1>3 DEF BlockCurrent, Never
  <2>4. Schedule(st)
    BY <1>3 DEF BlockCurrent
  <2> HIDE DEF st
  <2> QED BY <2>1, <2>2, <2>3, <2>4, SchedulePreserves
<1>4. ASSUME NEW ticks \in 0..MaxSleep, SleepTicks(ticks)
      PROVE  SchedulerInv'
  <2> DEFINE st == [state EXCEPT ![current] = "Blocked"]
  <2>1. st \in [TaskId -> TaskStates] /\ st[Idle] = "Runnable"
    BY <1>0, <1>4 DEF SleepTicks, TaskStates
  <2>2. \A t \in TaskId : state[t] = "Exited" => st[t] = "Exited"
    BY <1>0
  <2>3. wakeIn' \in [TaskId -> 0..Never]
    BY <1>0, <1>4 DEF SleepTicks, Never
  <2>4. Schedule(st)
    BY <1>4 DEF SleepTicks
  <2> HIDE DEF st
  <2> QED BY <2>1, <2>2, <2>3, <2>4, SchedulePreserves
<1>5. ASSUME NEW task \in TaskId, Wake(task)
      PROVE  SchedulerInv'
  BY <1>0, <1>5
  DEF Wake, SchedulerInv, TypeOK, CurrentRunnable, ContextsSaved, IdleUnmasked, TaskStates, TaskId
<1>6. CASE TaskExit
  <2> DEFINE st == [state EXCEPT ![current] = "Exited"]
  <2>1. st \in [TaskId -> TaskStates] /\ st[Idle] = "Runnable"
    BY <1>0, <1>6 DEF TaskExit, TaskStates
  <2>2. \A t \in TaskId : state[t] = "Exited" => st[t] = "Exited"
    BY <1>0
  <2>3. Schedule(st) /\ wakeIn' = wakeIn
    BY <1>6 DEF TaskExit
  <2> HIDE DEF st
  <2> QED BY <1>0, <2>1, <2>2, <2>3, SchedulePreserves
<1>7. CASE Tick
  <2> DEFINE st == WakeSleepers(state, OnTick(wakeIn))
  <2>1. wakeIn' \in [TaskId -> 0..Never]
    BY <1>0, <1>7 DEF Tick, OnTick, Never
  <2>2. st \in [TaskId -> TaskStates] /\ st[Idle] = "Runnable"
    BY <1>0 DEF WakeSleepers, TaskStates
  <2>3. \A t \in TaskId : state[t] = "Exited" => st[t] = "Exited"
    BY <1>0 DEF WakeSleepers
  <2>4. Schedule(st)
    BY <1>7 DEF Tick
  <2> HIDE DEF st
  <2> QED BY <2>1, <2>2, <2>3, <2>4, SchedulePreserves
<1>8. CASE Trap
  BY <1>0, <1>8, ZenonT(60)
  DEF Trap, SchedulerInv, TypeOK, CurrentRunnable, ContextsSaved, IdleUnmasked
<1>9. CASE Eret
  BY <1>0, <1>9
  DEF Eret, SchedulerInv, TypeOK, CurrentRunnable, ContextsSaved, IdleUnmasked
<1>10. CASE UNCHANGED vars
  BY <1>10
  DEF vars, SchedulerInv, TypeOK, CurrentRunnable, ContextsSaved, IdleUnmasked
<1> QED
  BY <1>1, <1>2, <1>3, <1>4, <1>5, <1>6, <1>7, <1>8, <1>9, <1>10 DEF Next

-----------------------------------------------------------------------------
(* How long a Runnable task waits for the CPU. *)

\* What makes BoundedWait inductive: every switch that passes a waiting task over
\* takes the running task at least one place nearer to it, and between them the
\* switches and the places left never exceed the number of tasks.
WaitInv ==
    /\ passed \in [TaskId -> Nat]
    /\ \A t \in TaskId :
         /\ Waiting(t) => passed[t] + Ahead(current, t, n) <= n
         /\ ~Waiting(t) => passed[t] = 0

\* An operation of the scheduler adds a task and leaves the CPU alone, leaves the
\* CPU alone, or calls schedule().
LEMMA Operations ==
  ASSUME SchedulerInv, [Next]_vars
  PROVE  \/ /\ n < MaxTasks /\ n' = n + 1 /\ current' = current
            /\ state' = [state EXCEPT ![n] = "Runnable"]
         \/ n' = n /\ current' = current
         \/ \E st \in [TaskId -> TaskStates] : st[Idle] = "Runnable" /\ Schedule(st)
<1>0. /\ current \in TaskId /\ Idle \in TaskId
      /\ state \in [TaskId -> TaskStates] /\ state[Idle] = "Runnable"
  BY DEF SchedulerInv, TypeOK, TaskId, Idle
<1>1. CASE Spawn
  BY <1>1 DEF Spawn
<1>2. CASE YieldNow
  BY <1>0, <1>2 DEF YieldNow
<1>3. CASE BlockCurrent \/ \E ticks \in 0..MaxSleep : SleepTicks(ticks)
  <2> DEFINE st == [state EXCEPT ![current] = "Blocked"]
  <2>1. st \in [TaskId -> TaskStates] /\ st[Idle] = "Runnable" /\ Schedule(st)
    BY <1>0, <1>3, ZenonT(60) DEF BlockCurrent, SleepTicks, TaskStates
  <2> QED BY <2>1, ZenonT(60)
<1>4. CASE TaskExit
  <2> DEFINE st == [state EXCEPT ![current] = "Exited"]
  <2>1. st \in [TaskId -> TaskStates] /\ st[Idle] = "Runnable" /\ Schedule(st)
    BY <1>0, <1>4 DEF TaskExit, TaskStates
  <2> QED BY <2>1, ZenonT(60)
<1>5. CASE Tick
  <2> DEFINE st == WakeSleepers(state, OnTick(wakeIn))
  <2>1. st \in [TaskId -> TaskStates] /\ st[Idle] = "Runnable" /\ Schedule(st)
    BY <1>0, <1>5 DEF Tick, WakeSleepers, TaskStates
  <2> QED BY <2>1
<1>6. CASE Trap \/ Eret \/ UNCHANGED vars \/ \E task \in TaskId : Wake(task)
  BY <1>6 DEF Trap, Eret, Wake, vars
<1> QED BY <1>1, <1>2, <1>3, <1>4, <1>5, <1>6 DEF Next

\* Every step preserves the bound's invariant: a new task lengthens the scan by
\* one, and a switch takes the CPU nearer to every task that waits.
LEMMA WaitPreserved ==
  ASSUME LibraryFacts
  PROVE  SchedulerInv /\ WaitInv /\ [MCNext]_mcVars => WaitInv'
<1> SUFFICES ASSUME SchedulerInv, WaitInv, [MCNext]_mcVars
             PROVE  WaitInv'
  OBVIOUS
<1>0. /\ n \in 1..MaxTasks /\ current \in 0..(n - 1) /\ Idle \in 0..(n - 1)
      /\ state \in [TaskId -> TaskStates] /\ passed \in [TaskId -> Nat]
  BY DEF SchedulerInv, TypeOK, WaitInv, Idle
<1>1. CASE UNCHANGED mcVars
  BY <1>1 DEF mcVars, vars, WaitInv, Waiting
<1>2. CASE MCNext
  <2>1. Next /\ passed' = [t \in TaskId |-> IF ~Waiting(t)' THEN 0
                                            ELSE IF current' = current THEN passed[t]
                                            ELSE passed[t] + 1]
    BY <1>2 DEF MCNext
  <2>2. passed' \in [TaskId -> Nat]
    BY <1>0, <2>1
  <2>3. \A t \in TaskId : ~Waiting(t)' => passed'[t] = 0
    BY <2>1
  <2>4. SUFFICES ASSUME NEW t \in TaskId, Waiting(t)'
                 PROVE  passed'[t] + Ahead(current', t, n') <= n'
    BY <2>2, <2>3 DEF WaitInv
  <2>5. /\ t \in Nat /\ t < n' /\ t # current' /\ state'[t] = "Runnable"
        /\ passed[t] \in Nat
        /\ passed'[t] = IF current' = current THEN passed[t] ELSE passed[t] + 1
    BY <1>0, <2>1, <2>4 DEF Waiting, TaskId
  <2>6. /\ Waiting(t) => passed[t] + Ahead(current, t, n) <= n
        /\ ~Waiting(t) => passed[t] = 0
    BY DEF WaitInv
  <2>7. CASE /\ n < MaxTasks /\ n' = n + 1 /\ current' = current
             /\ state' = [state EXCEPT ![n] = "Runnable"]
    <3>1. t = n \/ Waiting(t)
      BY <1>0, <2>5, <2>7 DEF Waiting, TaskId
    <3>2. CASE t = n
      BY <1>0, <2>5, <2>6, <2>7, <3>2 DEF Waiting, Ahead
    <3>3. CASE Waiting(t)
      BY <1>0, <2>5, <2>6, <2>7, <3>3 DEF Ahead
    <3> QED BY <3>1, <3>2, <3>3
  <2>8. CASE n' = n /\ current' = current
    BY <1>0, <2>5, <2>6, <2>8 DEF Ahead
  <2>9. ASSUME NEW st \in [TaskId -> TaskStates], st[Idle] = "Runnable", Schedule(st),
               current' # current
        PROVE  passed'[t] + Ahead(current', t, n') <= n'
    <3>1. n' = n /\ state' = st /\ current' = NextTask(st, current, n)
      BY <2>9 DEF Schedule
    <3>2. current' \in 0..(n - 1)
      BY <1>0, <2>9, <3>1, NextTaskPicks
    <3>3. Ahead(current', t, n) \in 1..(n - 1)
      BY <1>0, <2>5, <3>1, <3>2 DEF Ahead
    <3>4. CASE t = current
      BY <1>0, <2>5, <2>6, <2>9, <3>1, <3>3, <3>4 DEF Waiting
    <3>5. CASE t # current
      <4>1. Ahead(current', t, n) < Ahead(current, t, n) /\ Ahead(current, t, n) \in 1..(n - 1)
        BY <1>0, <2>5, <3>1, <3>5, NextTaskFirst DEF Ahead
      <4> QED BY <1>0, <2>5, <2>6, <2>9, <3>1, <3>3, <4>1
    <3> QED BY <3>4, <3>5
  <2>10. n' = n \/ ~\E st \in [TaskId -> TaskStates] : st[Idle] = "Runnable" /\ Schedule(st)
    BY DEF Schedule
  <2> QED BY <2>1, <2>7, <2>8, <2>9, <2>10, Operations
<1> QED BY <1>1, <1>2

\* No task waits in the state init() leaves: only the boot task is registered.
LEMMA WaitInit == MCInit => SchedulerInv /\ WaitInv
<1>1. MCInit => SchedulerInv
  BY InitInv DEF MCInit
<1>2. MCInit => WaitInv
  BY DEF MCInit, Init, WaitInv, Waiting, TaskId, Idle
<1> QED BY <1>1, <1>2

\* A task is at most n - 1 slots of next_task's scan away from the one that runs.
LEMMA WaitBounds == SchedulerInv /\ WaitInv => BoundedWait
<1> SUFFICES ASSUME SchedulerInv, WaitInv, NEW t \in 0..(n - 1)
             PROVE  passed[t] <= n - 1
  BY DEF BoundedWait
<1>1. n \in 1..MaxTasks /\ current \in 0..(n - 1) /\ t \in TaskId
  BY DEF SchedulerInv, TypeOK, TaskId
<1>2. CASE Waiting(t)
  <2>1. Ahead(current, t, n) \in 1..(n - 1)
    BY <1>1, <1>2 DEF Waiting, Ahead
  <2> QED BY <1>1, <1>2, <2>1 DEF WaitInv
<1>3. CASE ~Waiting(t)
  BY <1>1, <1>3 DEF WaitInv
<1> QED BY <1>2, <1>3

-----------------------------------------------------------------------------
(* Remainders. *)

\* A multiple of num between -num and num is 0.
LEMMA Small ==
  ASSUME NEW num \in Nat, num > 0, NEW d \in Int, num * d < num, num * d > 0 - num
  PROVE  d = 0
<1>1. d < 1
  <2> SUFFICES ASSUME d >= 1 PROVE FALSE
    OBVIOUS
  <2>1. num * (d - 1) >= 0
    OBVIOUS
  <2>2. num * (d - 1) = num * d - num
    OBVIOUS
  <2> QED BY <2>1, <2>2
<1>2. d > -1
  <2> SUFFICES ASSUME d <= -1 PROVE FALSE
    OBVIOUS
  <2>1. num * (d + 1) <= 0
    OBVIOUS
  <2>2. num * (d + 1) = num * d + num
    OBVIOUS
  <2> QED BY <2>1, <2>2
<1> QED BY <1>1, <1>2

\* Division with remainder.
LEMMA DivMod ==
  ASSUME NEW num \in Nat, num > 0, NEW x \in Int
  PROVE  /\ x \div num \in Int /\ x % num \in 0..(num - 1)
         /\ x = num * (x \div num) + (x % num)
  OBVIOUS

\* Multiples of num do not change a remainder.
LEMMA ModPeriod ==
  ASSUME NEW num \in Nat, num > 0, NEW x \in Int, NEW w \in Int
  PROVE  (x + num * w) % num = x % num
<1> DEFINE y == x + num * w
           q == x \div num
           r == x % num
           p == y \div num
           s == y % num
           d == p - q - w
<1>0. num * w \in Int /\ y \in Int
  OBVIOUS
<1>1. q \in Int /\ r \in 0..(num - 1) /\ x = num * q + r
  BY DivMod, Zenon
<1>2. p \in Int /\ s \in 0..(num - 1) /\ y = num * p + s
  BY <1>0, DivMod, Zenon
<1> HIDE DEF q, r, p, s
<1>3. d \in Int /\ num * d = num * p - num * q - num * w
  BY <1>1, <1>2
<1>4. num * p = x + num * w - s /\ num * q = x - r
  BY <1>1, <1>2
<1>5. num * p \in Int /\ num * q \in Int /\ num * d \in Int /\ num * d = r - s
  BY <1>0, <1>1, <1>2, <1>3, <1>4
<1> HIDE DEF d, y
<1>6. d = 0
  <2>1. num * d < num /\ num * d > 0 - num
    BY <1>1, <1>2, <1>5
  <2> QED BY <1>3, <2>1, Small, Zenon
<1>7. num * d = 0
  BY <1>6
<1>8. s = r
  BY <1>1, <1>2, <1>5, <1>7
<1> QED BY <1>8, Zenon DEF s, r, y

\* Numbers less than num apart have different remainders.
LEMMA ModDiffer ==
  ASSUME NEW num \in Nat, num > 0, NEW x \in Int, NEW y \in Int, x < y, y - x < num
  PROVE  x % num # y % num
<1> DEFINE q == x \div num
           p == y \div num
           d == p - q
<1> SUFFICES ASSUME x % num = y % num PROVE FALSE
  BY Zenon
<1>1. q \in Int /\ x = num * q + (x % num) /\ x % num \in Int
  BY DivMod
<1>2. p \in Int /\ y = num * p + (x % num)
  BY DivMod, Zenon
<1> HIDE DEF q, p
<1>3. d \in Int /\ num * d = num * p - num * q
  BY <1>1, <1>2
<1>4. num * p \in Int /\ num * q \in Int /\ num * d \in Int
  BY <1>1, <1>2, <1>3
<1>5. num * d = y - x
  BY <1>1, <1>2, <1>3, <1>4
<1> HIDE DEF d
<1>6. d = 0
  BY <1>3, <1>5, <1>4, Small
<1> QED BY <1>5, <1>6
-----------------------------------------------------------------------------
(* The ring page. *)

\* The indices wrap at a multiple of the number of slots, as 2^32 is one of 16, and a
\* program has no more requests in flight than there are slots.
RingSizes ==
    /\ RingEntries \in Nat \ {0} /\ IndexRange \in Nat /\ RingEntries < IndexRange
    /\ \E w \in Nat : IndexRange = RingEntries * w
    /\ InFlight \in Nat /\ InFlight <= RingEntries
    /\ 0 \notin Tags

\* The index k after h, and the slot of that entry.
Wrap(h, k) == (h + k) % IndexRange
Place(h, k) == (h + k) % RingEntries

\* The indices wrap around once.
LEMMA WrapIs ==
  ASSUME RingSizes, NEW h, NEW k, h \in 0..(IndexRange - 1), k \in 0..RingEntries
  PROVE  /\ h + k < IndexRange => Wrap(h, k) = h + k
         /\ h + k >= IndexRange => Wrap(h, k) = h + k - IndexRange
         /\ Wrap(h, k) \in 0..(IndexRange - 1)
<1>0. IndexRange \in Nat /\ RingEntries \in Nat /\ RingEntries < IndexRange
  BY Zenon DEF RingSizes
<1>1. CASE h + k < IndexRange
  BY <1>0, <1>1 DEF Wrap
<1>2. CASE h + k >= IndexRange
  BY <1>0, <1>2 DEF Wrap
<1> QED BY <1>0, <1>1, <1>2

\* The slots do not notice the wrap of an index.
LEMMA SlotWraps ==
  ASSUME RingSizes, NEW x, x \in Int
  PROVE  (x + IndexRange) % RingEntries = x % RingEntries
<1>1. RingEntries \in Nat /\ RingEntries > 0
  BY DEF RingSizes
<1>2. PICK w \in Nat : IndexRange = RingEntries * w
  BY Zenon DEF RingSizes
<1>3. (x + RingEntries * w) % RingEntries = x % RingEntries
  <2>1. w \in Int
    OBVIOUS
  <2> QED BY <1>1, <2>1, ModPeriod, Zenon
<1> QED BY <1>2, <1>3, Zenon

\* The slots as a circle: slots on from an index that wrapped, and of entries less than a
\* circle apart.
LEMMA PlaceIs ==
  ASSUME RingSizes, NEW h, h \in 0..(IndexRange - 1)
  PROVE  /\ \A k \in 0..RingEntries : Place(h, k) \in 0..(RingEntries - 1)
         /\ \A k \in 0..RingEntries : Ring!Slot(Wrap(h, k)) = Place(h, k)
         /\ \A k \in 0..RingEntries : Place(Wrap(h, 1), k) = Place(h, k + 1)
         /\ \A j, k \in 0..RingEntries : j < k /\ k - j < RingEntries => Place(h, j) # Place(h, k)
<1>0. IndexRange \in Nat /\ RingEntries \in Nat /\ RingEntries > 0 /\ RingEntries < IndexRange
  BY DEF RingSizes
<1>1. ASSUME NEW k \in 0..RingEntries PROVE Place(h, k) \in 0..(RingEntries - 1)
  BY <1>0 DEF Place
<1>2. ASSUME NEW k \in 0..RingEntries PROVE Ring!Slot(Wrap(h, k)) = Place(h, k)
  <2>1. CASE h + k < IndexRange
    BY <2>1, WrapIs, Zenon DEF Ring!Slot, Place
  <2>2. CASE h + k >= IndexRange
    <3> DEFINE x == h + k - IndexRange
    <3>1. x \in Int /\ x + IndexRange = h + k
      BY <1>0
    <3>2. Wrap(h, k) = x
      BY <2>2, WrapIs, Zenon
    <3> HIDE DEF x
    <3>3. (x + IndexRange) % RingEntries = x % RingEntries
      BY <3>1, SlotWraps, Zenon
    <3> QED BY <3>1, <3>2, <3>3, Zenon DEF Ring!Slot, Place
  <2>3. h + k < IndexRange \/ h + k >= IndexRange
    BY <1>0
  <2> QED BY <2>1, <2>2, <2>3, Zenon
<1>3. ASSUME NEW k \in 0..RingEntries PROVE Place(Wrap(h, 1), k) = Place(h, k + 1)
  <2>0. 1 \in 0..RingEntries
    BY <1>0
  <2>1. CASE h + 1 < IndexRange
    <3>1. Wrap(h, 1) + k = h + (k + 1)
      BY <1>0, <2>0, <2>1, WrapIs
    <3> QED BY <3>1, Zenon DEF Place
  <2>2. CASE h + 1 >= IndexRange
    <3>1. (Wrap(h, 1) + k) + IndexRange = h + (k + 1) /\ Wrap(h, 1) + k \in Int
      BY <1>0, <2>0, <2>2, WrapIs
    <3>2. ((Wrap(h, 1) + k) + IndexRange) % RingEntries = (Wrap(h, 1) + k) % RingEntries
      BY <3>1, SlotWraps, Zenon
    <3> QED BY <3>1, <3>2, Zenon DEF Place
  <2>3. h + 1 < IndexRange \/ h + 1 >= IndexRange
    BY <1>0
  <2> QED BY <2>1, <2>2, <2>3, Zenon
<1>4. ASSUME NEW j \in 0..RingEntries, NEW k \in 0..RingEntries, j < k, k - j < RingEntries
      PROVE  Place(h, j) # Place(h, k)
  <2>1. h + j \in Int /\ h + k \in Int /\ h + j < h + k /\ (h + k) - (h + j) < RingEntries
    BY <1>0, <1>4
  <2>2. (h + j) % RingEntries # (h + k) % RingEntries
    BY <1>0, <2>1, ModDiffer, Zenon
  <2> QED BY <2>2, Zenon DEF Place
<1> QED BY <1>1, <1>2, <1>3, <1>4, Zenon

\* The slots b hold q, from index h up to index t.
Stores(b, h, t, q) ==
    /\ h \in 0..(IndexRange - 1) /\ Len(q) \in 0..RingEntries /\ t = Wrap(h, Len(q))
    /\ q = [i \in 1..Len(q) |-> q[i]]
    /\ \A i \in 1..Len(q) : b[Place(h, i - 1)] = q[i]

\* The entries between the indices are then q.
LEMMA StoresIs ==
  ASSUME RingSizes, NEW b, NEW h, NEW t, NEW q, Stores(b, h, t, q)
  PROVE  Ring!Distance(t, h) = Len(q) /\ Ring!Entries(b, h, t) = q
<1> DEFINE l == Len(q)
<1>1. h \in 0..(IndexRange - 1) /\ l \in 0..RingEntries /\ t = Wrap(h, l)
  BY Zenon DEF Stores
<1>2. q = [i \in 1..l |-> q[i]] /\ \A i \in 1..l : b[Place(h, i - 1)] = q[i]
  BY Zenon DEF Stores
<1> HIDE DEF l
<1>0. IndexRange \in Nat /\ RingEntries \in Nat /\ RingEntries < IndexRange
  BY Zenon DEF RingSizes
<1>3. Ring!Distance(t, h) = l
  <2>1. CASE h + l < IndexRange
    <3>1. t - h = l
      BY <1>0, <1>1, <2>1, WrapIs
    <3>2. l % IndexRange = l
      BY <1>0, <1>1
    <3> QED BY <3>1, <3>2, Zenon DEF Ring!Distance
  <2>2. CASE h + l >= IndexRange
    <3>1. t - h = l - IndexRange
      BY <1>0, <1>1, <2>2, WrapIs
    <3>2. (l - IndexRange) % IndexRange = l
      BY <1>0, <1>1
    <3> QED BY <3>1, <3>2, Zenon DEF Ring!Distance
  <2> QED BY <1>0, <1>1, <2>1, <2>2
<1>4. Ring!Entries(b, h, t) = [i \in 1..l |-> b[Ring!Slot(h + i - 1)]]
  BY <1>3, Zenon DEF Ring!Entries
<1>5. ASSUME NEW i \in 1..l PROVE b[Ring!Slot(h + i - 1)] = q[i]
  <2>1. h + i - 1 = h + (i - 1)
    BY <1>0, <1>1, Zenon
  <2> QED BY <1>2, <2>1, Zenon DEF Ring!Slot, Place
<1>6. [i \in 1..l |-> b[Ring!Slot(h + i - 1)]] = [i \in 1..l |-> q[i]]
  BY <1>5, Zenon
<1> QED BY <1>2, <1>3, <1>4, <1>6, Zenon DEF l

\* A store to the slot at the tail, of a ring that is not full, shows in no entry; ...
LEMMA StoresFree ==
  ASSUME RingSizes, NEW b, NEW h, NEW t, NEW q, Stores(b, h, t, q), Len(q) < RingEntries,
         NEW c, \A s \in 0..(RingEntries - 1) : s # Ring!Slot(t) => c[s] = b[s]
  PROVE  Stores(c, h, t, q) /\ Ring!Slot(t) \in 0..(RingEntries - 1)
<1> DEFINE l == Len(q)
<1>0. RingEntries \in Nat /\ RingEntries > 0
  BY DEF RingSizes
<1>1. h \in 0..(IndexRange - 1) /\ l \in 0..RingEntries /\ t = Wrap(h, l) /\ l < RingEntries
  BY Zenon DEF Stores
<1>2. \A i \in 1..l : b[Place(h, i - 1)] = q[i]
  BY Zenon DEF Stores
<1> HIDE DEF l
<1>3. Ring!Slot(t) = Place(h, l) /\ Place(h, l) \in 0..(RingEntries - 1)
  BY <1>1, PlaceIs, Zenon
<1>4. ASSUME NEW i \in 1..l PROVE c[Place(h, i - 1)] = q[i]
  <2> DEFINE j == i - 1
  <2>2. j \in 0..RingEntries /\ j < l /\ l - j < RingEntries
    BY <1>0, <1>1
  <2> HIDE DEF j
  <2>3. Place(h, j) # Place(h, l) /\ Place(h, j) \in 0..(RingEntries - 1)
    BY <1>1, <2>2, PlaceIs, Zenon
  <2>4. c[Place(h, j)] = b[Place(h, j)]
    BY <1>3, <2>3, Zenon
  <2> QED BY <1>2, <2>4, Zenon DEF j
<1> QED BY <1>3, <1>4, Zenon DEF Stores, l

\* ... and the store to the tail publishes what the slot holds.
LEMMA StoresPublish ==
  ASSUME RingSizes, NEW b, NEW h, NEW t, NEW q, Stores(b, h, t, q), Len(q) < RingEntries,
         NEW S, q \in Seq(S), b[Ring!Slot(t)] \in S
  PROVE  Stores(b, h, Ring!WrappingAdd(t), Append(q, b[Ring!Slot(t)]))
<1> DEFINE l == Len(q)
           e == b[Ring!Slot(t)]
           r == Append(q, e)
<1>0. RingEntries \in Nat /\ RingEntries > 0 /\ IndexRange \in Nat /\ RingEntries < IndexRange
  BY DEF RingSizes
<1>1. h \in 0..(IndexRange - 1) /\ l \in 0..RingEntries /\ t = Wrap(h, l) /\ l < RingEntries
  BY Zenon DEF Stores
<1>2. \A i \in 1..l : b[Place(h, i - 1)] = q[i]
  BY Zenon DEF Stores
<1> HIDE DEF e
<1>3. /\ Len(r) = l + 1 /\ r[l + 1] = e /\ \A i \in 1..l : r[i] = q[i]
      /\ r = [i \in 1..(l + 1) |-> r[i]]
  BY DEF e
<1> HIDE DEF l, r
<1>4. e = b[Place(h, l)]
  BY <1>1, PlaceIs, Zenon DEF e
<1>5. Ring!WrappingAdd(t) = Wrap(h, l + 1)
  <2>1. Ring!WrappingAdd(t) = Wrap(t, 1)
    BY Zenon DEF Ring!WrappingAdd, Wrap
  <2>2. l + 1 \in 0..RingEntries /\ 1 \in 0..RingEntries /\ t \in 0..(IndexRange - 1)
    BY <1>0, <1>1, WrapIs
  <2>3. /\ h + l < IndexRange => t = h + l
        /\ h + l >= IndexRange => t = h + l - IndexRange
    BY <1>1, WrapIs, Zenon
  <2>4. /\ t + 1 < IndexRange => Wrap(t, 1) = t + 1
        /\ t + 1 >= IndexRange => Wrap(t, 1) = t + 1 - IndexRange
    BY <2>2, WrapIs, Zenon
  <2>5. /\ h + (l + 1) < IndexRange => Wrap(h, l + 1) = h + (l + 1)
        /\ h + (l + 1) >= IndexRange => Wrap(h, l + 1) = h + (l + 1) - IndexRange
    BY <1>1, <2>2, WrapIs, Zenon
  <2> QED BY <1>0, <1>1, <2>1, <2>3, <2>4, <2>5
<1>6. ASSUME NEW i \in 1..(l + 1) PROVE b[Place(h, i - 1)] = r[i]
  <2>1. CASE i = l + 1
    <3>1. i - 1 = l
      BY <1>1, <2>1
    <3> QED BY <1>3, <1>4, <2>1, <3>1, Zenon
  <2>2. CASE i # l + 1
    <3>1. i \in 1..l
      BY <1>1, <2>2
    <3> QED BY <1>2, <1>3, <3>1, Zenon
  <2> QED BY <2>1, <2>2, Zenon
<1>7. l + 1 \in 0..RingEntries
  BY <1>0, <1>1
<1>8. Stores(b, h, Ring!WrappingAdd(t), r)
  BY <1>1, <1>3, <1>5, <1>6, <1>7, Zenon DEF Stores
<1> QED BY <1>8, Zenon DEF r, e

\* A load at the head gives the oldest entry; a store to the head gives its slot back.
LEMMA StoresTake ==
  ASSUME RingSizes, NEW b, NEW h, NEW t, NEW q, Stores(b, h, t, q), NEW S, q \in Seq(S), q # <<>>
  PROVE  b[Ring!Slot(h)] = Head(q) /\ Stores(b, Ring!WrappingAdd(h), t, Tail(q))
<1> DEFINE l == Len(q)
           g == Wrap(h, 1)
           r == Tail(q)
<1>0. RingEntries \in Nat /\ RingEntries > 0 /\ IndexRange \in Nat /\ RingEntries < IndexRange
  BY DEF RingSizes
<1>1. h \in 0..(IndexRange - 1) /\ l \in 1..RingEntries /\ t = Wrap(h, l)
  BY DEF Stores
<1>2. \A i \in 1..l : b[Place(h, i - 1)] = q[i]
  BY Zenon DEF Stores
<1>3. /\ Head(q) = q[1] /\ Len(r) = l - 1 /\ \A i \in 1..(l - 1) : r[i] = q[i + 1]
      /\ r = [i \in 1..(l - 1) |-> r[i]]
  <2>1. Head(q) = q[1] /\ r \in Seq(S) /\ Len(r) = l - 1 /\ \A i \in 1..(l - 1) : r[i] = q[i + 1]
    BY <1>1
  <2> HIDE DEF r
  <2>2. r = [i \in 1..Len(r) |-> r[i]]
    BY <2>1
  <2> QED BY <2>1, <2>2, Zenon
<1> HIDE DEF l, r, g
<1>4. 1 \in 0..RingEntries /\ 0 \in 0..RingEntries /\ 1 \in 1..l /\ 1 - 1 = 0 /\ h + 0 = h
      /\ l - 1 \in 0..RingEntries /\ l - 1 + 1 = l
  BY <1>0, <1>1
<1>5. b[Ring!Slot(h)] = Head(q)
  <2>1. Ring!Slot(h) = Place(h, 0)
    BY <1>4, Zenon DEF Ring!Slot, Place
  <2> QED BY <1>2, <1>3, <1>4, <2>1, ZenonT(60)
<1>6. /\ g \in 0..(IndexRange - 1)
      /\ h + 1 < IndexRange => g = h + 1
      /\ h + 1 >= IndexRange => g = h + 1 - IndexRange
  BY <1>1, <1>4, WrapIs, Zenon DEF g
<1>7. t = Wrap(g, l - 1)
  <2>1. /\ h + l < IndexRange => t = h + l
        /\ h + l >= IndexRange => t = h + l - IndexRange
    <3>1. l \in 0..RingEntries
      BY <1>0, <1>1
    <3> QED BY <1>1, <3>1, WrapIs, Zenon
  <2>2. /\ g + (l - 1) < IndexRange => Wrap(g, l - 1) = g + (l - 1)
        /\ g + (l - 1) >= IndexRange => Wrap(g, l - 1) = g + (l - 1) - IndexRange
    BY <1>4, <1>6, WrapIs
  <2> QED BY <1>0, <1>1, <1>6, <2>1, <2>2
<1>8. ASSUME NEW i \in 1..(l - 1) PROVE b[Place(g, i - 1)] = r[i]
  <2> DEFINE j == i - 1
  <2>1. j \in 0..RingEntries /\ j + 1 = i /\ i + 1 \in 1..l /\ (i + 1) - 1 = i
    BY <1>0, <1>1
  <2> HIDE DEF j
  <2>2. Place(g, j) = Place(h, i)
    BY <1>1, <2>1, PlaceIs, Zenon DEF g
  <2>3. b[Place(h, i)] = q[i + 1]
    BY <1>2, <2>1, Zenon
  <2> QED BY <1>3, <2>2, <2>3, Zenon DEF j
<1>9. Stores(b, g, t, r)
  BY <1>3, <1>4, <1>6, <1>7, <1>8, Zenon DEF Stores
<1>10. Ring!WrappingAdd(h) = g
  BY Zenon DEF Ring!WrappingAdd, g, Wrap
<1> QED BY <1>5, <1>9, <1>10, Zenon DEF r

\* The entries of requests and completions; words that the page may hold.
Req(t) == [arg |-> t, user_data |-> t]
Cpl(t) == [user_data |-> t, result |-> t]
Words == Tags \union {0}
SqSlot == [arg : Words, user_data : Words]
CqSlot == [user_data : Words, result : Words]
Pages == [sq_head : Nat, sq_tail : Nat, cq_head : Nat, cq_tail : Nat,
          sq : [0..(RingEntries - 1) -> SqSlot], cq : [0..(RingEntries - 1) -> CqSlot]]
Reqs(Q) == [i \in 1..Len(Q) |-> Req(Q[i])]
Cpls(C) == [i \in 1..Len(C) |-> Cpl(C[i])]

\* The page p holds the submissions Q and the completions C.
PageHolds(p, Q, C) ==
    /\ p \in Pages /\ Q \in Seq(Tags) /\ C \in Seq(Tags)
    /\ Stores(p.sq, p.sq_head, p.sq_tail, Reqs(Q))
    /\ Stores(p.cq, p.cq_head, p.cq_tail, Cpls(C))

\* Entries, one by one.
LEMMA EntryOf ==
  ASSUME NEW t \in Words
  PROVE  Req(t) \in SqSlot /\ Cpl(t) \in CqSlot
  BY Zenon DEF Req, Cpl, SqSlot, CqSlot

\* The entries of a queue follow it, for submissions ...
LEMMA ReqsAre ==
  ASSUME NEW Q \in Seq(Tags)
  PROVE  /\ Reqs(Q) \in Seq(SqSlot) /\ Len(Reqs(Q)) = Len(Q)
         /\ \A t \in Tags : Reqs(Append(Q, t)) = Append(Reqs(Q), Req(t))
         /\ Q # <<>> => Head(Reqs(Q)) = Req(Head(Q)) /\ Reqs(Tail(Q)) = Tail(Reqs(Q)) /\ Reqs(Q) # <<>>
<1>1. \A i \in 1..Len(Q) : Q[i] \in Words /\ Req(Q[i]) \in SqSlot
  BY EntryOf DEF Words
<1>2. Reqs(Q) \in Seq(SqSlot) /\ Len(Reqs(Q)) = Len(Q) /\ \A i \in 1..Len(Q) : Reqs(Q)[i] = Req(Q[i])
  BY <1>1 DEF Reqs
<1>3. ASSUME NEW t \in Tags PROVE Reqs(Append(Q, t)) = Append(Reqs(Q), Req(t))
  <2> DEFINE x == Append(Q, t)
             y == Append(Reqs(Q), Req(t))
  <2>1. x \in Seq(Tags) /\ Len(x) = Len(Q) + 1 /\ x[Len(Q) + 1] = t /\ \A i \in 1..Len(Q) : x[i] = Q[i]
    OBVIOUS
  <2>2. t \in Words /\ Req(t) \in SqSlot
    BY EntryOf, Zenon DEF Words
  <2> DEFINE r == Reqs(Q)
             e == Req(t)
  <2>3. r \in Seq(SqSlot) /\ Len(r) = Len(Q) /\ (\A i \in 1..Len(Q) : r[i] = Req(Q[i])) /\ e \in SqSlot
    BY <1>2, <2>2, Zenon
  <2> HIDE DEF r, e
  <2>4. /\ y \in Seq(SqSlot) /\ Len(y) = Len(Q) + 1 /\ y[Len(Q) + 1] = e
        /\ \A i \in 1..Len(Q) : y[i] = Req(Q[i])
    BY <2>3 DEF r, e
  <2> HIDE DEF x, y
  <2>5. y = [i \in 1..Len(y) |-> y[i]]
    BY <2>4
  <2>6. \A i \in 1..(Len(Q) + 1) : i = Len(Q) + 1 \/ i \in 1..Len(Q)
    OBVIOUS
  <2>7. \A i \in 1..(Len(Q) + 1) : Req(x[i]) = y[i]
    BY <2>1, <2>4, <2>6, Zenon DEF e
  <2> QED BY <2>1, <2>4, <2>5, <2>7, Zenon DEF Reqs, x, y, r, e
<1>4. ASSUME Q # <<>> PROVE Head(Reqs(Q)) = Req(Head(Q)) /\ Reqs(Tail(Q)) = Tail(Reqs(Q)) /\ Reqs(Q) # <<>>
  <2> DEFINE x == Tail(Q)
             r == Reqs(Q)
             y == Tail(r)
             l == Len(Q)
  <2>1. x \in Seq(Tags) /\ Len(x) = l - 1 /\ (\A i \in 1..(l - 1) : x[i] = Q[i + 1]) /\ Head(Q) = Q[1]
        /\ l \in Nat /\ l > 0
    BY <1>4
  <2>2. r \in Seq(SqSlot) /\ Len(r) = l /\ \A i \in 1..l : r[i] = Req(Q[i])
    BY <1>2, Zenon
  <2> HIDE DEF r
  <2>3. r # <<>> /\ Head(r) = r[1] /\ y \in Seq(SqSlot) /\ Len(y) = l - 1 /\ \A i \in 1..(l - 1) : y[i] = r[i + 1]
    BY <2>1, <2>2
  <2> HIDE DEF x, y, l
  <2>4. \A i \in 1..(l - 1) : i + 1 \in 1..l
    BY <2>1
  <2>5. \A i \in 1..(l - 1) : Req(x[i]) = y[i]
    BY <2>1, <2>2, <2>3, <2>4, Zenon
  <2>6. y = [i \in 1..Len(y) |-> y[i]]
    BY <2>3
  <2>7. Reqs(x) = y
    BY <2>1, <2>3, <2>5, <2>6, Zenon DEF Reqs
  <2>8. 1 \in 1..l
    BY <2>1
  <2> QED BY <2>1, <2>2, <2>3, <2>7, <2>8, Zenon DEF x, y, r
<1> QED BY <1>2, <1>3, <1>4, Zenon

\* ... and for completions.
LEMMA CplsAre ==
  ASSUME NEW C \in Seq(Tags)
  PROVE  /\ Cpls(C) \in Seq(CqSlot) /\ Len(Cpls(C)) = Len(C)
         /\ \A t \in Tags : Cpls(Append(C, t)) = Append(Cpls(C), Cpl(t))
         /\ C # <<>> => Head(Cpls(C)) = Cpl(Head(C)) /\ Cpls(Tail(C)) = Tail(Cpls(C)) /\ Cpls(C) # <<>>
<1>1. \A i \in 1..Len(C) : C[i] \in Words /\ Cpl(C[i]) \in CqSlot
  BY EntryOf DEF Words
<1>2. Cpls(C) \in Seq(CqSlot) /\ Len(Cpls(C)) = Len(C) /\ \A i \in 1..Len(C) : Cpls(C)[i] = Cpl(C[i])
  BY <1>1 DEF Cpls
<1>3. ASSUME NEW t \in Tags PROVE Cpls(Append(C, t)) = Append(Cpls(C), Cpl(t))
  <2> DEFINE x == Append(C, t)
             y == Append(Cpls(C), Cpl(t))
  <2>1. x \in Seq(Tags) /\ Len(x) = Len(C) + 1 /\ x[Len(C) + 1] = t /\ \A i \in 1..Len(C) : x[i] = C[i]
    OBVIOUS
  <2>2. t \in Words /\ Cpl(t) \in CqSlot
    BY EntryOf, Zenon DEF Words
  <2> DEFINE r == Cpls(C)
             e == Cpl(t)
  <2>3. r \in Seq(CqSlot) /\ Len(r) = Len(C) /\ (\A i \in 1..Len(C) : r[i] = Cpl(C[i])) /\ e \in CqSlot
    BY <1>2, <2>2, Zenon
  <2> HIDE DEF r, e
  <2>4. /\ y \in Seq(CqSlot) /\ Len(y) = Len(C) + 1 /\ y[Len(C) + 1] = e
        /\ \A i \in 1..Len(C) : y[i] = Cpl(C[i])
    BY <2>3 DEF r, e
  <2> HIDE DEF x, y
  <2>5. y = [i \in 1..Len(y) |-> y[i]]
    BY <2>4
  <2>6. \A i \in 1..(Len(C) + 1) : i = Len(C) + 1 \/ i \in 1..Len(C)
    OBVIOUS
  <2>7. \A i \in 1..(Len(C) + 1) : Cpl(x[i]) = y[i]
    BY <2>1, <2>4, <2>6, Zenon DEF e
  <2> QED BY <2>1, <2>4, <2>5, <2>7, Zenon DEF Cpls, x, y, r, e
<1>4. ASSUME C # <<>> PROVE Head(Cpls(C)) = Cpl(Head(C)) /\ Cpls(Tail(C)) = Tail(Cpls(C)) /\ Cpls(C) # <<>>
  <2> DEFINE x == Tail(C)
             r == Cpls(C)
             y == Tail(r)
             l == Len(C)
  <2>1. x \in Seq(Tags) /\ Len(x) = l - 1 /\ (\A i \in 1..(l - 1) : x[i] = C[i + 1]) /\ Head(C) = C[1]
        /\ l \in Nat /\ l > 0
    BY <1>4
  <2>2. r \in Seq(CqSlot) /\ Len(r) = l /\ \A i \in 1..l : r[i] = Cpl(C[i])
    BY <1>2, Zenon
  <2> HIDE DEF r
  <2>3. r # <<>> /\ Head(r) = r[1] /\ y \in Seq(CqSlot) /\ Len(y) = l - 1 /\ \A i \in 1..(l - 1) : y[i] = r[i + 1]
    BY <2>1, <2>2
  <2> HIDE DEF x, y, l
  <2>4. \A i \in 1..(l - 1) : i + 1 \in 1..l
    BY <2>1
  <2>5. \A i \in 1..(l - 1) : Cpl(x[i]) = y[i]
    BY <2>1, <2>2, <2>3, <2>4, Zenon
  <2>6. y = [i \in 1..Len(y) |-> y[i]]
    BY <2>3
  <2>7. Cpls(x) = y
    BY <2>1, <2>3, <2>5, <2>6, Zenon DEF Cpls
  <2>8. 1 \in 1..l
    BY <2>1
  <2> QED BY <2>1, <2>2, <2>3, <2>7, <2>8, Zenon DEF x, y, r
<1> QED BY <1>2, <1>3, <1>4, Zenon

\* complete() with room in the completion queue.
LEMMA PostHolds ==
  ASSUME RingSizes, NEW p, NEW Q, NEW C, PageHolds(p, Q, C), Len(C) < RingEntries, NEW t \in Tags
  PROVE  PageHolds(Ring!Complete(p, t, t), Q, Append(C, t))
<1> DEFINE num == RingEntries
           s == Ring!Slot(p.cq_tail)
           e == [user_data |-> t, result |-> t]
           c == [p.cq EXCEPT ![s] = e]
           u == Ring!WrappingAdd(p.cq_tail)
<1>1. /\ p \in Pages /\ Q \in Seq(Tags) /\ C \in Seq(Tags)
      /\ Stores(p.sq, p.sq_head, p.sq_tail, Reqs(Q))
      /\ Stores(p.cq, p.cq_head, p.cq_tail, Cpls(C))
  BY Zenon DEF PageHolds
<1>2. num \in Nat /\ IndexRange \in Nat /\ num < IndexRange
  BY Zenon DEF RingSizes
<1>3. Cpls(C) \in Seq(CqSlot) /\ Len(Cpls(C)) = Len(C) /\ Cpls(Append(C, t)) = Append(Cpls(C), Cpl(t))
  BY <1>1, CplsAre, Zenon
<1>4. e \in CqSlot /\ e = Cpl(t)
  BY EntryOf, Zenon DEF Words, Cpl
<1>5. Ring!Distance(p.cq_tail, p.cq_head) = Len(C)
  BY <1>1, <1>3, StoresIs, Zenon
<1>6. p.cq \in [0..(num - 1) -> CqSlot] /\ p.cq_tail \in Nat
  BY <1>1, Zenon DEF Pages
<1>7. \A x \in 0..(num - 1) : x # s => c[x] = p.cq[x]
  BY <1>6, Zenon
<1> HIDE DEF s, c, e
<1>8. Stores(c, p.cq_head, p.cq_tail, Cpls(C)) /\ s \in 0..(num - 1)
  BY <1>1, <1>3, <1>7, StoresFree, Zenon DEF s
<1>9. c \in [0..(num - 1) -> CqSlot] /\ c[s] = e
  BY <1>4, <1>6, <1>8, Zenon DEF c
<1>10. Stores(c, p.cq_head, u, Append(Cpls(C), e))
  BY <1>3, <1>4, <1>8, <1>9, StoresPublish, Zenon DEF s
<1>11. u \in Nat
  BY <1>2, <1>6 DEF Ring!WrappingAdd
<1> HIDE DEF u
<1> DEFINE p2 == [p EXCEPT !.cq = c, !.cq_tail = u]
<1>12. ~(Len(C) >= num)
  BY <1>1, <1>2
<1>13. Ring!Complete(p, t, t) = p2
  BY <1>1, <1>5, <1>12, Zenon DEF Ring!Complete, Pages, c, u, s, e
<1>14. /\ p2 \in Pages /\ p2.sq = p.sq /\ p2.sq_head = p.sq_head /\ p2.sq_tail = p.sq_tail
       /\ p2.cq = c /\ p2.cq_head = p.cq_head /\ p2.cq_tail = u
  BY <1>1, <1>9, <1>11, Zenon DEF Pages
<1> HIDE DEF p2
<1>15. Append(C, t) \in Seq(Tags)
  BY <1>1
<1> QED BY <1>1, <1>3, <1>4, <1>10, <1>13, <1>14, <1>15, Zenon DEF PageHolds

\* The kernel consumes a submission.
LEMMA ConsumeHolds ==
  ASSUME RingSizes, NEW p, NEW Q, NEW C, PageHolds(p, Q, C), Q # <<>>
  PROVE  /\ p.sq[Ring!Slot(p.sq_head)] = Req(Head(Q))
         /\ PageHolds([p EXCEPT !.sq_head = Ring!WrappingAdd(p.sq_head)], Tail(Q), C)
<1> DEFINE u == Ring!WrappingAdd(p.sq_head)
           p2 == [p EXCEPT !.sq_head = u]
<1>1. /\ p \in Pages /\ Q \in Seq(Tags) /\ C \in Seq(Tags)
      /\ Stores(p.sq, p.sq_head, p.sq_tail, Reqs(Q))
      /\ Stores(p.cq, p.cq_head, p.cq_tail, Cpls(C))
  BY Zenon DEF PageHolds
<1>2. /\ Reqs(Q) \in Seq(SqSlot) /\ Reqs(Q) # <<>>
      /\ Head(Reqs(Q)) = Req(Head(Q)) /\ Reqs(Tail(Q)) = Tail(Reqs(Q))
  BY <1>1, ReqsAre, Zenon
<1>3. /\ p.sq[Ring!Slot(p.sq_head)] = Head(Reqs(Q))
      /\ Stores(p.sq, u, p.sq_tail, Tail(Reqs(Q)))
  BY <1>1, <1>2, StoresTake, Zenon
<1>4. u \in Nat
  <2>1. p.sq_head \in Nat
    BY <1>1, Zenon DEF Pages
  <2> QED BY <2>1 DEF Ring!WrappingAdd, RingSizes
<1> HIDE DEF u
<1>5. /\ p2 \in Pages /\ p2.sq = p.sq /\ p2.sq_head = u /\ p2.sq_tail = p.sq_tail
      /\ p2.cq = p.cq /\ p2.cq_head = p.cq_head /\ p2.cq_tail = p.cq_tail
  BY <1>1, <1>4, Zenon DEF Pages
<1> HIDE DEF p2
<1>6. Tail(Q) \in Seq(Tags)
  BY <1>1
<1>7. PageHolds(p2, Tail(Q), C)
  BY <1>1, <1>2, <1>3, <1>5, <1>6, Zenon DEF PageHolds
<1> QED BY <1>2, <1>3, <1>7, Zenon DEF p2, u

\* reap() consumes a completion.
LEMMA ReapHolds ==
  ASSUME RingSizes, NEW p, NEW Q, NEW C, PageHolds(p, Q, C), C # <<>>
  PROVE  /\ p.cq[Ring!Slot(p.cq_head)] = Cpl(Head(C))
         /\ PageHolds([p EXCEPT !.cq_head = Ring!WrappingAdd(p.cq_head)], Q, Tail(C))
<1> DEFINE u == Ring!WrappingAdd(p.cq_head)
           p2 == [p EXCEPT !.cq_head = u]
<1>1. /\ p \in Pages /\ Q \in Seq(Tags) /\ C \in Seq(Tags)
      /\ Stores(p.sq, p.sq_head, p.sq_tail, Reqs(Q))
      /\ Stores(p.cq, p.cq_head, p.cq_tail, Cpls(C))
  BY Zenon DEF PageHolds
<1>2. /\ Cpls(C) \in Seq(CqSlot) /\ Cpls(C) # <<>>
      /\ Head(Cpls(C)) = Cpl(Head(C)) /\ Cpls(Tail(C)) = Tail(Cpls(C))
  BY <1>1, CplsAre, Zenon
<1>3. /\ p.cq[Ring!Slot(p.cq_head)] = Head(Cpls(C))
      /\ Stores(p.cq, u, p.cq_tail, Tail(Cpls(C)))
  BY <1>1, <1>2, StoresTake, Zenon
<1>4. u \in Nat
  <2>1. p.cq_head \in Nat
    BY <1>1, Zenon DEF Pages
  <2> QED BY <2>1 DEF Ring!WrappingAdd, RingSizes
<1> HIDE DEF u
<1>5. /\ p2 \in Pages /\ p2.sq = p.sq /\ p2.sq_head = p.sq_head /\ p2.sq_tail = p.sq_tail
      /\ p2.cq = p.cq /\ p2.cq_head = u /\ p2.cq_tail = p.cq_tail
  BY <1>1, <1>4, Zenon DEF Pages
<1> HIDE DEF p2
<1>6. Tail(C) \in Seq(Tags)
  BY <1>1
<1>7. PageHolds(p2, Q, Tail(C))
  BY <1>1, <1>2, <1>3, <1>5, <1>6, Zenon DEF PageHolds
<1> QED BY <1>2, <1>3, <1>7, Zenon DEF p2, u

\* sqe() stores to a slot that is not published.
LEMMA WriteHolds ==
  ASSUME RingSizes, NEW p, NEW Q, NEW C, PageHolds(p, Q, C), Len(Q) < RingEntries, NEW e \in SqSlot
  PROVE  LET p2 == [p EXCEPT !.sq = [p.sq EXCEPT ![Ring!Slot(p.sq_tail)] = e]]
         IN  PageHolds(p2, Q, C) /\ p2.sq_tail = p.sq_tail /\ p2.sq[Ring!Slot(p.sq_tail)] = e
<1> DEFINE s == Ring!Slot(p.sq_tail)
           b == [p.sq EXCEPT ![s] = e]
           p2 == [p EXCEPT !.sq = b]
<1>1. /\ p \in Pages /\ Q \in Seq(Tags) /\ C \in Seq(Tags)
      /\ Stores(p.sq, p.sq_head, p.sq_tail, Reqs(Q))
      /\ Stores(p.cq, p.cq_head, p.cq_tail, Cpls(C))
  BY Zenon DEF PageHolds
<1>2. Len(Reqs(Q)) = Len(Q)
  BY <1>1, ReqsAre, Zenon
<1>3. p.sq \in [0..(RingEntries - 1) -> SqSlot]
  BY <1>1, Zenon DEF Pages
<1>4. \A x \in 0..(RingEntries - 1) : x # s => b[x] = p.sq[x]
  BY <1>3, Zenon
<1> HIDE DEF s, b
<1>5. Stores(b, p.sq_head, p.sq_tail, Reqs(Q)) /\ s \in 0..(RingEntries - 1)
  BY <1>1, <1>2, <1>4, StoresFree, Zenon DEF s
<1>6. b \in [0..(RingEntries - 1) -> SqSlot] /\ b[s] = e
  BY <1>3, <1>5, Zenon DEF b
<1>7. /\ p2 \in Pages /\ p2.sq = b /\ p2.sq_head = p.sq_head /\ p2.sq_tail = p.sq_tail
      /\ p2.cq = p.cq /\ p2.cq_head = p.cq_head /\ p2.cq_tail = p.cq_tail
  BY <1>1, <1>6, Zenon DEF Pages
<1> HIDE DEF p2
<1>8. PageHolds(p2, Q, C)
  BY <1>1, <1>5, <1>7, Zenon DEF PageHolds
<1> QED BY <1>6, <1>7, <1>8, Zenon DEF p2, b, s

\* sqe() publishes.
LEMMA PublishHolds ==
  ASSUME RingSizes, NEW p, NEW Q, NEW C, PageHolds(p, Q, C), Len(Q) < RingEntries,
         NEW t \in Tags, p.sq[Ring!Slot(p.sq_tail)] = Req(t)
  PROVE  PageHolds([p EXCEPT !.sq_tail = Ring!WrappingAdd(p.sq_tail)], Append(Q, t), C)
<1> DEFINE u == Ring!WrappingAdd(p.sq_tail)
           p2 == [p EXCEPT !.sq_tail = u]
<1>1. /\ p \in Pages /\ Q \in Seq(Tags) /\ C \in Seq(Tags)
      /\ Stores(p.sq, p.sq_head, p.sq_tail, Reqs(Q))
      /\ Stores(p.cq, p.cq_head, p.cq_tail, Cpls(C))
  BY Zenon DEF PageHolds
<1>2. /\ Reqs(Q) \in Seq(SqSlot) /\ Len(Reqs(Q)) = Len(Q)
      /\ Reqs(Append(Q, t)) = Append(Reqs(Q), Req(t)) /\ Req(t) \in SqSlot
  BY <1>1, ReqsAre, EntryOf, Zenon DEF Words
<1>3. Stores(p.sq, p.sq_head, u, Append(Reqs(Q), Req(t)))
  BY <1>1, <1>2, StoresPublish, Zenon
<1>4. u \in Nat
  <2>1. p.sq_tail \in Nat
    BY <1>1, Zenon DEF Pages
  <2> QED BY <2>1 DEF Ring!WrappingAdd, RingSizes
<1> HIDE DEF u
<1>5. /\ p2 \in Pages /\ p2.sq = p.sq /\ p2.sq_head = p.sq_head /\ p2.sq_tail = u
      /\ p2.cq = p.cq /\ p2.cq_head = p.cq_head /\ p2.cq_tail = p.cq_tail
  BY <1>1, <1>4, Zenon DEF Pages
<1> HIDE DEF p2
<1>6. Append(Q, t) \in Seq(Tags)
  BY <1>1
<1>7. PageHolds(p2, Append(Q, t), C)
  BY <1>1, <1>2, <1>3, <1>5, <1>6, Zenon DEF PageHolds
<1> QED BY <1>7, Zenon DEF p2, u

\* No tag is in a queue twice.
Distinct(q) == \A i, j \in 1..Len(q) : q[i] = q[j] => i = j

\* drain's loop, and the queues' view of it.
ProcessTurn(p, parked, i) == Ring!ProcessSqe(p, parked)
AnswerTurn(posted, parked, t) == Ring!Queue!Answered(posted, parked, t)
RingLoop == INSTANCE FoldInduction WITH Op <- ProcessTurn
AnswerLoop == INSTANCE FoldInduction WITH Op <- AnswerTurn

\* A queue of some of the requests in flight, without one of them, is not full.
LEMMA RoomLeft ==
  ASSUME LibraryFacts, RingSizes, NEW S, IsFiniteSet(S), Cardinality(S) <= InFlight,
         NEW q \in Seq(Tags), Distinct(q), NEW t \in S, Range(q) \subseteq S \ {t}
  PROVE  Len(q) < RingEntries
<1> DEFINE l == Len(q)
           T == S \ {t}
           f == [i \in 1..l |-> q[i]]
<1>1. l \in Nat /\ DOMAIN q = 1..l
  OBVIOUS
<1>2. IsFiniteSet(T) /\ Cardinality(T) = Cardinality(S) - 1 /\ Cardinality(S) \in Nat
  BY CardRemove, CardNat, Zenon
<1>3. f \in Injection(1..l, T)
  BY <1>1, Zenon DEF Distinct, Injection, IsInjective, Range
<1>4. Cardinality(1..l) <= Cardinality(T)
  BY <1>2, <1>3, CardInjection, Zenon
<1>5. Cardinality(1..l) = l
  BY <1>1, CardInterval
<1> QED BY <1>1, <1>2, <1>4, <1>5 DEF RingSizes

\* A queue with one more.
LEMMA DistinctAppend ==
  ASSUME NEW q \in Seq(Tags), Distinct(q), NEW t \in Tags, t \notin Range(q)
  PROVE  Distinct(Append(q, t)) /\ Append(q, t) \in Seq(Tags)
<1> DEFINE l == Len(q)
           r == Append(q, t)
<1>1. r \in Seq(Tags) /\ Len(r) = l + 1 /\ r[l + 1] = t /\ \A i \in 1..l : r[i] = q[i] /\ q[i] # t
  BY DEF Range
<1>2. l \in Nat /\ \A i, j \in 1..l : q[i] = q[j] => i = j
  BY DEF Distinct
<1> HIDE DEF l, r
<1>3. \A i \in 1..(l + 1) : i = l + 1 \/ i \in 1..l
  BY <1>2
<1>4. ASSUME NEW i \in 1..(l + 1), NEW j \in 1..(l + 1), r[i] = r[j] PROVE i = j
  BY <1>1, <1>2, <1>3, <1>4, Zenon
<1> QED BY <1>1, <1>4, Zenon DEF Distinct, r

\* What is left of a queue from its i-th element on.
LEMMA RestOf ==
  ASSUME NEW Q \in Seq(Tags), NEW i \in 1..Len(Q)
  PROVE  /\ SubSeq(Q, i, Len(Q)) # <<>> /\ Head(SubSeq(Q, i, Len(Q))) = Q[i]
         /\ Tail(SubSeq(Q, i, Len(Q))) = SubSeq(Q, i + 1, Len(Q))
<1> DEFINE l == Len(Q)
           r == SubSeq(Q, i, l)
           x == Tail(r)
           y == SubSeq(Q, i + 1, l)
<1>1. l \in Nat /\ i \in 1..l
  OBVIOUS
<1>2. r \in Seq(Tags) /\ Len(r) = l - i + 1 /\ \A k \in 1..(l - i + 1) : r[k] = Q[i + k - 1]
  OBVIOUS
<1>3. y \in Seq(Tags) /\ Len(y) = l - i /\ \A k \in 1..(l - i) : y[k] = Q[i + 1 + k - 1]
  OBVIOUS
<1> HIDE DEF l, r, y
<1>4. r # <<>> /\ Head(r) = r[1] /\ x \in Seq(Tags) /\ Len(x) = l - i /\ \A k \in 1..(l - i) : x[k] = r[k + 1]
  BY <1>1, <1>2
<1> HIDE DEF x
<1>5. Head(r) = Q[i]
  <2>1. 1 \in 1..(l - i + 1) /\ i + 1 - 1 = i
    BY <1>1
  <2> QED BY <1>2, <1>4, <2>1, Zenon
<1>6. \A k \in 1..(l - i) : x[k] = y[k]
  <2> SUFFICES ASSUME NEW k \in 1..(l - i) PROVE x[k] = y[k]
    BY Zenon
  <2>1. k + 1 \in 1..(l - i + 1) /\ i + (k + 1) - 1 = i + 1 + k - 1
    BY <1>1
  <2>2. x[k] = Q[i + (k + 1) - 1]
    BY <1>2, <1>4, <2>1, Zenon
  <2> QED BY <1>3, <2>1, <2>2, Zenon
<1>7. x = y
  BY <1>3, <1>4, <1>6, SeqEqual, Zenon
<1> QED BY <1>4, <1>5, <1>7, Zenon DEF x, y, r, l

\* One turn of drain's loop, with room for a completion if it posts one.
LEMMA TurnHolds ==
  ASSUME RingSizes, NEW p, NEW Q, NEW C, PageHolds(p, Q, C), Q # <<>>, NEW parked,
         Head(Q) \notin parked => Len(C) < RingEntries
  PROVE  PageHolds(Ring!ProcessSqe(p, parked), Tail(Q),
                   IF Head(Q) \in parked THEN C ELSE Append(C, Head(Q)))
<1> DEFINE t == Head(Q)
           p1 == IF t \in parked THEN p ELSE Ring!Complete(p, t, t)
           C1 == IF t \in parked THEN C ELSE Append(C, t)
           e == p.sq[Ring!Slot(p.sq_head)]
<1>1. e = Req(t)
  BY ConsumeHolds, Zenon
<1>3. t \in Tags
  BY DEF PageHolds
<1> HIDE DEF t, e
<1>2. e.user_data = t /\ e.arg = t
  BY <1>1, Zenon DEF Req
<1>4. PageHolds(p1, Q, C1)
  BY <1>3, PostHolds, Zenon DEF t
<1> HIDE DEF p1, C1
<1>5. PageHolds([p1 EXCEPT !.sq_head = Ring!WrappingAdd(p1.sq_head)], Tail(Q), C1)
  BY <1>4, ConsumeHolds, Zenon
<1>6. Ring!ProcessSqe(p, parked) = [p1 EXCEPT !.sq_head = Ring!WrappingAdd(p1.sq_head)]
  BY <1>2, Zenon DEF Ring!ProcessSqe, p1, e
<1> QED BY <1>5, <1>6, Zenon DEF C1, t

\* The kernel leaves the program's slots and tail alone.
SameStores(w, p) == w.sq = p.sq /\ w.sq_tail = p.sq_tail

\* complete() does, ...
LEMMA CompleteKeeps ==
  ASSUME NEW p \in Pages, NEW u, NEW r
  PROVE  SameStores(Ring!Complete(p, u, r), p)
  BY Zenon DEF SameStores, Ring!Complete, Pages

\* ... and so does a turn of drain's loop.
LEMMA TurnKeeps ==
  ASSUME NEW p \in Pages, NEW parked
  PROVE  SameStores(Ring!ProcessSqe(p, parked), p)
<1> DEFINE e == p.sq[Ring!Slot(p.sq_head)]
<1>1. SameStores(Ring!Complete(p, e.user_data, e.arg), p)
  BY CompleteKeeps, Zenon
<1>2. CASE e.user_data \in parked
  BY <1>2, Zenon DEF SameStores, Ring!ProcessSqe, Pages
<1>3. CASE e.user_data \notin parked
  BY <1>1, <1>3, Zenon DEF SameStores, Ring!ProcessSqe, Ring!Complete, Pages
<1> QED BY <1>2, <1>3, Zenon

\* A queue that is not empty keeps its first element.
SameFirst(C, D) == C # <<>> => D # <<>> /\ Head(D) = Head(C)

\* drain: everything published is consumed in order, and what is not parked is posted.
LEMMA DrainHolds ==
  ASSUME LibraryFacts, RingSizes, NEW p, NEW Q, NEW C, PageHolds(p, Q, C), NEW parked,
         NEW S, IsFiniteSet(S), Cardinality(S) <= InFlight, Range(Q) \subseteq S, Range(C) \subseteq S,
         Distinct(Q), Distinct(C), Range(Q) \intersect Range(C) = {}
  PROVE  \E D : /\ PageHolds(RingLoop!Folded(p, parked, [i \in 1..Len(Q) |-> i]), <<>>, D)
                /\ Cpls(D) = AnswerLoop!Folded(Cpls(C), parked, Q)
                /\ Distinct(D) /\ Range(D) = Range(C) \union (Range(Q) \ parked) /\ SameFirst(C, D)
                /\ SameStores(RingLoop!Folded(p, parked, [i \in 1..Len(Q) |-> i]), p)
<1> DEFINE l == Len(Q)
           seq == [i \in 1..l |-> i]
           First(i) == {Q[j] : j \in 1..i}
           Rest(i) == SubSeq(Q, i + 1, l)
<1>0. Q \in Seq(Tags) /\ C \in Seq(Tags) /\ l \in Nat /\ DOMAIN Q = 1..l /\ DOMAIN seq = 1..l
  BY DEF PageHolds
<1>1. PICK f : AnswerLoop!Turns(f, l, Cpls(C), parked, Q)
  BY <1>0, Inductive, AnswerLoop!FoldTurns, Zenon
<1>2. /\ f[0] = Cpls(C) /\ f[l] = AnswerLoop!Folded(Cpls(C), parked, Q)
      /\ \A i \in 1..l : f[i] = Ring!Queue!Answered(f[i - 1], parked, Q[i])
  BY <1>1, Zenon DEF AnswerLoop!Turns, AnswerTurn
<1> DEFINE Fits(w, i, D) == /\ PageHolds(w, Rest(i), D) /\ Cpls(D) = f[i] /\ Distinct(D)
                            /\ Range(D) = Range(C) \union (First(i) \ parked) /\ SameFirst(C, D)
                            /\ SameStores(w, p)
           G == [i \in 0..l |-> {w \in Pages : \E D : Fits(w, i, D)}]
<1>3. p \in G[0]
  <2>1. Rest(0) = Q
    BY <1>0
  <2>2. First(0) = {}
    OBVIOUS
  <2>3. Fits(p, 0, C)
    BY <1>2, <2>1, <2>2, Zenon DEF SameFirst, SameStores
  <2>4. p \in Pages /\ 0 \in 0..l
    BY <1>0 DEF PageHolds
  <2> HIDE DEF Fits
  <2> QED BY <2>3, <2>4, Zenon
<1>4. ASSUME NEW i \in 1..l, NEW w \in G[i - 1] PROVE ProcessTurn(w, parked, seq[i]) \in G[i]
  <2> DEFINE t == Q[i]
             v == Ring!ProcessSqe(w, parked)
  <2>1. i - 1 \in 0..l /\ i \in 0..l /\ i - 1 + 1 = i
    BY <1>0
  <2>2. PICK D : Fits(w, i - 1, D)
    BY <2>1, Zenon
  <2>3. /\ PageHolds(w, SubSeq(Q, i, l), D) /\ Cpls(D) = f[i - 1] /\ Distinct(D)
        /\ Range(D) = Range(C) \union (First(i - 1) \ parked) /\ SameFirst(C, D) /\ SameStores(w, p)
    BY <2>1, <2>2, Zenon
  <2>4. SubSeq(Q, i, l) # <<>> /\ Head(SubSeq(Q, i, l)) = t /\ Tail(SubSeq(Q, i, l)) = Rest(i)
    BY <1>0, RestOf, Zenon
  <2>5. t \in Tags /\ t \in Range(Q) /\ D \in Seq(Tags)
    <3>1. t \in Tags
      BY <1>0
    <3>2. t \in Range(Q)
      BY <1>0, Zenon DEF Range
    <3>3. D \in Seq(Tags)
      BY <2>3, Zenon DEF PageHolds
    <3> QED BY <3>1, <3>2, <3>3, Zenon
  <2>6. First(i) = First(i - 1) \union {t} /\ t \notin First(i - 1) /\ First(i - 1) \subseteq Range(Q)
    <3>1. \A j \in 1..(i - 1) : j \in 1..l /\ j # i /\ j \in 1..i
      BY <1>0
    <3>2. \A j \in 1..i : j \in 1..(i - 1) \/ j = i
      BY <1>0
    <3>3. i \in 1..i
      BY <1>0
    <3>4. \A j \in 1..(i - 1) : Q[j] # t
      BY <3>1, Zenon DEF Distinct
    <3> QED BY <1>0, <3>1, <3>2, <3>3, <3>4, Zenon DEF Range
  <2> HIDE DEF First, Rest, t, v, Fits
  <2>7. t \notin Range(D) /\ Range(D) \subseteq S \ {t}
    BY <2>3, <2>5, <2>6, Zenon
  <2>8. Len(D) < RingEntries
    BY <2>3, <2>5, <2>7, RoomLeft, Zenon
  <2>9. PageHolds(v, Rest(i), IF t \in parked THEN D ELSE Append(D, t))
    <3> DEFINE R == SubSeq(Q, i, l)
    <3>1. PageHolds(w, R, D) /\ R # <<>> /\ Head(R) = t /\ Tail(R) = Rest(i)
      BY <2>3, <2>4, Zenon
    <3> HIDE DEF R
    <3>2. PageHolds(v, Tail(R), IF Head(R) \in parked THEN D ELSE Append(D, Head(R)))
      BY <2>8, <3>1, TurnHolds, Zenon DEF v
    <3> QED BY <3>1, <3>2, Zenon
  <2>10. f[i] = IF t \in parked THEN f[i - 1] ELSE Append(f[i - 1], Cpl(t))
    BY <1>2, Zenon DEF Ring!Queue!Answered, Ring!Queue!Completion, Cpl, t
  <2>11. SameStores(v, p)
    BY <2>3, TurnKeeps, Zenon DEF SameStores, PageHolds, v
  <2>12. \E E : Fits(v, i, E)
    <3>1. CASE t \in parked
      <4>1. Range(D) = Range(C) \union (First(i) \ parked)
        BY <2>3, <2>6, <3>1, Zenon
      <4>2. Fits(v, i, D)
        BY <2>3, <2>9, <2>10, <2>11, <3>1, <4>1, Zenon DEF Fits
      <4> QED BY <4>2, Zenon
    <3>2. CASE t \notin parked
      <4> DEFINE E == Append(D, t)
      <4>1. Distinct(E) /\ Range(E) = Range(D) \union {t} /\ Cpls(E) = Append(Cpls(D), Cpl(t))
        <5>1. Distinct(E)
          BY <2>3, <2>5, <2>7, DistinctAppend, Zenon
        <5>2. Range(E) = Range(D) \union {t}
          BY <2>5, RangeAppend
        <5>3. Cpls(E) = Append(Cpls(D), Cpl(t))
          BY <2>5, CplsAre, Zenon
        <5> QED BY <5>1, <5>2, <5>3, Zenon
      <4> HIDE DEF E
      <4>2. Range(E) = Range(C) \union (First(i) \ parked)
        BY <2>3, <2>6, <3>2, <4>1, Zenon
      <4>3. PageHolds(v, Rest(i), E) /\ Cpls(E) = f[i]
        BY <2>3, <2>9, <2>10, <3>2, <4>1, Zenon DEF E
      <4>4. SameFirst(C, E)
        BY <2>3, <2>5 DEF SameFirst, E
      <4>5. Fits(v, i, E)
        BY <2>11, <4>1, <4>2, <4>3, <4>4, Zenon DEF Fits
      <4> QED BY <4>5, Zenon
    <3> QED BY <3>1, <3>2, Zenon
  <2>13. v \in Pages
    BY <2>9, Zenon DEF PageHolds
  <2>14. v \in G[i]
    BY <2>1, <2>12, <2>13, Zenon
  <2> QED BY <2>14, Zenon DEF ProcessTurn, v
<1> HIDE DEF G, seq
<1>5. RingLoop!Folded(p, parked, seq) \in G[l]
  BY <1>0, <1>3, <1>4, Inductive, RingLoop!FoldPreserves, Zenon
<1> USE DEF G
<1>6. PICK D : Fits(RingLoop!Folded(p, parked, seq), l, D)
  <2>1. l \in 0..l
    BY <1>0
  <2> HIDE DEF Fits, l
  <2> QED BY <1>5, <2>1, Zenon DEF G
<1>7. Rest(l) = <<>> /\ First(l) = Range(Q)
  <2>1. Rest(l) = <<>>
    BY <1>0
  <2>2. First(l) = Range(Q)
    BY <1>0, Zenon DEF Range
  <2> QED BY <2>1, <2>2, Zenon
<1> QED BY <1>2, <1>6, <1>7, Zenon DEF seq

-----------------------------------------------------------------------------
(* The ring page, step by step. *)

UserData(s) == [i \in DOMAIN s |-> s[i].user_data]
SqTags == UserData(Ring!SqEntries)
CqTags == UserData(Ring!CqEntries)

\* The requests that have not come back.
Pending(Q, C, hd, tg) == hd \union Range(Q) \union Range(C) \union ({tg} \ {0})

\* Each is in one place, and they are not too many.
Apart(Q, C, hd, tg) ==
    /\ hd \subseteq Tags /\ tg \in Words /\ tg \notin hd \union Range(Q) \union Range(C)
    /\ Distinct(Q) /\ Distinct(C)
    /\ Range(Q) \intersect Range(C) = {} /\ hd \intersect (Range(Q) \union Range(C)) = {}
    /\ IsFiniteSet(Pending(Q, C, hd, tg)) /\ Cardinality(Pending(Q, C, hd, tg)) <= InFlight

\* What sqe() has stored so far, and what reap() has loaded.
LeftOne == <<"tail">>
LeftTwo == <<"user_data", "tail">>
Stage(p, td, tg) ==
    /\ td \in {<<>>, LeftOne, LeftTwo, Ring!SqeStores} /\ (tg = 0 <=> td = <<>>)
    /\ td = LeftTwo => p.sq[Ring!Slot(p.sq_tail)].arg = tg
    /\ td = LeftOne => p.sq[Ring!Slot(p.sq_tail)] = Req(tg)
Loaded(td, gt, C) == gt = Ring!EmptyCqe \/ (td = <<>> /\ C # <<>> /\ gt = Cpl(Head(C)))

RingOK(p, td, tg, gt, hd, Q, C) ==
    PageHolds(p, Q, C) /\ Apart(Q, C, hd, tg) /\ Stage(p, td, tg) /\ Loaded(td, gt, C)

RingInv == RingOK(page, todo, tag, got, held, SqTags, CqTags)

QueuesStep == [Ring!Queue!Next]_(Ring!Queue!vars)

\* The tags of the entries of a queue.
LEMMA UserDataIs ==
  ASSUME NEW Q \in Seq(Tags)
  PROVE  UserData(Reqs(Q)) = Q /\ UserData(Cpls(Q)) = Q
<1> DEFINE l == Len(Q)
<1>1. Q = [i \in 1..l |-> Q[i]]
  OBVIOUS
<1> HIDE DEF l
<1>2. DOMAIN Reqs(Q) = 1..l /\ DOMAIN Cpls(Q) = 1..l
  BY Zenon DEF Reqs, Cpls, l
<1>3. \A i \in 1..l : Reqs(Q)[i].user_data = Q[i] /\ Cpls(Q)[i].user_data = Q[i]
  BY Zenon DEF Reqs, Cpls, Req, Cpl, l
<1> QED BY <1>1, <1>2, <1>3, Zenon DEF UserData

\* ... and the set of them.
LEMMA ReqTags ==
  ASSUME NEW Q \in Seq(Tags)
  PROVE  /\ {e.user_data : e \in Range(Reqs(Q))} = Range(Q)
         /\ {e.user_data : e \in Range(Cpls(Q))} = Range(Q)
<1>1. DOMAIN Reqs(Q) = DOMAIN Q /\ DOMAIN Cpls(Q) = DOMAIN Q
  BY DEF Reqs, Cpls
<1>2. \A i \in DOMAIN Q : Reqs(Q)[i].user_data = Q[i] /\ Cpls(Q)[i].user_data = Q[i]
  BY DEF Reqs, Cpls, Req, Cpl
<1> QED BY <1>1, <1>2 DEF Range

\* The elements of a queue, ...
LEMMA RangeOf ==
  ASSUME NEW Q \in Seq(Tags)
  PROVE  Range(Q) \subseteq Tags
  BY DEF Range

\* ... the first of them, ...
LEMMA HeadIn ==
  ASSUME NEW Q \in Seq(Tags), Q # <<>>
  PROVE  Head(Q) \in Range(Q)
<1>1. Head(Q) = Q[1] /\ 1 \in DOMAIN Q
  OBVIOUS
<1> QED BY <1>1, Zenon DEF Range

\* ... and the others.
LEMMA TailIn ==
  ASSUME NEW Q \in Seq(Tags), Q # <<>>, Distinct(Q)
  PROVE  Tail(Q) \in Seq(Tags) /\ Distinct(Tail(Q)) /\ Range(Tail(Q)) = Range(Q) \ {Head(Q)}
<1> DEFINE l == Len(Q)
           r == Tail(Q)
<1>1. /\ l \in Nat /\ l > 0 /\ r \in Seq(Tags) /\ Len(r) = l - 1 /\ DOMAIN r = 1..(l - 1) /\ DOMAIN Q = 1..l
      /\ Head(Q) = Q[1] /\ \A i \in 1..(l - 1) : r[i] = Q[i + 1]
  OBVIOUS
<1>2. \A i, j \in 1..l : Q[i] = Q[j] => i = j
  BY Zenon DEF Distinct
<1> HIDE DEF l, r
<1>3. Distinct(r)
  BY <1>1, <1>2 DEF Distinct
<1>4. Range(r) \subseteq Range(Q) \ {Head(Q)}
  BY <1>1, <1>2 DEF Range
<1>5. ASSUME NEW x \in Range(Q), x # Head(Q) PROVE x \in Range(r)
  <2>1. PICK i \in 1..l : x = Q[i]
    BY <1>1, Zenon DEF Range
  <2>2. i - 1 \in 1..(l - 1) /\ r[i - 1] = x
    BY <1>1, <1>5, <2>1
  <2> QED BY <1>1, <2>2, Zenon DEF Range
<1> QED BY <1>1, <1>3, <1>4, <1>5, Zenon DEF r

\* The entries on a page, read through the indices.
LEMMA PageShows ==
  ASSUME RingSizes, NEW p, NEW Q, NEW C, PageHolds(p, Q, C)
  PROVE  /\ Ring!Entries(p.sq, p.sq_head, p.sq_tail) = Reqs(Q)
         /\ Ring!Entries(p.cq, p.cq_head, p.cq_tail) = Cpls(C)
         /\ UserData(Reqs(Q)) = Q /\ UserData(Cpls(C)) = C
         /\ Ring!Distance(p.sq_tail, p.sq_head) = Len(Q)
<1>1. Ring!Entries(p.sq, p.sq_head, p.sq_tail) = Reqs(Q) /\ Ring!Distance(p.sq_tail, p.sq_head) = Len(Reqs(Q))
  BY StoresIs, Zenon DEF PageHolds
<1>2. Ring!Entries(p.cq, p.cq_head, p.cq_tail) = Cpls(C)
  BY StoresIs, Zenon DEF PageHolds
<1>3. UserData(Reqs(Q)) = Q /\ UserData(Cpls(C)) = C /\ Len(Reqs(Q)) = Len(Q)
  BY UserDataIs, ReqsAre, Zenon DEF PageHolds
<1> QED BY <1>1, <1>2, <1>3, Zenon

\* This state, and the next one.
LEMMA Shown ==
  ASSUME RingSizes, RingInv
  PROVE  /\ PageHolds(page, SqTags, CqTags) /\ Apart(SqTags, CqTags, held, tag)
         /\ Stage(page, todo, tag) /\ Loaded(todo, got, CqTags)
         /\ Ring!SqEntries = Reqs(SqTags) /\ Ring!CqEntries = Cpls(CqTags)
         /\ SqTags \in Seq(Tags) /\ CqTags \in Seq(Tags)
<1>1. /\ PageHolds(page, SqTags, CqTags) /\ Apart(SqTags, CqTags, held, tag)
      /\ Stage(page, todo, tag) /\ Loaded(todo, got, CqTags)
  BY Zenon DEF RingInv, RingOK
<1>2. Ring!SqEntries = Reqs(SqTags) /\ Ring!CqEntries = Cpls(CqTags)
  BY <1>1, PageShows, Zenon DEF Ring!SqEntries, Ring!CqEntries
<1>3. SqTags \in Seq(Tags) /\ CqTags \in Seq(Tags)
  BY <1>1, Zenon DEF PageHolds
<1> QED BY <1>1, <1>2, <1>3, Zenon

\* The same of the page after a step.
LEMMA ShownNext ==
  ASSUME RingSizes, NEW Q, NEW C, RingOK(page', todo', tag', got', held', Q, C)
  PROVE  /\ RingInv' /\ SqTags' = Q /\ CqTags' = C /\ Ring!CqEntries' = Cpls(C)
         /\ Ring!SqEntries' = Reqs(Q)
<1>1. PageHolds(page', Q, C)
  BY Zenon DEF RingOK
<1>2. Ring!SqEntries' = Reqs(Q) /\ Ring!CqEntries' = Cpls(C) /\ UserData(Reqs(Q)) = Q /\ UserData(Cpls(C)) = C
  BY <1>1, PageShows, Zenon DEF Ring!SqEntries, Ring!CqEntries
<1>3. SqTags' = Q /\ CqTags' = C
  BY <1>2, Zenon DEF SqTags, CqTags, UserData
<1>4. RingInv'
  BY <1>3, Zenon DEF RingInv
<1> QED BY <1>2, <1>3, <1>4, Zenon

\* The loops are those of the page and of the queues.
LEMMA AnswerLoopIs ==
  ASSUME NEW c, NEW parked, NEW q
  PROVE  AnswerLoop!Folded(c, parked, q) = Ring!Queue!Posted(c, parked, q)
  BY Zenon DEF Ring!Queue!Posted, Ring!Queue!Loop, Ring!Queue!Largest, Ring!Queue!MapThenFoldSet, AnswerTurn,
         AnswerLoop!Folded, AnswerLoop!Loop, AnswerLoop!Largest, AnswerLoop!MapThenFoldSet

\* process_ring's pass over the ring page is such a loop too.
LEMMA RingLoopIs ==
  ASSUME NEW p, NEW parked
  PROVE  Ring!Drained(p, parked) =
            RingLoop!Folded(p, parked, [i \in 1..Ring!Distance(p.sq_tail, p.sq_head) |-> i])
  BY Zenon DEF Ring!Drained, Ring!Loop, Ring!Largest, Ring!MapThenFoldSet, ProcessTurn,
         RingLoop!Folded, RingLoop!Loop, RingLoop!Largest, RingLoop!MapThenFoldSet

\* The abstract queues, and what a step does to them.
LEMMA QueueShown ==
  ASSUME RingSizes, RingInv, NEW Q, NEW C, RingOK(page', todo', tag', got', held', Q, C),
         \/ Q = SqTags /\ C = CqTags /\ held' = held /\ reaped' = reaped
         \/ (\E t \in Tags : Q = Append(SqTags, t)) /\ C = CqTags /\ held' = held /\ reaped' = reaped
         \/ \E t \in held : Q = SqTags /\ Cpls(C) = Append(Cpls(CqTags), Cpl(t)) /\ held' = held \ {t} /\ reaped' = reaped
         \/ Q = SqTags /\ CqTags # <<>> /\ C = Tail(CqTags) /\ held' = held /\ reaped' = Cpl(Head(CqTags))
         \/ /\ Q = <<>> /\ reaped' = reaped
            /\ \E parked \in SUBSET Range(SqTags) :
                  /\ held' = held \union parked
                  /\ Cpls(C) = AnswerLoop!Folded(Cpls(CqTags), parked, SqTags)
  PROVE  RingInv' /\ QueuesStep
<1>1. Ring!CqEntries = Cpls(CqTags) /\ CqTags \in Seq(Tags)
  BY Shown, Zenon
<1>2. RingInv' /\ SqTags' = Q /\ CqTags' = C /\ Ring!CqEntries' = Cpls(C)
  BY ShownNext
<1>3. Cpl(0) = Cpl(0) /\ \A t : Ring!Queue!Completion(t) = Cpl(t)
  BY Zenon DEF Ring!Queue!Completion, Cpl
<1>4. CASE Q = SqTags /\ C = CqTags /\ held' = held /\ reaped' = reaped
  BY <1>1, <1>2, <1>4, Zenon DEF QueuesStep, Ring!Queue!vars, SqTags, UserData
<1>5. CASE (\E t \in Tags : Q = Append(SqTags, t)) /\ C = CqTags /\ held' = held /\ reaped' = reaped
  <2>1. Ring!Queue!Publish
    BY <1>1, <1>2, <1>5, Zenon DEF Ring!Queue!Publish, SqTags, UserData
  <2> QED BY <1>2, <2>1, Zenon DEF QueuesStep, Ring!Queue!Next
<1>6. CASE \E t \in held : Q = SqTags /\ Cpls(C) = Append(Cpls(CqTags), Cpl(t)) /\ held' = held \ {t} /\ reaped' = reaped
  <2>1. Ring!Queue!Post
    BY <1>1, <1>2, <1>3, <1>6, Zenon DEF Ring!Queue!Post, SqTags, UserData
  <2> QED BY <1>2, <2>1, Zenon DEF QueuesStep, Ring!Queue!Next
<1>7. CASE Q = SqTags /\ CqTags # <<>> /\ C = Tail(CqTags) /\ held' = held /\ reaped' = Cpl(Head(CqTags))
  <2>1. Cpls(CqTags) # <<>> /\ Head(Cpls(CqTags)) = Cpl(Head(CqTags)) /\ Cpls(C) = Tail(Cpls(CqTags))
    BY <1>1, <1>7, CplsAre, Zenon
  <2>2. Ring!Queue!Reap
    BY <1>1, <1>2, <1>7, <2>1, Zenon DEF Ring!Queue!Reap, SqTags, UserData
  <2> QED BY <1>2, <2>2, Zenon DEF QueuesStep, Ring!Queue!Next
<1>8. CASE /\ Q = <<>> /\ reaped' = reaped
           /\ \E parked \in SUBSET Range(SqTags) :
                 /\ held' = held \union parked
                 /\ Cpls(C) = AnswerLoop!Folded(Cpls(CqTags), parked, SqTags)
  <2>1. PICK parked \in SUBSET Range(SqTags) :
           held' = held \union parked /\ Cpls(C) = AnswerLoop!Folded(Cpls(CqTags), parked, SqTags)
    BY <1>8, Zenon
  <2>2. Cpls(C) = Ring!Queue!Posted(Cpls(CqTags), parked, SqTags)
    BY <2>1, AnswerLoopIs, Zenon
  <2>3. Ring!Queue!Drain
    BY <1>1, <1>2, <1>8, <2>1, <2>2, Zenon DEF Ring!Queue!Drain, Ring!Queue!Range, Range, SqTags, UserData
  <2> QED BY <1>2, <2>3, Zenon DEF QueuesStep, Ring!Queue!Next
<1> QED BY <1>4, <1>5, <1>6, <1>7, <1>8, Zenon

\* The page's module counts as this one does.
LEMMA RingCard ==
  ASSUME NEW S
  PROVE  Ring!Cardinality(S) = Cardinality(S)
  BY Zenon DEF Ring!Cardinality, Cardinality

\* Flight is what RingInv counts.
LEMMA FlightIs ==
  ASSUME RingSizes, RingInv
  PROVE  Ring!Flight = Pending(SqTags, CqTags, held, tag)
<1>1. /\ Ring!SqEntries = Reqs(SqTags) /\ Ring!CqEntries = Cpls(CqTags)
      /\ SqTags \in Seq(Tags) /\ CqTags \in Seq(Tags) /\ Loaded(todo, got, CqTags)
      /\ held \subseteq Tags /\ tag \in Words
  BY Shown, Zenon DEF Apart
<1>2. {e.user_data : e \in Range(Reqs(SqTags))} = Range(SqTags)
  BY <1>1, ReqTags, Zenon
<1>3. {e.user_data : e \in Range(Cpls(CqTags))} = Range(CqTags)
  BY <1>1, ReqTags, Zenon
<1>4. Range(SqTags) \subseteq Tags /\ Range(CqTags) \subseteq Tags /\ 0 \notin Tags
  BY <1>1, RangeOf, Zenon DEF RingSizes
<1>5. got.user_data = 0 \/ got.user_data \in Range(CqTags)
  <2>1. CASE got = Ring!EmptyCqe
    BY <2>1, Zenon DEF Ring!EmptyCqe, Ring!None
  <2>2. CASE CqTags # <<>> /\ got = Cpl(Head(CqTags))
    <3>1. got.user_data = Head(CqTags)
      BY <2>2, Zenon DEF Cpl
    <3>2. Head(CqTags) \in Range(CqTags)
      BY <1>1, <2>2, HeadIn, Zenon
    <3> QED BY <3>1, <3>2, Zenon
  <2> QED BY <1>1, <2>1, <2>2, Zenon DEF Loaded
<1>6. {e.user_data : e \in Range(Reqs(SqTags)) \union Range(Cpls(CqTags))} = Range(SqTags) \union Range(CqTags)
  BY <1>2, <1>3, Zenon
<1>7. Ring!Flight = ({tag, got.user_data} \union held \union (Range(SqTags) \union Range(CqTags))) \ {0}
  BY <1>1, <1>6, ZenonT(60) DEF Ring!Flight, Ring!Range, Range, Ring!None
<1> QED BY <1>1, <1>4, <1>5, <1>7, Zenon DEF Pending

\* sqe() is called: the tag is fresh.
LEMMA StepBegin ==
  ASSUME LibraryFacts, RingSizes, RingInv, NEW t \in Tags, Ring!SqeBegin(t)
  PROVE  RingInv' /\ QueuesStep
<1> DEFINE Q == SqTags
           C == CqTags
           S == Pending(Q, C, held, tag)
<1>0. Ring!Flight = S
  BY FlightIs, Zenon
<1>1. /\ todo = <<>> /\ got = Ring!EmptyCqe /\ t \notin S /\ Cardinality(S) < InFlight
      /\ todo' = Ring!SqeStores /\ tag' = t /\ page' = page /\ got' = got /\ held' = held /\ reaped' = reaped
  BY <1>0, RingCard, Zenon DEF Ring!SqeBegin
<1>2. PageHolds(page, Q, C) /\ Apart(Q, C, held, tag) /\ Stage(page, todo, tag)
  BY Shown, Zenon
<1>3. tag = 0 /\ t # 0
  BY <1>1, <1>2, Zenon DEF Stage, RingSizes
<1> HIDE DEF Q, C
<1>4. Pending(Q, C, held, t) = S \union {t} /\ IsFiniteSet(S)
  BY <1>2, <1>3, Zenon DEF Pending, Apart
<1>5. IsFiniteSet(S \union {t}) /\ Cardinality(S \union {t}) = Cardinality(S) + 1 /\ Cardinality(S) \in Nat
  BY <1>1, <1>4, CardAdd, CardNat, Zenon
<1>6. IsFiniteSet(Pending(Q, C, held, t)) /\ Cardinality(Pending(Q, C, held, t)) <= InFlight
  BY <1>1, <1>4, <1>5 DEF RingSizes
<1>7. Apart(Q, C, held, t)
  BY <1>1, <1>2, <1>6, Zenon DEF Apart, Pending, Words
<1>8. Stage(page, Ring!SqeStores, t)
  BY <1>3, Zenon DEF Stage, Ring!SqeStores, LeftOne, LeftTwo
<1>9. RingOK(page', todo', tag', got', held', Q, C)
  BY <1>1, <1>2, <1>7, <1>8, Zenon DEF RingOK, Loaded
<1> QED BY <1>1, <1>9, QueueShown, Zenon DEF Q, C

\* The tail of the submissions is an index.
LEMMA PageTail ==
  ASSUME RingSizes, NEW p, NEW Q, NEW C, PageHolds(p, Q, C)
  PROVE  p \in Pages /\ p.sq_tail \in 0..(IndexRange - 1)
<1> DEFINE r == Reqs(Q)
<1>1. p \in Pages /\ p.sq_head \in 0..(IndexRange - 1) /\ Len(r) \in 0..RingEntries /\ p.sq_tail = Wrap(p.sq_head, Len(r))
  BY Zenon DEF PageHolds, Stores
<1> HIDE DEF r
<1> QED BY <1>1, WrapIs

\* A store of sqe()'s: there is room for the entry, and the last store publishes it whole.
LEMMA StepStore ==
  ASSUME LibraryFacts, RingSizes, RingInv, Ring!SqeStore
  PROVE  RingInv' /\ QueuesStep
<1> DEFINE Q == SqTags
           C == CqTags
           s == Ring!Slot(page.sq_tail)
<1>1. /\ todo # <<>> /\ todo' = Tail(todo) /\ tag' = (IF Tail(todo) = <<>> THEN 0 ELSE tag)
      /\ page' = CASE Head(todo) = "arg"       -> [page EXCEPT !.sq[s].arg = tag]
                   [] Head(todo) = "user_data" -> [page EXCEPT !.sq[s].user_data = tag]
                   [] Head(todo) = "tail"      -> [page EXCEPT !.sq_tail = Ring!WrappingAdd(@)]
      /\ got' = got /\ held' = held /\ reaped' = reaped
  BY Zenon DEF Ring!SqeStore, Ring!None
<1>2. /\ PageHolds(page, Q, C) /\ Apart(Q, C, held, tag) /\ Stage(page, todo, tag) /\ Loaded(todo, got, C)
      /\ Q \in Seq(Tags) /\ C \in Seq(Tags)
  BY Shown, Zenon
<1> HIDE DEF Q, C
<1>3. tag \in Tags /\ got = Ring!EmptyCqe
  BY <1>1, <1>2, Zenon DEF Stage, Loaded, Apart, Words
<1>4. Len(Q) < RingEntries
  <2> DEFINE S == Pending(Q, C, held, tag)
  <2>1. IsFiniteSet(S) /\ Cardinality(S) <= InFlight /\ Distinct(Q)
    BY <1>2, Zenon DEF Apart
  <2>2. tag # 0
    BY <1>1, <1>2, Zenon DEF Stage
  <2>3. tag \in S /\ Range(Q) \subseteq S \ {tag}
    BY <1>2, <2>2, Zenon DEF Pending, Apart
  <2> HIDE DEF S
  <2> QED BY <1>2, <2>1, <2>3, RoomLeft, Zenon
<1>5. tag \in Words /\ tag # 0 /\ Ring!EmptyCqe = got'
  BY <1>1, <1>3, Zenon DEF Words, RingSizes
<1>6. page.sq[s] \in SqSlot /\ page \in Pages
  <2>1. page \in Pages /\ page.sq_tail \in 0..(IndexRange - 1)
    BY <1>2, PageTail, Zenon
  <2>2. s \in 0..(RingEntries - 1)
    BY <2>1 DEF Ring!Slot, RingSizes
  <2> HIDE DEF s
  <2> QED BY <2>1, <2>2, Zenon DEF Pages
<1>7. CASE todo = Ring!SqeStores
  <2> DEFINE e == [page.sq[s] EXCEPT !.arg = tag]
             p == [page EXCEPT !.sq = [page.sq EXCEPT ![s] = e]]
  <2>1. Head(todo) = "arg" /\ Tail(todo) = LeftTwo /\ Tail(todo) # <<>>
    BY <1>7 DEF Ring!SqeStores, LeftTwo
  <2>2. page' = p /\ tag' = tag /\ todo' = LeftTwo
    BY <1>1, <2>1, Zenon
  <2>3. e \in SqSlot /\ e.arg = tag
    BY <1>5, <1>6, Zenon DEF SqSlot
  <2> HIDE DEF e
  <2>4. PageHolds(p, Q, C) /\ p.sq_tail = page.sq_tail /\ p.sq[s] = e
    BY <1>2, <1>4, <2>3, WriteHolds, Zenon
  <2> HIDE DEF p
  <2>5. Stage(p, LeftTwo, tag)
    BY <1>5, <2>3, <2>4, Zenon DEF Stage, LeftTwo, LeftOne
  <2>6. RingOK(page', todo', tag', got', held', Q, C)
    BY <1>1, <1>2, <1>5, <2>2, <2>4, <2>5, Zenon DEF RingOK, Loaded
  <2> QED BY <1>1, <2>6, QueueShown, Zenon DEF Q, C
<1>8. CASE todo = LeftTwo
  <2> DEFINE e == [page.sq[s] EXCEPT !.user_data = tag]
             p == [page EXCEPT !.sq = [page.sq EXCEPT ![s] = e]]
  <2>1. Head(todo) = "user_data" /\ Tail(todo) = LeftOne /\ Tail(todo) # <<>>
    BY <1>8 DEF LeftTwo, LeftOne
  <2>2. page' = p /\ tag' = tag /\ todo' = LeftOne
    BY <1>1, <2>1, Zenon
  <2>3. page.sq[s].arg = tag
    BY <1>2, <1>8, Zenon DEF Stage
  <2>4. e \in SqSlot
    BY <1>5, <1>6, Zenon DEF SqSlot
  <2>5. e = Req(tag)
    BY <1>6, <2>3 DEF SqSlot, Req
  <2> HIDE DEF e
  <2>6. PageHolds(p, Q, C) /\ p.sq_tail = page.sq_tail /\ p.sq[s] = e
    BY <1>2, <1>4, <2>4, WriteHolds, Zenon
  <2> HIDE DEF p
  <2>7. Stage(p, LeftOne, tag)
    BY <1>5, <2>5, <2>6, Zenon DEF Stage, LeftTwo, LeftOne
  <2>8. RingOK(page', todo', tag', got', held', Q, C)
    BY <1>1, <1>2, <1>5, <2>2, <2>6, <2>7, Zenon DEF RingOK, Loaded
  <2> QED BY <1>1, <2>8, QueueShown, Zenon DEF Q, C
<1>9. CASE todo = LeftOne
  <2> DEFINE D == Append(Q, tag)
             p == [page EXCEPT !.sq_tail = Ring!WrappingAdd(page.sq_tail)]
  <2>1. Head(todo) = "tail" /\ Tail(todo) = <<>>
    BY <1>9 DEF LeftOne
  <2>2. page' = p /\ tag' = 0 /\ todo' = <<>>
    BY <1>1, <2>1, Zenon
  <2>3. PageHolds(p, D, C)
    BY <1>2, <1>3, <1>4, <1>9, PublishHolds, Zenon DEF Stage
  <2> HIDE DEF p
  <2>4. Range(D) = Range(Q) \union {tag}
    BY <1>2, <1>3, RangeAppend
  <2>5. Distinct(D)
    BY <1>2, <1>3, DistinctAppend, Zenon DEF Apart
  <2>6. Pending(D, C, held, 0) = Pending(Q, C, held, tag)
    BY <1>5, <2>4, Zenon DEF Pending
  <2>7. 0 \notin held \union Range(D) \union Range(C) /\ 0 \in Words
    <3>1. Range(Q) \subseteq Tags /\ Range(C) \subseteq Tags /\ held \subseteq Tags
      BY <1>2, RangeOf, Zenon DEF Apart
    <3> QED BY <1>3, <2>4, <3>1, Zenon DEF Words, RingSizes
  <2>8. Apart(D, C, held, 0)
    BY <1>2, <2>4, <2>5, <2>6, <2>7, Zenon DEF Apart
  <2>9. Stage(p, <<>>, 0)
    BY Zenon DEF Stage, LeftTwo, LeftOne, Ring!SqeStores
  <2>10. RingOK(page', todo', tag', got', held', D, C)
    BY <1>1, <1>5, <2>2, <2>3, <2>8, <2>9, Zenon DEF RingOK, Loaded
  <2> QED BY <1>1, <1>3, <2>10, QueueShown, Zenon DEF Q, C
<1> QED BY <1>1, <1>2, <1>7, <1>8, <1>9, Zenon DEF Stage

\* reap() loads the oldest completion, ...
LEMMA StepLoad ==
  ASSUME RingSizes, RingInv, Ring!ReapLoad
  PROVE  RingInv' /\ QueuesStep
<1> DEFINE Q == SqTags
           C == CqTags
<1>1. /\ todo = <<>> /\ page.cq_head # page.cq_tail /\ got' = page.cq[Ring!Slot(page.cq_head)]
      /\ page' = page /\ todo' = todo /\ tag' = tag /\ held' = held /\ reaped' = reaped
  BY Zenon DEF Ring!ReapLoad
<1>2. /\ PageHolds(page, Q, C) /\ Apart(Q, C, held, tag) /\ Stage(page, todo, tag)
  BY Shown, Zenon
<1> HIDE DEF Q, C
<1>3. C # <<>>
  <2> SUFFICES ASSUME C = <<>> PROVE FALSE
    BY Zenon
  <2>1. Len(Cpls(C)) = 0
    BY <1>2, CplsAre, Zenon DEF PageHolds
  <2>2. page.cq_head \in 0..(IndexRange - 1) /\ page.cq_tail = Wrap(page.cq_head, 0)
    BY <1>2, <2>1, Zenon DEF PageHolds, Stores
  <2>3. page.cq_head + 0 = page.cq_head /\ page.cq_head < IndexRange /\ 0 \in 0..RingEntries
    BY <2>2 DEF RingSizes
  <2>4. Wrap(page.cq_head, 0) = page.cq_head
    BY <2>2, <2>3, WrapIs, Zenon
  <2> QED BY <1>1, <2>2, <2>4, Zenon
<1>4. page.cq[Ring!Slot(page.cq_head)] = Cpl(Head(C))
  BY <1>2, <1>3, ReapHolds, Zenon
<1>5. RingOK(page', todo', tag', got', held', Q, C)
  BY <1>1, <1>2, <1>3, <1>4, Zenon DEF RingOK, Loaded
<1> QED BY <1>1, <1>5, QueueShown, Zenon DEF Q, C

\* ... which is still the oldest when it gives the slot back.
LEMMA StepReap ==
  ASSUME LibraryFacts, RingSizes, RingInv, Ring!ReapStore
  PROVE  RingInv' /\ QueuesStep
<1> DEFINE Q == SqTags
           C == CqTags
           D == Tail(C)
           p == [page EXCEPT !.cq_head = Ring!WrappingAdd(page.cq_head)]
           S == Pending(Q, C, held, tag)
<1>1. /\ got # Ring!EmptyCqe /\ page' = p /\ reaped' = got /\ got' = Ring!EmptyCqe
      /\ todo' = todo /\ tag' = tag /\ held' = held
  BY Zenon DEF Ring!ReapStore
<1>2. /\ PageHolds(page, Q, C) /\ Apart(Q, C, held, tag) /\ Stage(page, todo, tag) /\ Loaded(todo, got, C)
      /\ C \in Seq(Tags)
  BY Shown, Zenon
<1> HIDE DEF Q, C
<1>3. todo = <<>> /\ C # <<>> /\ got = Cpl(Head(C))
  BY <1>1, <1>2, Zenon DEF Loaded
<1>4. PageHolds(p, Q, D)
  BY <1>2, <1>3, ReapHolds, Zenon
<1>5. Distinct(D) /\ Range(D) = Range(C) \ {Head(C)}
  BY <1>2, <1>3, TailIn, Zenon DEF Apart
<1> HIDE DEF D, p
<1>6. Pending(Q, D, held, tag) \in SUBSET S
  BY <1>5, Zenon DEF Pending
<1>7. IsFiniteSet(S) /\ Cardinality(S) <= InFlight
  BY <1>2, Zenon DEF Apart
<1> HIDE DEF S
<1>8. /\ IsFiniteSet(Pending(Q, D, held, tag)) /\ Cardinality(Pending(Q, D, held, tag)) <= Cardinality(S)
      /\ Cardinality(Pending(Q, D, held, tag)) \in Nat /\ Cardinality(S) \in Nat
  BY <1>6, <1>7, CardSubset, CardNat, Zenon
<1>9. Cardinality(Pending(Q, D, held, tag)) <= InFlight
  BY <1>7, <1>8 DEF RingSizes
<1>10. Apart(Q, D, held, tag)
  BY <1>2, <1>5, <1>8, <1>9, Zenon DEF Apart
<1>11. Stage(p, todo, tag)
  BY <1>2, <1>3, Zenon DEF Stage, LeftOne, LeftTwo
<1>12. RingOK(page', todo', tag', got', held', Q, D)
  BY <1>1, <1>4, <1>10, <1>11, Zenon DEF RingOK, Loaded
<1> QED BY <1>1, <1>3, <1>12, QueueShown, Zenon DEF Q, C, D

\* What sqe() has stored stays, where its slots and its tail do.
LEMMA StageStays ==
  ASSUME NEW p, NEW w, NEW td, NEW tg, Stage(p, td, tg), SameStores(w, p)
  PROVE  Stage(w, td, tg)
  BY Zenon DEF Stage, SameStores

\* drain() ...
LEMMA StepDrain ==
  ASSUME LibraryFacts, RingSizes, RingInv, Ring!Drain
  PROVE  RingInv' /\ QueuesStep
<1> DEFINE Q == SqTags
           C == CqTags
           S == Pending(Q, C, held, tag)
<1>1. PICK parked \in SUBSET {e.user_data : e \in Range(Ring!SqEntries)} :
           page' = Ring!Drained(page, parked) /\ held' = held \union parked
  BY Zenon DEF Ring!Drain, Ring!Range, Range
<1>2. todo' = todo /\ tag' = tag /\ got' = got /\ reaped' = reaped
  BY Zenon DEF Ring!Drain
<1>3. /\ PageHolds(page, Q, C) /\ Apart(Q, C, held, tag) /\ Stage(page, todo, tag) /\ Loaded(todo, got, C)
      /\ Q \in Seq(Tags) /\ Ring!SqEntries = Reqs(Q)
  BY Shown, Zenon
<1> HIDE DEF Q, C
<1>4. parked \in SUBSET Range(Q)
  BY <1>1, <1>3, ReqTags, Zenon
<1>5. Ring!Distance(page.sq_tail, page.sq_head) = Len(Q)
  BY <1>3, PageShows, Zenon
<1>6. page' = RingLoop!Folded(page, parked, [i \in 1..Len(Q) |-> i])
  BY <1>1, <1>5, RingLoopIs, Zenon
<1>7. IsFiniteSet(S) /\ Cardinality(S) <= InFlight
  BY <1>3, Zenon DEF Apart
<1>8. Range(Q) \subseteq S /\ Range(C) \subseteq S
  BY Zenon DEF Pending
<1>9. Distinct(Q) /\ Distinct(C) /\ Range(Q) \intersect Range(C) = {}
  BY <1>3, Zenon DEF Apart
<1> HIDE DEF S
<1>10. PICK D : /\ PageHolds(page', <<>>, D)
                /\ Cpls(D) = AnswerLoop!Folded(Cpls(C), parked, Q)
                /\ Distinct(D) /\ Range(D) = Range(C) \union (Range(Q) \ parked) /\ SameFirst(C, D)
                /\ SameStores(page', page)
  BY <1>3, <1>6, <1>7, <1>8, <1>9, DrainHolds, Zenon
<1>11. Range(<<>>) = {} /\ Distinct(<<>>)
  BY DEF Range, Distinct
<1> DEFINE hd == held \union parked
<1>12. Pending(<<>>, D, hd, tag) = S
  BY <1>4, <1>10, <1>11, Zenon DEF Pending, S
<1>13. Apart(<<>>, D, hd, tag)
  <2>1. Range(Q) \subseteq Tags
    BY <1>3, RangeOf, Zenon
  <2>2. /\ held \subseteq Tags /\ tag \in Words /\ tag \notin held \union Range(Q) \union Range(C)
        /\ Range(Q) \intersect Range(C) = {} /\ held \intersect (Range(Q) \union Range(C)) = {}
    BY <1>3, Zenon DEF Apart
  <2>3. /\ hd \subseteq Tags /\ tag \notin hd \union Range(D)
        /\ hd \intersect Range(D) = {}
    BY <1>4, <1>10, <2>1, <2>2, Zenon
  <2> HIDE DEF hd
  <2> QED BY <1>7, <1>10, <1>11, <1>12, <2>2, <2>3, Zenon DEF Apart
<1> HIDE DEF hd
<1>14. Loaded(todo, got, D)
  BY <1>3, <1>10, Zenon DEF Loaded, SameFirst
<1>15. Stage(page', todo, tag)
  BY <1>3, <1>10, StageStays, Zenon
<1>16. held' = hd
  BY <1>1, Zenon DEF hd
<1>17. RingOK(page', todo', tag', got', held', <<>>, D)
  BY <1>2, <1>10, <1>13, <1>14, <1>15, <1>16, Zenon DEF RingOK
<1>18. \E k \in SUBSET Range(SqTags) :
          held' = held \union k /\ Cpls(D) = AnswerLoop!Folded(Cpls(CqTags), k, SqTags)
  BY <1>1, <1>4, <1>10, Zenon DEF Q, C
<1> QED BY <1>2, <1>17, <1>18, QueueShown, Zenon

\* ... and complete(), for a request that was parked.
LEMMA StepComplete ==
  ASSUME LibraryFacts, RingSizes, RingInv, NEW t \in Tags, Ring!CompleteHeld(t)
  PROVE  RingInv' /\ QueuesStep
<1> DEFINE Q == SqTags
           C == CqTags
           D == Append(C, t)
           S == Pending(Q, C, held, tag)
           hd == held \ {t}
<1>1. /\ t \in held /\ page' = Ring!Complete(page, t, t) /\ held' = hd
      /\ todo' = todo /\ tag' = tag /\ got' = got /\ reaped' = reaped
  BY Zenon DEF Ring!CompleteHeld
<1>2. /\ PageHolds(page, Q, C) /\ Apart(Q, C, held, tag) /\ Stage(page, todo, tag) /\ Loaded(todo, got, C)
      /\ C \in Seq(Tags)
  BY Shown, Zenon
<1> HIDE DEF Q, C
<1>3. IsFiniteSet(S) /\ Cardinality(S) <= InFlight
  BY <1>2, Zenon DEF Apart
<1>4. t \in S /\ Range(C) \subseteq S \ {t} /\ Distinct(C) /\ t \notin Range(C)
  BY <1>1, <1>2, Zenon DEF Pending, Apart
<1> HIDE DEF S
<1>5. Len(C) < RingEntries
  BY <1>2, <1>3, <1>4, RoomLeft, Zenon
<1>6. PageHolds(page', Q, D)
  BY <1>1, <1>2, <1>5, PostHolds, Zenon
<1>7. Range(D) = Range(C) \union {t}
  BY <1>2, RangeAppend
<1>8. Distinct(D)
  BY <1>2, <1>4, DistinctAppend, Zenon
<1>9. SameStores(page', page)
  BY <1>1, <1>2, CompleteKeeps, Zenon DEF PageHolds
<1>10. Loaded(todo, got, D)
  <2>1. C # <<>> => D # <<>> /\ Head(D) = Head(C)
    BY <1>2
  <2> QED BY <1>2, <2>1, Zenon DEF Loaded
<1>11. Cpls(D) = Append(Cpls(C), Cpl(t))
  BY <1>2, CplsAre, Zenon
<1> HIDE DEF D
<1>12. Pending(Q, D, hd, tag) = S
  BY <1>1, <1>7, Zenon DEF Pending, S
<1>13. Apart(Q, D, hd, tag)
  <2>1. /\ held \subseteq Tags /\ tag \in Words /\ tag \notin held \union Range(Q) \union Range(C) /\ Distinct(Q)
        /\ Range(Q) \intersect Range(C) = {} /\ held \intersect (Range(Q) \union Range(C)) = {}
    BY <1>2, Zenon DEF Apart
  <2>2. /\ hd \subseteq Tags /\ tag \notin hd \union Range(Q) \union Range(D)
        /\ Range(Q) \intersect Range(D) = {} /\ hd \intersect (Range(Q) \union Range(D)) = {}
    BY <1>1, <1>7, <2>1, Zenon
  <2> QED BY <1>3, <1>8, <1>12, <2>1, <2>2, Zenon DEF Apart
<1>14. Stage(page', todo, tag)
  BY <1>2, <1>9, StageStays, Zenon
<1>15. RingOK(page', todo', tag', got', held', Q, D)
  BY <1>1, <1>6, <1>10, <1>13, <1>14, Zenon DEF RingOK
<1> QED BY <1>1, <1>11, <1>15, QueueShown, Zenon DEF Q, C

\* A new ring.
LEMMA RingInit ==
  ASSUME LibraryFacts, RingSizes, Ring!Init
  PROVE  RingInv /\ Ring!Queue!Init
<1>1. page \in Pages /\ page.sq_head = 0 /\ page.sq_tail = 0 /\ page.cq_head = 0 /\ page.cq_tail = 0
  BY Zenon DEF Ring!Init, Pages, Ring!EmptySqe, Ring!EmptyCqe, Ring!None, SqSlot, CqSlot, Words
<1>2. /\ todo = <<>> /\ tag = 0 /\ got = Ring!EmptyCqe /\ held = {} /\ reaped = Ring!EmptyCqe
  BY Zenon DEF Ring!Init, Ring!None
<1>3. Reqs(<<>>) = <<>> /\ Cpls(<<>>) = <<>> /\ <<>> \in Seq(Tags)
  BY DEF Reqs, Cpls
<1>4. \A b : Stores(b, 0, 0, <<>>)
  <2>1. 0 \in 0..(IndexRange - 1) /\ 0 \in 0..RingEntries /\ 0 + 0 < IndexRange /\ 0 + 0 = 0
    BY DEF RingSizes
  <2>2. Wrap(0, 0) = 0
    BY <2>1, WrapIs, Zenon
  <2>3. Len(<<>>) = 0 /\ <<>> = [i \in 1..0 |-> <<>>[i]] /\ 1..0 = {}
    OBVIOUS
  <2> QED BY <2>1, <2>2, <2>3, Zenon DEF Stores
<1>5. PageHolds(page, <<>>, <<>>)
  BY <1>1, <1>3, <1>4, Zenon DEF PageHolds
<1>6. Range(<<>>) = {} /\ Distinct(<<>>)
  BY DEF Range, Distinct
<1>7. Pending(<<>>, <<>>, {}, 0) = {}
  BY <1>6, Zenon DEF Pending
<1>8. IsFiniteSet({}) /\ Cardinality({}) <= InFlight
  BY CardEmpty DEF RingSizes
<1>9. Apart(<<>>, <<>>, {}, 0)
  BY <1>6, <1>7, <1>8, Zenon DEF Apart, Words
<1>10. Stage(page, <<>>, 0)
  BY Zenon DEF Stage, LeftTwo, LeftOne, Ring!SqeStores
<1>11. Ring!SqEntries = <<>> /\ Ring!CqEntries = <<>> /\ UserData(<<>>) = <<>>
  <2>1. Ring!SqEntries = Reqs(<<>>) /\ Ring!CqEntries = Cpls(<<>>) /\ UserData(Reqs(<<>>)) = <<>>
    BY <1>5, PageShows, Zenon DEF Ring!SqEntries, Ring!CqEntries
  <2> QED BY <1>3, <2>1, Zenon
<1>12. SqTags = <<>> /\ CqTags = <<>>
  BY <1>11, Zenon DEF SqTags, CqTags
<1>13. RingInv
  BY <1>2, <1>5, <1>9, <1>10, <1>12, Zenon DEF RingInv, RingOK, Loaded
<1>14. Ring!Queue!Init
  BY <1>2, <1>11, Zenon DEF Ring!Queue!Init, Ring!Queue!Completion, UserData, Ring!EmptyCqe, Ring!None
<1> QED BY <1>13, <1>14, Zenon

\* Every step keeps the invariant and is one of the queues' steps, or none.
LEMMA RingStep ==
  ASSUME LibraryFacts, RingSizes, RingInv, [Ring!Next]_(Ring!vars)
  PROVE  RingInv' /\ QueuesStep
<1>1. CASE Ring!Next
  BY <1>1, StepBegin, StepComplete, StepStore, StepLoad, StepReap, StepDrain, Zenon DEF Ring!Next
<1>2. CASE UNCHANGED Ring!vars
  <2>1. page' = page /\ todo' = todo /\ tag' = tag /\ got' = got /\ held' = held /\ reaped' = reaped
    BY <1>2, Zenon DEF Ring!vars
  <2>2. RingOK(page', todo', tag', got', held', SqTags, CqTags)
    BY <2>1, Zenon DEF RingInv
  <2> QED BY <2>1, <2>2, QueueShown, Zenon
<1> QED BY <1>1, <1>2, Zenon

-----------------------------------------------------------------------------
(* The theorems about the ring page and the scheduler, with the library's behind them. *)

INSTANCE FiniteSetTheorems

\* The library's theorems give LibraryFacts.
LEMMA LibraryHolds == LibraryFacts
<1>1. ASSUME NEW S \in SUBSET Nat, S # {} PROVE \E i \in S : \A j \in S : i <= j
  <2> DEFINE Below == {ss \in Nat \X Nat : ss[1] < ss[2]}
  <2>1. IsWellFoundedOn(Below, Nat)
    BY NatLessThanWellFounded, Zenon DEF OpToRel
  <2> HIDE DEF Below
  <2>2. PICK i \in S : \A j \in S : ~(<<j, i>> \in Below)
    BY <1>1, <2>1, WFMin, Zenon
  <2>3. \A j \in S : ~(j < i)
    BY <2>2, Zenon DEF Below
  <2> QED BY <2>3
<1>2. ASSUME NEW S, IsFiniteSet(S), NEW T, NEW f \in Injection(T, S)
      PROVE  IsFiniteSet(T) /\ Cardinality(T) <= Cardinality(S)
  BY <1>2, FS_Injection, Zenon
<1>3. ASSUME NEW S, IsFiniteSet(S), NEW x
      PROVE  /\ IsFiniteSet(S \union {x}) /\ IsFiniteSet(S \ {x})
             /\ Cardinality(S \union {x}) = IF x \in S THEN Cardinality(S) ELSE Cardinality(S) + 1
             /\ Cardinality(S \ {x}) = IF x \in S THEN Cardinality(S) - 1 ELSE Cardinality(S)
  BY <1>3, FS_AddElement, FS_RemoveElement, Zenon
<1>4. ASSUME NEW S, IsFiniteSet(S)
      PROVE  /\ Cardinality(S) \in Nat /\ (Cardinality(S) = 0 <=> S = {})
             /\ \A T \in SUBSET S : IsFiniteSet(T) /\ Cardinality(T) <= Cardinality(S)
  BY <1>4, FS_CardinalityType, FS_EmptySet, FS_Subset, Zenon
<1> QED BY <1>1, <1>2, <1>3, <1>4, FS_EmptySet, FS_Interval, Zenon DEF LibraryFacts

\* A queue without repetitions is as long as the set of its elements is large.
LEMMA DistinctCount ==
  ASSUME NEW q \in Seq(Tags), Distinct(q)
  PROVE  IsFiniteSet(Range(q)) /\ Cardinality(Range(q)) = Len(q)
<1> DEFINE l == Len(q)
           f == [i \in 1..l |-> q[i]]
<1>1. l \in Nat /\ DOMAIN q = 1..l
  OBVIOUS
<1>2. f \in Bijection(1..l, Range(q))
  BY <1>1, Zenon DEF Distinct, Bijection, Injection, Surjection, IsInjective, Range
<1>3. IsFiniteSet(1..l) /\ Cardinality(1..l) = l
  BY <1>1, LibraryHolds, CardInterval
<1>4. IsFiniteSet(Range(q)) /\ Cardinality(Range(q)) = Cardinality(1..l)
  BY <1>2, <1>3, FS_Bijection DEF ExistsBijection
<1> QED BY <1>3, <1>4, Zenon

\* Sets that do not meet.
LEMMA DisjointCount ==
  ASSUME NEW S, NEW T, IsFiniteSet(S), IsFiniteSet(T), S \intersect T = {}
  PROVE  IsFiniteSet(S \union T) /\ Cardinality(S \union T) = Cardinality(S) + Cardinality(T)
<1>1. /\ IsFiniteSet(S \union T)
      /\ Cardinality(S \union T) = Cardinality(S) + Cardinality(T) - Cardinality(S \intersect T)
  BY FS_Union, Zenon
<1>2. Cardinality(S) \in Nat /\ Cardinality(T) \in Nat /\ Cardinality(S \intersect T) = 0
  BY FS_CardinalityType, FS_EmptySet, Zenon
<1> QED BY <1>1, <1>2

\* The invariant counts every request once.
LEMMA RingCounts ==
  ASSUME RingSizes, RingInv
  PROVE  Ring!RoomForAll
<1> DEFINE Q == SqTags
           C == CqTags
           S == Pending(Q, C, held, tag)
           num == IF tag = 0 THEN 0 ELSE 1
<1>1. /\ Ring!SqEntries = Reqs(Q) /\ Ring!CqEntries = Cpls(C) /\ Q \in Seq(Tags) /\ C \in Seq(Tags)
      /\ Apart(Q, C, held, tag)
  BY Shown, Zenon
<1>2. Ring!Flight = S
  BY FlightIs, Zenon
<1> HIDE DEF Q, C
<1>3. Len(Ring!SqEntries) = Len(Q) /\ Len(Ring!CqEntries) = Len(C)
  BY <1>1, ReqsAre, CplsAre, Zenon
<1>4. IsFiniteSet(S) /\ Cardinality(S) <= InFlight
  BY <1>1, Zenon DEF Apart
<1>5. IsFiniteSet(Range(Q)) /\ Cardinality(Range(Q)) = Len(Q) /\ IsFiniteSet(Range(C)) /\ Cardinality(Range(C)) = Len(C)
  BY <1>1, DistinctCount, Zenon DEF Apart
<1>6. IsFiniteSet(held)
  <2>1. held \in SUBSET S
    BY Zenon DEF Pending
  <2> HIDE DEF S
  <2> QED BY <1>4, <2>1, LibraryHolds, CardSubset, Zenon
<1>7. IsFiniteSet({tag} \ {0}) /\ Cardinality({tag} \ {0}) = num
  <2>1. CASE tag = 0
    <3>1. {tag} \ {0} = {}
      BY <2>1, Zenon
    <3> QED BY <2>1, <3>1, FS_EmptySet, Zenon
  <2>2. CASE tag # 0
    <3>1. {tag} \ {0} = {tag}
      BY <2>2, Zenon
    <3>2. IsFiniteSet({tag}) /\ Cardinality({tag}) = 1
      BY FS_Singleton, ZenonT(60)
    <3>3. num = 1
      BY <2>2, Zenon
    <3> QED BY <3>1, <3>2, <3>3, Zenon
  <2> QED BY <2>1, <2>2, Zenon
<1> DEFINE A == held \union Range(Q)
           B == A \union Range(C)
<1>8. IsFiniteSet(A) /\ Cardinality(A) = Cardinality(held) + Len(Q)
  <2>1. held \intersect Range(Q) = {}
    BY <1>1, Zenon DEF Apart
  <2> QED BY <1>5, <1>6, <2>1, DisjointCount, Zenon
<1>9. A \intersect Range(C) = {} /\ B \intersect ({tag} \ {0}) = {}
  BY <1>1, Zenon DEF Apart
<1> HIDE DEF A
<1>10. IsFiniteSet(B) /\ Cardinality(B) = Cardinality(A) + Cardinality(Range(C))
  BY <1>5, <1>8, <1>9, DisjointCount, Zenon
<1> HIDE DEF B
<1>11. Cardinality(B \union ({tag} \ {0})) = Cardinality(B) + Cardinality({tag} \ {0})
  BY <1>7, <1>9, <1>10, DisjointCount, Zenon
<1>12. S = B \union ({tag} \ {0})
  BY Zenon DEF A, B, Pending
<1>13. Cardinality(held) \in Nat /\ Len(Q) \in Nat /\ Len(C) \in Nat /\ num \in {0, 1} /\ InFlight \in Nat
  BY <1>1, <1>6, FS_CardinalityType DEF RingSizes
<1> HIDE DEF S, num
<1>14. Cardinality(S) = Len(Q) + Cardinality(held) + Len(C) + num /\ Len(Q) + Cardinality(held) + Len(C) <= InFlight
  <2>1. Cardinality(S) = Cardinality(B) + num /\ Cardinality(B) = Cardinality(A) + Len(C)
    BY <1>5, <1>7, <1>10, <1>11, <1>12, Zenon
  <2> QED BY <1>4, <1>8, <1>13, <2>1
<1>15. Ring!Cardinality(Ring!Flight) = Cardinality(S) /\ Ring!Cardinality(held) = Cardinality(held)
  BY <1>2, RingCard, Zenon
<1> QED BY <1>3, <1>14, <1>15, Zenon DEF Ring!RoomForAll, Ring!None, num

\* A program with at most RING_ENTRIES requests in flight never overruns a queue of its
\* ring, though sqe() does not look for room and complete() drops what does not fit:
\* whatever the number of entries and the width of the indices.
THEOREM RingHasRoom ==
  ASSUME RingSizes
  PROVE  Ring!Spec => []RoomForAll
<1>1. Ring!Init => RingInv
  BY LibraryHolds, RingInit, Zenon
<1>2. RingInv /\ [Ring!Next]_(Ring!vars) => RingInv'
  BY LibraryHolds, RingStep, Zenon
<1>3. RingInv => RoomForAll
  BY RingCounts, Zenon DEF RoomForAll
<1> QED BY <1>1, <1>2, <1>3, PTL DEF Ring!Spec

\* The ring page is a pair of queues: sqe(), drain(), complete() and reap() read every entry
\* whole, once and in order, across the wrap of the indices, and drop nothing.
THEOREM RingIsTwoQueues ==
  ASSUME RingSizes
  PROVE  Ring!Spec => ImplementsQueues
<1>1. Ring!Init => RingInv /\ Ring!Queue!Init
  BY LibraryHolds, RingInit, Zenon
<1>2. RingInv /\ [Ring!Next]_(Ring!vars) => RingInv' /\ [Ring!Queue!Next]_(Ring!Queue!vars)
  BY LibraryHolds, RingStep, Zenon DEF QueuesStep
<1> QED BY <1>1, <1>2, PTL DEF Ring!Spec, ImplementsQueues, Ring!ImplementsQueues, Ring!Queue!Spec

\* The strengthened invariant holds in every reachable state.
THEOREM SchedulerInvariant == Spec => []SchedulerInv
<1>1. Init => SchedulerInv
  BY InitInv, Zenon
<1>2. SchedulerInv /\ [Next]_vars => SchedulerInv'
  BY LibraryHolds, NextPreserves, Zenon
<1> QED BY <1>1, <1>2, PTL DEF Spec

\* The scheduler's variables keep their types.
THEOREM SchedulerTypeOK == Spec => []TypeOK
<1>1. SchedulerInv => TypeOK
  BY Zenon DEF SchedulerInv
<1> QED BY <1>1, SchedulerInvariant, PTL

\* schedule() never returns into, and never leaves the CPU with, a task that is
\* Blocked or Exited.
THEOREM SchedulerCurrentRunnable == Spec => []CurrentRunnable
<1>1. SchedulerInv => CurrentRunnable
  BY Zenon DEF SchedulerInv
<1> QED BY <1>1, SchedulerInvariant, PTL

\* context_switch is only ever given a context that was fabricated or saved.
THEOREM SchedulerContextsSaved == Spec => []ContextsSaved
<1>1. SchedulerInv => ContextsSaved
  BY Zenon DEF SchedulerInv
<1> QED BY <1>1, SchedulerInvariant, PTL

\* The idle task always runs with IRQs unmasked.
THEOREM SchedulerIdleUnmasked == Spec => []IdleUnmasked
<1>1. SchedulerInv => IdleUnmasked
  BY Zenon DEF SchedulerInv
<1> QED BY <1>1, SchedulerInvariant, PTL

\* schedule() switches to other tasks at most n - 1 times before it is the turn of
\* a task that was spawned, woken or preempted.
THEOREM SchedulerBoundedWait == MCSpec => []BoundedWait
<1>1. MCInit => SchedulerInv /\ WaitInv
  BY WaitInit, Zenon
<1>2. SchedulerInv /\ WaitInv /\ [MCNext]_mcVars => (SchedulerInv /\ WaitInv)'
  <2>1. [MCNext]_mcVars => [Next]_vars
    BY Zenon DEF MCNext, mcVars
  <2>2. SchedulerInv /\ [Next]_vars => SchedulerInv'
    BY LibraryHolds, NextPreserves, Zenon
  <2>3. SchedulerInv /\ WaitInv /\ [MCNext]_mcVars => WaitInv'
    BY LibraryHolds, WaitPreserved, Zenon
  <2> QED BY <2>1, <2>2, <2>3
<1>3. SchedulerInv /\ WaitInv => BoundedWait
  BY WaitBounds, Zenon
<1> QED BY <1>1, <1>2, <1>3, PTL DEF MCSpec

=============================================================================

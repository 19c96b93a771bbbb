----------------------------- MODULE PartsProofs -----------------------------
(***************************************************************************)
(* The self-contained parts, for every value of their constants: returns   *)
(* from traps, the interrupt handlers and the input buffer, the memory     *)
(* routines, the heap and the shell's line editor.                         *)
(***************************************************************************)
EXTENDS Parts, ProofBasics

-----------------------------------------------------------------------------
(* Ranges of numbers. *)

\* A range that grows by one, at its end ...
LEMMA OneUp ==
  ASSUME NEW d \in Int, NEW k \in Int, NEW i \in Int, k <= i, NEW x \in Int
  PROVE  x \in (d + k)..(d + (i + 1) - 1) <=> x = d + i \/ x \in (d + k)..(d + i - 1)
OBVIOUS

\* ... at its start ...
LEMMA OneDown ==
  ASSUME NEW d \in Int, NEW k \in Int, NEW i \in Int, i < k, NEW x \in Int
  PROVE  x \in (d + i)..(d + k - 1) <=> x = d + i \/ x \in (d + (i + 1))..(d + k - 1)
OBVIOUS

\* ... and one that starts at d, at its end.
LEMMA OneMore ==
  ASSUME NEW d \in Int, NEW j \in Int, NEW i \in Int, 0 <= j, j < i, i <= j + 1, NEW x \in Int
  PROVE  x \in d..(d + i - 1) <=> x = d + j \/ x \in d..(d + j - 1)
OBVIOUS

\* Places in a line of at most m, when the l-th is the last and one more comes ...
LEMMA PlacesOn ==
  ASSUME NEW m \in Nat, NEW l \in 0..m, l < m
  PROVE  /\ l + 1 \in 0..m /\ l + 1 \in 1..m /\ l + 1 \in 1..(m + 1)
         /\ \A i \in 1..(l + 1) :
              i \in 1..m /\ i \in 1..(m + 1) /\ (i = l + 1 \/ (i # l + 1 /\ i \in 1..l))
         /\ \A i \in ((l + 1) + 1)..(m + 1) : i \in 1..(m + 1) /\ i # l + 1 /\ i \in (l + 1)..(m + 1)
OBVIOUS

\* ... and when it goes.
LEMMA PlacesBack ==
  ASSUME NEW m \in Nat, NEW l \in 0..m, l > 0
  PROVE  /\ l - 1 \in 0..m /\ l \in 1..(m + 1) /\ (l + 1) - 1 = l /\ l = (l - 1) + 1 /\ l + 1 > 1
         /\ \A i \in 1..(l - 1) : i \in 1..l /\ i # l /\ i \in 1..(m + 1)
         /\ \A i \in l..(m + 1) : i \in 1..(m + 1) /\ (i = l \/ (i # l /\ i \in (l + 1)..(m + 1)))
OBVIOUS

\* The places of an empty line.
LEMMA NoPlaces ==
  ASSUME NEW m \in Nat
  PROVE  0 \in 0..m /\ 0 + 1 = 1 /\ \A i \in 1..0 : FALSE
OBVIOUS

-----------------------------------------------------------------------------
(* Returns from traps. *)

Places == Trap!EnterCode \union {"user"}
Everywhere == Places \union {"handler", "halted"}
Addresses == [task : Tasks, place : Places]
Levels == {"EL0t", "EL1h"}
Frames == [elr : Addresses, spsr : Levels, spEl0 : Tasks]

TrapType ==
    /\ running \in Tasks /\ at \in [Tasks -> Everywhere]
    /\ elr \in Addresses /\ spsr \in Levels /\ spEl0 \in Tasks
    /\ frame \in [Tasks -> Frames]

\* A task off the CPU is fresh or in its handler; and where enter_user's ERET leads
\* to the program, SP_EL0 has been set since.
TrapInv ==
    /\ TrapType
    /\ \A t \in Tasks \ {running} : at[t] \in {"msr spsr", "handler"}
    /\ at[running] = "eret" /\ elr.place = "user" => spEl0 = running
    /\ Trap!OwnContext

\* What a step of the running task has to establish.
LEMMA TrapSettles ==
  ASSUME TrapInv, NEW place \in Everywhere, at' = [at EXCEPT ![running] = place],
         running' = running, elr' \in Addresses, spsr' \in Levels, spEl0' \in Tasks,
         frame' \in [Tasks -> Frames], \A t \in Tasks \ {running} : frame'[t] = frame[t],
         place = "eret" /\ elr'.place = "user" => spEl0' = running,
         place = "user" => spEl0' = running,
         place = "handler" =>
            /\ frame'[running].elr.task = running
            /\ frame'[running].elr.place = "user" =>
                  frame'[running].spEl0 = running /\ frame'[running].spsr = "EL0t"
  PROVE  TrapInv'
<1>1. /\ at' \in [Tasks -> Everywhere] /\ at'[running] = place /\ running \in Tasks
      /\ \A t \in Tasks \ {running} : at'[t] = at[t]
  BY Zenon DEF TrapInv, TrapType
<1>2. TrapType'
  BY <1>1, Zenon DEF TrapType
<1>3. Trap!OwnContext'
  <2>1. ASSUME NEW t \in Tasks, at'[t] = "handler"
        PROVE  /\ frame'[t].elr.task = t
               /\ frame'[t].elr.place = "user" => frame'[t].spEl0 = t /\ frame'[t].spsr = "EL0t"
    <3>1. CASE t = running
      BY <1>1, <2>1, <3>1, Zenon
    <3>2. CASE t # running
      <4>1. at[t] = "handler" /\ frame'[t] = frame[t]
        BY <1>1, <2>1, <3>2, Zenon
      <4>2. /\ frame[t].elr.task = t
            /\ frame[t].elr.place = "user" => frame[t].spEl0 = t /\ frame[t].spsr = "EL0t"
        BY <4>1, Zenon DEF Trap!OwnContext, TrapInv
      <4> QED BY <4>1, <4>2, Zenon
    <3> QED BY <3>1, <3>2, Zenon
  <2> QED BY <1>1, <2>1, Zenon DEF Trap!OwnContext
<1> QED BY <1>1, <1>2, <1>3, Zenon DEF TrapInv

\* Where an ERET leads.
LEMMA Lands ==
  ASSUME NEW address \in Addresses, NEW level \in Levels
  PROVE  /\ Trap!Landing(address, level) \in Everywhere \ {"handler"}
         /\ Trap!Landing(address, level) \in {"eret", "user"} =>
               Trap!Landing(address, level) = address.place
<1>1. address.place \in Places
  BY Zenon DEF Addresses
<1> QED BY <1>1, Zenon DEF Trap!Landing, Everywhere, Places, Trap!EnterCode

\* Each step of a task keeps it.
LEMMA TrapStep ==
  ASSUME TrapInv, [Trap!Next]_(Trap!vars)
  PROVE  TrapInv'
<1> USE DEF TrapType
<1>1. CASE UNCHANGED Trap!vars
  BY <1>1, Zenon DEF Trap!vars, Trap!OwnContext, TrapInv
<1>2. CASE Trap!EnterUser
  <2> DEFINE landed == Trap!Landing(elr, spsr)
  <2>1. /\ {"msr elr", "msr sp", "eret"} \subseteq Everywhere
        /\ "EL0t" \in Levels /\ running \in Tasks
        /\ [task |-> running, place |-> "user"] \in Addresses
        /\ [task |-> running, place |-> "user"].place = "user"
    BY Zenon DEF TrapInv, Everywhere, Places, Trap!EnterCode, Levels, Addresses
  <2>2. /\ landed \in Everywhere \ {"handler"}
        /\ landed \in {"eret", "user"} => landed = elr.place
    BY Lands, Zenon DEF TrapInv
  <2>3. landed \in {"eret", "user"} /\ at[running] = "eret" /\ elr.place = "user" => spEl0 = running
    BY Zenon DEF TrapInv
  <2> HIDE DEF landed
  <2>4. CASE at[running] = "msr spsr"
    BY <1>2, <2>1, <2>4, TrapSettles, Zenon DEF Trap!EnterUser, TrapInv
  <2>5. CASE at[running] = "msr elr"
    BY <1>2, <2>1, <2>5, TrapSettles, Zenon DEF Trap!EnterUser, TrapInv
  <2>6. CASE at[running] = "msr sp"
    BY <1>2, <2>1, <2>6, TrapSettles, Zenon DEF Trap!EnterUser, TrapInv
  <2>7. CASE at[running] = "eret"
    <3>1. at' = [at EXCEPT ![running] = landed] /\ UNCHANGED <<running, elr, spsr, spEl0, frame>>
      BY <1>2, <2>7, Zenon DEF Trap!EnterUser, landed
    <3> QED BY <2>2, <2>3, <2>7, <3>1, TrapSettles, Zenon DEF TrapInv
  <2> QED BY <1>2, <2>4, <2>5, <2>6, <2>7, Zenon DEF Trap!EnterUser
<1>3. CASE Trap!Exception
  <2> DEFINE e == [task |-> running, place |-> at[running]]
             s == IF at[running] = "user" THEN "EL0t" ELSE "EL1h"
             f == [elr |-> e, spsr |-> s, spEl0 |-> spEl0]
  <2>1. /\ at[running] \in Places /\ elr' = e /\ spsr' = s
        /\ frame' = [frame EXCEPT ![running] = f]
        /\ at' = [at EXCEPT ![running] = "handler"]
        /\ UNCHANGED <<running, spEl0>>
    BY <1>3, Zenon DEF Trap!Exception, Places
  <2>2. e \in Addresses /\ s \in Levels /\ e.task = running /\ e.place = at[running]
    BY <2>1, Zenon DEF Addresses, TrapInv, Levels
  <2>3. at[running] = "user" => s = "EL0t" /\ spEl0 = running
    BY Zenon DEF TrapInv, Trap!OwnContext
  <2> HIDE DEF e, s
  <2>4. f \in Frames /\ f.elr = e /\ f.spsr = s /\ f.spEl0 = spEl0
    BY <2>2, Zenon DEF Frames, TrapInv
  <2> HIDE DEF f
  <2>5. /\ frame' \in [Tasks -> Frames] /\ frame'[running] = f
        /\ \A t \in Tasks \ {running} : frame'[t] = frame[t]
    BY <2>1, <2>4, Zenon DEF TrapInv
  <2>6. "handler" \in Everywhere
    BY Zenon DEF Everywhere
  <2> QED BY <2>1, <2>2, <2>3, <2>4, <2>5, <2>6, TrapSettles, Zenon DEF TrapInv
<1>4. CASE \E t \in Tasks : Trap!SwitchTo(t)
  BY <1>4, ZenonT(60) DEF Trap!SwitchTo, Trap!OwnContext, TrapInv
<1>5. CASE Trap!Return
  <2> DEFINE f == frame[running]
             place == Trap!Landing(f.elr, f.spsr)
  <2>1. /\ at[running] = "handler" /\ elr' = f.elr /\ spsr' = f.spsr /\ spEl0' = f.spEl0
        /\ at' = [at EXCEPT ![running] = place]
        /\ UNCHANGED <<running, frame>>
    BY <1>5, Zenon DEF Trap!Return
  <2>2. f \in Frames
    BY Zenon DEF TrapInv
  <2>3. f.elr.place = "user" => f.spEl0 = running
    BY <2>1, Zenon DEF TrapInv, Trap!OwnContext
  <2> HIDE DEF f
  <2>4. f.elr \in Addresses /\ f.spsr \in Levels /\ f.spEl0 \in Tasks
    BY <2>2, Zenon DEF Frames
  <2>5. place \in Everywhere \ {"handler"} /\ (place \in {"eret", "user"} => place = f.elr.place)
    BY <2>4, Lands, Zenon
  <2> HIDE DEF place
  <2> QED BY <2>1, <2>3, <2>4, <2>5, TrapSettles, Zenon DEF TrapInv
<1> QED BY <1>1, <1>2, <1>3, <1>4, <1>5, Zenon DEF Trap!Next

\* exceptions.s and enter_user: for any set of tasks, a program at EL0 runs on its own
\* user stack and every frame leads back to the code of the task it belongs to.
THEOREM OwnContextKept == Trap!Spec => []OwnContext
<1>1. Trap!Init => TrapInv
  <2> SUFFICES ASSUME Trap!Init PROVE TrapInv
    BY Zenon
  <2> DEFINE e == [task |-> running, place |-> "msr spsr"]
             f == [elr |-> e, spsr |-> "EL1h", spEl0 |-> running]
  <2>1. e \in Addresses /\ "msr spsr" \in Everywhere /\ "EL1h" \in Levels /\ running \in Tasks
    BY Zenon DEF Trap!Init, Addresses, Everywhere, Places, Trap!EnterCode, Levels
  <2>2. f \in Frames /\ elr = e /\ e.place # "user"
    BY <2>1, Zenon DEF Frames, Trap!Init
  <2>3. frame = [t \in Tasks |-> f]
    BY <2>2, Zenon DEF Trap!Init
  <2> HIDE DEF e, f
  <2> QED BY <2>1, <2>2, <2>3, Zenon DEF Trap!Init, TrapInv, TrapType, Trap!OwnContext
<1>2. TrapInv /\ [Trap!Next]_(Trap!vars) => TrapInv'
  BY TrapStep, Zenon
<1>3. TrapInv => OwnContext
  BY Zenon DEF TrapInv, OwnContext
<1> QED BY <1>1, <1>2, <1>3, PTL DEF Trap!Spec

-----------------------------------------------------------------------------
(* Interrupt handlers. *)

Boot == 0..2        \* kmain and its two threads
Entries == [state : TaskStates, rounds : Int, wait : Int]

\* The tasks that kmain's calls up to the i-th have registered.
Registered(i) == IF i < 7 THEN 0 ELSE IF i > 9 THEN 3 ELSE i - 6

\* What the handler of the running task has still to do, and the interrupt the GIC
\* holds active meanwhile.
TimerLeft == {<<"on_tick", "eoi timer", "tick">>, <<"eoi timer", "tick">>}
UartLeft == {<<"drain_uart", "eoi uart">>, <<"eoi uart">>}

IrqInv ==
    /\ booted \in 0..10 /\ tasks \in Seq(Entries) /\ Len(tasks) = Registered(booted)
    /\ current \in Boot /\ DOMAIN handler = Boot
    /\ current = 0 \/ current < Len(tasks)
    /\ gic \in [enabled : SUBSET {30, 33}, grp1 : BOOLEAN, active : SUBSET {30, 33}]
    /\ \A t \in Boot \ {current} : handler[t] = <<>>
    /\ \/ handler[current] \in {<<>>, <<"tick">>} /\ gic.active = {}
       \/ handler[current] \in TimerLeft /\ gic.active = {30}
       \/ handler[current] \in UartLeft /\ gic.active = {33}

\* schedule() stays among the tasks registered.
LEMMA SchedulePicks ==
  ASSUME LibraryFacts, NEW st, NEW m \in 0..3, NEW cur \in Boot
  PROVE  /\ Irq!NextTask(st, cur, m) \in Boot
         /\ Irq!NextTask(st, cur, m) = cur \/ Irq!NextTask(st, cur, m) < m
<1> DEFINE S == {i \in 1..m : st[(cur + i) % m] = "Runnable"}
<1>1. CASE S = {}
  BY <1>1, Zenon DEF Irq!NextTask, Irq!RunnableOffsets
<1>2. CASE S # {}
  <2> DEFINE k == CHOOSE i \in S : \A j \in S : i <= j
  <2>1. k \in 1..m
    BY <1>2, LeastNat
  <2>2. Irq!NextTask(st, cur, m) = (cur + k) % m
    BY <1>2, Zenon DEF Irq!NextTask, Irq!RunnableOffsets
  <2> HIDE DEF k
  <2> QED BY <2>1, <2>2 DEF Boot
<1> QED BY <1>1, <1>2, Zenon

\* on_tick and wake_sleepers change no more than the entries of the tasks.
LEMMA EntriesKept ==
  ASSUME NEW s \in Seq(Entries), NEW F, F = [i \in DOMAIN s |-> F[i]], \A i \in DOMAIN s : F[i] \in Entries
  PROVE  F \in Seq(Entries) /\ Len(F) = Len(s)
<1>1. DOMAIN s = 1..Len(s) /\ Len(s) \in Nat
  OBVIOUS
<1>2. F \in [1..Len(s) -> Entries]
  BY <1>1, Zenon
<1> QED BY <1>1, <1>2

\* A task's entry is replaced in place.
LEMMA EntryReplaced ==
  ASSUME NEW s \in Seq(Entries), NEW i, NEW t \in Entries
  PROVE  [s EXCEPT ![i] = t] \in Seq(Entries) /\ Len([s EXCEPT ![i] = t]) = Len(s)
<1> DEFINE F == [s EXCEPT ![i] = t]
<1>1. F = [j \in DOMAIN s |-> F[j]] /\ \A j \in DOMAIN s : F[j] \in Entries
  OBVIOUS
<1> HIDE DEF F
<1>2. F \in Seq(Entries) /\ Len(F) = Len(s)
  BY <1>1, EntriesKept, Zenon
<1> QED BY <1>2, Zenon DEF F

\* A switch keeps the invariant when the handler of the task that gives up the CPU
\* has nothing more to do.
LEMMA SwitchOK ==
  ASSUME LibraryFacts, IrqInv, NEW ts \in Seq(Entries), Len(ts) = Len(tasks), Irq!Schedule(ts), booted' = booted,
         gic' = gic, gic.active = {}, DOMAIN handler' = Boot, \A t \in Boot : handler'[t] = <<>>
  PROVE  IrqInv'
<1>1. Len(tasks) \in 0..3
  BY DEF IrqInv, Registered
<1>2. /\ current' \in Boot /\ tasks' = ts
      /\ current' = 0 \/ current' < Len(tasks)
  BY <1>1, SchedulePicks, Zenon DEF Irq!Schedule, IrqInv
<1> QED BY <1>2, Zenon DEF IrqInv

\* The calls of a handler are taken from the front: of three calls ...
LEMMA FirstOfThree ==
  ASSUME NEW a, NEW b, NEW c
  PROVE  Head(<<a, b, c>>) = a /\ Tail(<<a, b, c>>) = <<b, c>> /\ <<a, b, c>> # <<>>
OBVIOUS

\* ... of two ...
LEMMA FirstOfTwo ==
  ASSUME NEW a, NEW b
  PROVE  Head(<<a, b>>) = a /\ Tail(<<a, b>>) = <<b>> /\ <<a, b>> # <<>>
OBVIOUS

\* ... and the last one.
LEMMA LastCall ==
  ASSUME NEW a
  PROVE  Head(<<a>>) = a /\ Tail(<<a>>) = <<>> /\ <<a>> # <<>>
OBVIOUS

\* The calls of the timer's handler.
LEMMA TimerCalls ==
  /\ Head(<<"on_tick", "eoi timer", "tick">>) = "on_tick"
  /\ Tail(<<"on_tick", "eoi timer", "tick">>) = <<"eoi timer", "tick">>
  /\ <<"on_tick", "eoi timer", "tick">> # <<>>
<1> DEFINE a == "on_tick"
           b == "eoi timer"
           c == "tick"
<1> HIDE DEF a, b, c
<1>1. Head(<<a, b, c>>) = a /\ Tail(<<a, b, c>>) = <<b, c>> /\ <<a, b, c>> # <<>>
  BY FirstOfThree, Zenon
<1> QED BY <1>1, Zenon DEF a, b, c

\* The calls left tell the handlers apart.
LEMMA HandlersDiffer ==
  /\ <<>> \notin TimerLeft /\ <<>> \notin UartLeft
  /\ <<"tick">> \notin TimerLeft /\ <<"tick">> \notin UartLeft
  /\ TimerLeft \intersect UartLeft = {}
<1>1. \A h \in TimerLeft : h # <<>> /\ Head(h) \in {"on_tick", "eoi timer"}
  <2>1. Head(<<"eoi timer", "tick">>) = "eoi timer" /\ <<"eoi timer", "tick">> # <<>>
    BY FirstOfTwo, Zenon
  <2> QED BY <2>1, TimerCalls, Zenon DEF TimerLeft
<1>2. \A h \in UartLeft : h # <<>> /\ Head(h) \in {"drain_uart", "eoi uart"}
  <2>1. Head(<<"drain_uart", "eoi uart">>) = "drain_uart" /\ <<"drain_uart", "eoi uart">> # <<>>
    BY FirstOfTwo, LastCall, Zenon
  <2>2. Head(<<"eoi uart">>) = "eoi uart" /\ <<"eoi uart">> # <<>>
    BY FirstOfTwo, LastCall, Zenon
  <2> QED BY <2>1, <2>2, Zenon DEF UartLeft
<1>3. Head(<<"tick">>) = "tick"
  BY LastCall, Zenon
<1> QED BY <1>1, <1>2, <1>3, Zenon

\* The handler of the task on the CPU runs its next call.
LEMMA HandlerStepOK ==
  ASSUME LibraryFacts, IrqInv, Irq!HandlerStep
  PROVE  IrqInv'
<1> DEFINE h == handler[current]
<1>1. /\ DOMAIN handler' = Boot /\ handler'[current] = Tail(h) /\ h # <<>> /\ booted' = booted
      /\ \A t \in Boot \ {current} : handler'[t] = <<>>
      /\ current \in Boot
  BY Zenon DEF Irq!HandlerStep, IrqInv
<1>2. gic \in [enabled : SUBSET {30, 33}, grp1 : BOOLEAN, active : SUBSET {30, 33}]
  BY Zenon DEF IrqInv
<1> HIDE DEF h
<1>3. CASE h = <<"tick">>
  <2>1. Head(h) = "tick" /\ Tail(h) = <<>>
    BY <1>3
  <2> DEFINE ts == [i \in DOMAIN tasks |-> Irq!Woken(tasks[i])]
  <2>2. Irq!Schedule(ts) /\ gic' = gic
    BY <1>3, <2>1, Zenon DEF Irq!HandlerStep, h
  <2>3. \A i \in DOMAIN tasks : ts[i] \in Entries
    <3> SUFFICES ASSUME NEW i \in DOMAIN tasks PROVE ts[i] \in Entries
      BY Zenon
    <3>1. tasks[i] \in Entries
      BY DEF IrqInv
    <3>2. [tasks[i] EXCEPT !.state = "Runnable"] \in Entries
      BY <3>1, Zenon DEF Entries, TaskStates
    <3> QED BY <3>1, <3>2, Zenon DEF Irq!Woken
  <2> HIDE DEF ts
  <2>4. ts \in Seq(Entries) /\ Len(ts) = Len(tasks)
    BY <2>3, EntriesKept, Zenon DEF ts, IrqInv
  <2>5. gic.active = {}
    BY <1>3 DEF IrqInv, TimerLeft, UartLeft, h
  <2> QED BY <1>1, <2>1, <2>2, <2>4, <2>5, SwitchOK, Zenon
<1>4. CASE h \in TimerLeft
  <2>1. gic.active = {30} /\ current \in Boot
    BY <1>4, HandlersDiffer, Zenon DEF IrqInv, h
  <2>2. CASE h = <<"on_tick", "eoi timer", "tick">>
    <3>1. Head(h) = "on_tick" /\ Tail(h) = <<"eoi timer", "tick">>
      BY <2>2, TimerCalls, FirstOfTwo, Zenon
    <3>2. Irq!OnTick /\ gic' = gic /\ current' = current
      BY <2>2, <3>1, Zenon DEF Irq!HandlerStep, h
    <3>3. \A i \in DOMAIN tasks : tasks'[i] \in Entries
      <4> SUFFICES ASSUME NEW i \in DOMAIN tasks PROVE tasks'[i] \in Entries
        BY Zenon
      <4> DEFINE w == IF tasks[i].wait > 0 THEN tasks[i].wait - 1 ELSE 0
      <4>1. tasks[i] \in Entries
        BY DEF IrqInv
      <4>2. w \in Int
        BY <4>1 DEF Entries
      <4>3. tasks'[i] = [tasks[i] EXCEPT !.wait = w]
        BY <3>2, Zenon DEF Irq!OnTick
      <4> HIDE DEF w
      <4> QED BY <4>1, <4>2, <4>3, Zenon DEF Entries
    <3>4. tasks' = [i \in DOMAIN tasks |-> tasks'[i]]
      BY <3>2, Zenon DEF Irq!OnTick
    <3>5. tasks' \in Seq(Entries) /\ Len(tasks') = Len(tasks)
      BY <3>3, <3>4, EntriesKept, Zenon DEF IrqInv
    <3> QED BY <1>1, <1>2, <2>1, <3>1, <3>2, <3>5, Zenon DEF IrqInv, TimerLeft, UartLeft, h
  <2>3. CASE h = <<"eoi timer", "tick">>
    <3>1. Head(h) = "eoi timer" /\ Tail(h) = <<"tick">>
      BY <2>3, FirstOfTwo, LastCall, Zenon
    <3>2. gic' = [gic EXCEPT !.active = @ \ {30}] /\ current' = current /\ tasks' = tasks
      BY <2>3, <3>1, Zenon DEF Irq!HandlerStep, h, Irq!Eoi, Irq!TIMER_INTID
    <3>3. gic' \in [enabled : SUBSET {30, 33}, grp1 : BOOLEAN, active : SUBSET {30, 33}] /\ gic'.active = {}
      BY <1>2, <2>1, <3>2, Zenon
    <3> QED BY <1>1, <3>1, <3>2, <3>3, Zenon DEF IrqInv
  <2> QED BY <1>4, <2>2, <2>3, Zenon DEF TimerLeft, UartLeft
<1>5. CASE h \in UartLeft
  <2>1. gic.active = {33} /\ current \in Boot
    BY <1>5, HandlersDiffer, Zenon DEF IrqInv, h
  <2>2. CASE h = <<"drain_uart", "eoi uart">>
    <3>1. Head(h) = "drain_uart" /\ Tail(h) = <<"eoi uart">>
      BY <2>2, TimerCalls, FirstOfTwo, Zenon
    <3>2. UNCHANGED <<gic, tasks, current>>
      BY <2>2, <3>1, Zenon DEF Irq!HandlerStep, h
    <3> QED BY <1>1, <1>2, <2>1, <3>1, <3>2, Zenon DEF IrqInv, TimerLeft, UartLeft, h
  <2>3. CASE h = <<"eoi uart">>
    <3>1. Head(h) = "eoi uart" /\ Tail(h) = <<>>
      BY <2>3, FirstOfTwo, LastCall, Zenon
    <3>2. gic' = [gic EXCEPT !.active = @ \ {33}] /\ current' = current /\ tasks' = tasks
      BY <2>3, <3>1, Zenon DEF Irq!HandlerStep, h, Irq!Eoi, Irq!UART_INTID
    <3>3. gic' \in [enabled : SUBSET {30, 33}, grp1 : BOOLEAN, active : SUBSET {30, 33}] /\ gic'.active = {}
      BY <1>2, <2>1, <3>2, Zenon
    <3> QED BY <1>1, <3>1, <3>2, <3>3, Zenon DEF IrqInv
  <2> QED BY <1>5, <2>2, <2>3, Zenon DEF TimerLeft, UartLeft
<1> QED BY <1>1, <1>3, <1>4, <1>5, Zenon DEF IrqInv, h

\* The calls of kmain that register a task.
LEMMA BootSpawns ==
  ASSUME NEW i \in 1..10
  PROVE  Irq!BootCalls[i] \in {"sched::init", "spawn sleeper", "spawn busy"} <=> i \in 7..9
<1>1. /\ Irq!BootCalls[1] = "gic::init" /\ Irq!BootCalls[2] = "enable_spi"
      /\ Irq!BootCalls[3] = "set_rx_irq" /\ Irq!BootCalls[4] = "timer::init"
      /\ Irq!BootCalls[5] = "irq::enable" /\ Irq!BootCalls[6] = "irq_self_check"
      /\ Irq!BootCalls[7] = "sched::init" /\ Irq!BootCalls[8] = "spawn sleeper"
      /\ Irq!BootCalls[9] = "spawn busy" /\ Irq!BootCalls[10] = "sched_self_check"
  BY Zenon DEF Irq!BootCalls
<1> HIDE DEF Irq!BootCalls
<1>2. CASE i = 7 \/ i = 8 \/ i = 9
  <2>1. Irq!BootCalls[i] \in {"sched::init", "spawn sleeper", "spawn busy"}
    BY <1>1, <1>2, Zenon
  <2>2. i \in 7..9
    BY <1>2
  <2> QED BY <2>1, <2>2, Zenon
<1>3. CASE i = 1 \/ i = 2 \/ i = 3 \/ i = 4 \/ i = 5 \/ i = 6 \/ i = 10
  <2>1. Irq!BootCalls[i] \notin {"sched::init", "spawn sleeper", "spawn busy"}
    BY <1>1, <1>3, Zenon
  <2>2. i \notin 7..9
    BY <1>3
  <2> QED BY <2>1, <2>2, Zenon
<1>4. \/ i = 7 \/ i = 8 \/ i = 9
      \/ i = 1 \/ i = 2 \/ i = 3 \/ i = 4 \/ i = 5 \/ i = 6 \/ i = 10
  OBVIOUS
<1> QED BY <1>2, <1>3, <1>4, Zenon

\* kmain makes its next call.
LEMMA BootStepOK ==
  ASSUME Rounds \in Nat, IrqInv, Irq!BootStep
  PROVE  IrqInv'
<1> DEFINE call == Irq!BootCalls[booted + 1]
<1>1. /\ current = 0 /\ handler[0] = <<>> /\ booted \in 0..9 /\ booted' = booted + 1
      /\ handler' = handler /\ current' = current
  <2>1. Len(Irq!BootCalls) = 10
    BY Zenon DEF Irq!BootCalls
  <2>2. /\ current = 0 /\ handler[0] = <<>> /\ booted < Len(Irq!BootCalls)
        /\ booted' = booted + 1 /\ handler' = handler
    BY Zenon DEF Irq!BootStep, Irq!Kmain
  <2>3. current' = current
    BY Zenon DEF Irq!BootStep, Irq!Spawn
  <2> QED BY <2>1, <2>2, <2>3 DEF IrqInv
<1>2. gic.active = {} /\ gic \in [enabled : SUBSET {30, 33}, grp1 : BOOLEAN, active : SUBSET {30, 33}]
  BY <1>1, HandlersDiffer, Zenon DEF IrqInv
<1>3. /\ gic' \in [enabled : SUBSET {30, 33}, grp1 : BOOLEAN, active : SUBSET {30, 33}]
      /\ gic'.active = {}
  <2>1. CASE gic' = gic
    BY <1>2, <2>1, Zenon
  <2>2. CASE Irq!GicInit
    BY <1>2, <2>2, Zenon DEF Irq!GicInit, Irq!TIMER_INTID
  <2>3. CASE Irq!EnableSpi(33)
    BY <1>2, <2>3, Zenon DEF Irq!EnableSpi
  <2> QED BY <2>1, <2>2, <2>3, Zenon DEF Irq!BootStep, Irq!Spawn, Irq!UART_INTID
<1>4. tasks' \in Seq(Entries) /\ Len(tasks') = Registered(booted + 1)
  <2>1. tasks \in Seq(Entries) /\ Len(tasks) = Registered(booted)
    BY Zenon DEF IrqInv
  <2>a. booted + 1 \in 1..10
    BY <1>1
  <2>2. CASE booted + 1 \in 7..9
    <3>1. call \in {"sched::init", "spawn sleeper", "spawn busy"}
      BY <2>a, <2>2, BootSpawns, Zenon
    <3>2. tasks' = Append(tasks, Irq!Thread)
      BY <3>1, Zenon DEF Irq!BootStep, Irq!Spawn
    <3>3. Irq!Thread \in Entries
      BY DEF Irq!Thread, Entries, TaskStates
    <3> QED BY <1>1, <2>1, <2>2, <3>2, <3>3 DEF Registered
  <2>3. CASE booted + 1 \notin 7..9
    <3>1. call \notin {"sched::init", "spawn sleeper", "spawn busy"}
      BY <2>a, <2>3, BootSpawns, Zenon
    <3>2. tasks' = tasks
      BY <3>1, Zenon DEF Irq!BootStep
    <3>3. Registered(booted + 1) = Registered(booted)
      BY <1>1, <2>3 DEF Registered
    <3> QED BY <2>1, <3>2, <3>3, Zenon
  <2> QED BY <2>2, <2>3, Zenon
<1> HIDE DEF call
<1> QED BY <1>1, <1>3, <1>4 DEF IrqInv, Boot

\* A thread on the CPU is registered.
LEMMA ThreadEntry ==
  ASSUME IrqInv, current \in {1, 2}
  PROVE  current + 1 \in DOMAIN tasks /\ tasks[current + 1] \in Entries
BY DEF IrqInv

\* A thread's entry is changed and the thread gives up the CPU.
LEMMA SwitchingOK ==
  ASSUME LibraryFacts, IrqInv, current \in {1, 2}, handler[current] = <<>>, NEW t \in Entries, Irq!Switching(t)
  PROVE  IrqInv'
<1> DEFINE ts == [tasks EXCEPT ![current + 1] = t]
<1>1. ts \in Seq(Entries) /\ Len(ts) = Len(tasks)
  BY EntryReplaced, Zenon DEF IrqInv
<1>2. gic.active = {} /\ \A q \in Boot : handler[q] = <<>>
  BY HandlersDiffer, Zenon DEF IrqInv
<1>3. Irq!Schedule(ts) /\ booted' = booted /\ gic' = gic /\ handler' = handler
  BY Zenon DEF Irq!Switching
<1>4. DOMAIN handler = Boot
  BY Zenon DEF IrqInv
<1> HIDE DEF ts
<1> QED BY <1>1, <1>2, <1>3, <1>4, SwitchOK, Zenon

\* Each step of boot keeps the invariant.
LEMMA IrqStep ==
  ASSUME LibraryFacts, Rounds \in Nat, Pause \in Nat, IrqInv, [Irq!Next]_(Irq!vars)
  PROVE  IrqInv'
<1>1. CASE UNCHANGED <<gic, booted, tasks, current, handler>>
  BY <1>1, Zenon DEF IrqInv
<1>2. ASSUME NEW intid \in {30, 33}, Irq!TakeIrq(intid)
      PROVE  IrqInv'
  <2>1. /\ gic.active = {} /\ UNCHANGED <<booted, tasks, current>>
        /\ gic' = [gic EXCEPT !.active = gic.active \union {intid}]
        /\ handler' = [handler EXCEPT ![current] = Irq!HandleIrq(intid)]
    BY <1>2, Zenon DEF Irq!TakeIrq, Irq!Signalled
  <2>2. gic \in [enabled : SUBSET {30, 33}, grp1 : BOOLEAN, active : SUBSET {30, 33}]
    BY Zenon DEF IrqInv
  <2>3. /\ gic' \in [enabled : SUBSET {30, 33}, grp1 : BOOLEAN, active : SUBSET {30, 33}]
        /\ gic'.active = {intid}
    BY <2>1, <2>2, Zenon
  <2>4. /\ intid = 30 => Irq!HandleIrq(intid) \in TimerLeft
        /\ intid = 33 => Irq!HandleIrq(intid) \in UartLeft
    <3>1. /\ intid = 30 => Irq!HandleIrq(intid) = <<"on_tick", "eoi timer", "tick">>
          /\ intid = 33 => Irq!HandleIrq(intid) = <<"drain_uart", "eoi uart">>
      <4>1. 33 # 30
        OBVIOUS
      <4> QED BY <4>1, Zenon DEF Irq!HandleIrq, Irq!TIMER_INTID
    <3> QED BY <3>1, Zenon DEF TimerLeft, UartLeft
  <2>5. /\ DOMAIN handler' = Boot /\ handler'[current] = Irq!HandleIrq(intid)
        /\ \A t \in Boot \ {current} : handler'[t] = <<>>
    BY <2>1, Zenon DEF IrqInv
  <2> QED BY <2>1, <2>3, <2>4, <2>5, Zenon DEF IrqInv
<1>3. CASE Irq!KmainYield
  <2>1. /\ Irq!Schedule(tasks) /\ UNCHANGED <<gic, booted, handler>>
        /\ current = 0 /\ handler[0] = <<>>
    BY <1>3, Zenon DEF Irq!KmainYield, Irq!Kmain
  <2>2. gic.active = {} /\ \A q \in Boot : handler[q] = <<>>
    BY <2>1, HandlersDiffer, Zenon DEF IrqInv
  <2>3. tasks \in Seq(Entries) /\ DOMAIN handler = Boot
    BY Zenon DEF IrqInv
  <2> QED BY <2>1, <2>2, <2>3, SwitchOK, Zenon
<1>4. CASE Irq!SleeperStep
  <2> DEFINE t == tasks[2]
             left == t.rounds - 1
             u == IF t.rounds = 0
                  THEN [t EXCEPT !.state = "Exited"]
                  ELSE [t EXCEPT !.state = "Blocked", !.wait = Pause, !.rounds = left]
  <2>1. current = 1 /\ handler[1] = <<>> /\ Irq!Switching(u)
    BY <1>4 DEF Irq!SleeperStep, Irq!Sleeper
  <2>2. t \in Entries
    BY <2>1, ThreadEntry
  <2>3. left \in Int /\ Pause \in Int
    BY <2>2 DEF Entries
  <2> HIDE DEF t, left
  <2>4. u \in Entries
    BY <2>2, <2>3, Zenon DEF Entries, TaskStates
  <2> HIDE DEF u
  <2> QED BY <2>1, <2>4, SwitchingOK, Zenon
<1>5. CASE Irq!BusyStep
  <2> DEFINE t == tasks[3]
             left == t.rounds - 1
             u == [t EXCEPT !.state = "Exited"]
             v == [t EXCEPT !.wait = Pause, !.rounds = left]
  <2>1. /\ current = 2 /\ handler[2] = <<>>
        /\ \/ Irq!Switching(u)
           \/ /\ tasks' = [tasks EXCEPT ![3].wait = Pause, ![3].rounds = left]
              /\ UNCHANGED <<gic, booted, current, handler>>
    BY <1>5 DEF Irq!BusyStep, Irq!Busy
  <2>2. t \in Entries /\ 3 \in DOMAIN tasks
    BY <2>1, ThreadEntry
  <2>3. left \in Int /\ Pause \in Int
    BY <2>2 DEF Entries
  <2>4. CASE Irq!Switching(u)
    <3> HIDE DEF t
    <3>1. u \in Entries
      BY <2>2, Zenon DEF Entries, TaskStates
    <3> HIDE DEF u
    <3> QED BY <2>1, <2>4, <3>1, SwitchingOK, Zenon
  <2>5. CASE /\ tasks' = [tasks EXCEPT ![3].wait = Pause, ![3].rounds = left]
             /\ UNCHANGED <<gic, booted, current, handler>>
    <3> HIDE DEF left
    <3>1. tasks' = [tasks EXCEPT ![3] = v]
      BY <2>2, <2>5, Zenon DEF Entries
    <3> HIDE DEF t
    <3>2. v \in Entries
      BY <2>2, <2>3, Zenon DEF Entries
    <3> HIDE DEF v
    <3>3. tasks \in Seq(Entries)
      BY Zenon DEF IrqInv
    <3> DEFINE ts == [tasks EXCEPT ![3] = v]
    <3>4. ts \in Seq(Entries) /\ Len(ts) = Len(tasks)
      BY <3>2, <3>3, EntryReplaced, Zenon
    <3> HIDE DEF ts
    <3> QED BY <2>5, <3>1, <3>4, Zenon DEF IrqInv, ts
  <2> QED BY <2>1, <2>4, <2>5, Zenon
<1> QED BY <1>1, <1>2, <1>3, <1>4, <1>5, HandlerStepOK, BootStepOK, Zenon
        DEF Irq!Next, Irq!vars, Irq!bootVars, Irq!Expire, Irq!Read, Irq!TIMER_INTID, Irq!UART_INTID

\* Before kmain's first call.
LEMMA IrqInit ==
  ASSUME Irq!Init
  PROVE  IrqInv
<1>1. /\ gic \in [enabled : SUBSET {30, 33}, grp1 : BOOLEAN, active : SUBSET {30, 33}]
      /\ gic.active = {}
  BY Zenon DEF Irq!Init
<1>2. DOMAIN handler = Boot /\ \A t \in Boot : handler[t] = <<>>
  BY DEF Irq!Init, Irq!Kmain, Irq!Sleeper, Irq!Busy, Boot
<1>3. tasks \in Seq(Entries) /\ Len(tasks) = 0 /\ booted = 0 /\ current = 0
  BY DEF Irq!Init, Irq!Kmain
<1> QED BY <1>1, <1>2, <1>3 DEF IrqInv, Boot, Registered

-----------------------------------------------------------------------------
(* The input buffer. *)

TakeByte(d, p, byte) == Irq!TakeByte(d, byte)
DrainLoop == INSTANCE FoldInduction WITH Op <- TakeByte

Bytes == Keys \union {0}
Buffers == [0..(INPUT_BUF_SIZE - 1) -> Bytes]

\* The index k places after h.
At(h, k) == (h + k) % INPUT_BUF_SIZE

\* The buffer b holds the bytes of q, from index h up to index t.
Holding(b, h, t, q) ==
    /\ h \in 0..(INPUT_BUF_SIZE - 1) /\ b \in Buffers
    /\ q \in Seq(Bytes) /\ Len(q) < INPUT_BUF_SIZE
    /\ t = At(h, Len(q))
    /\ \A i \in 1..Len(q) : b[At(h, i - 1)] = q[i]

\* An index that runs at most once around the buffer.
LEMMA Around ==
  ASSUME INPUT_BUF_SIZE \in Nat, INPUT_BUF_SIZE > 0, NEW h, NEW k,
         h \in 0..(INPUT_BUF_SIZE - 1), k \in 0..INPUT_BUF_SIZE
  PROVE  /\ h + k < INPUT_BUF_SIZE => At(h, k) = h + k
         /\ h + k >= INPUT_BUF_SIZE => At(h, k) = h + k - INPUT_BUF_SIZE
         /\ At(h, k) \in 0..(INPUT_BUF_SIZE - 1)
<1>1. CASE h + k < INPUT_BUF_SIZE
  BY <1>1 DEF At
<1>2. CASE h + k >= INPUT_BUF_SIZE
  BY <1>2 DEF At
<1> QED BY <1>1, <1>2

\* The bytes from index h up to index t of b, oldest first.
BufferedIn(b, h, t) ==
    [i \in 1..((t + INPUT_BUF_SIZE - h) % INPUT_BUF_SIZE) |-> b[(h + i - 1) % INPUT_BUF_SIZE]]

\* The bytes a buffer holds are the ones between its indices.
LEMMA HoldingIs ==
  ASSUME INPUT_BUF_SIZE \in Nat, INPUT_BUF_SIZE > 0, NEW b, NEW h, NEW t, NEW q, Holding(b, h, t, q)
  PROVE  BufferedIn(b, h, t) = q
<1> DEFINE n == INPUT_BUF_SIZE
           l == Len(q)
<1>1. n \in Nat /\ n > 0 /\ h \in 0..(n - 1) /\ l \in 0..(n - 1) /\ t = At(h, l)
  BY DEF Holding
<1>2. q = [i \in 1..l |-> q[i]] /\ \A i \in 1..l : b[At(h, i - 1)] = q[i]
  BY DEF Holding
<1> HIDE DEF l
<1>3. (t + n - h) % n = l
  <2>1. CASE h + l < n
    <3>1. t + n - h = l + n
      BY <1>1, <2>1, Around
    <3>2. (l + n) % n = l
      BY <1>1
    <3> QED BY <3>1, <3>2, Zenon
  <2>2. CASE h + l >= n
    <3>1. t + n - h = l
      BY <1>1, <2>2, Around
    <3>2. l % n = l
      BY <1>1
    <3> QED BY <3>1, <3>2, Zenon
  <2> QED BY <1>1, <2>1, <2>2
<1>4. ASSUME NEW i \in 1..l PROVE (h + i - 1) % n = At(h, i - 1)
  <2>1. h + i - 1 = h + (i - 1)
    BY <1>1, Zenon
  <2> QED BY <2>1, Zenon DEF At
<1>5. BufferedIn(b, h, t) = [i \in 1..l |-> b[(h + i - 1) % n]]
  BY <1>3, Zenon DEF BufferedIn
<1>6. ASSUME NEW i \in 1..l PROVE b[(h + i - 1) % n] = q[i]
  BY <1>2, <1>4, Zenon
<1> QED BY <1>2, <1>5, <1>6, Zenon

\* is_full and is_empty tell a full buffer from an empty one.
LEMMA FullOrEmpty ==
  ASSUME INPUT_BUF_SIZE \in Nat, INPUT_BUF_SIZE > 1, NEW b, NEW h, NEW t, NEW q, Holding(b, h, t, q)
  PROVE  /\ Irq!After(t) = h <=> Len(q) = INPUT_BUF_SIZE - 1
         /\ h = t <=> Len(q) = 0
         /\ t \in 0..(INPUT_BUF_SIZE - 1)
<1> DEFINE n == INPUT_BUF_SIZE
           l == Len(q)
<1>1. n \in Nat /\ n > 1 /\ h \in 0..(n - 1) /\ l \in 0..(n - 1) /\ t = At(h, l)
  BY DEF Holding
<1> HIDE DEF l
<1>2. t \in 0..(n - 1) /\ (h + l < n => t = h + l) /\ (h + l >= n => t = h + l - n)
  BY <1>1, Around
<1>3. Irq!After(t) = At(t, 1)
  BY Zenon DEF Irq!After, At
<1>4. (t + 1 < n => At(t, 1) = t + 1) /\ (t + 1 >= n => At(t, 1) = t + 1 - n)
  BY <1>1, <1>2, Around
<1>5. At(t, 1) = h <=> l = n - 1
  BY <1>1, <1>2, <1>4
<1>6. h = t <=> l = 0
  BY <1>1, <1>2
<1> QED BY <1>2, <1>3, <1>5, <1>6, Zenon DEF l

\* A byte is stored behind the others.
LEMMA StoreByte ==
  ASSUME INPUT_BUF_SIZE \in Nat, INPUT_BUF_SIZE > 1, NEW b, NEW h, NEW t, NEW q, Holding(b, h, t, q),
         NEW byte \in Keys, Len(q) # INPUT_BUF_SIZE - 1
  PROVE  Holding([b EXCEPT ![t] = byte], h, Irq!After(t), Append(q, byte))
<1> DEFINE n == INPUT_BUF_SIZE
           l == Len(q)
           c == [b EXCEPT ![t] = byte]
           r == Append(q, byte)
<1>1. n \in Nat /\ n > 1 /\ h \in 0..(n - 1) /\ l \in 0..(n - 2) /\ t = At(h, l)
  BY DEF Holding
<1>2. /\ q \in Seq(Bytes) /\ b \in [0..(n - 1) -> Bytes]
      /\ \A i \in 1..l : b[At(h, i - 1)] = q[i]
  BY Zenon DEF Holding, Buffers
<1>3. r \in Seq(Bytes) /\ Len(r) = l + 1 /\ r[l + 1] = byte /\ \A i \in 1..l : r[i] = q[i]
  BY <1>2 DEF Bytes
<1> HIDE DEF l, r
<1>4. t \in 0..(n - 1) /\ (h + l < n => t = h + l) /\ (h + l >= n => t = h + l - n)
  BY <1>1, Around
<1>5. c \in [0..(n - 1) -> Bytes] /\ c[t] = byte /\ \A x \in 0..(n - 1) : x # t => c[x] = b[x]
  BY <1>2, <1>4, Zenon DEF Bytes
<1> HIDE DEF c
<1>6. Irq!After(t) = At(h, l + 1)
  <2>1. Irq!After(t) = At(t, 1)
    BY Zenon DEF Irq!After, At
  <2>2. (t + 1 < n => At(t, 1) = t + 1) /\ (t + 1 >= n => At(t, 1) = t + 1 - n)
    BY <1>1, <1>4, Around
  <2>3. l + 1 \in 0..n
    BY <1>1
  <2>4. (h + (l + 1) < n => At(h, l + 1) = h + (l + 1)) /\ (h + (l + 1) >= n => At(h, l + 1) = h + (l + 1) - n)
    BY <1>1, <2>3, Around
  <2> QED BY <1>1, <1>4, <2>1, <2>2, <2>4
<1>7. ASSUME NEW i \in 1..(l + 1) PROVE c[At(h, i - 1)] = r[i]
  <2>1. CASE i = l + 1
    <3>1. i - 1 = l
      BY <1>1, <2>1
    <3> QED BY <1>1, <1>3, <1>5, <2>1, <3>1, Zenon
  <2>2. CASE i # l + 1
    <3> DEFINE j == i - 1
    <3>1. j \in 0..n /\ j < l /\ i \in 1..l
      BY <1>1, <2>2
    <3> HIDE DEF j
    <3>2. At(h, j) \in 0..(n - 1) /\ (h + j < n => At(h, j) = h + j) /\ (h + j >= n => At(h, j) = h + j - n)
      BY <1>1, <3>1, Around
    <3>3. At(h, j) # t
      BY <1>1, <1>4, <3>1, <3>2
    <3> QED BY <1>2, <1>3, <1>5, <3>1, <3>2, <3>3, Zenon DEF j
  <2> QED BY <2>1, <2>2, Zenon
<1>8. Len(r) < n
  BY <1>1, <1>3
<1> QED BY <1>1, <1>3, <1>5, <1>6, <1>7, <1>8, Zenon DEF Holding, Buffers, c, r

\* The oldest byte is taken.
LEMMA PopByte ==
  ASSUME INPUT_BUF_SIZE \in Nat, INPUT_BUF_SIZE > 1, NEW b, NEW h, NEW t, NEW q, Holding(b, h, t, q), Len(q) # 0
  PROVE  Holding(b, Irq!After(h), t, Tail(q))
<1> DEFINE n == INPUT_BUF_SIZE
           l == Len(q)
           g == Irq!After(h)
           r == Tail(q)
<1>1. n \in Nat /\ n > 1 /\ h \in 0..(n - 1) /\ l \in 1..(n - 1) /\ t = At(h, l)
  BY DEF Holding
<1>2. q \in Seq(Bytes) /\ b \in Buffers /\ \A i \in 1..l : b[At(h, i - 1)] = q[i]
  BY Zenon DEF Holding
<1>3. r \in Seq(Bytes) /\ Len(r) = l - 1 /\ \A i \in 1..(l - 1) : r[i] = q[i + 1]
  BY <1>1, <1>2
<1>4. g = At(h, 1)
  BY Zenon DEF Irq!After, At
<1> HIDE DEF l, g, r
<1>5. g \in 0..(n - 1) /\ (h + 1 < n => g = h + 1) /\ (h + 1 >= n => g = h + 1 - n)
  BY <1>1, <1>4, Around
<1>6. ASSUME NEW k \in 0..(l - 1) PROVE At(g, k) = At(h, k + 1)
  <2>0. k \in 0..n /\ k + 1 \in 0..n
    BY <1>1
  <2>1. (h + (k + 1) < n => At(h, k + 1) = h + (k + 1)) /\ (h + (k + 1) >= n => At(h, k + 1) = h + (k + 1) - n)
    BY <1>1, <2>0, Around
  <2>2. (g + k < n => At(g, k) = g + k) /\ (g + k >= n => At(g, k) = g + k - n)
    BY <1>1, <1>5, <2>0, Around
  <2> QED BY <1>1, <1>5, <2>1, <2>2
<1>7. At(g, l - 1) = t
  <2>1. l - 1 \in 0..(l - 1) /\ (l - 1) + 1 = l
    BY <1>1
  <2> QED BY <1>1, <1>6, <2>1, Zenon
<1>8. ASSUME NEW i \in 1..(l - 1) PROVE b[At(g, i - 1)] = r[i]
  <2>1. i - 1 \in 0..(l - 1) /\ (i - 1) + 1 = i /\ (i + 1) - 1 = i /\ i + 1 \in 1..l
    BY <1>1
  <2>2. At(g, i - 1) = At(h, i)
    BY <1>6, <2>1, Zenon
  <2>3. b[At(h, i)] = q[i + 1]
    BY <1>2, <2>1, Zenon
  <2> QED BY <1>3, <2>2, <2>3, Zenon
<1>9. l - 1 < n
  BY <1>1
<1> QED BY <1>2, <1>3, <1>5, <1>7, <1>8, <1>9, Zenon DEF Holding, g, r

Batches == [buf : Buffers, tail : 0..(INPUT_BUF_SIZE - 1), read : Nat]

\* After i turns of drain_uart's loop on a buffer that held q: as many of the i bytes as
\* fit are behind q.
Received(w, i, q) ==
    /\ w.read \in 0..i
    /\ w.read = i \/ Len(q) + w.read = INPUT_BUF_SIZE - 1
    /\ Holding(w.buf, head, w.tail, q \o SubSeq(device, 1, w.read))

\* A batch behind a queue.
LEMMA Behind ==
  ASSUME NEW S, NEW q \in Seq(S), NEW x \in Seq(S)
  PROVE  q \o x \in Seq(S) /\ Len(q \o x) = Len(q) + Len(x)
OBVIOUS

\* One more byte of a batch behind a queue.
LEMMA Extend ==
  ASSUME NEW S, NEW q \in Seq(S), NEW d \in Seq(S), NEW k \in 0..(Len(d) - 1)
  PROVE  Append(q \o SubSeq(d, 1, k), d[k + 1]) = q \o SubSeq(d, 1, k + 1)
<1> DEFINE x == SubSeq(d, 1, k)
           y == SubSeq(d, 1, k + 1)
           l == Len(q)
<1>0. Len(d) \in Nat /\ l \in Nat /\ k \in 0..Len(d) /\ k + 1 \in 0..Len(d) /\ k + 1 \in 1..Len(d)
  OBVIOUS
<1>1. x \in Seq(S) /\ Len(x) = k /\ \A i \in 1..k : x[i] = d[i]
  BY <1>0
<1>2. y \in Seq(S) /\ Len(y) = k + 1 /\ \A i \in 1..(k + 1) : y[i] = d[i]
  BY <1>0
<1>3. d[k + 1] \in S
  BY <1>0
<1> HIDE DEF x, y
<1>4. q \o x \in Seq(S) /\ Len(q \o x) = l + k
  <2>1. q \o x \in Seq(S) /\ Len(q \o x) = Len(q) + Len(x)
    BY <1>1, Behind, Zenon
  <2> QED BY <1>1, <2>1, Zenon
<1>5. Append(q \o x, d[k + 1]) \in Seq(S) /\ Len(Append(q \o x, d[k + 1])) = l + k + 1
  BY <1>3, <1>4
<1>6. q \o y \in Seq(S) /\ Len(q \o y) = l + k + 1
  <2>1. q \o y \in Seq(S) /\ Len(q \o y) = l + (k + 1)
    BY <1>2, Behind, Zenon
  <2>2. l + (k + 1) = l + k + 1
    BY <1>0
  <2> QED BY <2>1, <2>2, Zenon
<1>7. ASSUME NEW i \in 1..(l + k + 1) PROVE Append(q \o x, d[k + 1])[i] = (q \o y)[i]
  <2>1. CASE i <= l
    <3>1. (q \o y)[i] = q[i] /\ (q \o x)[i] = q[i]
      BY <1>0, <1>1, <1>2, <2>1
    <3>2. Append(q \o x, d[k + 1])[i] = (q \o x)[i]
      BY <1>0, <1>4, <2>1
    <3> QED BY <3>1, <3>2, Zenon
  <2>2. CASE l < i /\ i <= l + k
    <3> DEFINE j == i - l
    <3>1. j \in 1..k /\ i = l + j
      BY <1>0, <2>2
    <3>2. (q \o y)[i] = y[j] /\ (q \o x)[i] = x[j]
      BY <1>0, <1>1, <1>2, <2>2
    <3>3. Append(q \o x, d[k + 1])[i] = (q \o x)[i]
      BY <1>0, <1>4, <2>2
    <3> QED BY <1>1, <1>2, <3>1, <3>2, <3>3
  <2>3. CASE i = l + k + 1
    <3>1. Append(q \o x, d[k + 1])[i] = d[k + 1]
      BY <1>3, <1>4, <2>3
    <3>2. (q \o y)[i] = y[k + 1]
      BY <1>0, <1>2, <2>3
    <3> QED BY <1>2, <3>1, <3>2
  <2>4. i <= l \/ (l < i /\ i <= l + k) \/ i = l + k + 1
    <3> HIDE DEF l
    <3> QED BY <1>0
  <2> QED BY <2>1, <2>2, <2>3, <2>4, Zenon
<1>8. Append(q \o x, d[k + 1]) = q \o y
  BY <1>5, <1>6, <1>7, SeqEqual, Zenon
<1> QED BY <1>8, Zenon DEF x, y

\* A turn of drain_uart's loop stores the next byte, or finds the buffer full.
LEMMA DrainTurn ==
  ASSUME INPUT_BUF_SIZE \in Nat, INPUT_BUF_SIZE > 1, device \in Seq(Keys), NEW q \in Seq(Bytes),
         NEW i \in 1..Len(device), NEW w \in Batches, Received(w, i - 1, q)
  PROVE  /\ Irq!TakeByte(w, device[i]) \in Batches
         /\ Received(Irq!TakeByte(w, device[i]), i, q)
<1> DEFINE n == INPUT_BUF_SIZE
           k == w.read
           r == q \o SubSeq(device, 1, k)
           byte == device[i]
<1>1. k \in 0..(i - 1) /\ (k = i - 1 \/ Len(q) + k = n - 1) /\ Holding(w.buf, head, w.tail, r)
  BY Zenon DEF Received
<1>2. k \in 0..Len(device) /\ Len(q) \in Nat /\ byte \in Keys
  BY <1>1
<1>3. r \in Seq(Bytes) /\ Len(r) = Len(q) + k
  <2>1. SubSeq(device, 1, k) \in Seq(Keys) /\ Len(SubSeq(device, 1, k)) = k
    BY <1>2, Cut, Zenon
  <2>2. SubSeq(device, 1, k) \in Seq(Bytes)
    BY <2>1 DEF Bytes
  <2> QED BY <2>1, <2>2
<1> HIDE DEF r
<1>4. Irq!IsFull(w.tail) <=> Len(r) = n - 1
  BY <1>1, FullOrEmpty, Zenon DEF Irq!IsFull
<1>5. CASE Irq!IsFull(w.tail)
  <2>1. Irq!TakeByte(w, byte) = w
    BY <1>5, Zenon DEF Irq!TakeByte
  <2>2. k \in 0..i /\ Len(q) + k = n - 1
    BY <1>1, <1>3, <1>4, <1>5
  <2>3. Received(w, i, q)
    BY <1>1, <2>2, Zenon DEF Received, r
  <2> QED BY <2>1, <2>3, Zenon
<1>6. CASE ~Irq!IsFull(w.tail)
  <2> DEFINE c == [w.buf EXCEPT ![w.tail] = byte]
             t == Irq!After(w.tail)
             v == [buf |-> c, tail |-> t, read |-> k + 1]
  <2>1. Irq!TakeByte(w, byte) = v
    BY <1>6, Zenon DEF Irq!TakeByte
  <2>2. Holding(c, head, t, Append(r, byte))
    BY <1>1, <1>2, <1>4, <1>6, StoreByte, Zenon
  <2>3. k + 1 = i
    BY <1>1, <1>3, <1>4, <1>6
  <2>4. Append(r, byte) = q \o SubSeq(device, 1, i)
    <3>1. device \in Seq(Bytes) /\ k \in 0..(Len(device) - 1)
      BY <1>2, <2>3 DEF Bytes
    <3> QED BY <2>3, <3>1, Extend, Zenon DEF r
  <2> HIDE DEF c, t
  <2>5. c \in Buffers /\ t \in 0..(n - 1)
    <3>1. t \in 0..(n - 1)
      BY <2>2, FullOrEmpty, Zenon
    <3> QED BY <2>2, <3>1, Zenon DEF Holding
  <2>6. v.buf = c /\ v.tail = t /\ v.read = i /\ v \in Batches
    BY <1>2, <2>3, <2>5 DEF Batches
  <2> HIDE DEF v
  <2>7. Received(v, i, q)
    <3>1. v.read \in 0..i
      BY <1>1, <2>6
    <3> QED BY <2>2, <2>4, <2>6, <3>1, Zenon DEF Received
  <2> QED BY <2>1, <2>6, <2>7, Zenon
<1> QED BY <1>5, <1>6, Zenon

\* drain_uart moves as much as fits.
LEMMA DrainReceives ==
  ASSUME LibraryFacts, INPUT_BUF_SIZE \in Nat, INPUT_BUF_SIZE > 1, device \in Seq(Keys),
         NEW q, Holding(buf, head, tail, q)
  PROVE  Irq!Drained \in Batches /\ Received(Irq!Drained, Len(device), q)
<1> DEFINE n == Len(device)
           start == [buf |-> buf, tail |-> tail, read |-> 0]
           G == [i \in 0..n |-> {w \in Batches : Received(w, i, q)}]
<1>0. n \in Nat /\ DOMAIN device = 1..n /\ q \in Seq(Bytes)
  BY DEF Holding
<1>1. Irq!Drained = DrainLoop!Folded(start, 0, device)
  BY Zenon DEF Irq!Drained, Irq!Loop, Irq!Largest, Irq!MapThenFoldSet, TakeByte,
         DrainLoop!Folded, DrainLoop!Loop, DrainLoop!Largest, DrainLoop!MapThenFoldSet
<1>2. start \in G[0]
  <2>1. tail \in 0..(INPUT_BUF_SIZE - 1) /\ buf \in Buffers
    BY FullOrEmpty DEF Holding
  <2>2. start.buf = buf /\ start.tail = tail /\ start.read = 0 /\ start \in Batches
    BY <2>1, Zenon DEF Batches
  <2>3. q \o SubSeq(device, 1, 0) = q
    BY <1>0
  <2> HIDE DEF start
  <2>4. Received(start, 0, q)
    <3>1. start.read \in 0..0
      BY <2>2
    <3> QED BY <2>2, <2>3, <3>1, Zenon DEF Received
  <2> QED BY <1>0, <2>2, <2>4
<1> HIDE DEF start
<1>3. ASSUME NEW i \in 1..n, NEW w \in G[i - 1] PROVE TakeByte(w, 0, device[i]) \in G[i]
  <2>1. i - 1 \in 0..n /\ i \in 0..n
    BY <1>0
  <2>2. w \in Batches /\ Received(w, i - 1, q)
    BY <1>3, <2>1, Zenon
  <2>3. Irq!TakeByte(w, device[i]) \in Batches /\ Received(Irq!TakeByte(w, device[i]), i, q)
    BY <1>0, <2>2, DrainTurn, Zenon
  <2> QED BY <2>1, <2>3, Zenon DEF TakeByte
<1> HIDE DEF G
<1>4. DrainLoop!Folded(start, 0, device) \in G[n]
  BY <1>0, <1>2, <1>3, Inductive, DrainLoop!FoldPreserves, Zenon
<1> QED BY <1>0, <1>1, <1>4 DEF G

\* The receive interrupt is on exactly while there is room, once kmain has turned it on;
\* and no handler runs before kmain has unmasked IRQs.
InputInv ==
    /\ Holding(buf, head, tail, Irq!Buffered) /\ device \in Seq(Keys)
    /\ rxOn \in BOOLEAN
    /\ rxOn <=> booted >= 3 /\ Len(Irq!Buffered) < INPUT_BUF_SIZE - 1
    /\ booted < 3 => Len(Irq!Buffered) = 0
    /\ \A t \in Boot : handler[t] # <<>> => booted >= 5

QueueStep == [Irq!Queue!Next]_(Irq!Queue!vars)

\* What the buffer holds after a step.
LEMMA HoldsNext ==
  ASSUME INPUT_BUF_SIZE \in Nat, INPUT_BUF_SIZE > 1, NEW q, Holding(buf', head', tail', q)
  PROVE  Irq!Buffered' = q
<1>1. BufferedIn(buf', head', tail') = q
  BY HoldingIs
<1> QED BY <1>1, Zenon DEF Irq!Buffered, BufferedIn

\* drain_uart is the queue's Receive.
LEMMA DrainStep ==
  ASSUME LibraryFacts, INPUT_BUF_SIZE \in Nat, INPUT_BUF_SIZE > 1, InputInv, Irq!DrainUart,
         booted \in 3..10, booted' = booted
  PROVE  /\ Irq!Queue!Receive
         /\ Holding(buf', head', tail', Irq!Buffered') /\ device' \in Seq(Keys)
         /\ rxOn' \in BOOLEAN
         /\ rxOn' <=> Len(Irq!Buffered') < INPUT_BUF_SIZE - 1
<1> DEFINE n == INPUT_BUF_SIZE
           q == Irq!Buffered
           d == Irq!Drained
           k == d.read
           r == q \o SubSeq(device, 1, k)
<1>1. Holding(buf, head, tail, q) /\ device \in Seq(Keys) /\ (rxOn <=> Len(q) < n - 1) /\ rxOn \in BOOLEAN
  BY DEF InputInv
<1>2. /\ buf' = d.buf /\ tail' = d.tail /\ head' = head
      /\ device' = SubSeq(device, k + 1, Len(device))
      /\ rxOn' = (rxOn /\ ~Irq!IsFull(d.tail))
  BY Zenon DEF Irq!DrainUart
<1> HIDE DEF q, d
<1>3. d \in Batches /\ Received(d, Len(device), q)
  BY <1>1, DrainReceives, Zenon DEF d
<1>4. k \in 0..Len(device) /\ (k = Len(device) \/ Len(q) + k = n - 1) /\ Holding(d.buf, head, d.tail, r)
  BY <1>3, Zenon DEF Received
<1>5. q \in Seq(Bytes) /\ Len(q) \in Nat /\ Len(device) \in Nat
  BY <1>1 DEF Holding
<1>6. SubSeq(device, 1, k) \in Seq(Keys) /\ Len(SubSeq(device, 1, k)) = k /\ device' \in Seq(Keys)
  BY <1>1, <1>2, <1>4, Cut, Zenon
<1>7. r \in Seq(Bytes) /\ Len(r) = Len(q) + k
  <2>1. SubSeq(device, 1, k) \in Seq(Bytes)
    BY <1>6 DEF Bytes
  <2> QED BY <1>5, <1>6, <2>1
<1> HIDE DEF k, r
<1>8. Len(r) < n
  BY <1>4, Zenon DEF Holding
<1>9. Irq!IsFull(d.tail) <=> Len(r) = n - 1
  BY <1>4, FullOrEmpty DEF Irq!IsFull
<1>10. Irq!Buffered' = r
  BY <1>2, <1>4, HoldsNext, Zenon
<1>11. (rxOn /\ ~Irq!IsFull(d.tail)) <=> Len(q) + k < n - 1
  BY <1>1, <1>4, <1>5, <1>7, <1>8, <1>9
<1>12. rxOn' = (Len(q) + k < n - 1)
  BY <1>2, <1>11
<1>13. Irq!Queue!Receive
  <2>1. Len(q) + k <= n - 1 /\ (k = Len(device) \/ Len(q) + k = n - 1)
    BY <1>4, <1>5, <1>7, <1>8
  <2> QED BY <1>2, <1>4, <1>10, <1>12, <2>1, Zenon DEF Irq!Queue!Receive, q, r
<1> QED BY <1>2, <1>4, <1>6, <1>7, <1>10, <1>12, <1>13, Zenon

\* pop is the queue's Take.
LEMMA PopStep ==
  ASSUME INPUT_BUF_SIZE \in Nat, INPUT_BUF_SIZE > 1, InputInv, Irq!Pop,
         booted \in 3..10, booted' = booted
  PROVE  /\ Irq!Queue!Take
         /\ Holding(buf', head', tail', Irq!Buffered') /\ device' \in Seq(Keys)
         /\ rxOn' \in BOOLEAN
         /\ rxOn' <=> Len(Irq!Buffered') < INPUT_BUF_SIZE - 1
<1> DEFINE n == INPUT_BUF_SIZE
           q == Irq!Buffered
<1>1. Holding(buf, head, tail, q) /\ device \in Seq(Keys) /\ (rxOn <=> Len(q) < n - 1) /\ rxOn \in BOOLEAN
  BY DEF InputInv
<1>2. /\ head # tail /\ head' = Irq!After(head) /\ rxOn' = (rxOn \/ Irq!IsFull(tail))
      /\ buf' = buf /\ tail' = tail /\ device' = device
  BY Zenon DEF Irq!Pop, Irq!IsEmpty
<1> HIDE DEF q
<1>3. Len(q) # 0 /\ (Irq!IsFull(tail) <=> Len(q) = n - 1)
  BY <1>1, <1>2, FullOrEmpty DEF Irq!IsFull
<1>4. q \in Seq(Bytes) /\ Len(q) \in Nat /\ Len(q) < n
  BY <1>1 DEF Holding
<1>5. Holding(buf', head', tail', Tail(q))
  BY <1>1, <1>2, <1>3, PopByte, Zenon
<1>6. Irq!Buffered' = Tail(q)
  BY <1>5, HoldsNext, Zenon
<1>7. rxOn' = TRUE
  <2>1. rxOn \/ Irq!IsFull(tail)
    BY <1>1, <1>3, <1>4
  <2> QED BY <1>2, <2>1, Zenon
<1>8. q # <<>> /\ Len(Tail(q)) = Len(q) - 1
  BY <1>3, <1>4
<1>9. Irq!Queue!Take
  BY <1>2, <1>6, <1>7, <1>8, Zenon DEF Irq!Queue!Take, q
<1> QED BY <1>1, <1>2, <1>4, <1>5, <1>6, <1>7, <1>8, <1>9

\* kmain's calls up to irq::enable.
LEMMA FirstCalls ==
  ASSUME booted \in 0..10
  PROVE  /\ Irq!Done("irq::enable") => booted >= 5
         /\ booted < 10 /\ Irq!BootCalls[booted + 1] = "set_rx_irq" => booted = 2
         /\ booted = 2 => Irq!BootCalls[booted + 1] = "set_rx_irq"
<1>1. /\ Irq!BootCalls[1] = "gic::init" /\ Irq!BootCalls[2] = "enable_spi"
      /\ Irq!BootCalls[3] = "set_rx_irq" /\ Irq!BootCalls[4] = "timer::init"
      /\ Irq!BootCalls[5] = "irq::enable" /\ Irq!BootCalls[6] = "irq_self_check"
      /\ Irq!BootCalls[7] = "sched::init" /\ Irq!BootCalls[8] = "spawn sleeper"
      /\ Irq!BootCalls[9] = "spawn busy" /\ Irq!BootCalls[10] = "sched_self_check"
  BY Zenon DEF Irq!BootCalls
<1> HIDE DEF Irq!BootCalls
<1>2. ASSUME NEW i \in 1..10
      PROVE  /\ Irq!BootCalls[i] = "irq::enable" => i = 5
             /\ Irq!BootCalls[i] = "set_rx_irq" => i = 3
  <2>1. \/ i = 1 \/ i = 2 \/ i = 3 \/ i = 4 \/ i = 5
        \/ i = 6 \/ i = 7 \/ i = 8 \/ i = 9 \/ i = 10
    OBVIOUS
  <2> QED BY <1>1, <2>1, Zenon
<1>3. Irq!Done("irq::enable") => booted >= 5
  <2> SUFFICES ASSUME NEW i \in 1..booted, Irq!BootCalls[i] = "irq::enable" PROVE booted >= 5
    BY Zenon DEF Irq!Done
  <2>1. i \in 1..10
    OBVIOUS
  <2>2. i = 5
    BY <1>2, <2>1, Zenon
  <2> QED BY <2>2
<1>4. booted < 10 => booted + 1 \in 1..10 /\ (booted + 1 = 3 => booted = 2)
  OBVIOUS
<1>5. booted = 2 => booted + 1 = 3
  OBVIOUS
<1> QED BY <1>1, <1>2, <1>3, <1>4, <1>5, Zenon

\* A step that leaves the buffer and the UART alone.
LEMMA InputIdle ==
  ASSUME InputInv, UNCHANGED Irq!inputVars, booted' >= 3 <=> booted >= 3, booted' < 3 => booted < 3,
         \A t \in Boot : handler'[t] # <<>> => booted' >= 5
  PROVE  QueueStep /\ InputInv'
<1>1. /\ buf' = buf /\ head' = head /\ tail' = tail /\ device' = device /\ rxOn' = rxOn
      /\ Irq!Buffered' = Irq!Buffered
  BY Zenon DEF Irq!inputVars, Irq!Buffered
<1>2. QueueStep
  BY <1>1, Zenon DEF QueueStep, Irq!Queue!vars
<1>3. InputInv'
  BY <1>1, Zenon DEF InputInv
<1> QED BY <1>2, <1>3, Zenon

\* kmain's calls: set_rx_irq comes third, before the first byte can be read from the UART.
LEMMA InputBoot ==
  ASSUME INPUT_BUF_SIZE \in Nat, INPUT_BUF_SIZE > 1, IrqInv, InputInv, Irq!BootStep
  PROVE  QueueStep /\ InputInv'
<1>0. Len(Irq!BootCalls) = 10
  BY Zenon DEF Irq!BootCalls
<1>1. booted \in 0..9 /\ booted' = booted + 1 /\ handler' = handler
  <2>1. booted < Len(Irq!BootCalls) /\ booted' = booted + 1 /\ handler' = handler
    BY Zenon DEF Irq!BootStep
  <2>2. booted \in 0..10
    BY Zenon DEF IrqInv
  <2> QED BY <1>0, <2>1, <2>2
<1>2. \A t \in Boot : handler'[t] # <<>> => booted' >= 5
  BY <1>1 DEF InputInv
<1>3. Irq!BootCalls[booted + 1] = "set_rx_irq" => booted = 2
  BY <1>1, FirstCalls
<1>4. booted = 2 => Irq!BootCalls[booted + 1] = "set_rx_irq"
  BY <1>1, FirstCalls
<1>5. CASE booted = 2
  <2>1. Irq!BootCalls[booted + 1] = "set_rx_irq"
    BY <1>4, <1>5, Zenon
  <2>2. rxOn' = TRUE /\ UNCHANGED <<buf, head, tail, device>>
    BY <2>1, Zenon DEF Irq!BootStep, Irq!SetRxIrq, Irq!Spawn
  <2>3. Irq!Buffered' = Irq!Buffered
    BY <2>2, Zenon DEF Irq!Buffered
  <2>4. Holding(buf, head, tail, Irq!Buffered) /\ Len(Irq!Buffered) = 0
    BY <1>5 DEF InputInv
  <2>5. Irq!Buffered = <<>>
    BY <2>4 DEF Holding
  <2>6. Irq!Queue!TurnOn
    BY <2>2, <2>3, <2>5, Zenon DEF Irq!Queue!TurnOn
  <2>7. QueueStep
    BY <2>6, Zenon DEF QueueStep, Irq!Queue!Next
  <2>8. booted' >= 3 /\ ~(booted' < 3) /\ 0 < INPUT_BUF_SIZE - 1
    BY <1>1, <1>5
  <2>9. InputInv'
    <3>1. Holding(buf', head', tail', Irq!Buffered') /\ device' \in Seq(Keys)
      BY <2>2, <2>3, Zenon DEF InputInv
    <3> QED BY <1>2, <2>2, <2>3, <2>4, <2>8, <3>1, Zenon DEF InputInv
  <2> QED BY <2>7, <2>9, Zenon
<1>6. CASE booted # 2
  <2>1. Irq!BootCalls[booted + 1] # "set_rx_irq"
    BY <1>3, <1>6, Zenon
  <2>2. UNCHANGED Irq!inputVars
    BY <2>1, Zenon DEF Irq!BootStep, Irq!Spawn
  <2>3. (booted' >= 3 <=> booted >= 3) /\ (booted' < 3 => booted < 3)
    BY <1>1, <1>6
  <2> QED BY <1>2, <2>2, <2>3, InputIdle, Zenon
<1> QED BY <1>5, <1>6, Zenon

\* Every step of kmain, its threads and the handlers is a step of the queue.
LEMMA InputStep ==
  ASSUME LibraryFacts, INPUT_BUF_SIZE \in Nat, INPUT_BUF_SIZE > 1, IrqInv, InputInv, [Irq!Next]_(Irq!vars)
  PROVE  QueueStep /\ InputInv'
<1>0. booted \in 0..10 /\ current \in Boot
  BY Zenon DEF IrqInv
<1>1. CASE Irq!Type /\ UNCHANGED Irq!bootVars
  <2>1. PICK b \in Keys : device' = Append(device, b)
    BY <1>1, Zenon DEF Irq!Type
  <2>2. UNCHANGED <<buf, head, tail, rxOn>> /\ booted' = booted /\ handler' = handler
    BY <1>1, Zenon DEF Irq!Type, Irq!bootVars
  <2>3. Irq!Buffered' = Irq!Buffered
    BY <2>2, Zenon DEF Irq!Buffered
  <2>4. Irq!Queue!Type
    BY <2>1, <2>2, <2>3, Zenon DEF Irq!Queue!Type
  <2>5. QueueStep
    BY <2>4, Zenon DEF QueueStep, Irq!Queue!Next
  <2>6. device' \in Seq(Keys)
    BY <2>1 DEF InputInv
  <2>7. InputInv'
    BY <2>2, <2>3, <2>6, Zenon DEF InputInv
  <2> QED BY <2>5, <2>7, Zenon
<1>2. CASE Irq!Expire
  <2>1. UNCHANGED <<Irq!inputVars, booted, handler>>
    BY <1>2, Zenon DEF Irq!Expire
  <2> QED BY <2>1, InputIdle, Zenon DEF InputInv
<1>3. CASE \E intid \in {Irq!TIMER_INTID, Irq!UART_INTID} : Irq!TakeIrq(intid)
  <2>1. UNCHANGED <<Irq!inputVars, booted>> /\ Irq!Done("irq::enable")
    BY <1>3, Zenon DEF Irq!TakeIrq, Irq!Unmasked
  <2>2. booted >= 5
    BY <1>0, <2>1, FirstCalls, Zenon
  <2> QED BY <2>1, <2>2, InputIdle, Zenon
<1>4. CASE Irq!HandlerStep
  <2>1. handler[current] # <<>> /\ booted' = booted
    BY <1>4, Zenon DEF Irq!HandlerStep
  <2>2. booted >= 5
    BY <1>0, <2>1, Zenon DEF InputInv
  <2>3. CASE Irq!DrainUart
    <3>1. booted \in 3..10
      BY <1>0, <2>2
    <3>2. /\ Irq!Queue!Receive
          /\ Holding(buf', head', tail', Irq!Buffered') /\ device' \in Seq(Keys)
          /\ rxOn' \in BOOLEAN
          /\ rxOn' <=> Len(Irq!Buffered') < INPUT_BUF_SIZE - 1
      BY <2>1, <2>3, <3>1, DrainStep, Zenon
    <3>3. QueueStep
      BY <3>2, Zenon DEF QueueStep, Irq!Queue!Next
    <3>4. booted' >= 3 /\ ~(booted' < 3) /\ booted' >= 5
      BY <2>1, <2>2, <3>1
    <3> QED BY <3>2, <3>3, <3>4, Zenon DEF InputInv
  <2>4. CASE UNCHANGED Irq!inputVars
    BY <2>1, <2>2, <2>4, InputIdle, Zenon
  <2> QED BY <1>4, <2>3, <2>4, Zenon DEF Irq!HandlerStep
<1>5. CASE Irq!BootStep
  BY <1>5, InputBoot, Zenon
<1>6. CASE Irq!KmainYield \/ Irq!SleeperStep \/ Irq!BusyStep
  <2>1. UNCHANGED <<Irq!inputVars, booted, handler>>
    BY <1>6, Zenon DEF Irq!KmainYield, Irq!SleeperStep, Irq!BusyStep, Irq!Switching
  <2> QED BY <2>1, InputIdle, Zenon DEF InputInv
<1>7. CASE Irq!Read
  <2>0. Len(Irq!BootCalls) = 10
    BY Zenon DEF Irq!BootCalls
  <2>1. Irq!Pop /\ booted = 10 /\ booted' = booted /\ handler' = handler
    BY <1>7, <2>0, Zenon DEF Irq!Read, Irq!bootVars
  <2>2. booted \in 3..10 /\ booted' >= 3 /\ ~(booted' < 3) /\ booted' >= 5
    BY <2>1
  <2>3. /\ Irq!Queue!Take
        /\ Holding(buf', head', tail', Irq!Buffered') /\ device' \in Seq(Keys)
        /\ rxOn' \in BOOLEAN
        /\ rxOn' <=> Len(Irq!Buffered') < INPUT_BUF_SIZE - 1
    BY <2>1, <2>2, PopStep, Zenon
  <2>4. QueueStep
    BY <2>3, Zenon DEF QueueStep, Irq!Queue!Next
  <2> QED BY <2>2, <2>3, <2>4, Zenon DEF InputInv
<1>8. CASE UNCHANGED Irq!vars
  <2>1. UNCHANGED <<Irq!inputVars, booted, handler>>
    BY <1>8, Zenon DEF Irq!vars, Irq!bootVars
  <2> QED BY <2>1, InputIdle, Zenon DEF InputInv
<1> QED BY <1>1, <1>2, <1>3, <1>4, <1>5, <1>6, <1>7, <1>8, Zenon DEF Irq!Next

\* Before the first byte.
LEMMA InputInit ==
  ASSUME INPUT_BUF_SIZE \in Nat, INPUT_BUF_SIZE > 1, Irq!Init
  PROVE  InputInv /\ Irq!Queue!Init
<1>1. /\ buf = [i \in 0..(INPUT_BUF_SIZE - 1) |-> 0] /\ head = 0 /\ tail = 0
      /\ device = <<>> /\ rxOn = FALSE /\ booted = 0
      /\ handler = [t \in {0, 1, 2} |-> <<>>]
  BY Zenon DEF Irq!Init, Irq!InitInput, Irq!Kmain, Irq!Sleeper, Irq!Busy
<1>2. buf \in Buffers /\ head \in 0..(INPUT_BUF_SIZE - 1)
  BY <1>1 DEF Buffers, Bytes
<1>3. At(head, 0) = tail
  BY <1>1, <1>2, Around
<1>4. <<>> \in Seq(Bytes) /\ Len(<<>>) = 0 /\ <<>> \in Seq(Keys)
  OBVIOUS
<1>5. Holding(buf, head, tail, <<>>)
  BY <1>2, <1>3, <1>4 DEF Holding
<1>6. Irq!Buffered = <<>>
  <2>1. BufferedIn(buf, head, tail) = <<>>
    BY <1>5, HoldingIs
  <2> QED BY <2>1, Zenon DEF Irq!Buffered, BufferedIn
<1>7. \A t \in Boot : handler[t] = <<>>
  BY <1>1 DEF Boot
<1>8. Holding(buf, head, tail, Irq!Buffered) /\ Len(Irq!Buffered) = 0 /\ device \in Seq(Keys)
  BY <1>1, <1>4, <1>5, <1>6, Zenon
<1>9. ~(booted >= 3) /\ rxOn = FALSE
  BY <1>1
<1>10. InputInv
  BY <1>7, <1>8, <1>9, Zenon DEF InputInv
<1>11. Irq!Queue!Init
  BY <1>1, <1>6, Zenon DEF Irq!Queue!Init
<1> QED BY <1>10, <1>11, Zenon

-----------------------------------------------------------------------------
(* The memory routines. *)

CopyLoop == INSTANCE FoldInduction WITH Op <- Mem!CopyByte
SetLoop == INSTANCE FoldInduction WITH Op <- Mem!SetByte
CompareLoop == INSTANCE FoldInduction WITH Op <- Mem!CompareByte

\* The memory once the bytes lo..hi - 1 of the source are in the destination.
Image(mem, of, lo, hi) ==
    [x \in DOMAIN mem |->
        IF x \in (of.dest + lo)..(of.dest + hi - 1) THEN mem[of.src + x - of.dest] ELSE mem[x]]

\* The i-th byte of the source is there and not one that was overwritten by then.
Readable(mem, of, lo, hi, i) ==
    of.src + i \in DOMAIN mem /\ of.src + i \notin (of.dest + lo)..(of.dest + hi - 1)

\* One turn of an upward copy, as long as no earlier turn has overwritten the byte it
\* reads ...
LEMMA CopyTurnUp ==
  ASSUME NEW mem, DOMAIN mem \subseteq Int, NEW of, of.dest \in Int, of.src \in Int, NEW k \in Int, NEW i \in Int, k <= i,
         Readable(mem, of, k, i, i)
  PROVE  Mem!CopyByte(Image(mem, of, k, i), of, i) = Image(mem, of, k, i + 1)
<1> DEFINE d == of.dest
           s == of.src
           now == Image(mem, of, k, i)
           new == Image(mem, of, k, i + 1)
<1> HIDE DEF d, s
<1>1. d \in Int /\ s \in Int /\ s + i \in DOMAIN mem /\ s + i \notin (d + k)..(d + i - 1)
  BY Zenon DEF Readable, d, s
<1>2. Mem!CopyByte(now, of, i) = [now EXCEPT ![d + i] = now[s + i]]
  BY Zenon DEF Mem!CopyByte, d, s
<1>3. now[s + i] = mem[s + i]
  BY <1>1, Zenon DEF Image, d, s
<1>4. ASSUME NEW x \in DOMAIN mem PROVE new[x] = IF x = d + i THEN mem[s + i] ELSE now[x]
  <2>1. x \in (d + k)..(d + (i + 1) - 1) <=> x = d + i \/ x \in (d + k)..(d + i - 1)
    BY <1>1, OneUp, Zenon
  <2>2. ASSUME x = d + i PROVE s + x - d = s + i
    BY <1>1, <2>2
  <2> QED BY <2>1, <2>2, Zenon DEF Image, d, s
<1>5. new = [x \in DOMAIN mem |-> new[x]] /\ now = [x \in DOMAIN mem |-> now[x]]
  BY Zenon DEF Image
<1> HIDE DEF now, new
<1>6. [now EXCEPT ![d + i] = now[s + i]] = [x \in DOMAIN mem |-> IF x = d + i THEN now[s + i] ELSE now[x]]
  BY <1>5, Zenon
<1> QED BY <1>2, <1>3, <1>4, <1>5, <1>6, Zenon DEF now, new

\* ... and of a downward copy.
LEMMA CopyTurnDown ==
  ASSUME NEW mem, DOMAIN mem \subseteq Int, NEW of, of.dest \in Int, of.src \in Int, NEW k \in Int, NEW i \in Int, i < k,
         Readable(mem, of, i + 1, k, i)
  PROVE  Mem!CopyByte(Image(mem, of, i + 1, k), of, i) = Image(mem, of, i, k)
<1> DEFINE d == of.dest
           s == of.src
           now == Image(mem, of, i + 1, k)
           new == Image(mem, of, i, k)
<1> HIDE DEF d, s
<1>1. d \in Int /\ s \in Int /\ s + i \in DOMAIN mem /\ s + i \notin (d + (i + 1))..(d + k - 1)
  BY Zenon DEF Readable, d, s
<1>2. Mem!CopyByte(now, of, i) = [now EXCEPT ![d + i] = now[s + i]]
  BY Zenon DEF Mem!CopyByte, d, s
<1>3. now[s + i] = mem[s + i]
  BY <1>1, Zenon DEF Image, d, s
<1>4. ASSUME NEW x \in DOMAIN mem PROVE new[x] = IF x = d + i THEN mem[s + i] ELSE now[x]
  <2>1. x \in (d + i)..(d + k - 1) <=> x = d + i \/ x \in (d + (i + 1))..(d + k - 1)
    BY <1>1, OneDown, Zenon
  <2>2. ASSUME x = d + i PROVE s + x - d = s + i
    BY <1>1, <2>2
  <2> QED BY <2>1, <2>2, Zenon DEF Image, d, s
<1>5. new = [x \in DOMAIN mem |-> new[x]] /\ now = [x \in DOMAIN mem |-> now[x]]
  BY Zenon DEF Image
<1> HIDE DEF now, new
<1>6. [now EXCEPT ![d + i] = now[s + i]] = [x \in DOMAIN mem |-> IF x = d + i THEN now[s + i] ELSE now[x]]
  BY <1>5, Zenon
<1> QED BY <1>2, <1>3, <1>4, <1>5, <1>6, Zenon DEF now, new

\* A copy from 0 up moves num bytes that it does not overwrite before it reads them.
LEMMA ForwardCopies ==
  ASSUME LibraryFacts, NEW mem, NEW dest \in Int, NEW src \in Int, NEW num \in Nat,
         DOMAIN mem \subseteq Int, mem = [x \in DOMAIN mem |-> mem[x]],
         src..(src + num - 1) \subseteq DOMAIN mem, dest <= src \/ dest >= src + num
  PROVE  Mem!Forward(mem, dest, src, num) = Image(mem, [dest |-> dest, src |-> src], 0, num)
<1> DEFINE of == [dest |-> dest, src |-> src]
           seq == Mem!Upward(num)
           G == [i \in 0..num |-> {Image(mem, of, 0, i)}]
<1>1. of.dest = dest /\ of.src = src
  BY Zenon
<1>2. Mem!Forward(mem, dest, src, num) = CopyLoop!Folded(mem, of, seq)
  BY Zenon DEF Mem!Forward, Mem!CopyBytes, CopyLoop!Folded, Mem!Loop, Mem!Largest, Mem!MapThenFoldSet,
         CopyLoop!Loop, CopyLoop!Largest, CopyLoop!MapThenFoldSet
<1> HIDE DEF of
<1>3. DOMAIN seq = 1..num /\ \A i \in 1..num : seq[i] = i - 1
  BY Zenon DEF Mem!Upward
<1> HIDE DEF seq
<1>4. mem \in G[0]
  <2>1. Image(mem, of, 0, 0) = [x \in DOMAIN mem |-> mem[x]]
    BY <1>1 DEF Image
  <2> QED BY <2>1
<1>5. ASSUME NEW i \in 1..num, NEW w \in G[i - 1]
      PROVE  Mem!CopyByte(w, of, seq[i]) \in G[i]
  <2> DEFINE j == i - 1
  <2>1. w = Image(mem, of, 0, j) /\ seq[i] = j
    BY <1>3, <1>5
  <2>2. j \in Int /\ 0 <= j /\ j + 1 = i /\ j < num
    OBVIOUS
  <2> HIDE DEF j, G
  <2>3. src + j \in src..(src + num - 1) /\ src + j \notin (dest + 0)..(dest + j - 1)
    BY <2>2
  <2>4. Readable(mem, of, 0, j, j)
    BY <1>1, <2>3, Zenon DEF Readable
  <2>5. of.dest \in Int /\ of.src \in Int /\ 0 \in Int
    BY <1>1
  <2>6. Mem!CopyByte(Image(mem, of, 0, j), of, j)
          = Image(mem, of, 0, j + 1)
    BY <2>2, <2>4, <2>5, CopyTurnUp, ZenonT(60)
  <2>7. Mem!CopyByte(w, of, seq[i]) = Image(mem, of, 0, i)
    BY <2>1, <2>2, <2>6, Zenon
  <2>8. i \in 0..num
    OBVIOUS
  <2> QED BY <2>7, <2>8, Zenon DEF G
<1> HIDE DEF G
<1>6. CopyLoop!Folded(mem, of, seq) \in G[num]
  BY <1>3, <1>4, <1>5, Inductive, CopyLoop!FoldPreserves, Zenon
<1> QED BY <1>2, <1>6 DEF G, of

\* A copy from num - 1 down moves num bytes to a higher address, overlapping or not.
LEMMA BackwardCopies ==
  ASSUME LibraryFacts, NEW mem, NEW dest \in Int, NEW src \in Int, NEW num \in Nat,
         DOMAIN mem \subseteq Int, mem = [x \in DOMAIN mem |-> mem[x]],
         src..(src + num - 1) \subseteq DOMAIN mem, src < dest
  PROVE  Mem!Backward(mem, dest, src, num) = Image(mem, [dest |-> dest, src |-> src], 0, num)
<1> DEFINE of == [dest |-> dest, src |-> src]
           seq == Mem!Downward(num)
           G == [i \in 0..num |-> {Image(mem, of, num - i, num)}]
<1>1. of.dest = dest /\ of.src = src
  BY Zenon
<1>2. Mem!Backward(mem, dest, src, num) = CopyLoop!Folded(mem, of, seq)
  BY Zenon DEF Mem!Backward, Mem!CopyBytes, CopyLoop!Folded, Mem!Loop, Mem!Largest, Mem!MapThenFoldSet,
         CopyLoop!Loop, CopyLoop!Largest, CopyLoop!MapThenFoldSet
<1> HIDE DEF of
<1>3. DOMAIN seq = 1..num /\ \A i \in 1..num : seq[i] = num - i
  BY Zenon DEF Mem!Downward
<1> HIDE DEF seq
<1>4. mem \in G[0]
  <2>1. Image(mem, of, num - 0, num) = [x \in DOMAIN mem |-> mem[x]]
    BY <1>1 DEF Image
  <2> QED BY <2>1
<1>5. ASSUME NEW i \in 1..num, NEW w \in G[i - 1]
      PROVE  Mem!CopyByte(w, of, seq[i]) \in G[i]
  <2> DEFINE j == num - i
             l == num - (i - 1)
  <2>1. w = Image(mem, of, l, num) /\ seq[i] = j
    BY <1>3, <1>5
  <2>2. j \in Int /\ j < num /\ j >= 0 /\ l = j + 1
    OBVIOUS
  <2> HIDE DEF j, l, G
  <2>3. src + j \in src..(src + num - 1) /\ src + j \notin (dest + (j + 1))..(dest + num - 1)
    BY <2>2
  <2>4. Readable(mem, of, j + 1, num, j)
    BY <1>1, <2>3, Zenon DEF Readable
  <2>5. of.dest \in Int /\ of.src \in Int /\ num \in Int
    BY <1>1
  <2>6. Mem!CopyByte(Image(mem, of, j + 1, num), of, j) = Image(mem, of, j, num)
    BY <2>2, <2>4, <2>5, CopyTurnDown, ZenonT(60)
  <2>7. Mem!CopyByte(w, of, seq[i]) = Image(mem, of, num - i, num)
    BY <2>1, <2>2, <2>6, Zenon DEF j
  <2>8. i \in 0..num
    OBVIOUS
  <2> QED BY <2>7, <2>8, Zenon DEF G
<1> HIDE DEF G
<1>6. CopyLoop!Folded(mem, of, seq) \in G[num]
  BY <1>3, <1>4, <1>5, Inductive, CopyLoop!FoldPreserves, Zenon
<1>7. num - num = 0
  OBVIOUS
<1> QED BY <1>2, <1>6, <1>7 DEF G, of

\* memset fills its range and leaves the rest.
LEMMA MemsetFills ==
  ASSUME LibraryFacts, NEW mem, DOMAIN mem \subseteq Int, mem = [x \in DOMAIN mem |-> mem[x]],
         NEW dest \in Int, NEW value, NEW num \in Nat
  PROVE  Mem!Memset(mem, dest, value, num)
            = [x \in DOMAIN mem |-> IF x \in dest..(dest + num - 1) THEN value ELSE mem[x]]
<1> DEFINE of == [dest |-> dest, value |-> value]
           seq == Mem!Upward(num)
           Filled(i) == [x \in DOMAIN mem |-> IF x \in dest..(dest + i - 1) THEN value ELSE mem[x]]
           G == [i \in 0..num |-> {Filled(i)}]
<1>1. of.dest = dest /\ of.value = value
  BY Zenon
<1>2. Mem!Memset(mem, dest, value, num) = SetLoop!Folded(mem, of, seq)
  BY Zenon DEF Mem!Memset, Mem!SetBytes, SetLoop!Folded, Mem!Loop, Mem!Largest, Mem!MapThenFoldSet,
         SetLoop!Loop, SetLoop!Largest, SetLoop!MapThenFoldSet
<1> HIDE DEF of
<1>3. DOMAIN seq = 1..num /\ \A i \in 1..num : seq[i] = i - 1
  BY Zenon DEF Mem!Upward
<1> HIDE DEF seq
<1>4. mem \in G[0]
  <2>1. Filled(0) = [x \in DOMAIN mem |-> mem[x]]
    OBVIOUS
  <2> QED BY <2>1
<1>5. ASSUME NEW i \in 1..num, NEW w \in G[i - 1]
      PROVE  Mem!SetByte(w, of, seq[i]) \in G[i]
  <2> DEFINE j == i - 1
             now == Filled(j)
             new == Filled(i)
  <2>1. w = now /\ seq[i] = j
    BY <1>3, <1>5
  <2>2. Mem!SetByte(now, of, j) = [now EXCEPT ![dest + j] = value]
    BY <1>1, Zenon DEF Mem!SetByte
  <2>3. j \in Int /\ 0 <= j /\ j < i /\ i <= j + 1
    OBVIOUS
  <2> HIDE DEF j
  <2>4. ASSUME NEW x \in DOMAIN mem PROVE new[x] = IF x = dest + j THEN value ELSE now[x]
    <3>1. i \in Int
      OBVIOUS
    <3>2. x \in dest..(dest + i - 1) <=> x = dest + j \/ x \in dest..(dest + j - 1)
      BY <2>3, <3>1, OneMore, Zenon
    <3> QED BY <3>2, Zenon
  <2>5. new = [x \in DOMAIN mem |-> new[x]] /\ now = [x \in DOMAIN mem |-> now[x]]
    BY Zenon
  <2> HIDE DEF now, new
  <2>6. [now EXCEPT ![dest + j] = value] = [x \in DOMAIN mem |-> IF x = dest + j THEN value ELSE now[x]]
    BY <2>5, Zenon
  <2>7. Mem!SetByte(w, of, seq[i]) = new
    BY <2>1, <2>2, <2>4, <2>5, <2>6
  <2> QED BY <2>7 DEF new
<1>6. G[num] = {Filled(num)}
  OBVIOUS
<1> HIDE DEF G
<1>7. SetLoop!Folded(mem, of, seq) \in G[num]
  BY <1>3, <1>4, <1>5, Inductive, SetLoop!FoldPreserves, Zenon
<1> QED BY <1>2, <1>6, <1>7, Zenon

\* The bytes of two ranges are equal before the i-th ...
Same(mem, a, b, i) == \A j \in 0..i - 1 : mem[a + j] = mem[b + j]
\* ... and the first of num to differ is the lesser one in the range at a.
Less(mem, a, b, num) == \E i \in 0..num - 1 : mem[a + i] < mem[b + i] /\ Same(mem, a, b, i)

\* One turn of memcmp.
LEMMA CompareTurn ==
  ASSUME NEW of, of.a \in Int, of.b \in Int, NEW k \in Nat, NEW r \in Int,
         \A i \in 0..k : of.mem[of.a + i] \in Int /\ of.mem[of.b + i] \in Int,
         r = 0 <=> Same(of.mem, of.a, of.b, k), r < 0 <=> Less(of.mem, of.a, of.b, k)
  PROVE  /\ Mem!CompareByte(r, of, k) \in Int
         /\ Mem!CompareByte(r, of, k) = 0 <=> Same(of.mem, of.a, of.b, k + 1)
         /\ Mem!CompareByte(r, of, k) < 0 <=> Less(of.mem, of.a, of.b, k + 1)
<1> DEFINE mem == of.mem
           a == of.a
           b == of.b
           x == mem[a + k]
           y == mem[b + k]
<1> HIDE DEF mem, a, b
<1>1. /\ a \in Int /\ b \in Int /\ \A i \in 0..k : mem[a + i] \in Int /\ mem[b + i] \in Int
      /\ r = 0 <=> Same(mem, a, b, k)
      /\ r < 0 <=> Less(mem, a, b, k)
  BY Zenon DEF mem, a, b
<1>2. x \in Int /\ y \in Int
  BY <1>1
<1>3. Same(mem, a, b, k + 1) <=> Same(mem, a, b, k) /\ x = y
  BY DEF Same
<1>4. Less(mem, a, b, k + 1) <=> Less(mem, a, b, k) \/ (x < y /\ Same(mem, a, b, k))
  <2>1. \A i \in 0..((k + 1) - 1) : i = k \/ i \in 0..(k - 1)
    OBVIOUS
  <2>2. k \in 0..((k + 1) - 1) /\ 0..(k - 1) \subseteq 0..((k + 1) - 1)
    OBVIOUS
  <2> QED BY <2>1, <2>2, Zenon DEF Less
<1>5. Same(mem, a, b, k) => ~Less(mem, a, b, k)
  <2> SUFFICES ASSUME Same(mem, a, b, k), NEW i \in 0..k - 1, mem[a + i] < mem[b + i] PROVE FALSE
    BY Zenon DEF Less
  <2>1. mem[a + i] = mem[b + i] /\ mem[a + i] \in Int
    BY <1>1 DEF Same
  <2> QED BY <2>1
<1> HIDE DEF x, y
<1>6. Mem!CompareByte(r, of, k) = IF r # 0 THEN r ELSE x - y
  BY Zenon DEF Mem!CompareByte, x, y, mem, a, b
<1>7. /\ Mem!CompareByte(r, of, k) \in Int
      /\ Mem!CompareByte(r, of, k) = 0 <=> Same(mem, a, b, k + 1)
      /\ Mem!CompareByte(r, of, k) < 0 <=> Less(mem, a, b, k + 1)
  BY <1>1, <1>2, <1>3, <1>4, <1>5, <1>6
<1> QED BY <1>7, Zenon DEF mem, a, b

\* memcmp's result, for every pair of ranges.
LEMMA MemcmpCompares ==
  ASSUME LibraryFacts, NEW mem, NEW a \in Int, NEW b \in Int, NEW num \in Nat,
         \A i \in 0..num - 1 : mem[a + i] \in Int /\ mem[b + i] \in Int
  PROVE  /\ Mem!Memcmp(mem, a, b, num) \in Int
         /\ Mem!Memcmp(mem, a, b, num) = 0 <=> Same(mem, a, b, num)
         /\ Mem!Memcmp(mem, a, b, num) < 0 <=> Less(mem, a, b, num)
<1> DEFINE of == [mem |-> mem, a |-> a, b |-> b]
           seq == Mem!Upward(num)
           Results(k) == {r \in Int : (r = 0 <=> Same(mem, a, b, k)) /\ (r < 0 <=> Less(mem, a, b, k))}
           G == [i \in 0..num |-> Results(i)]
<1>1. of.mem = mem /\ of.a = a /\ of.b = b
  BY Zenon
<1>2. Mem!Memcmp(mem, a, b, num) = CompareLoop!Folded(0, of, seq)
  BY Zenon DEF Mem!Memcmp, Mem!CompareBytes, CompareLoop!Folded, Mem!Loop, Mem!Largest, Mem!MapThenFoldSet,
         CompareLoop!Loop, CompareLoop!Largest, CompareLoop!MapThenFoldSet
<1> HIDE DEF of
<1>3. DOMAIN seq = 1..num /\ \A i \in 1..num : seq[i] = i - 1
  BY Zenon DEF Mem!Upward
<1> HIDE DEF seq
<1>4. 0 \in G[0]
  BY DEF Same, Less
<1>5. ASSUME NEW i \in 1..num, NEW r \in G[i - 1]
      PROVE  Mem!CompareByte(r, of, seq[i]) \in G[i]
  <2> DEFINE k == i - 1
             q == Mem!CompareByte(r, of, k)
  <2>1. r \in Results(k) /\ seq[i] = k
    BY <1>3, <1>5
  <2>2. k \in Nat /\ k + 1 = i /\ \A j \in 0..k : j \in 0..num - 1
    OBVIOUS
  <2> HIDE DEF k
  <2>3. /\ \A j \in 0..k : of.mem[of.a + j] \in Int /\ of.mem[of.b + j] \in Int
        /\ of.a \in Int /\ of.b \in Int
    BY <1>1, <2>2, Zenon
  <2>4. /\ r \in Int
        /\ r = 0 <=> Same(of.mem, of.a, of.b, k)
        /\ r < 0 <=> Less(of.mem, of.a, of.b, k)
    BY <1>1, <2>1, Zenon
  <2>5. q \in Int /\ (q = 0 <=> Same(mem, a, b, k + 1)) /\ (q < 0 <=> Less(mem, a, b, k + 1))
    BY <1>1, <2>2, <2>3, <2>4, CompareTurn, Zenon
  <2> HIDE DEF q
  <2>6. q \in Results(i)
    BY <2>2, <2>5, Zenon
  <2> QED BY <2>1, <2>6 DEF q
<1>6. G[num] = Results(num)
  OBVIOUS
<1> HIDE DEF G
<1>7. CompareLoop!Folded(0, of, seq) \in G[num]
  BY <1>3, <1>4, <1>5, Inductive, CompareLoop!FoldPreserves, Zenon
<1> QED BY <1>2, <1>6, <1>7, Zenon

\* The routines together: memmove's choice of a direction, memcpy on ranges apart, memcmp.
LEMMA RoutinesHold ==
  ASSUME LibraryFacts, NEW size \in Nat, NEW mem \in [0..(size - 1) -> 0..255]
  PROVE  Mem!RoutinesCorrect(mem, size)
<1> SUFFICES ASSUME NEW num \in 0..size, NEW a \in 0..(size - num), NEW b \in 0..(size - num)
             PROVE  LET copied == [x \in 0..size - 1 |-> IF x \in a..a + num - 1 THEN mem[b + x - a] ELSE mem[x]]
                        SameUpTo(i) == \A j \in 0..i - 1 : mem[a + j] = mem[b + j]
                        less == \E i \in 0..num - 1 : mem[a + i] < mem[b + i] /\ SameUpTo(i)
                    IN  /\ Mem!Memmove(mem, a, b, num) = copied
                        /\ a + num <= b \/ b + num <= a => Mem!Memcpy(mem, a, b, num) = copied
                        /\ Mem!Memcmp(mem, a, b, num) < 0 <=> less
                        /\ Mem!Memcmp(mem, a, b, num) = 0 <=> SameUpTo(num)
  BY Zenon DEF Mem!RoutinesCorrect
<1> DEFINE of == [dest |-> a, src |-> b]
           copied == [x \in 0..size - 1 |-> IF x \in a..a + num - 1 THEN mem[b + x - a] ELSE mem[x]]
<1>1. /\ num \in Nat /\ a \in Int /\ b \in Int
      /\ DOMAIN mem = 0..(size - 1) /\ DOMAIN mem \subseteq Int
      /\ mem = [x \in DOMAIN mem |-> mem[x]]
  OBVIOUS
<1>2. b..(b + num - 1) \subseteq 0..(size - 1)
  OBVIOUS
<1>3. Image(mem, of, 0, num) = copied
  <2>1. of.dest = a /\ of.src = b /\ a + 0 = a
    BY <1>1
  <2> HIDE DEF of
  <2> QED BY <1>1, <2>1, Zenon DEF Image
<1> HIDE DEF copied
<1>4. Mem!Memmove(mem, a, b, num) = copied
  <2>1. CASE b < a
    BY <1>1, <1>2, <1>3, <2>1, BackwardCopies, Zenon DEF Mem!Memmove
  <2>2. CASE ~(b < a)
    BY <1>1, <1>2, <1>3, <2>2, ForwardCopies DEF Mem!Memmove
  <2> QED BY <2>1, <2>2, Zenon
<1>5. ASSUME a + num <= b \/ b + num <= a PROVE Mem!Memcpy(mem, a, b, num) = copied
  BY <1>1, <1>2, <1>3, <1>5, ForwardCopies DEF Mem!Memcpy
<1>6. ASSUME NEW i \in 0..num - 1 PROVE mem[a + i] \in Int /\ mem[b + i] \in Int
  <2>1. a + i \in 0..(size - 1) /\ b + i \in 0..(size - 1)
    OBVIOUS
  <2>2. mem[a + i] \in 0..255 /\ mem[b + i] \in 0..255
    BY <2>1, Zenon
  <2>3. \A v \in 0..255 : v \in Int
    OBVIOUS
  <2> QED BY <2>2, <2>3, Zenon
<1>7. /\ Mem!Memcmp(mem, a, b, num) = 0 <=> Same(mem, a, b, num)
      /\ Mem!Memcmp(mem, a, b, num) < 0 <=> Less(mem, a, b, num)
  BY <1>1, <1>6, MemcmpCompares, Zenon
<1> QED BY <1>4, <1>5, <1>7, Zenon DEF copied, Same, Less

-----------------------------------------------------------------------------
(* The heap. *)

\* Block b is o's, below top, and holds what o wrote.
Holds(b, o, top, bytes) ==
    /\ b.start \in Int /\ b.size \in Nat
    /\ HeapStart <= b.start /\ b.start + b.size <= top
    /\ \A a \in b.start..(b.start + b.size - 1) : bytes[a] = o

\* Live blocks end at next or below it, so nothing handed out from there touches one.
HeapInv ==
    /\ next \in Int /\ HeapStart <= next /\ next <= Heap!heap_end
    /\ DOMAIN heap = Heap!Window /\ heap = [a \in DOMAIN heap |-> heap[a]]
    /\ live = [o \in DOMAIN live |-> live[o]] /\ IsFiniteSet(DOMAIN live)
    /\ allocations = Cardinality(DOMAIN live)
    /\ DOMAIN live = {} => next = HeapStart
    /\ \A o \in DOMAIN live : Holds(live[o], o, next, heap)

\* align_up does not go below the address, and stays a number.
LEMMA AlignUpRounds ==
  ASSUME NEW addr \in Nat, NEW align \in Nat \ {0}
  PROVE  Heap!AlignUp(addr, align) \in Int /\ addr <= Heap!AlignUp(addr, align)
<1> DEFINE top == addr + align - 1
           q == top \div align
           r == top % align
<1>1. top \in Int /\ align \in Int /\ align > 0
  OBVIOUS
<1>2. q \in Int /\ r \in 0..(align - 1) /\ top = q * align + r
  <2> HIDE DEF top
  <2> QED BY <1>1
<1>3. q * align \in Int
  BY <1>1, <1>2
<1>4. Heap!AlignUp(addr, align) = q * align
  BY Zenon DEF Heap!AlignUp
<1> DEFINE m == q * align
<1>5. m \in Int /\ addr + align - 1 = m + r /\ Heap!AlignUp(addr, align) = m
  BY <1>2, <1>3, <1>4, Zenon
<1> HIDE DEF q, r, m
<1> QED BY <1>2, <1>5

\* The routines a heap block is filled and moved with are those of mem.rs.
LEMMA HeapRoutines ==
  ASSUME NEW mem, NEW dest, NEW src, NEW value, NEW num
  PROVE  /\ Heap!Memcpy(mem, dest, src, num) = Mem!Forward(mem, dest, src, num)
         /\ Heap!Memset(mem, dest, value, num) = Mem!Memset(mem, dest, value, num)
<1>1. Heap!Memcpy(mem, dest, src, num) = Mem!Forward(mem, dest, src, num)
  BY Zenon DEF Heap!Memcpy, Heap!Forward, Heap!CopyBytes, Heap!Loop, Heap!CopyByte, Heap!Upward, Heap!Largest,
         Heap!MapThenFoldSet, Mem!Forward, Mem!CopyBytes, Mem!Loop, Mem!CopyByte, Mem!Upward,
         Mem!Largest, Mem!MapThenFoldSet
<1>2. Heap!Memset(mem, dest, value, num) = Mem!Memset(mem, dest, value, num)
  BY Zenon DEF Heap!Memset, Heap!SetBytes, Heap!Loop, Heap!SetByte, Heap!Upward, Heap!Largest,
         Heap!MapThenFoldSet, Mem!Memset, Mem!SetBytes, Mem!Loop, Mem!SetByte, Mem!Upward,
         Mem!Largest, Mem!MapThenFoldSet
<1> QED BY <1>1, <1>2, Zenon

\* A block handed out at next or above it keeps every block intact.
LEMMA BlockPlaced ==
  ASSUME LibraryFacts, HeapStart \in Nat, HeapSize \in Nat, HeapInv,
         NEW o, NEW start \in Int, NEW size \in Nat, next <= start, start + size <= Heap!heap_end,
         next' = start + size, allocations' = Cardinality(DOMAIN live \union {o}),
         heap' = [x \in DOMAIN heap |-> IF x \in start..(start + size - 1) THEN o ELSE heap[x]],
         live' = [p \in DOMAIN live \union {o} |->
                     IF p = o THEN Heap!Block(start, size) ELSE live[p]]
  PROVE  HeapInv'
<1>1. DOMAIN live' = DOMAIN live \union {o} /\ DOMAIN heap' = DOMAIN heap
  BY Zenon
<1>2. IsFiniteSet(DOMAIN live')
  BY <1>1, CardAdd, Zenon DEF HeapInv
<1>3. ASSUME NEW p \in DOMAIN live' PROVE Holds(live'[p], p, next', heap')
  <2>1. CASE p = o
    <3>1. live'[p].start = start /\ live'[p].size = size
      BY <1>1, <2>1, Zenon DEF Heap!Block
    <3>2. \A a \in start..(start + size - 1) : a \in DOMAIN heap
      BY DEF HeapInv, Heap!Window, Heap!heap_end
    <3>3. \A a \in start..(start + size - 1) : heap'[a] = o
      BY <3>2, Zenon
    <3> QED BY <2>1, <3>1, <3>3 DEF Holds, HeapInv
  <2>2. CASE p # o
    <3>1. live'[p] = live[p] /\ p \in DOMAIN live
      BY <1>1, <2>2, Zenon
    <3> DEFINE b == live[p]
    <3>2. Holds(b, p, next, heap)
      BY <3>1, Zenon DEF HeapInv
    <3> HIDE DEF b
    <3>3. ASSUME NEW a \in b.start..(b.start + b.size - 1) PROVE heap'[a] = p
      <4>1. heap[a] = p /\ a \in DOMAIN heap /\ a \notin start..(start + size - 1)
        BY <3>2 DEF Holds, HeapInv, Heap!Window, Heap!heap_end
      <4> QED BY <4>1, Zenon
    <3>4. Holds(b, p, next', heap')
      BY <3>2, <3>3 DEF Holds, HeapInv
    <3> QED BY <3>1, <3>4, Zenon DEF b
  <2> QED BY <2>1, <2>2, Zenon
<1>4. live' = [p \in DOMAIN live' |-> live'[p]] /\ heap' = [x \in DOMAIN heap' |-> heap'[x]]
  BY <1>1, Zenon
<1>5. next' \in Int /\ HeapStart <= next' /\ next' <= Heap!heap_end /\ DOMAIN live' # {}
  BY <1>1 DEF HeapInv
<1> QED BY <1>1, <1>2, <1>3, <1>4, <1>5, Zenon DEF HeapInv, Heap!heap_end, Heap!Window

\* alloc, and the owner fills what it was given.
LEMMA AllocStep ==
  ASSUME LibraryFacts, HeapStart \in Nat, HeapSize \in Nat, Sizes \subseteq Nat, Aligns \subseteq Nat \ {0}, HeapInv,
         NEW o, NEW size \in Sizes, NEW align \in Aligns, Heap!Alloc(o, size, align)
  PROVE  HeapInv'
<1> DEFINE start == Heap!AlignUp(next, align)
<1>1. next \in Nat /\ size \in Nat /\ align \in Nat \ {0}
  BY DEF HeapInv
<1>2. start \in Int /\ next <= start
  BY <1>1, AlignUpRounds, Zenon
<1>3. /\ start + size <= Heap!heap_end /\ next' = start + size /\ o \notin DOMAIN live
      /\ live' = [p \in DOMAIN live \union {o} |-> IF p = o THEN Heap!Block(start, size) ELSE live[p]]
      /\ heap' = Heap!Memset(heap, start, o, size) /\ allocations' = allocations + 1
  BY Zenon DEF Heap!Alloc, Heap!Fits
<1> HIDE DEF start
<1>4. heap' = [x \in DOMAIN heap |-> IF x \in start..(start + size - 1) THEN o ELSE heap[x]]
  <2>1. DOMAIN heap \subseteq Int /\ heap = [x \in DOMAIN heap |-> heap[x]]
    BY DEF HeapInv, Heap!Window, Heap!heap_end
  <2>2. Heap!Memset(heap, start, o, size) = Mem!Memset(heap, start, o, size)
    BY HeapRoutines, Zenon
  <2>3. Mem!Memset(heap, start, o, size)
          = [x \in DOMAIN heap |-> IF x \in start..(start + size - 1) THEN o ELSE heap[x]]
    BY <1>1, <1>2, <2>1, MemsetFills
  <2> QED BY <1>3, <2>2, <2>3, Zenon
<1>5. allocations' = Cardinality(DOMAIN live \union {o})
  BY <1>3, CardAdd, Zenon DEF HeapInv
<1> QED BY <1>1, <1>2, <1>3, <1>4, <1>5, BlockPlaced, Zenon

\* realloc: a copy of the old block, with the rest filled, is a block filled.
LEMMA GrowStep ==
  ASSUME LibraryFacts, HeapStart \in Nat, HeapSize \in Nat, Sizes \subseteq Nat, Aligns \subseteq Nat \ {0}, HeapInv,
         NEW o, NEW size \in Sizes, NEW align \in Aligns, Heap!Grow(o, size, align)
  PROVE  HeapInv'
<1> DEFINE start == Heap!AlignUp(next, align)
           old == live[o]
           src == old.start
           num == old.size
           of == [dest |-> start, src |-> src]
           moved == Image(heap, of, 0, num)
<1>1. next \in Nat /\ size \in Nat /\ align \in Nat \ {0}
  BY DEF HeapInv
<1>2. start \in Int /\ next <= start
  BY <1>1, AlignUpRounds, Zenon
<1>3. /\ start + size <= Heap!heap_end /\ o \in DOMAIN live /\ size > num
      /\ next' = Heap!Freed(allocations + 1, start + size).next
      /\ allocations' = Heap!Freed(allocations + 1, start + size).allocations
      /\ live' = [live EXCEPT ![o] = Heap!Block(start, size)]
      /\ heap' = Heap!Memset(Heap!Memcpy(heap, start, src, num), start + num, o, size - num)
  BY Zenon DEF Heap!Grow, Heap!Fits
<1>4. Holds(old, o, next, heap)
  BY <1>3, Zenon DEF HeapInv
<1> HIDE DEF start, old
<1>5. /\ src \in Int /\ num \in Nat /\ HeapStart <= src /\ src + num <= next
      /\ \A a \in src..(src + num - 1) : heap[a] = o
  BY <1>4, Zenon DEF Holds
<1> HIDE DEF src, num
<1>6. allocations \in Nat /\ allocations # 0
  <2>1. DOMAIN live # {} /\ IsFiniteSet(DOMAIN live)
    BY <1>3, Zenon DEF HeapInv
  <2> QED BY <2>1, CardEmpty, CardNat, Zenon DEF HeapInv
<1>7. next' = start + size /\ allocations' = allocations
  BY <1>3, <1>6 DEF Heap!Freed
<1>8. DOMAIN heap \subseteq Int /\ heap = [x \in DOMAIN heap |-> heap[x]]
  BY DEF HeapInv, Heap!Window, Heap!heap_end
<1>9. src..(src + num - 1) \subseteq DOMAIN heap
  BY <1>5 DEF HeapInv, Heap!Window, Heap!heap_end
<1>10. Heap!Memcpy(heap, start, src, num) = moved
  <2>1. Heap!Memcpy(heap, start, src, num) = Mem!Forward(heap, start, src, num)
    BY HeapRoutines, Zenon
  <2>2. start >= src + num
    BY <1>1, <1>2, <1>5
  <2>3. Mem!Forward(heap, start, src, num) = moved
    BY <1>2, <1>5, <1>8, <1>9, <2>2, ForwardCopies
  <2> QED BY <2>1, <2>3, Zenon
<1>11. moved = [x \in DOMAIN heap |-> IF x \in start..(start + num - 1) THEN o ELSE heap[x]]
  <2>1. of.dest = start /\ of.src = src /\ start + 0 = start
    BY <1>2
  <2> HIDE DEF of
  <2>2. moved = [x \in DOMAIN heap |->
                    IF x \in start..(start + num - 1) THEN heap[src + x - start] ELSE heap[x]]
    BY <2>1, Zenon DEF Image
  <2>3. ASSUME NEW x \in start..(start + num - 1) PROVE heap[src + x - start] = o
    <3>1. src + x - start \in src..(src + num - 1)
      BY <1>2, <1>5
    <3> QED BY <1>5, <3>1, Zenon
  <2> HIDE DEF moved
  <2> QED BY <2>2, <2>3, Zenon
<1> HIDE DEF moved
<1>12. DOMAIN moved = DOMAIN heap /\ moved = [x \in DOMAIN moved |-> moved[x]]
  BY <1>11, Zenon
<1>13. heap' = [x \in DOMAIN heap |-> IF x \in start..(start + size - 1) THEN o ELSE heap[x]]
  <2> DEFINE d == start + num
             m == size - num
  <2>1. d \in Int /\ m \in Nat
    BY <1>1, <1>2, <1>3, <1>5
  <2>2. heap' = Mem!Memset(moved, d, o, m)
    BY <1>3, <1>10, HeapRoutines
  <2> HIDE DEF d, m
  <2>3. heap' = [x \in DOMAIN moved |-> IF x \in d..(d + m - 1) THEN o ELSE moved[x]]
    BY <1>8, <1>12, <2>1, <2>2, MemsetFills
  <2>4. ASSUME NEW x \in DOMAIN heap
        PROVE  (IF x \in d..(d + m - 1) THEN o ELSE moved[x])
                 = IF x \in start..(start + size - 1) THEN o ELSE heap[x]
    BY <1>1, <1>2, <1>3, <1>5, <1>8, <1>11 DEF d, m
  <2> QED BY <1>12, <2>3, <2>4, Zenon
<1>14. DOMAIN live \union {o} = DOMAIN live
  BY <1>3, Zenon
<1>15. live' = [p \in DOMAIN live \union {o} |-> IF p = o THEN Heap!Block(start, size) ELSE live[p]]
  BY <1>3, <1>14, Zenon DEF HeapInv
<1>16. allocations' = Cardinality(DOMAIN live \union {o})
  BY <1>7, <1>14, Zenon DEF HeapInv
<1>17. start + size <= Heap!heap_end
  BY <1>3, Zenon
<1> QED BY <1>1, <1>2, <1>7, <1>13, <1>15, <1>16, <1>17, BlockPlaced, Zenon

\* dealloc: next goes back to the start exactly when the last block goes.
LEMMA DeallocStep ==
  ASSUME LibraryFacts, HeapStart \in Nat, HeapSize \in Nat, HeapInv, NEW o, Heap!Dealloc(o)
  PROVE  HeapInv'
<1>1. /\ o \in DOMAIN live /\ heap' = heap
      /\ next' = Heap!Freed(allocations, next).next
      /\ allocations' = Heap!Freed(allocations, next).allocations
      /\ live' = [p \in DOMAIN live \ {o} |-> live[p]]
  BY Zenon DEF Heap!Dealloc
<1>2. next' = (IF allocations - 1 = 0 THEN HeapStart ELSE next) /\ allocations' = allocations - 1
  BY <1>1, Zenon DEF Heap!Freed
<1>3. DOMAIN live' = DOMAIN live \ {o} /\ live' = [p \in DOMAIN live' |-> live'[p]]
  BY <1>1, Zenon
<1>4. /\ IsFiniteSet(DOMAIN live') /\ Cardinality(DOMAIN live') = allocations - 1
      /\ Cardinality(DOMAIN live') \in Nat
  BY <1>1, <1>3, CardRemove, CardNat DEF HeapInv
<1>5. DOMAIN live' = {} <=> allocations - 1 = 0
  BY <1>4, CardEmpty, CardNat, Zenon
<1>6. ASSUME NEW p \in DOMAIN live' PROVE Holds(live'[p], p, next', heap')
  <2>1. live'[p] = live[p] /\ p \in DOMAIN live
    BY <1>1, <1>3, Zenon
  <2>2. next' = next
    BY <1>2, <1>5, Zenon
  <2> QED BY <1>1, <2>1, <2>2, Zenon DEF HeapInv
<1>7. next' \in Int /\ HeapStart <= next' /\ next' <= Heap!heap_end
  BY <1>2 DEF HeapInv, Heap!heap_end
<1>8. DOMAIN live' = {} => next' = HeapStart
  BY <1>2, <1>5, Zenon
<1> QED BY <1>1, <1>2, <1>3, <1>4, <1>6, <1>7, <1>8, Zenon DEF HeapInv, Heap!heap_end, Heap!Window

\* init() gives an empty heap.
LEMMA HeapInit ==
  ASSUME LibraryFacts, HeapStart \in Nat, HeapSize \in Nat, Sizes \subseteq Nat, Aligns \subseteq Nat \ {0}
  PROVE  Heap!Init => HeapInv
<1> SUFFICES ASSUME Heap!Init PROVE HeapInv
  BY Zenon
<1>1. /\ next = HeapStart /\ allocations = 0 /\ heap = [a \in Heap!Window |-> "none"]
      /\ DOMAIN live = {} /\ live = [o \in DOMAIN live |-> live[o]]
  BY Zenon DEF Heap!Init
<1> QED BY <1>1, CardEmpty, CardNat DEF HeapInv, Heap!heap_end

\* alloc, realloc and dealloc keep the invariant, and so does a heap that is exhausted.
LEMMA HeapStep ==
  ASSUME LibraryFacts, HeapStart \in Nat, HeapSize \in Nat, Sizes \subseteq Nat, Aligns \subseteq Nat \ {0}
  PROVE  HeapInv /\ [Heap!Next]_(Heap!vars) => HeapInv'
<1> SUFFICES ASSUME HeapInv, [Heap!Next]_(Heap!vars) PROVE HeapInv'
  BY Zenon
<1>1. CASE UNCHANGED <<next, allocations, heap, live>>
  BY <1>1, Zenon DEF HeapInv, Heap!heap_end, Heap!Window
<1>2. CASE \E o \in Owners, size \in Sizes, align \in Aligns : Heap!Alloc(o, size, align)
  BY <1>2, AllocStep, Zenon
<1>3. CASE \E o \in Owners, size \in Sizes, align \in Aligns : Heap!Grow(o, size, align)
  BY <1>3, GrowStep, Zenon
<1>4. CASE \E size \in Sizes, align \in Aligns : Heap!OutOfMemory(size, align)
  BY <1>1, <1>4, Zenon DEF Heap!OutOfMemory
<1>5. CASE \E o \in Owners : Heap!Dealloc(o)
  BY <1>5, DeallocStep, Zenon
<1>6. CASE UNCHANGED Heap!vars
  BY <1>1, <1>6, Zenon DEF Heap!vars
<1> QED BY <1>2, <1>3, <1>4, <1>5, <1>6, Zenon DEF Heap!Next

\* What the invariant says of the blocks alloc has handed out, and of next.
LEMMA HeapSound ==
  ASSUME LibraryFacts, HeapStart \in Nat, HeapSize \in Nat, Sizes \subseteq Nat, Aligns \subseteq Nat \ {0}
  PROVE  HeapInv => Heap!BlocksIntact /\ Heap!HeapReclaimed
<1> SUFFICES ASSUME HeapInv PROVE Heap!BlocksIntact /\ Heap!HeapReclaimed
  BY Zenon
<1>1. ASSUME NEW o \in DOMAIN live
      PROVE  /\ Heap!Bytes(live[o]) \subseteq Heap!Window
             /\ \A a \in Heap!Bytes(live[o]) : heap[a] = o
             /\ live[o].start + live[o].size <= next
  <2> DEFINE b == live[o]
  <2>1. Holds(b, o, next, heap)
    BY Zenon DEF HeapInv
  <2> HIDE DEF b
  <2>2. /\ Heap!Bytes(b) \subseteq Heap!Window
        /\ \A a \in Heap!Bytes(b) : heap[a] = o
        /\ b.start + b.size <= next
    BY <2>1 DEF Holds, Heap!Bytes, Heap!Window, Heap!heap_end, HeapInv
  <2> QED BY <2>2, Zenon DEF b
<1>2. live = [o \in {} |-> Heap!Block(0, 0)] => next = HeapStart
  BY Zenon DEF HeapInv
<1>3. Heap!BlocksIntact
  BY <1>1, Zenon DEF Heap!BlocksIntact
<1>4. Heap!Cardinality(DOMAIN live) = Cardinality(DOMAIN live)
  BY Zenon DEF Heap!Cardinality, Cardinality
<1>5. Heap!HeapReclaimed
  BY <1>1, <1>2, <1>4, Zenon DEF HeapInv, Heap!HeapReclaimed
<1> QED BY <1>3, <1>5, Zenon

-----------------------------------------------------------------------------
(* The shell's line editor. *)

\* The row shows the line and nothing else, and the cursor is right behind it.
Echoed ==
    /\ cursor = len + 1
    /\ \A i \in 1..len : row[i] = line[i] /\ line[i] \in Glyphs
    /\ \A i \in (len + 1)..(MAX_LINE + 1) : row[i] = Sh!Blank

ShellInv ==
    /\ len \in 0..MAX_LINE
    /\ line \in [1..MAX_LINE -> Glyphs \union {Sh!Blank}]
    /\ row \in [1..(MAX_LINE + 1) -> Glyphs \union {Sh!Blank}]
    /\ pc \in {"reading", "dispatch"} => Echoed
    /\ Sh!RunsWhatIsShown

\* What the row shows is the line: the text the user sees is what Enter submits.
LEMMA ShownIsLine ==
  ASSUME MAX_LINE \in Nat, Sh!Blank \notin Glyphs, ShellInv, Echoed
  PROVE  Sh!Shown = Sh!Argument
<1> DEFINE filled == {0} \union {i \in DOMAIN row : row[i] # Sh!Blank}
<1>1. filled = 0..len
  BY DEF ShellInv, Echoed
<1>2. Sh!Largest(filled) = len
  <2>1. len \in filled /\ \A y \in filled : len >= y
    BY <1>1 DEF ShellInv
  <2>2. \A x \in filled : (\A y \in filled : x >= y) => x = len
    BY <1>1 DEF ShellInv
  <2> QED BY <2>1, <2>2, Zenon DEF Sh!Largest
<1>3. Sh!Shown = SubSeq(row, 1, len)
  BY <1>2, Zenon DEF Sh!Shown
<1>4. row \in Seq(Glyphs \union {Sh!Blank}) /\ Len(row) = MAX_LINE + 1
  BY DEF ShellInv
<1>5. line \in Seq(Glyphs \union {Sh!Blank}) /\ Len(line) = MAX_LINE
  BY DEF ShellInv
<1>6. /\ SubSeq(row, 1, len) \in Seq(Glyphs \union {Sh!Blank}) /\ Len(SubSeq(row, 1, len)) = len
      /\ \A i \in 1..len : SubSeq(row, 1, len)[i] = row[i]
  BY <1>4 DEF ShellInv
<1>7. /\ SubSeq(line, 1, len) \in Seq(Glyphs \union {Sh!Blank}) /\ Len(SubSeq(line, 1, len)) = len
      /\ \A i \in 1..len : SubSeq(line, 1, len)[i] = line[i]
  BY <1>5 DEF ShellInv
<1>8. SubSeq(row, 1, len) = SubSeq(line, 1, len)
  BY <1>6, <1>7, SeqEqual, Zenon DEF Echoed
<1> QED BY <1>3, <1>8, Zenon DEF Sh!Argument

\* read_line's echo of a byte: the byte and its cell go together, and a full line takes none.
LEMMA GlyphStep ==
  ASSUME MAX_LINE \in Nat, ShellInv, NEW c \in Glyphs, Sh!Glyph(c)
  PROVE  ShellInv'
<1>1. pc = "reading" /\ pc' = "reading" /\ Echoed
  BY Zenon DEF Sh!Glyph, ShellInv
<1>2. CASE len < MAX_LINE
  <2>1. /\ line' = [line EXCEPT ![len + 1] = c] /\ len' = len + 1
        /\ row' = [row EXCEPT ![len + 1] = c] /\ cursor' = (len + 1) + 1
    BY <1>1, <1>2, Zenon DEF Sh!Glyph, Sh!Show, Sh!Put, Sh!Screen, Echoed
  <2>2. /\ len + 1 \in 0..MAX_LINE /\ len + 1 \in 1..MAX_LINE /\ len + 1 \in 1..(MAX_LINE + 1)
        /\ \A i \in 1..(len + 1) : /\ i \in 1..MAX_LINE /\ i \in 1..(MAX_LINE + 1)
                                  /\ (i = len + 1 \/ (i # len + 1 /\ i \in 1..len))
        /\ \A i \in ((len + 1) + 1)..(MAX_LINE + 1) :
              i \in 1..(MAX_LINE + 1) /\ i # len + 1 /\ i \in (len + 1)..(MAX_LINE + 1)
    BY <1>2, PlacesOn, Zenon DEF ShellInv
  <2>3. /\ line \in [1..MAX_LINE -> Glyphs \union {Sh!Blank}]
        /\ row \in [1..(MAX_LINE + 1) -> Glyphs \union {Sh!Blank}]
    BY Zenon DEF ShellInv
  <2>4. /\ line' \in [1..MAX_LINE -> Glyphs \union {Sh!Blank}]
        /\ row' \in [1..(MAX_LINE + 1) -> Glyphs \union {Sh!Blank}]
    BY <2>1, <2>3, Zenon
  <2>5. ASSUME NEW i \in 1..(len + 1) PROVE row'[i] = line'[i] /\ line'[i] \in Glyphs
    <3>1. CASE i = len + 1
      BY <2>1, <2>2, <2>3, <3>1, Zenon
    <3>2. CASE i # len + 1 /\ i \in 1..len
      <4>1. row'[i] = row[i] /\ line'[i] = line[i]
        BY <2>1, <2>2, <2>3, <3>2, Zenon
      <4> QED BY <1>1, <3>2, <4>1, Zenon DEF Echoed
    <3> QED BY <2>2, <3>1, <3>2, Zenon
  <2>6. ASSUME NEW i \in ((len + 1) + 1)..(MAX_LINE + 1) PROVE row'[i] = Sh!Blank
    BY <1>1, <2>1, <2>2, <2>3, Zenon DEF Echoed
  <2>7. Echoed'
    BY <2>1, <2>5, <2>6, Zenon DEF Echoed
  <2> QED BY <1>1, <2>1, <2>2, <2>4, <2>7, Zenon DEF ShellInv, Sh!RunsWhatIsShown
<1>3. CASE ~(len < MAX_LINE)
  <2>1. UNCHANGED <<line, len, row, cursor>>
    BY <1>3, Zenon DEF Sh!Glyph
  <2>2. Echoed'
    BY <1>1, <2>1, Zenon DEF Echoed
  <2> QED BY <1>1, <2>1, <2>2, Zenon DEF ShellInv, Sh!RunsWhatIsShown
<1> QED BY <1>2, <1>3, Zenon

\* read_line's "\x08 \x08": the last byte and its cell go together, and not the prompt.
LEMMA BackspaceStep ==
  ASSUME MAX_LINE \in Nat, ShellInv, Sh!Backspace
  PROVE  ShellInv'
<1>1. pc = "reading" /\ pc' = "reading" /\ Echoed /\ line' = line
  BY Zenon DEF Sh!Backspace, ShellInv
<1>2. CASE len > 0
  <2>1. /\ len - 1 \in 0..MAX_LINE /\ len \in 1..(MAX_LINE + 1)
        /\ (len + 1) - 1 = len /\ len = (len - 1) + 1 /\ len + 1 > 1
        /\ \A i \in 1..(len - 1) : i \in 1..len /\ i # len /\ i \in 1..(MAX_LINE + 1)
        /\ \A i \in len..(MAX_LINE + 1) :
              i \in 1..(MAX_LINE + 1) /\ (i = len \/ (i # len /\ i \in (len + 1)..(MAX_LINE + 1)))
    BY <1>2, PlacesBack, Zenon DEF ShellInv
  <2>2. len' = len - 1 /\ row' = [row EXCEPT ![len] = Sh!Blank] /\ cursor' = len
    <3>1. Sh!Left(Sh!Screen) = [row |-> row, cursor |-> len]
      <4>1. cursor > 1 /\ cursor - 1 = len
        BY <1>1, <2>1, Zenon DEF Echoed
      <4> QED BY <4>1 DEF Sh!Left, Sh!Screen
    <3>2. Sh!Put(Sh!Left(Sh!Screen), Sh!Blank) = [row |-> [row EXCEPT ![len] = Sh!Blank], cursor |-> len + 1]
      BY <3>1 DEF Sh!Put
    <3>3. Sh!RubOut(Sh!Screen) = [row |-> [row EXCEPT ![len] = Sh!Blank], cursor |-> len]
      BY <2>1, <3>2 DEF Sh!RubOut, Sh!Left
    <3> QED BY <1>2, <3>3 DEF Sh!Backspace, Sh!Show
  <2>3. row \in [1..(MAX_LINE + 1) -> Glyphs \union {Sh!Blank}]
    BY Zenon DEF ShellInv
  <2>4. row' \in [1..(MAX_LINE + 1) -> Glyphs \union {Sh!Blank}]
    BY <2>2, <2>3, Zenon
  <2>5. ASSUME NEW i \in 1..(len - 1) PROVE row'[i] = line'[i] /\ line'[i] \in Glyphs
    BY <1>1, <2>1, <2>2, <2>3, Zenon DEF Echoed
  <2>6. ASSUME NEW i \in len..(MAX_LINE + 1) PROVE row'[i] = Sh!Blank
    BY <1>1, <2>1, <2>2, <2>3, Zenon DEF Echoed
  <2>7. Echoed'
    BY <2>1, <2>2, <2>5, <2>6, Zenon DEF Echoed
  <2> QED BY <1>1, <2>1, <2>2, <2>4, <2>7, Zenon DEF ShellInv, Sh!RunsWhatIsShown
<1>3. CASE ~(len > 0)
  <2>1. UNCHANGED <<len, row, cursor>>
    BY <1>3, Zenon DEF Sh!Backspace
  <2>2. Echoed'
    BY <1>1, <2>1, Zenon DEF Echoed
  <2> QED BY <1>1, <2>1, <2>2, Zenon DEF ShellInv, Sh!RunsWhatIsShown
<1> QED BY <1>2, <1>3, Zenon

\* jsh.rs and read_line: whatever is typed, rubbed out and typed again, line after line in
\* the same buffer, the command that is dispatched is the text the row showed at Enter.
THEOREM ShellRunsWhatIsShown ==
  ASSUME MAX_LINE \in Nat, Sh!Blank \notin Glyphs
  PROVE  Sh!Spec => []RunsWhatIsShown
<1>1. Sh!Init => ShellInv
  <2> SUFFICES ASSUME Sh!Init PROVE ShellInv
    BY Zenon
  <2>1. /\ pc = "prompt" /\ len = 0 /\ line = [i \in 1..MAX_LINE |-> Sh!Blank]
        /\ row = [i \in 1..(MAX_LINE + 1) |-> Sh!Blank]
    BY Zenon DEF Sh!Init
  <2>2. /\ line \in [1..MAX_LINE -> Glyphs \union {Sh!Blank}]
        /\ row \in [1..(MAX_LINE + 1) -> Glyphs \union {Sh!Blank}]
    BY <2>1, Zenon
  <2> QED BY <2>1, <2>2, NoPlaces, Zenon DEF ShellInv, Sh!RunsWhatIsShown
<1>2. ASSUME ShellInv, [Sh!Next]_(Sh!vars) PROVE ShellInv'
  <2>1. CASE Sh!Prompt
    <3>1. /\ pc' = "reading" /\ len' = 0 /\ line' = line /\ cursor' = 1
          /\ row' = [i \in DOMAIN row |-> Sh!Blank]
      BY <2>1, Zenon DEF Sh!Prompt, Sh!Show
    <3>2. /\ line \in [1..MAX_LINE -> Glyphs \union {Sh!Blank}]
          /\ row \in [1..(MAX_LINE + 1) -> Glyphs \union {Sh!Blank}]
      BY <1>2, Zenon DEF ShellInv
    <3>3. row' = [i \in 1..(MAX_LINE + 1) |-> Sh!Blank]
      BY <3>1, <3>2, Zenon
    <3>4. Echoed'
      BY <3>1, <3>3, NoPlaces, Zenon DEF Echoed
    <3>5. row' \in [1..(MAX_LINE + 1) -> Glyphs \union {Sh!Blank}]
      BY <3>3, Zenon
    <3> QED BY <3>1, <3>2, <3>4, <3>5, NoPlaces, Zenon DEF ShellInv, Sh!RunsWhatIsShown
  <2>2. CASE Sh!Backspace
    BY <1>2, <2>2, BackspaceStep, Zenon
  <2>3. CASE Sh!Enter
    <3>1. /\ pc = "reading" /\ pc' = "dispatch" /\ entered' = Sh!Shown
          /\ UNCHANGED <<line, len, row, cursor>>
      BY <2>3, Zenon DEF Sh!Enter
    <3>2. Echoed
      BY <1>2, <3>1, Zenon DEF ShellInv
    <3>3. Sh!Shown = Sh!Argument
      BY <1>2, <3>2, ShownIsLine, Zenon
    <3>4. Sh!Argument' = Sh!Argument
      BY <3>1, Zenon DEF Sh!Argument
    <3>5. Echoed' /\ Sh!RunsWhatIsShown'
      BY <3>1, <3>2, <3>3, <3>4, Zenon DEF Echoed, Sh!RunsWhatIsShown
    <3> QED BY <1>2, <3>1, <3>5, Zenon DEF ShellInv
  <2>4. CASE \E c \in Glyphs : Sh!Glyph(c)
    BY <1>2, <2>4, GlyphStep, Zenon
  <2>5. CASE Sh!Say \/ Sh!Stop \/ Sh!Spawn
    BY <1>2, <2>5, Zenon DEF Sh!Say, Sh!Stop, Sh!Spawn, ShellInv, Echoed, Sh!RunsWhatIsShown
  <2>6. CASE UNCHANGED Sh!vars
    BY <1>2, <2>6, Zenon DEF Sh!vars, ShellInv, Echoed, Sh!RunsWhatIsShown, Sh!Argument
  <2> QED BY <1>2, <2>1, <2>2, <2>3, <2>4, <2>5, <2>6, Zenon DEF Sh!Next
<1>3. ShellInv => RunsWhatIsShown
  BY Zenon DEF ShellInv, RunsWhatIsShown
<1> QED BY <1>1, <1>2, <1>3, PTL DEF Sh!Spec

-----------------------------------------------------------------------------
(* The theorems, with the library's behind them. *)

INSTANCE FiniteSetTheorems

\* The library's theorems give LibraryFacts.
LEMMA LibraryHolds == LibraryFacts
<1>1. ASSUME NEW S \in SUBSET Nat, S # {} PROVE \E i \in S : \A j \in S : i <= j
  <2> DEFINE Below == {ss \in Nat \X Nat : ss[1] < ss[2]}
  <2>1. IsWellFoundedOn(Below, Nat)
    BY NatLessThanWellFounded, Zenon DEF OpToRel
  <2> HIDE DEF Below
  <2>2. PICK i \in S : \A j \in S : ~(<<j, i>> \in Below)
    BY <1>1, <2>1, WFMin, Zenon
  <2>3. \A j \in S : ~(j < i)
    BY <2>2, Zenon DEF Below
  <2> QED BY <2>3
<1>2. ASSUME NEW S, IsFiniteSet(S), NEW T, NEW f \in Injection(T, S)
      PROVE  IsFiniteSet(T) /\ Cardinality(T) <= Cardinality(S)
  BY <1>2, FS_Injection, Zenon
<1>3. ASSUME NEW S, IsFiniteSet(S), NEW x
      PROVE  /\ IsFiniteSet(S \union {x}) /\ IsFiniteSet(S \ {x})
             /\ Cardinality(S \union {x}) = IF x \in S THEN Cardinality(S) ELSE Cardinality(S) + 1
             /\ Cardinality(S \ {x}) = IF x \in S THEN Cardinality(S) - 1 ELSE Cardinality(S)
  BY <1>3, FS_AddElement, FS_RemoveElement, Zenon
<1>4. ASSUME NEW S, IsFiniteSet(S)
      PROVE  /\ Cardinality(S) \in Nat /\ (Cardinality(S) = 0 <=> S = {})
             /\ \A T \in SUBSET S : IsFiniteSet(T) /\ Cardinality(T) <= Cardinality(S)
  BY <1>4, FS_CardinalityType, FS_EmptySet, FS_Subset, Zenon
<1> QED BY <1>1, <1>2, <1>3, <1>4, FS_EmptySet, FS_Interval, Zenon DEF LibraryFacts

\* mem.rs: memmove, memcpy and memcmp do what C says of them, in a memory of any size,
\* for every content, every length and every overlap of the two ranges.
THEOREM RoutinesAreCorrect ==
  ASSUME MemSize \in Nat, memory \in [0..(MemSize - 1) -> 0..255]
  PROVE  RoutinesCorrect
  BY LibraryHolds, RoutinesHold, Zenon DEF RoutinesCorrect

\* allocator.rs: for a heap of any size and any mix of layouts, every live block lies in
\* the window and holds what its owner wrote, through every alloc, realloc and dealloc;
\* allocations counts the live blocks, and next is back at the start when none is left.
THEOREM HeapKeepsBlocks ==
  ASSUME HeapStart \in Nat, HeapSize \in Nat, Sizes \subseteq Nat, Aligns \subseteq Nat \ {0}
  PROVE  Heap!Spec => [](BlocksIntact /\ HeapReclaimed)
<1>1. Heap!Init => HeapInv
  BY LibraryHolds, HeapInit, Zenon
<1>2. HeapInv /\ [Heap!Next]_(Heap!vars) => HeapInv'
  BY LibraryHolds, HeapStep, Zenon
<1>3. HeapInv => BlocksIntact /\ HeapReclaimed
  BY LibraryHolds, HeapSound, Zenon DEF BlocksIntact, HeapReclaimed
<1> QED BY <1>1, <1>2, <1>3, PTL DEF Heap!Spec

\* The reset in dealloc: allocations counts the live blocks, none reaches beyond next, and next is back
\* at the start when no block is left, for every heap and every mix of layouts.
THEOREM HeapReclaims ==
  ASSUME HeapStart \in Nat, HeapSize \in Nat, Sizes \subseteq Nat, Aligns \subseteq Nat \ {0}
  PROVE  Heap!Spec => []HeapReclaimed
  BY HeapKeepsBlocks, PTL

\* handle_irq and schedule(): whatever kmain and its threads have got to, no code runs
\* with IRQs unmasked while an interrupt is active, for "EOI before switching away".
THEOREM EndedBeforeSwitching ==
  ASSUME Rounds \in Nat, Pause \in Nat
  PROVE  Irq!Spec => []EndedBeforeSwitch
<1>1. Irq!Init => IrqInv
  BY IrqInit, Zenon
<1>2. IrqInv /\ [Irq!Next]_(Irq!vars) => IrqInv'
  BY LibraryHolds, IrqStep, Zenon
<1>3. IrqInv => EndedBeforeSwitch
  BY HandlersDiffer, Zenon DEF IrqInv, EndedBeforeSwitch, Irq!EndedBeforeSwitch, Irq!Unmasked
<1> QED BY <1>1, <1>2, <1>3, PTL DEF Irq!Spec

\* input.rs under kmain, its threads and the handlers: for a buffer of any size the array
\* and its two indices behave as the queue of bytes, where drain_uart takes what fits, in
\* order, pop gives the oldest byte, and the receive interrupt is on while there is room.
THEOREM InputIsAQueue ==
  ASSUME INPUT_BUF_SIZE \in Nat, INPUT_BUF_SIZE > 1, Rounds \in Nat, Pause \in Nat
  PROVE  Irq!Spec => ImplementsInputQueue
<1>1. Irq!Init => IrqInv /\ InputInv /\ Irq!Queue!Init
  BY IrqInit, InputInit, Zenon
<1>2. IrqInv /\ InputInv /\ [Irq!Next]_(Irq!vars) => IrqInv' /\ InputInv' /\ QueueStep
  BY LibraryHolds, IrqStep, InputStep, Zenon
<1> QED BY <1>1, <1>2, PTL DEF Irq!Spec, ImplementsInputQueue, Irq!ImplementsInputQueue, Irq!Queue!Spec, QueueStep

=============================================================================

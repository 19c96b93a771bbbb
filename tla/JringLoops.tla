----------------------------- MODULE JringLoops ------------------------------
(***************************************************************************)
(* The inductive invariant of jring, and what drain(), poll_pending() and  *)
(* drain_uart() preserve of it, for every number of processes, slots,      *)
(* queue entries, keys and requests.                                       *)
(***************************************************************************)
EXTENDS Jring, ProofBasics

\* The two loops: drain() over the submission queue and poll_pending over the
\* slots of parked reads.
PollBody(w, p, s) == PollSlot(w, s)
DrainLoop == INSTANCE FoldInduction WITH Op <- ProcessSqe
PollLoop == INSTANCE FoldInduction WITH Op <- PollBody

-----------------------------------------------------------------------------
(* Queues of keys. *)

\* Moving the front of a queue to the back of the one before it.
LEMMA MoveFront ==
  ASSUME NEW S, NEW a \in Seq(S), NEW b \in Seq(S), NEW k \in 0..Len(b)
  PROVE  (a \o SubSeq(b, 1, k)) \o SubSeq(b, k + 1, Len(b)) = a \o b
<1> DEFINE x == SubSeq(b, 1, k)
           y == SubSeq(b, k + 1, Len(b))
<1>1. x \in Seq(S) /\ y \in Seq(S)
  BY Cut, Zenon
<1>2. x \o y = b
  BY Split, Zenon
<1> HIDE DEF x, y
<1>3. (a \o x) \o y = a \o (x \o y)
  BY <1>1
<1> QED BY <1>2, <1>3, Zenon DEF x, y

\* Three runs of bytes, joined either way round.
LEMMA Joining ==
  ASSUME NEW a \in Seq(Nat), NEW b \in Seq(Nat), NEW c \in Seq(Nat)
  PROVE  (a \o b) \o c = a \o (b \o c)
OBVIOUS

\* Moving the front of a queue to the back of the second of two before it.
Filled(a, b, c, k) ==
    (a \o (b \o SubSeq(c, 1, k))) \o SubSeq(c, k + 1, Len(c)) = (a \o b) \o c

\* drain_uart's move of bytes keeps what is taken, buffered and still typed in order.
LEMMA FillBack ==
  ASSUME NEW a \in Seq(Nat), NEW b \in Seq(Nat), NEW c \in Seq(Nat), NEW k \in 0..Len(c)
  PROVE  Filled(a, b, c, k)
<1> DEFINE x == SubSeq(c, 1, k)
           y == SubSeq(c, k + 1, Len(c))
<1>1. x \in Seq(Nat) /\ y \in Seq(Nat)
  BY Cut, Zenon
<1>2. a \o b \in Seq(Nat)
  OBVIOUS
<1>3. ((a \o b) \o x) \o y = (a \o b) \o c
  BY <1>2, MoveFront, Zenon
<1> HIDE DEF x, y
<1>4. (a \o b) \o x = a \o (b \o x)
  BY <1>1, Joining, Zenon
<1> QED BY <1>3, <1>4, Zenon DEF x, y, Filled

\* The next key typed.
LEMMA Counting ==
  ASSUME NEW n \in Nat
  PROVE  Append([i \in 1..n |-> i], n + 1) = [i \in 1..(n + 1) |-> i]
<1> DEFINE a == [i \in 1..n |-> i]
           b == [i \in 1..(n + 1) |-> i]
<1>1. a \in Seq(Nat) /\ b \in Seq(Nat) /\ Len(a) = n /\ Len(b) = n + 1
  OBVIOUS
<1>2. \A i \in 1..n : a[i] = i
  BY Zenon
<1>3. \A i \in 1..(n+1) : b[i] = i
  BY Zenon
<1> HIDE DEF a, b
<1>4. Append(a, n + 1) \in Seq(Nat) /\ Len(Append(a, n+1)) = n + 1
  BY <1>1
<1>5. \A i \in 1..(n+1) : Append(a, n + 1)[i] = i
  BY <1>1, <1>2
<1>6. Append(a, n+1) = b
  BY <1>1, <1>3, <1>4, <1>5
<1> QED BY <1>6, Zenon DEF a, b

\* The keys typed so far and the next one.
TypedAre(q, n) == q = [i \in 1..n |-> i]

\* A key typed is the next one, behind all the others.
LEMMA TypeNext ==
  ASSUME NEW a \in Seq(Nat), NEW b \in Seq(Nat), NEW n \in Nat, TypedAre(a \o b, n)
  PROVE  TypedAre(a \o Append(b, n + 1), n + 1)
<1>1. a \o Append(b, n + 1) = Append(a \o b, n + 1)
  OBVIOUS
<1>2. Append([i \in 1..n |-> i], n + 1) = [i \in 1..(n + 1) |-> i]
  BY Counting, Zenon
<1> QED BY <1>1, <1>2, Zenon DEF TypedAre

USE JringAssumption

-----------------------------------------------------------------------------
(* Types. *)

Pcs == {"start", "run", "reap", "svc", "enter", "exited"}
Cqe == [tag : Nat, res : Int]

Worlds ==
    [count : Nat, parent : [Pids -> Pids \union {None}], exitWaiter : [Pids -> Nat \union {None}],
     pending : [Pids -> [Slots -> Sqe \union {None}]], cq : [Pids -> Seq(Cqe)],
     input : Seq(Nat), rxMasked : BOOLEAN, got : [Pids -> Seq(Nat)]]

\* Parts of a world.
LEMMA WorldParts ==
  ASSUME NEW w \in Worlds
  PROVE  w.pending \in [Pids -> [Slots -> Sqe \union {None}]] /\ w.input \in Seq(Nat) /\ Len(w.input) \in Nat
<1>1. w.pending \in [Pids -> [Slots -> Sqe \union {None}]] /\ w.input \in Seq(Nat)
  BY Zenon DEF Worlds
<1> QED BY <1>1

\* The shell's pending reads when one is completed.
Emptied(f, s) == [f EXCEPT ![Shell] = [@ EXCEPT ![s] = None]]

\* The other slots stay.
LEMMA SlotEmptied ==
  ASSUME Shell \in Pids, NEW f \in [Pids -> [Slots -> Sqe \union {None}]], NEW s \in Slots
  PROVE  /\ \A t \in Slots : Emptied(f, s)[Shell][t] = IF t = s THEN None ELSE f[Shell][t]
         /\ \A q \in Pids \ {Shell} : Emptied(f, s)[q] = f[q]
  BY DEF Emptied

\* The state next to the world.
SideType ==
    /\ exitCode \in [Pids -> {None, 0, -1}]
    /\ hasRing \in [Pids -> BOOLEAN]
    /\ ringWaiter \in [Pids -> BOOLEAN]
    /\ blocked \in [Pids -> BOOLEAN]
    /\ sq \in [Pids -> Seq(Sqe)]
    /\ device \in Seq(Nat) /\ typed \in Nat
    /\ nextTag \in [Pids -> Nat]
    /\ stash \in [Pids -> SUBSET Cqe]
    /\ want \in [Pids -> Nat \union {None}]
    /\ pc \in [Pids -> Pcs]
    /\ inflight \in [Pids -> SUBSET Sqe]

TypeOK == World \in Worlds /\ count > 0 /\ SideType

\* The table has room for every spawn that is queued.
RoomForSpawns ==
    /\ IsFiniteSet(QueuedSpawns)
    /\ count + Cardinality(QueuedSpawns) <= NumProcs

-----------------------------------------------------------------------------
(* The operations of the kernel on a world. *)

\* The completion queues once complete() has run.
Posted(q, p, tag, res) ==
    IF Len(q[p]) >= CqEntries THEN q
    ELSE [q EXCEPT ![p] = Append(@, [tag |-> tag, res |-> res])]

SameTable(w, v) == v.count = w.count /\ v.parent = w.parent
SameParked(w, v) == v.pending = w.pending /\ v.exitWaiter = w.exitWaiter
SameConsole(w, v) == v.input = w.input /\ v.rxMasked = w.rxMasked /\ v.got = w.got

\* Writing fields of a world leaves the others alone.
LEMMA SetCq ==
  ASSUME NEW w \in Worlds, NEW x \in [Pids -> Seq(Cqe)]
  PROVE  LET v == [w EXCEPT !.cq = x]
         IN  /\ v \in Worlds
             /\ SameTable(w, v) /\ SameParked(w, v) /\ SameConsole(w, v)
             /\ v.cq = x
  BY Zenon DEF Worlds, SameTable, SameParked, SameConsole

\* The same for the slots of parked reads ...
LEMMA SetPending ==
  ASSUME NEW w \in Worlds, NEW x \in [Pids -> [Slots -> Sqe \union {None}]]
  PROVE  LET v == [w EXCEPT !.pending = x]
         IN  /\ v \in Worlds
             /\ SameTable(w, v) /\ SameConsole(w, v)
             /\ v.pending = x /\ v.exitWaiter = w.exitWaiter /\ v.cq = w.cq
  BY Zenon DEF Worlds, SameTable, SameConsole

\* ... and for the parked waits.
LEMMA SetExitWaiter ==
  ASSUME NEW w \in Worlds, NEW x \in [Pids -> Nat \union {None}]
  PROVE  LET v == [w EXCEPT !.exitWaiter = x]
         IN  /\ v \in Worlds
             /\ SameTable(w, v) /\ SameConsole(w, v)
             /\ v.exitWaiter = x /\ v.pending = w.pending /\ v.cq = w.cq
  BY Zenon DEF Worlds, SameTable, SameConsole

\* complete() writes the completion queue of the process only.
LEMMA CompleteIs ==
  ASSUME NEW w \in Worlds, NEW p \in Pids, NEW tag \in Nat, NEW res \in Int
  PROVE  LET v == Complete(w, p, tag, res)
         IN  /\ v \in Worlds
             /\ SameTable(w, v) /\ SameParked(w, v) /\ SameConsole(w, v)
             /\ v.cq = Posted(w.cq, p, tag, res)
<1> DEFINE x == [w.cq EXCEPT ![p] = Append(@, [tag |-> tag, res |-> res])]
           v == Complete(w, p, tag, res)
<1>1. x \in [Pids -> Seq(Cqe)]
  BY DEF Worlds, Cqe
<1>2. v = IF Len(w.cq[p]) >= CqEntries THEN w ELSE [w EXCEPT !.cq = x]
  BY Zenon DEF Complete
<1>3. Posted(w.cq, p, tag, res) = IF Len(w.cq[p]) >= CqEntries THEN w.cq ELSE x
  BY Zenon DEF Posted
<1>4. SameTable(w, w) /\ SameParked(w, w) /\ SameConsole(w, w)
  BY Zenon DEF SameTable, SameParked, SameConsole
<1> SUFFICES /\ v \in Worlds
             /\ SameTable(w, v) /\ SameParked(w, v) /\ SameConsole(w, v)
             /\ v.cq = Posted(w.cq, p, tag, res)
  BY Zenon
<1> HIDE DEF x, v
<1> QED BY <1>1, <1>2, <1>3, <1>4, SetCq, Zenon

\* k bytes move from the input ring to the process, and the first byte out of a
\* full ring unmasks the interrupt.
Moved(w, v, p, k) ==
    /\ SameTable(w, v) /\ SameParked(w, v) /\ v.cq = w.cq
    /\ v.got = [w.got EXCEPT ![p] = @ \o SubSeq(w.input, 1, k)]
    /\ v.input = SubSeq(w.input, k + 1, Len(w.input))
    /\ v.rxMasked = (w.rxMasked /\ ~(k > 0 /\ Len(w.input) = InputCap))

\* drain_input() moves as many bytes as there are, and as the caller asks for.
LEMMA DrainInputIs ==
  ASSUME NEW w \in Worlds, NEW p \in Pids, NEW len \in Nat
  PROVE  /\ DrainInput(w, p, len) \in Worlds
         /\ Moved(w, DrainInput(w, p, len), p, InputCount(w, len))
         /\ InputCount(w, len) \in 0..Len(w.input) /\ InputCount(w, len) <= len
         /\ len > 0 /\ w.input # <<>> => InputCount(w, len) > 0
<1> DEFINE k == InputCount(w, len)
           g == [w.got EXCEPT ![p] = @ \o SubSeq(w.input, 1, k)]
           x == SubSeq(w.input, k + 1, Len(w.input))
           m == w.rxMasked /\ ~(k > 0 /\ Len(w.input) = InputCap)
<1>1. w.input \in Seq(Nat) /\ w.got \in [Pids -> Seq(Nat)] /\ w.rxMasked \in BOOLEAN
  BY Zenon DEF Worlds
<1>2. k \in 0..Len(w.input) /\ k <= len /\ (len > 0 /\ w.input # <<>> => k > 0)
  BY <1>1 DEF InputCount
<1>3. DrainInput(w, p, len) = [w EXCEPT !.got = g, !.input = x, !.rxMasked = m]
  BY Zenon DEF DrainInput
<1> HIDE DEF k
<1>4. g \in [Pids -> Seq(Nat)] /\ x \in Seq(Nat) /\ m \in BOOLEAN
  BY <1>1, <1>2
<1> HIDE DEF g, x, m
<1>5. LET v == [w EXCEPT !.got = g, !.input = x, !.rxMasked = m]
      IN  /\ v \in Worlds
          /\ SameTable(w, v) /\ SameParked(w, v) /\ v.cq = w.cq
          /\ v.got = g /\ v.input = x /\ v.rxMasked = m
  BY <1>4, Zenon DEF Worlds, SameTable, SameParked
<1>6. Moved(w, DrainInput(w, p, len), p, k) /\ DrainInput(w, p, len) \in Worlds
  BY <1>3, <1>5, Zenon DEF Moved, g, x, m
<1> QED BY <1>2, <1>6, Zenon DEF k

-----------------------------------------------------------------------------
(* One submission. *)

\* The request is answered at once: with a result that needs nothing else.
Answered(w, v, p, e) ==
    /\ SameTable(w, v) /\ SameParked(w, v) /\ SameConsole(w, v)
    /\ \E res \in Int :
        /\ v.cq = Posted(w.cq, p, e.tag, res)
        /\ \/ e.op = "nop" /\ res = 0
           \/ e.op # "nop" /\ e.op # "spawn" /\ res = ERR /\ (e.op = "read" => e.arg > 0)
           \/ e.op = "read" /\ e.arg = 0 /\ res = 0
           \/ /\ e.op = "wait" /\ e.arg \in Pids /\ e.arg < w.count /\ w.parent[e.arg] = p
              /\ exitCode[e.arg] # None /\ res = exitCode[e.arg]

\* The foreground reads what is buffered.
ReadNow(w, v, p, e) ==
    /\ e.op = "read" /\ e.arg > 0 /\ Foreground(p) /\ w.input # <<>>
    /\ SameTable(w, v) /\ SameParked(w, v)
    /\ LET k == InputCount(w, e.arg)
       IN  /\ k \in 1..Len(w.input) /\ k <= e.arg
           /\ \E d \in Worlds :
                /\ Moved(w, d, p, k)
                /\ SameConsole(d, v) /\ v.cq = Posted(w.cq, p, e.tag, k)

\* A child is created.
Spawned(w, v, p, e) ==
    /\ e.op = "spawn"
    /\ v.count = w.count + 1 /\ v.parent = [w.parent EXCEPT ![w.count] = p]
    /\ v.cq = Posted(w.cq, p, e.tag, w.count)
    /\ SameParked(w, v) /\ SameConsole(w, v)

\* The read is parked, in a slot that was free.
ParkedRead(w, v, p, e) ==
    /\ e.op = "read" /\ e.arg > 0 /\ ~(Foreground(p) /\ w.input # <<>>)
    /\ \E s \in Slots :
        /\ w.pending[p][s] = None
        /\ v.pending = [w.pending EXCEPT ![p] = [@ EXCEPT ![s] = e]]
    /\ v.exitWaiter = w.exitWaiter /\ v.cq = w.cq
    /\ SameTable(w, v) /\ SameConsole(w, v)

\* The wait is parked on a child that runs.
ParkedWait(w, v, p, e) ==
    /\ e.op = "wait" /\ e.arg \in Pids /\ e.arg < w.count /\ w.parent[e.arg] = p
    /\ exitCode[e.arg] = None
    /\ v.exitWaiter = [w.exitWaiter EXCEPT ![e.arg] = e.tag]
    /\ v.pending = w.pending /\ v.cq = w.cq
    /\ SameTable(w, v) /\ SameConsole(w, v)

\* OP_READ does one of three things.
LEMMA ReadIs ==
  ASSUME LibraryFacts, NEW w \in Worlds, NEW p \in Pids, NEW e \in Sqe, e.op = "read"
  PROVE  LET v == Read(w, p, e)
         IN  v \in Worlds /\ (Answered(w, v, p, e) \/ ReadNow(w, v, p, e) \/ ParkedRead(w, v, p, e))
<1> DEFINE v == Read(w, p, e)
<1> SUFFICES v \in Worlds /\ (Answered(w, v, p, e) \/ ReadNow(w, v, p, e) \/ ParkedRead(w, v, p, e))
  BY Zenon
<1>0. e.tag \in Nat /\ e.arg \in Nat /\ 0 \in Int /\ ERR \in Int
  BY DEF Sqe, ERR
<1>1. CASE e.arg = 0
  <2>1. v = Complete(w, p, e.tag, 0)
    BY <1>1, Zenon DEF Read
  <2> HIDE DEF v
  <2>2. /\ v \in Worlds /\ SameTable(w, v) /\ SameParked(w, v) /\ SameConsole(w, v)
        /\ v.cq = Posted(w.cq, p, e.tag, 0)
    BY <1>0, <2>1, CompleteIs, Zenon
  <2> QED BY <1>0, <1>1, <2>2, Zenon DEF Answered
<1>2. CASE e.arg # 0 /\ Foreground(p) /\ w.input # <<>>
  <2> DEFINE d == DrainInput(w, p, e.arg)
             k == InputCount(w, e.arg)
  <2>1. v = Complete(d, p, e.tag, k)
    BY <1>2, Zenon DEF Read
  <2>2. Len(w.input) \in Nat
    BY DEF Worlds
  <2>3. /\ d \in Worlds /\ Moved(w, d, p, k)
        /\ k \in 0..Len(w.input) /\ k <= e.arg /\ (e.arg > 0 /\ w.input # <<>> => k > 0)
    BY <1>0, DrainInputIs, Zenon
  <2> HIDE DEF v, d
  <2>4. k \in 1..Len(w.input) /\ k \in Int /\ e.arg > 0
    BY <1>0, <1>2, <2>2, <2>3
  <2>5. /\ v \in Worlds /\ SameTable(d, v) /\ SameParked(d, v) /\ SameConsole(d, v)
        /\ v.cq = Posted(d.cq, p, e.tag, k)
    BY <1>0, <2>1, <2>3, <2>4, CompleteIs, ZenonT(60)
  <2>6. /\ SameTable(w, v) /\ SameParked(w, v)
        /\ v.cq = Posted(w.cq, p, e.tag, k)
    BY <2>3, <2>5, Zenon DEF SameTable, SameParked, Moved
  <2>7. ReadNow(w, v, p, e)
    BY <1>2, <2>3, <2>4, <2>5, <2>6, Zenon DEF ReadNow
  <2> QED BY <2>5, <2>7, Zenon
<1>3. CASE e.arg # 0 /\ ~(Foreground(p) /\ w.input # <<>>) /\ FreeSlots(w, p) = {}
  <2>1. v = Complete(w, p, e.tag, ERR)
    BY <1>3, Zenon DEF Read
  <2> HIDE DEF v
  <2>2. /\ v \in Worlds /\ SameTable(w, v) /\ SameParked(w, v) /\ SameConsole(w, v)
        /\ v.cq = Posted(w.cq, p, e.tag, ERR)
    BY <1>0, <2>1, CompleteIs, Zenon
  <2> QED BY <1>0, <1>3, <2>2 DEF Answered
<1>4. CASE e.arg # 0 /\ ~(Foreground(p) /\ w.input # <<>>) /\ FreeSlots(w, p) # {}
  <2> DEFINE slot == CHOOSE s \in FreeSlots(w, p) : \A t \in FreeSlots(w, p) : s <= t
             x == [w.pending EXCEPT ![p] = [@ EXCEPT ![slot] = e]]
  <2>1. slot \in Slots /\ w.pending[p][slot] = None
    <3>1. FreeSlots(w, p) \in SUBSET Nat
      BY DEF FreeSlots, Slots
    <3>2. slot \in FreeSlots(w, p)
      BY <1>4, <3>1, LeastNat, Zenon
    <3> QED BY <3>2, Zenon DEF FreeSlots
  <2>2. v = [w EXCEPT !.pending = x]
    BY <1>4, Zenon DEF Read, ParkRead
  <2> HIDE DEF slot
  <2>3. x \in [Pids -> [Slots -> Sqe \union {None}]]
    BY <2>1, Zenon DEF Worlds
  <2>4. x = [w.pending EXCEPT ![p] = [@ EXCEPT ![slot] = e]]
    BY Zenon
  <2> HIDE DEF x, v
  <2>5. /\ v \in Worlds /\ v.pending = x /\ v.exitWaiter = w.exitWaiter /\ v.cq = w.cq
        /\ SameTable(w, v) /\ SameConsole(w, v)
    BY <2>2, <2>3, SetPending, Zenon
  <2>6. e.arg > 0
    BY <1>0, <1>4
  <2> QED BY <1>4, <2>1, <2>4, <2>5, <2>6, Zenon DEF ParkedRead
<1> QED BY <1>1, <1>2, <1>3, <1>4, Zenon

\* spawn() adds a child of the caller to the table.
LEMMA SpawnIs ==
  ASSUME NEW w \in Worlds, NEW p \in Pids, NEW e \in Sqe, e.op = "spawn"
  PROVE  Spawn(w, p, e) \in Worlds /\ Spawned(w, Spawn(w, p, e), p, e)
<1> DEFINE v == Spawn(w, p, e)
           x == [w.parent EXCEPT ![w.count] = p]
           n == w.count + 1
           t == [w EXCEPT !.count = n, !.parent = x]
<1>1. e.tag \in Nat /\ w.count \in Nat /\ w.count \in Int /\ n \in Nat
  BY DEF Sqe, Worlds
<1>2. x \in [Pids -> Pids \union {None}]
  BY Zenon DEF Worlds
<1>3. v = Complete(t, p, e.tag, w.count)
  BY Zenon DEF Spawn
<1>4. /\ t \in Worlds /\ SameParked(w, t) /\ SameConsole(w, t)
      /\ t.count = n /\ t.parent = x /\ t.cq = w.cq
  <2> HIDE DEF x, n
  <2> QED BY <1>1, <1>2, Zenon DEF Worlds, SameParked, SameConsole
<1> HIDE DEF t, v, x, n
<1>5. /\ v \in Worlds /\ SameTable(t, v) /\ SameParked(t, v) /\ SameConsole(t, v)
      /\ v.cq = Posted(t.cq, p, e.tag, w.count)
  BY <1>1, <1>3, <1>4, CompleteIs, ZenonT(60)
<1>6. Spawned(w, v, p, e)
  BY <1>4, <1>5, Zenon DEF Spawned, SameTable, SameParked, SameConsole, x, n
<1> QED BY <1>5, <1>6, Zenon DEF v

\* wait() answers for what is not a running child, and parks on one that is.
LEMMA WaitIs ==
  ASSUME NEW w \in Worlds, NEW p \in Pids, NEW e \in Sqe, e.op = "wait",
         w.count <= NumProcs, exitCode \in [Pids -> {None, 0, -1}]
  PROVE  /\ Wait(w, p, e) \in Worlds
         /\ Answered(w, Wait(w, p, e), p, e) \/ ParkedWait(w, Wait(w, p, e), p, e)
<1> DEFINE v == Wait(w, p, e)
<1>1. e.tag \in Nat /\ e.arg \in Nat /\ ERR \in Int /\ w.count \in Nat
  BY DEF Sqe, ERR, Worlds
<1>2. CASE e.arg >= w.count \/ w.parent[e.arg] # p
  <2>1. v = Complete(w, p, e.tag, ERR)
    BY <1>2, Zenon DEF Wait
  <2> HIDE DEF v
  <2>2. /\ v \in Worlds /\ SameTable(w, v) /\ SameParked(w, v) /\ SameConsole(w, v)
        /\ v.cq = Posted(w.cq, p, e.tag, ERR)
    BY <1>1, <2>1, CompleteIs, ZenonT(60)
  <2>3. Answered(w, v, p, e)
    BY <1>1, <2>2, Zenon DEF Answered
  <2> QED BY <2>2, <2>3, Zenon DEF v
<1>3. CASE ~(e.arg >= w.count \/ w.parent[e.arg] # p)
  <2>1. e.arg \in Pids /\ e.arg < w.count /\ w.parent[e.arg] = p
    BY <1>1, <1>3 DEF Pids
  <2>2. CASE exitCode[e.arg] # None
    <3>1. v = Complete(w, p, e.tag, exitCode[e.arg])
      BY <1>3, <2>2, Zenon DEF Wait
    <3> HIDE DEF v
    <3>2. exitCode[e.arg] \in Int
      BY <2>1, <2>2
    <3>3. /\ v \in Worlds /\ SameTable(w, v) /\ SameParked(w, v) /\ SameConsole(w, v)
          /\ v.cq = Posted(w.cq, p, e.tag, exitCode[e.arg])
      BY <1>1, <3>1, <3>2, CompleteIs, ZenonT(60)
    <3>4. Answered(w, v, p, e)
      BY <2>1, <2>2, <3>2, <3>3, Zenon DEF Answered
    <3> QED BY <3>3, <3>4, Zenon DEF v
  <2>3. CASE exitCode[e.arg] = None
    <3> DEFINE x == [w.exitWaiter EXCEPT ![e.arg] = e.tag]
    <3>1. v = [w EXCEPT !.exitWaiter = x]
      BY <1>3, <2>3, Zenon DEF Wait
    <3>2. x \in [Pids -> Nat \union {None}]
      BY <1>1, Zenon DEF Worlds
    <3>3. x = [w.exitWaiter EXCEPT ![e.arg] = e.tag]
      BY Zenon
    <3> HIDE DEF x, v
    <3>4. /\ v \in Worlds /\ SameTable(w, v) /\ SameConsole(w, v)
          /\ v.exitWaiter = x /\ v.pending = w.pending /\ v.cq = w.cq
      BY <3>1, <3>2, SetExitWaiter, Zenon
    <3>5. ParkedWait(w, v, p, e)
      BY <2>1, <2>3, <3>3, <3>4, Zenon DEF ParkedWait
    <3> QED BY <3>4, <3>5, Zenon DEF v
  <2> QED BY <2>2, <2>3, Zenon
<1> QED BY <1>2, <1>3, Zenon

\* What one submission does to the world.
Processed(w, v, p, e) ==
    \/ Answered(w, v, p, e) \/ ReadNow(w, v, p, e) \/ Spawned(w, v, p, e)
    \/ ParkedRead(w, v, p, e) \/ ParkedWait(w, v, p, e)

\* Whichever of them it does, process_sqe posts at most one completion, the request's.
LEMMA PostsOnce ==
  ASSUME NEW w \in Worlds, NEW v \in Worlds, NEW p \in Pids, NEW e \in Sqe, Processed(w, v, p, e)
  PROVE  v.cq = w.cq \/ \E res \in Int : v.cq = Posted(w.cq, p, e.tag, res)
<1>1. w.count \in Int /\ \A k \in 1..Len(w.input) : k \in Int
  <2>1. w.count \in Nat /\ w.input \in Seq(Nat)
    BY Zenon DEF Worlds
  <2> QED BY <2>1
<1>2. CASE Answered(w, v, p, e)
  BY <1>2, Zenon DEF Answered
<1>3. CASE ReadNow(w, v, p, e)
  BY <1>1, <1>3, Zenon DEF ReadNow
<1>4. CASE Spawned(w, v, p, e)
  BY <1>1, <1>4, Zenon DEF Spawned
<1>5. CASE ParkedRead(w, v, p, e) \/ ParkedWait(w, v, p, e)
  BY <1>5, Zenon DEF ParkedRead, ParkedWait
<1> QED BY <1>2, <1>3, <1>4, <1>5, Zenon DEF Processed

\* process_sqe answers, reads, spawns or parks, and does nothing else.
LEMMA ProcessSqeIs ==
  ASSUME LibraryFacts, NEW w \in Worlds, NEW p \in Pids, NEW e \in Sqe,
         w.count <= NumProcs, exitCode \in [Pids -> {None, 0, -1}]
  PROVE  ProcessSqe(w, p, e) \in Worlds /\ Processed(w, ProcessSqe(w, p, e), p, e)
<1> DEFINE v == ProcessSqe(w, p, e)
<1>0. e.op \in {"nop", "bad", "read", "spawn", "wait"} /\ e.tag \in Nat /\ 0 \in Int /\ ERR \in Int
  BY DEF Sqe, ERR
<1>1. CASE e.op = "nop"
  <2>1. v = Complete(w, p, e.tag, 0)
    BY <1>1, Zenon DEF ProcessSqe
  <2> HIDE DEF v
  <2>2. /\ v \in Worlds /\ SameTable(w, v) /\ SameParked(w, v) /\ SameConsole(w, v)
        /\ v.cq = Posted(w.cq, p, e.tag, 0)
    BY <1>0, <2>1, CompleteIs, Zenon
  <2>3. Answered(w, v, p, e)
    BY <1>0, <1>1, <2>2, Zenon DEF Answered
  <2> QED BY <2>2, <2>3, Zenon DEF v, Processed
<1>2. CASE e.op = "bad"
  <2>1. v = Complete(w, p, e.tag, ERR)
    BY <1>2, Zenon DEF ProcessSqe
  <2> HIDE DEF v
  <2>2. /\ v \in Worlds /\ SameTable(w, v) /\ SameParked(w, v) /\ SameConsole(w, v)
        /\ v.cq = Posted(w.cq, p, e.tag, ERR)
    BY <1>0, <2>1, CompleteIs, ZenonT(60)
  <2>3. Answered(w, v, p, e)
    BY <1>0, <1>2, <2>2, Zenon DEF Answered
  <2> QED BY <2>2, <2>3, Zenon DEF v, Processed
<1>3. CASE e.op = "read"
  <2>1. v = Read(w, p, e)
    BY <1>3, Zenon DEF ProcessSqe
  <2> QED BY <1>3, <2>1, ReadIs, Zenon DEF Processed
<1>4. CASE e.op = "spawn"
  <2>1. v = Spawn(w, p, e)
    BY <1>4, Zenon DEF ProcessSqe
  <2> QED BY <1>4, <2>1, SpawnIs, Zenon DEF Processed
<1>5. CASE e.op = "wait"
  <2>1. v = Wait(w, p, e)
    BY <1>5, Zenon DEF ProcessSqe
  <2> QED BY <1>5, <2>1, WaitIs, Zenon DEF Processed
<1> QED BY <1>0, <1>1, <1>2, <1>3, <1>4, <1>5, Zenon

-----------------------------------------------------------------------------
(* The loops. *)

\* Induction along drain(): G[i] is what may hold after i submissions.
LEMMA DrainInduction ==
  ASSUME LibraryFacts, NEW p \in Pids, sq \in [Pids -> Seq(Sqe)],
         NEW G, World \in G[0],
         \A i \in 1..Len(sq[p]) : \A w \in G[i - 1] : ProcessSqe(w, p, sq[p][i]) \in G[i]
  PROVE  Drain(p) \in G[Len(sq[p])]
<1>1. Drain(p) = DrainLoop!Folded(World, p, sq[p])
  BY Zenon DEF Drain, DrainLoop!Folded, Loop, DrainLoop!Loop, MapThenFoldSet,
         DrainLoop!MapThenFoldSet, Largest, DrainLoop!Largest
<1>2. DOMAIN sq[p] = 1..Len(sq[p]) /\ Len(sq[p]) \in Nat
  OBVIOUS
<1> DEFINE n == Len(sq[p])
           seq == sq[p]
           w0 == World
<1>3. n \in Nat /\ DOMAIN seq = 1..n /\ w0 \in G[0] /\ Drain(p) = DrainLoop!Folded(w0, p, seq)
  BY <1>1, <1>2, Zenon
<1>4. \A i \in 1..n : \A w \in G[i - 1] : ProcessSqe(w, p, seq[i]) \in G[i]
  BY Zenon
<1> HIDE DEF n, seq, w0
<1>5. DrainLoop!Folded(w0, p, seq) \in G[n]
  BY <1>3, <1>4, Inductive, DrainLoop!FoldPreserves, Zenon
<1> QED BY <1>3, <1>5, Zenon DEF n

\* Induction along poll_pending: G[s] is what may hold after slot s.
LEMMA PollInduction ==
  ASSUME LibraryFacts, NEW w0, NEW G, w0 \in G[0], Foreground(Shell) /\ hasRing[Shell],
         \A s \in Slots : \A w \in G[s - 1] : PollSlot(w, s) \in G[s]
  PROVE  PollPending(w0) \in G[MaxPending]
<1> DEFINE seq == [s \in Slots |-> s]
<1>1. PollPending(w0) = PollLoop!Folded(w0, 0, seq)
  BY Zenon DEF PollPending, PollLoop!Folded, Loop, PollLoop!Loop, MapThenFoldSet, PollBody,
         PollLoop!MapThenFoldSet, Largest, PollLoop!Largest
<1>2. DOMAIN seq = 1..MaxPending /\ MaxPending \in Nat
  BY Zenon DEF Slots
<1>3. \A s \in 1..MaxPending : \A w \in G[s - 1] : PollBody(w, 0, seq[s]) \in G[s]
  BY Zenon DEF PollBody, Slots
<1> HIDE DEF seq
<1>4. PollLoop!Folded(w0, 0, seq) \in G[MaxPending]
  BY <1>2, <1>3, Inductive, PollLoop!FoldPreserves, Zenon
<1> QED BY <1>1, <1>4, Zenon

\* A slot is left alone when it is empty or there is no input, else the read in it
\* is completed with input and the slot is free.
Served(w, v, s) ==
    LET e == w.pending[Shell][s]
        k == InputCount(w, e.arg)
    IN  /\ e # None /\ w.input # <<>>
        /\ SameTable(w, v) /\ v.exitWaiter = w.exitWaiter
        /\ v.pending = [w.pending EXCEPT ![Shell] = [@ EXCEPT ![s] = None]]
        /\ k \in 0..Len(w.input) /\ k <= e.arg /\ (e.arg > 0 => k > 0)
        /\ \E d \in Worlds :
            /\ Moved(w, d, Shell, k)
            /\ SameConsole(d, v) /\ v.cq = Posted(w.cq, Shell, e.tag, k)

\* What poll_pending does with one slot.
LEMMA PollSlotIs ==
  ASSUME NEW w \in Worlds, NEW s \in Slots
  PROVE  /\ PollSlot(w, s) \in Worlds
         /\ \/ PollSlot(w, s) = w /\ (w.pending[Shell][s] = None \/ w.input = <<>>)
            \/ Served(w, PollSlot(w, s), s)
<1> DEFINE e == w.pending[Shell][s]
           k == InputCount(w, e.arg)
           d == DrainInput(w, Shell, e.arg)
           c == Complete(d, Shell, e.tag, k)
           x == [w.pending EXCEPT ![Shell] = [@ EXCEPT ![s] = None]]
           v == [c EXCEPT !.pending = x]
<1>0. Shell \in Pids
  BY DEF Shell, Pids
<1>1. CASE e = None \/ w.input = <<>>
  BY <1>1, Zenon DEF PollSlot
<1>2. CASE e # None /\ w.input # <<>>
  <2>1. e \in Sqe /\ e.arg \in Nat /\ e.tag \in Nat /\ Len(w.input) \in Nat
    BY <1>0, <1>2 DEF Worlds, Sqe
  <2>2. /\ d \in Worlds /\ Moved(w, d, Shell, k)
        /\ k \in 0..Len(w.input) /\ k <= e.arg /\ (e.arg > 0 /\ w.input # <<>> => k > 0)
    BY <1>0, <2>1, DrainInputIs, Zenon
  <2>3. PollSlot(w, s) = [c EXCEPT !.pending = [c.pending EXCEPT ![Shell] = [@ EXCEPT ![s] = None]]]
    BY <1>2, Zenon DEF PollSlot
  <2>4. x \in [Pids -> [Slots -> Sqe \union {None}]]
    BY <1>0, Zenon DEF Worlds
  <2>5. k \in Int
    BY <2>1, <2>2
  <2> HIDE DEF d, e
  <2>6. /\ c \in Worlds /\ SameTable(d, c) /\ SameParked(d, c) /\ SameConsole(d, c)
        /\ c.cq = Posted(d.cq, Shell, e.tag, k)
    BY <1>0, <2>1, <2>2, <2>5, CompleteIs, Zenon
  <2> HIDE DEF c
  <2>7. c.pending = w.pending /\ c.exitWaiter = w.exitWaiter /\ SameTable(w, c) /\ d.cq = w.cq
    BY <2>2, <2>6, Zenon DEF SameTable, SameParked, Moved
  <2>8. PollSlot(w, s) = v
    BY <2>3, <2>7, Zenon
  <2> HIDE DEF x
  <2>9. /\ v \in Worlds /\ SameTable(c, v) /\ SameConsole(c, v)
        /\ v.pending = x /\ v.exitWaiter = c.exitWaiter /\ v.cq = c.cq
    BY <2>4, <2>6, SetPending, Zenon
  <2> HIDE DEF v
  <2>10. /\ SameTable(w, v) /\ SameConsole(d, v) /\ v.exitWaiter = w.exitWaiter
         /\ v.cq = Posted(w.cq, Shell, e.tag, k)
    BY <2>6, <2>7, <2>9, Zenon DEF SameTable, SameConsole
  <2>11. Served(w, v, s)
    BY <1>2, <2>2, <2>9, <2>10, Zenon DEF Served, x, e
  <2> QED BY <2>8, <2>9, <2>11, Zenon
<1> QED BY <1>1, <1>2, Zenon

-----------------------------------------------------------------------------
(* The inductive invariant. *)

Active == {"run", "reap", "svc", "enter"}

\* A process has requests only between SYS_RING_SETUP and its exit.
LifeInv ==
    \A p \in Pids :
        /\ hasRing[p] <=> pc[p] \in Active
        /\ exitCode[p] # None <=> pc[p] = "exited"
        /\ pc[p] # "start" => p < count
        /\ ~hasRing[p] =>
            /\ inflight[p] = {} /\ sq[p] = <<>> /\ cq[p] = <<>> /\ stash[p] = {}
            /\ \A s \in Slots : pending[p][s] = None

\* The requests in flight are told apart by their tags.
TagsOK(fl, q, next) ==
    /\ next > 0
    /\ \A e \in fl : e.tag \in 1..(next - 1) /\ (e.op = "wait" => e.arg \in Pids)
    /\ \A e, f \in fl : e.tag = f.tag => e = f
    /\ \A i, j \in DOMAIN q : q[i] = q[j] => i = j
    /\ IsFiniteSet(fl) /\ Cardinality(fl) <= InFlight
    /\ ~WaitTwice => \A e, f \in fl :
                        e.op = "wait" /\ f.op = "wait" /\ e.arg = f.arg => e = f

TagInv == \A p \in Pids : TagsOK(inflight[p], sq[p], nextTag[p])

\* What wait() is doing: the wanted completion has not been stashed, and a task
\* that blocks has submitted everything, is registered and has nothing to reap.
WaitInv ==
    \A p \in Pids :
        /\ pc[p] \in {"reap", "svc", "enter"} =>
            (\E e \in inflight[p] : e.tag = want[p]) /\ (\A c \in stash[p] : c.tag # want[p])
        /\ pc[p] = "enter" => sq[p] = <<>>
        /\ blocked[p] => pc[p] = "enter" /\ ringWaiter[p] /\ cq[p] = <<>>

\* The table is filled from the front.
TableOK(w) == \A c \in Pids : w.parent[c] # None => c < w.count

\* Where a request of p is: parked in a slot, parked on a child, or completed.
InSlot(w, p, e) == \E s \in Slots : w.pending[p][s] = e
OnChild(w, p, e) ==
    e.op = "wait" /\ e.arg \in Pids /\ w.parent[e.arg] = p /\ w.exitWaiter[e.arg] = e.tag
Parked(w, p, e) == InSlot(w, p, e) \/ OnChild(w, p, e)
Completed(q, st, e) == \E c \in Range(q) \union st : c.tag = e.tag

\* TrueResult, in a world and with the exit codes xc.
ResultIn(w, p, e, res, xc) ==
    CASE e.op = "nop"   -> res = 0
      [] e.op = "bad"   -> res = ERR
      [] e.op = "read"  -> res \in (IF e.arg = 0 THEN {0} ELSE {ERR} \union 1..e.arg)
      [] e.op = "spawn" -> res \in Pids /\ w.parent[res] = p
      [] e.op = "wait"  -> res = ERR \/ (w.parent[e.arg] = p /\ res = xc[e.arg])

\* Parked reads are requests in flight, each in a slot of its own.
SlotsOK(w, p, fl) ==
    /\ \A s \in Slots : w.pending[p][s] # None =>
            w.pending[p][s] \in fl /\ w.pending[p][s].op = "read" /\ w.pending[p][s].arg > 0
    /\ \A s, t \in Slots : w.pending[p][s] = w.pending[p][t] /\ w.pending[p][s] # None => s = t

\* Of the requests fl that p has in flight, those in Q are still in the submission
\* queue; none of them, and none that is parked, is completed; st is the stash.
PlacesOK(w, p, Q, fl, st) ==
    /\ Q \subseteq fl
    /\ \A e \in Q : ~Parked(w, p, e) /\ ~Completed(w.cq[p], st, e)
    /\ \A e \in fl : Parked(w, p, e) => ~Completed(w.cq[p], st, e)

\* Every completion answers a request in flight, truly.
ResultsOK(w, p, fl, st, xc) ==
    \A c \in Range(w.cq[p]) \union st : \E e \in fl : e.tag = c.tag /\ ResultIn(w, p, e, c.res, xc)

\* No two completions have the same tag.
CompsOK(q, st) ==
    /\ \A i, j \in DOMAIN q : q[i].tag = q[j].tag => i = j
    /\ \A i \in DOMAIN q : \A c \in st : q[i].tag # c.tag
    /\ \A c, d \in st : c.tag = d.tag => c = d

ReqOK(w, p, Q, fl, st, xc) ==
    SlotsOK(w, p, fl) /\ PlacesOK(w, p, Q, fl, st) /\ ResultsOK(w, p, fl, st, xc) /\ CompsOK(w.cq[p], st)

\* A wait is parked on a running child, by a parent that has it in flight unless it
\* has exited.
WaitersOK(w, fls, xc) ==
    \A c \in Pids :
        w.exitWaiter[c] # None =>
            /\ w.parent[c] # None /\ xc[c] = None
            /\ \/ xc[w.parent[c]] # None
               \/ \E e \in fls[w.parent[c]] : e.arg = c /\ OnChild(w, w.parent[c], e)

\* No request is lost.
KeptOK(w, p, Q, fl, st) ==
    \A e \in fl : e \in Q \/ Parked(w, p, e) \/ Completed(w.cq[p], st, e)

\* The program asks for no more than the queue and the stash can hold, and waits
\* once for a child.
Sized == ~WaitTwice /\ InFlight <= CqEntries /\ InFlight <= StashSlots + 1

\* The requests of one process: accounted for and, with queues of the right size,
\* none lost.
ProcOK(w, p, Q, fl, st, xc) ==
    ReqOK(w, p, Q, fl, st, xc) /\ (Sized => KeptOK(w, p, Q, fl, st))

SystemOK(w, qs, fls, sts, xc) ==
    /\ TableOK(w) /\ WaitersOK(w, fls, xc)
    /\ \A p \in Pids : ProcOK(w, p, Range(qs[p]), fls[p], sts[p], xc)

RequestInv == SystemOK(World, sq, inflight, stash, exitCode)

\* The keyboard as a queue, and its flow control: dev is in the device after n keys.
ConsoleOK(w, dev, n) ==
    /\ w.got[Shell] \o w.input \o dev = [i \in 1..n |-> i]
    /\ \A p \in Pids \ {Shell} : w.got[p] = <<>>
    /\ w.rxMasked <=> Len(w.input) = InputCap
    /\ Len(w.input) <= InputCap

\* A running foreground process has reads parked only while there is no input.
ReadersOK(w, code) ==
    code = None /\ (\E s \in Slots : w.pending[Shell][s] # None) => w.input = <<>>

ConsoleInv == ConsoleOK(World, device, typed) /\ ReadersOK(World, exitCode[Shell])

JringInv ==
    /\ TypeOK /\ RoomForSpawns /\ LifeInv /\ TagInv /\ WaitInv
    /\ RequestInv /\ ConsoleInv

-----------------------------------------------------------------------------
(* Processes. *)

\* None is no process, and the shell is one.
LEMMA PidFacts == None \notin Pids /\ Shell \in Pids /\ \A p \in Pids : p \in Int
  BY DEF Pids, Shell

-----------------------------------------------------------------------------
(* Completing and parking a request. *)

\* complete(), for a request e that is in flight and not completed: the tags of the
\* completions stay distinct.
LEMMA PostComps ==
  ASSUME NEW q \in [Pids -> Seq(Cqe)], NEW p \in Pids, NEW st \in SUBSET Cqe,
         NEW tag \in Nat, NEW res \in Int,
         CompsOK(q[p], st), \A c \in Range(q[p]) \union st : c.tag # tag
  PROVE  CompsOK(Posted(q, p, tag, res)[p], st)
<1> DEFINE x == [tag |-> tag, res |-> res]
           r == Append(q[p], x)
<1>1. CASE Len(q[p]) >= CqEntries
  BY <1>1, Zenon DEF Posted
<1>2. CASE ~(Len(q[p]) >= CqEntries)
  <2>1. Posted(q, p, tag, res)[p] = r
    BY <1>2, Zenon DEF Posted
  <2>2. x \in Cqe /\ x.tag = tag
    BY Zenon DEF Cqe
  <2>3. /\ DOMAIN r = 1..(Len(q[p]) + 1) /\ DOMAIN q[p] = 1..Len(q[p])
        /\ \A i \in 1..Len(q[p]) : r[i] = q[p][i]
        /\ r[Len(q[p]) + 1] = x
    BY <2>2
  <2>4. \A i \in 1..Len(q[p]) : q[p][i].tag # tag
    BY <2>3, Zenon DEF Range
  <2>5. \A c \in st : c.tag # tag
    BY Zenon
  <2> HIDE DEF r, x
  <2>6. \A i \in DOMAIN r : i \in 1..Len(q[p]) \/ i = Len(q[p]) + 1
    BY <2>3
  <2>7. \A i, j \in 1..Len(q[p]) : q[p][i].tag = q[p][j].tag => i = j
    BY <2>3, Zenon DEF CompsOK
  <2>8. ASSUME NEW i \in DOMAIN r, NEW j \in DOMAIN r, r[i].tag = r[j].tag PROVE i = j
    <3>1. CASE i \in 1..Len(q[p]) /\ j \in 1..Len(q[p])
      BY <2>3, <2>7, <2>8, <3>1, Zenon
    <3>2. CASE i = Len(q[p]) + 1 /\ j \in 1..Len(q[p])
      BY <2>2, <2>3, <2>4, <2>8, <3>2, Zenon
    <3>3. CASE j = Len(q[p]) + 1 /\ i \in 1..Len(q[p])
      BY <2>2, <2>3, <2>4, <2>8, <3>3, Zenon
    <3> QED BY <2>6, <3>1, <3>2, <3>3, Zenon
  <2>9. ASSUME NEW i \in DOMAIN r, NEW c \in st PROVE r[i].tag # c.tag
    <3>1. CASE i \in 1..Len(q[p])
      BY <2>3, <3>1 DEF CompsOK
    <3>2. CASE i = Len(q[p]) + 1
      BY <2>2, <2>3, <2>5, <3>2, Zenon
    <3> QED BY <2>6, <3>1, <3>2, Zenon
  <2>10. \A c, d \in st : c.tag = d.tag => c = d
    BY Zenon DEF CompsOK
  <2>11. CompsOK(r, st)
    BY <2>8, <2>9, <2>10, Zenon DEF CompsOK
  <2> QED BY <2>1, <2>11, Zenon
<1> QED BY <1>1, <1>2, Zenon

\* The completions after complete(): those before, and one for the tag unless the
\* queue was full.
LEMMA PostCompleted ==
  ASSUME NEW q \in [Pids -> Seq(Cqe)], NEW p \in Pids, NEW tag \in Nat, NEW res \in Int
  PROVE  /\ Posted(q, p, tag, res) \in [Pids -> Seq(Cqe)]
         /\ \A o \in Pids \ {p} : Posted(q, p, tag, res)[o] = q[o]
         /\ Range(q[p]) \subseteq Range(Posted(q, p, tag, res)[p])
         /\ Range(Posted(q, p, tag, res)[p]) \subseteq Range(q[p]) \union {[tag |-> tag, res |-> res]}
         /\ Len(q[p]) < CqEntries => [tag |-> tag, res |-> res] \in Range(Posted(q, p, tag, res)[p])
<1> DEFINE x == [tag |-> tag, res |-> res]
<1>1. x \in Cqe
  BY Zenon DEF Cqe
<1>2. Len(q[p]) \in Nat
  OBVIOUS
<1>3. CASE Len(q[p]) >= CqEntries
  BY <1>2, <1>3 DEF Posted
<1>4. CASE ~(Len(q[p]) >= CqEntries)
  <2> HIDE DEF x
  <2>1. Posted(q, p, tag, res) = [q EXCEPT ![p] = Append(@, x)]
    BY <1>4, Zenon DEF Posted, x
  <2>2. Range(Append(q[p], x)) = Range(q[p]) \union {x}
    BY <1>1, RangeAppend, Zenon
  <2>3. Append(q[p], x) \in Seq(Cqe)
    BY <1>1
  <2> QED BY <2>1, <2>2, <2>3, Zenon DEF x
<1> QED BY <1>3, <1>4, Zenon

\* A queue without the completion of e is not full.
LEMMA RoomInQueue ==
  ASSUME LibraryFacts, NEW q \in Seq(Cqe), NEW st \in SUBSET Cqe, NEW fl \in SUBSET Sqe, NEW e \in fl,
         IsFiniteSet(fl), ~Completed(q, st, e), CompsOK(q, st),
         \A c \in Range(q) : \E f \in fl : f.tag = c.tag
  PROVE  Len(q) < Cardinality(fl)
<1> DEFINE g == [i \in 1..Len(q) |-> CHOOSE f \in fl : f.tag = q[i].tag]
<1>1. Len(q) \in Nat /\ DOMAIN q = 1..Len(q)
  OBVIOUS
<1>2. \A i \in 1..Len(q) : q[i] \in Range(q)
  BY <1>1, Zenon DEF Range
<1>3. \A i \in 1..Len(q) : g[i] \in fl /\ g[i].tag = q[i].tag
  BY <1>2, Zenon
<1>4. \A i \in 1..Len(q) : g[i] # e
  BY <1>2, <1>3, Zenon DEF Completed
<1>5. \A i, j \in 1..Len(q) : g[i] = g[j] => i = j
  BY <1>1, <1>3 DEF CompsOK
<1>6. g \in [1..Len(q) -> fl \ {e}]
  BY <1>3, <1>4, Zenon
<1> HIDE DEF g
<1>7. g \in Injection(1..Len(q), fl \ {e})
  BY <1>5, <1>6, Zenon DEF Injection, IsInjective
<1>8. IsFiniteSet(fl \ {e}) /\ Cardinality(fl \ {e}) = Cardinality(fl) - 1
  BY CardRemove, Zenon
<1>9. Cardinality(1..Len(q)) <= Cardinality(fl \ {e})
  BY <1>7, <1>8, CardInjection, Zenon
<1>10. Cardinality(1..Len(q)) = Len(q)
  BY <1>1, CardInterval
<1>11. Cardinality(fl) \in Nat
  BY CardNat, Zenon
<1> QED BY <1>1, <1>8, <1>9, <1>10, <1>11

\* The requests that a process may have in flight.
FlightOK(fl) ==
    /\ fl \in SUBSET Sqe /\ IsFiniteSet(fl) /\ Cardinality(fl) <= InFlight
    /\ \A e \in fl : e.op = "wait" => e.arg \in Pids
    /\ \A e, f \in fl : e.tag = f.tag => e = f
    /\ ~WaitTwice => \A e, f \in fl :
                        e.op = "wait" /\ f.op = "wait" /\ e.arg = f.arg => e = f

\* What is true of a result stays true.
ResultsLast(w, v, p, fl, xc, xd) ==
    \A f \in fl : \A r \in Int : ResultIn(w, p, f, r, xc) => ResultIn(v, p, f, r, xd)

\* Completing a request that is in flight, and taking it from where it was.
LEMMA PostOK ==
  ASSUME LibraryFacts, NEW w \in Worlds, NEW v \in Worlds, NEW p \in Pids, NEW Q, NEW fl, FlightOK(fl),
         NEW st \in SUBSET Cqe, NEW xc, NEW xd,
         NEW e \in fl, NEW res \in Int,
         ProcOK(w, p, Q, fl, st, xc),
         ~Completed(w.cq[p], st, e),
         v.cq = Posted(w.cq, p, e.tag, res),
         \A f \in fl : Parked(v, p, f) <=> Parked(w, p, f) /\ f # e,
         SlotsOK(v, p, fl),
         ResultsLast(w, v, p, fl, xc, xd), ResultIn(v, p, e, res, xd)
  PROVE  ProcOK(v, p, Q \ {e}, fl, st, xd)
<1> DEFINE x == [tag |-> e.tag, res |-> res]
<1>0. /\ w.cq \in [Pids -> Seq(Cqe)] /\ w.cq[p] \in Seq(Cqe) /\ v.cq[p] \in Seq(Cqe)
      /\ e.tag \in Nat /\ x \in Cqe /\ x.tag = e.tag /\ x.res = res
      /\ fl \in SUBSET Sqe
  BY Zenon DEF Worlds, Sqe, Cqe, FlightOK
<1>1. /\ Range(w.cq[p]) \subseteq Range(v.cq[p])
      /\ Range(v.cq[p]) \subseteq Range(w.cq[p]) \union {x}
      /\ Len(w.cq[p]) < CqEntries => x \in Range(v.cq[p])
  <2>1. /\ Range(w.cq[p]) \subseteq Range(Posted(w.cq, p, e.tag, res)[p])
        /\ Range(Posted(w.cq, p, e.tag, res)[p]) \subseteq Range(w.cq[p]) \union {x}
        /\ Len(w.cq[p]) < CqEntries => x \in Range(Posted(w.cq, p, e.tag, res)[p])
    BY <1>0, PostCompleted, Zenon
  <2> QED BY <2>1, Zenon
<1> HIDE DEF x
<1>2. \A f \in fl : Completed(v.cq[p], st, f) => Completed(w.cq[p], st, f) \/ f = e
  <2> TAKE f \in fl
  <2> HAVE Completed(v.cq[p], st, f)
  <2>1. PICK c \in Range(v.cq[p]) \union st : c.tag = f.tag
    BY Zenon DEF Completed
  <2>2. CASE c = x
    BY <1>0, <2>1, <2>2, Zenon DEF FlightOK
  <2>3. CASE c \in Range(w.cq[p]) \union st
    BY <2>1, <2>3, Zenon DEF Completed
  <2> QED BY <1>1, <2>2, <2>3, Zenon
<1>3. PlacesOK(v, p, Q \ {e}, fl, st)
  BY <1>2, Zenon DEF ProcOK, ReqOK, PlacesOK
<1>4. ResultsOK(v, p, fl, st, xd)
  <2> SUFFICES ASSUME NEW c \in Range(v.cq[p]) \union st
               PROVE  \E f \in fl : f.tag = c.tag /\ ResultIn(v, p, f, c.res, xd)
    BY Zenon DEF ResultsOK
  <2>1. CASE c = x
    BY <1>0, <2>1, Zenon
  <2>2. CASE c \in Range(w.cq[p]) \union st
    <3>1. PICK f \in fl : f.tag = c.tag /\ ResultIn(w, p, f, c.res, xc)
      BY <2>2, Zenon DEF ProcOK, ReqOK, ResultsOK
    <3>2. c.res \in Int
      <4>1. c \in Cqe
        BY <1>0, <2>2 DEF Range
      <4> QED BY <4>1, Zenon DEF Cqe
    <3> QED BY <3>1, <3>2, Zenon DEF ResultsLast
  <2> QED BY <1>1, <2>1, <2>2, Zenon
<1>5. CompsOK(v.cq[p], st)
  <2>1. \A c \in Range(w.cq[p]) \union st : c.tag # e.tag
    BY Zenon DEF Completed
  <2> QED BY <1>0, <2>1, PostComps, Zenon DEF ProcOK, ReqOK
<1>6. ASSUME Sized PROVE KeptOK(v, p, Q \ {e}, fl, st)
  <2>1. \A c \in Range(w.cq[p]) : \E f \in fl : f.tag = c.tag
    BY Zenon DEF ProcOK, ReqOK, ResultsOK
  <2>2. Len(w.cq[p]) < Cardinality(fl)
    BY <1>0, <2>1, RoomInQueue, Zenon DEF FlightOK, ProcOK, ReqOK
  <2>3. Len(w.cq[p]) < CqEntries
    <3>1. Len(w.cq[p]) \in Nat /\ Cardinality(fl) \in Nat
      BY <1>0, CardNat DEF FlightOK
    <3> QED BY <1>6, <2>2, <3>1 DEF FlightOK, Sized
  <2>4. ASSUME NEW f \in fl PROVE f \in Q \ {e} \/ Parked(v, p, f) \/ Completed(v.cq[p], st, f)
    <3>1. CASE f = e
      BY <1>0, <1>1, <2>3, <3>1, Zenon DEF Completed
    <3>2. CASE f # e
      <4>1. f \in Q \/ Parked(w, p, f) \/ Completed(w.cq[p], st, f)
        BY <1>6, Zenon DEF ProcOK, KeptOK
      <4>2. Completed(w.cq[p], st, f) => Completed(v.cq[p], st, f)
        BY <1>1, Zenon DEF Completed
      <4> QED BY <3>2, <4>1, <4>2, Zenon
    <3> QED BY <3>1, <3>2, Zenon
  <2> QED BY <2>4, Zenon DEF KeptOK
<1> QED BY <1>3, <1>4, <1>5, <1>6, Zenon DEF ProcOK, ReqOK

\* A child keeps its parent and its exit code, and so results stay true.
LEMMA ResultsStay ==
  ASSUME NEW w \in Worlds, NEW v \in Worlds, NEW p \in Pids, NEW fl, FlightOK(fl),
         NEW xc, NEW xd,
         \A c \in Pids : w.parent[c] # None => v.parent[c] = w.parent[c],
         \A c \in Pids : xc[c] # None => xd[c] = xc[c]
  PROVE  ResultsLast(w, v, p, fl, xc, xd)
<1> SUFFICES ASSUME NEW f \in fl, NEW r \in Int, ResultIn(w, p, f, r, xc)
             PROVE  ResultIn(v, p, f, r, xd)
  BY Zenon DEF ResultsLast
<1>1. f \in Sqe /\ f.op \in {"nop", "bad", "read", "spawn", "wait"} /\ (f.op = "wait" => f.arg \in Pids)
  BY Zenon DEF FlightOK, Sqe
<1>2. p # None /\ r # None
  BY DEF Pids
<1>3. CASE f.op = "wait"
  <2>1. r = ERR \/ (w.parent[f.arg] = p /\ r = xc[f.arg])
    BY <1>3, Zenon DEF ResultIn
  <2>2. r = ERR \/ (v.parent[f.arg] = p /\ r = xd[f.arg])
    BY <1>1, <1>2, <1>3, <2>1, Zenon
  <2> QED BY <1>3, <2>2, Zenon DEF ResultIn
<1>4. CASE f.op = "spawn"
  <2>1. r \in Pids /\ w.parent[r] = p
    BY <1>4, Zenon DEF ResultIn
  <2>2. v.parent[r] = p
    BY <1>2, <2>1, Zenon
  <2> QED BY <1>4, <2>1, <2>2, Zenon DEF ResultIn
<1>5. CASE f.op \in {"nop", "bad", "read"}
  BY <1>5, Zenon DEF ResultIn
<1> QED BY <1>1, <1>3, <1>4, <1>5, Zenon

\* A process whose queues, slots and children are left alone.
LEMMA FrameOK ==
  ASSUME NEW w \in Worlds, NEW v \in Worlds, NEW p \in Pids, NEW Q, NEW fl,
         NEW st \in SUBSET Cqe, NEW xc, NEW xd,
         ProcOK(w, p, Q, fl, st, xc),
         v.cq[p] = w.cq[p], v.pending[p] = w.pending[p],
         \A f \in fl : OnChild(v, p, f) <=> OnChild(w, p, f),
         ResultsLast(w, v, p, fl, xc, xd)
  PROVE  ProcOK(v, p, Q, fl, st, xd)
<1>1. \A f : InSlot(v, p, f) <=> InSlot(w, p, f)
  BY Zenon DEF InSlot
<1>2. \A f \in fl : Parked(v, p, f) <=> Parked(w, p, f)
  BY <1>1, Zenon DEF Parked
<1>3. SlotsOK(v, p, fl)
  BY Zenon DEF ProcOK, ReqOK, SlotsOK
<1>4. PlacesOK(v, p, Q, fl, st)
  BY <1>2, Zenon DEF ProcOK, ReqOK, PlacesOK
<1>5. ResultsOK(v, p, fl, st, xd)
  <2> SUFFICES ASSUME NEW c \in Range(w.cq[p]) \union st
               PROVE  \E f \in fl : f.tag = c.tag /\ ResultIn(v, p, f, c.res, xd)
    BY Zenon DEF ResultsOK
  <2>1. PICK f \in fl : f.tag = c.tag /\ ResultIn(w, p, f, c.res, xc)
    BY Zenon DEF ProcOK, ReqOK, ResultsOK
  <2>2. c.res \in Int
    <3>1. w.cq[p] \in Seq(Cqe)
      BY Zenon DEF Worlds
    <3>2. c \in Cqe
      BY <3>1 DEF Range
    <3> QED BY <3>2, Zenon DEF Cqe
  <2> QED BY <2>1, <2>2, Zenon DEF ResultsLast
<1>6. CompsOK(v.cq[p], st)
  BY Zenon DEF ProcOK, ReqOK
<1>7. Sized => KeptOK(v, p, Q, fl, st)
  BY <1>2, Zenon DEF ProcOK, KeptOK
<1> QED BY <1>3, <1>4, <1>5, <1>6, <1>7, Zenon DEF ProcOK, ReqOK

\* Parking a request that was queued.
LEMMA ParkOK ==
  ASSUME NEW w \in Worlds, NEW v \in Worlds, NEW p \in Pids, NEW Q, NEW fl,
         NEW st \in SUBSET Cqe, NEW xc,
         NEW e \in Q,
         ProcOK(w, p, Q, fl, st, xc),
         v.cq[p] = w.cq[p], SlotsOK(v, p, fl),
         \A f \in fl : Parked(v, p, f) => Parked(w, p, f) \/ f = e,
         Sized => \A f \in fl : Parked(w, p, f) \/ f = e => Parked(v, p, f),
         ResultsLast(w, v, p, fl, xc, xc), Parked(v, p, e)
  PROVE  ProcOK(v, p, Q \ {e}, fl, st, xc)
<1>1. PlacesOK(v, p, Q \ {e}, fl, st)
  BY Zenon DEF ProcOK, ReqOK, PlacesOK
<1>2. ResultsOK(v, p, fl, st, xc)
  <2> SUFFICES ASSUME NEW c \in Range(w.cq[p]) \union st
               PROVE  \E f \in fl : f.tag = c.tag /\ ResultIn(v, p, f, c.res, xc)
    BY Zenon DEF ResultsOK
  <2>1. PICK f \in fl : f.tag = c.tag /\ ResultIn(w, p, f, c.res, xc)
    BY Zenon DEF ProcOK, ReqOK, ResultsOK
  <2>2. c.res \in Int
    <3>1. w.cq[p] \in Seq(Cqe)
      BY Zenon DEF Worlds
    <3>2. c \in Cqe
      BY <3>1 DEF Range
    <3> QED BY <3>2, Zenon DEF Cqe
  <2> QED BY <2>1, <2>2, Zenon DEF ResultsLast
<1>3. CompsOK(v.cq[p], st)
  BY Zenon DEF ProcOK, ReqOK
<1>4. Sized => KeptOK(v, p, Q \ {e}, fl, st)
  BY Zenon DEF ProcOK, KeptOK
<1> QED BY <1>1, <1>2, <1>3, <1>4, Zenon DEF ProcOK, ReqOK

\* What one submission leaves alone: the other processes, and whose child is whose.
LEMMA SqeFrame ==
  ASSUME NEW w \in Worlds, NEW v \in Worlds, NEW p \in Pids, NEW e \in Sqe,
         Processed(w, v, p, e), e.op = "spawn" => w.count < NumProcs,
         TableOK(w)
  PROVE  /\ TableOK(v) /\ v.count \in {w.count, w.count + 1}
         /\ v.count = w.count \/ e.op = "spawn"
         /\ \A c \in Pids : w.parent[c] # None => v.parent[c] = w.parent[c]
         /\ \A q \in Pids \ {p} :
                /\ v.cq[q] = w.cq[q] /\ v.pending[q] = w.pending[q]
                /\ \A f : OnChild(v, q, f) <=> OnChild(w, q, f)
<1>0. /\ w.count \in Nat /\ w.parent \in [Pids -> Pids \union {None}]
      /\ w.cq \in [Pids -> Seq(Cqe)] /\ e.tag \in Nat
      /\ w.pending \in [Pids -> [Slots -> Sqe \union {None}]]
      /\ w.exitWaiter \in [Pids -> Nat \union {None}]
  BY Zenon DEF Worlds, Sqe
<1>1. \A res \in Int : \A q \in Pids \ {p} : Posted(w.cq, p, e.tag, res)[q] = w.cq[q]
  BY <1>0, Zenon DEF Posted
<1>2. CASE Answered(w, v, p, e)
  <2>1. /\ v.count = w.count /\ v.parent = w.parent /\ v.pending = w.pending
        /\ v.exitWaiter = w.exitWaiter
    BY <1>2, Zenon DEF Answered, SameTable, SameParked
  <2>2. \A q \in Pids \ {p} : v.cq[q] = w.cq[q]
    BY <1>1, <1>2, Zenon DEF Answered
  <2> QED BY <2>1, <2>2, Zenon DEF TableOK, OnChild
<1>3. CASE ReadNow(w, v, p, e)
  <2>1. /\ v.count = w.count /\ v.parent = w.parent /\ v.pending = w.pending
        /\ v.exitWaiter = w.exitWaiter
    BY <1>3, Zenon DEF ReadNow, SameTable, SameParked
  <2>2. InputCount(w, e.arg) \in Int /\ v.cq = Posted(w.cq, p, e.tag, InputCount(w, e.arg))
    BY <1>3 DEF ReadNow, Worlds
  <2>3. \A q \in Pids \ {p} : v.cq[q] = w.cq[q]
    BY <1>1, <2>2, Zenon
  <2> QED BY <2>1, <2>3, Zenon DEF TableOK, OnChild
<1>4. CASE Spawned(w, v, p, e)
  <2>1. /\ v.count = w.count + 1 /\ v.parent = [w.parent EXCEPT ![w.count] = p]
        /\ v.pending = w.pending /\ v.exitWaiter = w.exitWaiter
        /\ v.cq = Posted(w.cq, p, e.tag, w.count) /\ w.count < NumProcs /\ w.count \in Pids
        /\ e.op = "spawn"
    BY <1>0, <1>4 DEF Spawned, SameParked, Pids
  <2>2. \A q \in Pids \ {p} : v.cq[q] = w.cq[q]
    BY <1>0, <1>1, <2>1
  <2>3. w.parent[w.count] = None /\ None \notin Pids
    <3>1. ~(w.count < w.count)
      BY <1>0
    <3> QED BY <2>1, <3>1, PidFacts, Zenon DEF TableOK
  <2>4. \A c \in Pids : v.parent[c] = IF c = w.count THEN p ELSE w.parent[c]
    BY <1>0, <2>1, Zenon
  <2>5. TableOK(v)
    <3>1. \A c \in Pids : c \in Int
      BY DEF Pids
    <3>2. \A c \in Pids : v.parent[c] # None => c = w.count \/ c < w.count
      BY <2>4, Zenon DEF TableOK
    <3> QED BY <1>0, <2>1, <3>1, <3>2 DEF TableOK
  <2>6. \A q \in Pids \ {p} : \A f : OnChild(v, q, f) <=> OnChild(w, q, f)
    BY <2>1, <2>3, <2>4, Zenon DEF OnChild
  <2> QED BY <2>1, <2>2, <2>3, <2>4, <2>5, <2>6, Zenon
<1>5. CASE ParkedRead(w, v, p, e)
  <2>1. /\ v.count = w.count /\ v.parent = w.parent /\ v.cq = w.cq /\ v.exitWaiter = w.exitWaiter
    BY <1>5, Zenon DEF ParkedRead, SameTable
  <2>2. \A q \in Pids \ {p} : v.pending[q] = w.pending[q]
    BY <1>0, <1>5, Zenon DEF ParkedRead
  <2> QED BY <2>1, <2>2, Zenon DEF TableOK, OnChild
<1>6. CASE ParkedWait(w, v, p, e)
  <2>1. /\ v.count = w.count /\ v.parent = w.parent /\ v.cq = w.cq /\ v.pending = w.pending
        /\ v.exitWaiter = [w.exitWaiter EXCEPT ![e.arg] = e.tag]
        /\ e.arg \in Pids /\ w.parent[e.arg] = p
    BY <1>6, Zenon DEF ParkedWait, SameTable
  <2>2. \A c \in Pids : c # e.arg => v.exitWaiter[c] = w.exitWaiter[c]
    BY <1>0, <2>1, Zenon
  <2>3. \A q \in Pids \ {p} : \A f : OnChild(v, q, f) <=> OnChild(w, q, f)
    BY <2>1, <2>2, Zenon DEF OnChild
  <2> QED BY <2>1, <2>3, Zenon DEF TableOK
<1> QED BY <1>2, <1>3, <1>4, <1>5, <1>6, Zenon DEF Processed

-----------------------------------------------------------------------------
(* The requests along drain(). *)

\* The world while drain(p) runs: Q are the submissions it has not come to.
WorldOK(w, p, Q) ==
    /\ TableOK(w) /\ WaitersOK(w, inflight, exitCode)
    /\ ProcOK(w, p, Q, inflight[p], stash[p], exitCode)
    /\ \A q \in Pids \ {p} : ProcOK(w, q, Range(sq[q]), inflight[q], stash[q], exitCode)

\* The state around the world.
FlightsOK == \A p \in Pids : FlightOK(inflight[p]) /\ stash[p] \in SUBSET Cqe

\* A request answered by its submission: its result is true.
LEMMA AnswerTrue ==
  ASSUME NEW w \in Worlds, NEW v \in Worlds, NEW p \in Pids, NEW e \in Sqe,
         e.op = "spawn" => w.count < NumProcs,
         Answered(w, v, p, e) \/ ReadNow(w, v, p, e) \/ Spawned(w, v, p, e)
  PROVE  \E res \in Int :
            v.cq = Posted(w.cq, p, e.tag, res) /\ ResultIn(v, p, e, res, exitCode)
<1>0. e.op \in {"nop", "bad", "read", "spawn", "wait"} /\ e.arg \in Nat /\ w.count \in Nat
  BY Zenon DEF Sqe, Worlds
<1>1. CASE Answered(w, v, p, e)
  <2>1. PICK res \in Int :
        /\ v.cq = Posted(w.cq, p, e.tag, res)
        /\ \/ e.op = "nop" /\ res = 0
           \/ e.op # "nop" /\ e.op # "spawn" /\ res = ERR /\ (e.op = "read" => e.arg > 0)
           \/ e.op = "read" /\ e.arg = 0 /\ res = 0
           \/ /\ e.op = "wait" /\ e.arg \in Pids /\ e.arg < w.count /\ w.parent[e.arg] = p
              /\ exitCode[e.arg] # None /\ res = exitCode[e.arg]
    BY <1>1, Zenon DEF Answered
  <2>2. v.parent = w.parent
    BY <1>1, Zenon DEF Answered, SameTable
  <2>3. ResultIn(v, p, e, res, exitCode)
    <3>1. CASE e.op = "read"
      <4>1. e.arg = 0 => res = 0
        BY <1>0, <2>1, <3>1
      <4>2. e.arg # 0 => res = ERR
        BY <1>0, <2>1, <3>1, Zenon
      <4> QED BY <3>1, <4>1, <4>2, Zenon DEF ResultIn
    <3>2. CASE e.op = "wait"
      BY <2>1, <2>2, <3>2, Zenon DEF ResultIn
    <3>3. CASE e.op = "nop" \/ e.op = "bad"
      BY <2>1, <3>3, Zenon DEF ResultIn
    <3> QED BY <1>0, <2>1, <3>1, <3>2, <3>3, Zenon
  <2> QED BY <2>1, <2>3, Zenon
<1>2. CASE ReadNow(w, v, p, e)
  <2> DEFINE k == InputCount(w, e.arg)
  <2>1. k \in Int /\ k \in 1..e.arg /\ v.cq = Posted(w.cq, p, e.tag, k) /\ e.op = "read" /\ e.arg > 0
    BY <1>0, <1>2 DEF ReadNow, Worlds
  <2> HIDE DEF k
  <2>2. ResultIn(v, p, e, k, exitCode)
    BY <2>1 DEF ResultIn
  <2> QED BY <2>1, <2>2, Zenon
<1>3. CASE Spawned(w, v, p, e)
  <2>1. /\ e.op = "spawn" /\ w.count \in Pids /\ v.parent = [w.parent EXCEPT ![w.count] = p]
        /\ v.cq = Posted(w.cq, p, e.tag, w.count)
    BY <1>0, <1>3 DEF Spawned, Pids
  <2>2. w.parent \in [Pids -> Pids \union {None}]
    BY Zenon DEF Worlds
  <2>3. v.parent[w.count] = p
    BY <2>1, <2>2, Zenon
  <2>4. ResultIn(v, p, e, w.count, exitCode)
    BY <2>1, <2>3, Zenon DEF ResultIn
  <2> QED BY <1>0, <2>1, <2>4
<1> QED BY <1>1, <1>2, <1>3, Zenon

\* One submission, for the process that made it.
LEMMA SqeProc ==
  ASSUME LibraryFacts, NEW w \in Worlds, NEW v \in Worlds, NEW p \in Pids, NEW Q, NEW e \in Q,
         FlightsOK, TableOK(w), WaitersOK(w, inflight, exitCode),
         ProcOK(w, p, Q, inflight[p], stash[p], exitCode),
         e.op = "spawn" => w.count < NumProcs,
         Processed(w, v, p, e)
  PROVE  ProcOK(v, p, Q \ {e}, inflight[p], stash[p], exitCode)
<1> DEFINE fl == inflight[p]
           st == stash[p]
<1>0. /\ FlightOK(fl) /\ st \in SUBSET Cqe /\ e \in fl /\ e \in Sqe
      /\ ~Parked(w, p, e) /\ ~Completed(w.cq[p], st, e) /\ SlotsOK(w, p, fl)
  BY Zenon DEF FlightsOK, FlightOK, ProcOK, ReqOK, PlacesOK
<1>1. /\ w.pending \in [Pids -> [Slots -> Sqe \union {None}]]
      /\ w.exitWaiter \in [Pids -> Nat \union {None}]
      /\ w.parent \in [Pids -> Pids \union {None}]
      /\ e.tag \in Nat /\ e # None
  BY <1>0, Zenon DEF Worlds, Sqe
<1>2. ResultsLast(w, v, p, fl, exitCode, exitCode)
  BY <1>0, SqeFrame, ResultsStay, Zenon
<1> HIDE DEF fl, st
<1>3. CASE Answered(w, v, p, e) \/ ReadNow(w, v, p, e) \/ Spawned(w, v, p, e)
  <2>1. v.pending = w.pending /\ v.exitWaiter = w.exitWaiter
    BY <1>3, Zenon DEF Answered, ReadNow, Spawned, SameParked
  <2>2. \A c \in Pids : w.exitWaiter[c] # None => v.parent[c] = w.parent[c]
    BY <1>0, SqeFrame DEF WaitersOK
  <2>3. \A c \in Pids : w.exitWaiter[c] = None => \A f \in fl : f.tag # w.exitWaiter[c]
    BY <1>0 DEF FlightOK, Sqe
  <2>4. \A f \in fl : OnChild(v, p, f) <=> OnChild(w, p, f)
    BY <2>1, <2>2, <2>3, Zenon DEF OnChild
  <2>5. \A f \in fl : Parked(v, p, f) <=> Parked(w, p, f) /\ f # e
    BY <1>0, <2>1, <2>4, Zenon DEF Parked, InSlot
  <2>6. SlotsOK(v, p, fl)
    BY <1>0, <2>1, Zenon DEF SlotsOK
  <2>7. PICK res \in Int : v.cq = Posted(w.cq, p, e.tag, res) /\ ResultIn(v, p, e, res, exitCode)
    BY <1>0, <1>3, AnswerTrue, Zenon
  <2>8. ProcOK(w, p, Q, fl, st, exitCode)
    BY Zenon DEF fl, st
  <2>9. ProcOK(v, p, Q \ {e}, fl, st, exitCode)
    BY <1>0, <1>2, <2>5, <2>6, <2>7, <2>8, PostOK, Zenon
  <2> QED BY <2>9, Zenon DEF fl, st
<1>4. CASE ParkedRead(w, v, p, e)
  <2>1. PICK s \in Slots : /\ w.pending[p][s] = None
                           /\ v.pending = [w.pending EXCEPT ![p] = [@ EXCEPT ![s] = e]]
    BY <1>4, Zenon DEF ParkedRead
  <2>2. \A t \in Slots : v.pending[p][t] = IF t = s THEN e ELSE w.pending[p][t]
    BY <1>1, <2>1
  <2>3. v.exitWaiter = w.exitWaiter /\ v.parent = w.parent /\ v.cq = w.cq /\ e.op = "read" /\ e.arg > 0
    BY <1>4, Zenon DEF ParkedRead, SameTable
  <2>4. \A f \in fl : Parked(v, p, f) <=> Parked(w, p, f) \/ f = e
    <3>1. \A f \in fl : f # None
      BY <1>0, Zenon DEF FlightOK
    <3>2. \A f \in fl : InSlot(v, p, f) <=> InSlot(w, p, f) \/ f = e
      BY <2>1, <2>2, <3>1, Zenon DEF InSlot
    <3>3. \A f : OnChild(v, p, f) <=> OnChild(w, p, f)
      BY <2>3, Zenon DEF OnChild
    <3> QED BY <3>2, <3>3, Zenon DEF Parked
  <2>5. SlotsOK(v, p, fl)
    <3>1. \A t \in Slots : w.pending[p][t] # e
      BY <1>0, Zenon DEF Parked, InSlot
    <3> QED BY <1>0, <2>2, <2>3, <3>1, Zenon DEF SlotsOK
  <2>6. ProcOK(w, p, Q, fl, st, exitCode)
    BY Zenon DEF fl, st
  <2>7. ProcOK(v, p, Q \ {e}, fl, st, exitCode)
    BY <1>0, <1>2, <2>3, <2>4, <2>5, <2>6, ParkOK, Zenon
  <2> QED BY <2>7, Zenon DEF fl, st
<1>5. CASE ParkedWait(w, v, p, e)
  <2>1. /\ v.pending = w.pending /\ v.parent = w.parent /\ v.cq = w.cq
        /\ v.exitWaiter = [w.exitWaiter EXCEPT ![e.arg] = e.tag]
        /\ e.op = "wait" /\ e.arg \in Pids /\ w.parent[e.arg] = p
    BY <1>5, Zenon DEF ParkedWait, SameTable
  <2>2. \A c \in Pids : v.exitWaiter[c] = IF c = e.arg THEN e.tag ELSE w.exitWaiter[c]
    BY <1>1, <2>1, Zenon
  <2>3. \A f : InSlot(v, p, f) <=> InSlot(w, p, f)
    BY <2>1, Zenon DEF InSlot
  <2>4. \A f, g \in fl : f.tag = g.tag => f = g
    BY <1>0, Zenon DEF FlightOK
  <2>5. \A f \in fl : OnChild(v, p, f) => OnChild(w, p, f) \/ f = e
    BY <1>0, <2>1, <2>2, <2>4 DEF OnChild
  <2>6. OnChild(v, p, e)
    BY <2>1, <2>2, Zenon DEF OnChild
  <2>7. Sized => \A f \in fl : OnChild(w, p, f) => OnChild(v, p, f)
    <3>1. Sized => \A f \in fl : f.op = "wait" /\ f.arg = e.arg => f = e
      BY <1>0, <2>1, Zenon DEF Sized, FlightOK
    <3> QED BY <2>1, <2>2, <2>6, <3>1, Zenon DEF OnChild
  <2>8. /\ \A f \in fl : Parked(v, p, f) => Parked(w, p, f) \/ f = e
        /\ Sized => \A f \in fl : Parked(w, p, f) \/ f = e => Parked(v, p, f)
        /\ Parked(v, p, e)
    BY <2>3, <2>5, <2>6, <2>7, Zenon DEF Parked
  <2>9. SlotsOK(v, p, fl)
    BY <1>0, <2>1 DEF SlotsOK
  <2>10. ProcOK(w, p, Q, fl, st, exitCode)
    BY Zenon DEF fl, st
  <2>11. ProcOK(v, p, Q \ {e}, fl, st, exitCode)
    BY <1>0, <1>2, <2>1, <2>8, <2>9, <2>10, ParkOK, Zenon
  <2> QED BY <2>11, Zenon DEF fl, st
<1> QED BY <1>3, <1>4, <1>5, Zenon DEF Processed

\* One submission, for the whole system.
LEMMA SqeOK ==
  ASSUME LibraryFacts, NEW w \in Worlds, NEW v \in Worlds, NEW p \in Pids, NEW Q, NEW e \in Q,
         FlightsOK, WorldOK(w, p, Q),
         e.op = "spawn" => w.count < NumProcs,
         Processed(w, v, p, e)
  PROVE  WorldOK(v, p, Q \ {e})
<1>0. e \in Sqe /\ e \in inflight[p]
  BY Zenon DEF WorldOK, ProcOK, ReqOK, PlacesOK, FlightsOK, FlightOK
<1>1. /\ TableOK(v)
      /\ \A c \in Pids : w.parent[c] # None => v.parent[c] = w.parent[c]
      /\ \A q \in Pids \ {p} :
                /\ v.cq[q] = w.cq[q] /\ v.pending[q] = w.pending[q]
                /\ \A f : OnChild(v, q, f) <=> OnChild(w, q, f)
  BY <1>0, SqeFrame, Zenon DEF WorldOK
<1>2. ProcOK(v, p, Q \ {e}, inflight[p], stash[p], exitCode)
  BY SqeProc, Zenon DEF WorldOK
<1>3. ASSUME NEW q \in Pids \ {p}
      PROVE  ProcOK(v, q, Range(sq[q]), inflight[q], stash[q], exitCode)
  <2>1. FlightOK(inflight[q]) /\ stash[q] \in SUBSET Cqe
    BY Zenon DEF FlightsOK
  <2>2. ResultsLast(w, v, q, inflight[q], exitCode, exitCode)
    BY <1>1, <2>1, ResultsStay, Zenon
  <2>3. ProcOK(w, q, Range(sq[q]), inflight[q], stash[q], exitCode)
    BY Zenon DEF WorldOK
  <2> QED BY <1>1, <2>1, <2>2, <2>3, FrameOK, Zenon
<1>4. WaitersOK(v, inflight, exitCode)
  <2>1. WaitersOK(w, inflight, exitCode)
    BY Zenon DEF WorldOK
  <2>2. CASE v.exitWaiter = w.exitWaiter
    <3> SUFFICES ASSUME NEW c \in Pids, v.exitWaiter[c] # None
                 PROVE  /\ v.parent[c] # None /\ exitCode[c] = None
                        /\ \/ exitCode[v.parent[c]] # None
                           \/ \E f \in inflight[v.parent[c]] : f.arg = c /\ OnChild(v, v.parent[c], f)
      BY Zenon DEF WaitersOK
    <3>1. w.exitWaiter[c] # None
      BY <2>2, Zenon
    <3>2. w.parent[c] # None /\ exitCode[c] = None
      BY <2>1, <3>1, Zenon DEF WaitersOK
    <3>3. v.parent[c] = w.parent[c]
      BY <1>1, <3>2, Zenon
    <3>4. CASE exitCode[w.parent[c]] # None
      BY <3>2, <3>3, <3>4, Zenon
    <3>5. ASSUME NEW f \in inflight[w.parent[c]], f.arg = c, OnChild(w, w.parent[c], f)
          PROVE  OnChild(v, v.parent[c], f)
      BY <2>2, <3>3, <3>5, Zenon DEF OnChild
    <3> QED BY <2>1, <3>1, <3>2, <3>3, <3>4, <3>5, Zenon DEF WaitersOK
  <2>3. CASE ParkedWait(w, v, p, e)
    <3>1. /\ v.parent = w.parent /\ v.exitWaiter = [w.exitWaiter EXCEPT ![e.arg] = e.tag]
          /\ e.op = "wait" /\ e.arg \in Pids /\ w.parent[e.arg] = p /\ exitCode[e.arg] = None
      BY <2>3, Zenon DEF ParkedWait, SameTable
    <3>2. w.exitWaiter \in [Pids -> Nat \union {None}] /\ p # None
      BY PidFacts, Zenon DEF Worlds
    <3>3. \A c \in Pids : v.exitWaiter[c] = IF c = e.arg THEN e.tag ELSE w.exitWaiter[c]
      BY <3>1, <3>2, Zenon
    <3>4. OnChild(v, p, e)
      BY <3>1, <3>3, Zenon DEF OnChild
    <3> SUFFICES ASSUME NEW c \in Pids, v.exitWaiter[c] # None
                 PROVE  /\ v.parent[c] # None /\ exitCode[c] = None
                        /\ \/ exitCode[v.parent[c]] # None
                           \/ \E f \in inflight[v.parent[c]] : f.arg = c /\ OnChild(v, v.parent[c], f)
      BY Zenon DEF WaitersOK
    <3>5. CASE c = e.arg
      BY <1>0, <3>1, <3>2, <3>4, <3>5, Zenon
    <3>6. CASE c # e.arg
      <4>1. w.exitWaiter[c] # None
        BY <3>3, <3>6, Zenon
      <4>2. ASSUME NEW f \in inflight[w.parent[c]], f.arg = c, OnChild(w, w.parent[c], f)
            PROVE  OnChild(v, v.parent[c], f)
        BY <3>1, <3>3, <3>6, <4>2, Zenon DEF OnChild
      <4> QED BY <2>1, <3>1, <4>1, <4>2, Zenon DEF WaitersOK
    <3> QED BY <3>5, <3>6, Zenon
  <2>4. v.exitWaiter = w.exitWaiter \/ ParkedWait(w, v, p, e)
    BY Zenon DEF Processed, Answered, ReadNow, Spawned, ParkedRead, SameParked
  <2> QED BY <2>2, <2>3, <2>4, Zenon
<1> QED BY <1>1, <1>2, <1>3, <1>4, Zenon DEF WorldOK

\* Bytes read in order: those moved to the foreground leave the ring, and a ring
\* that was full is unmasked.
LEMMA MovedConsole ==
  ASSUME NEW w \in Worlds, NEW v \in Worlds, NEW d \in Worlds, NEW k \in 1..Len(w.input),
         NEW dev \in Seq(Nat), NEW n,
         ConsoleOK(w, dev, n), Moved(w, d, Shell, k), SameConsole(d, v)
  PROVE  ConsoleOK(v, dev, n)
<1> DEFINE a == w.got[Shell]
           b == SubSeq(w.input, 1, k)
           c == SubSeq(w.input, k + 1, Len(w.input))
<1>0. w.input \in Seq(Nat) /\ w.got \in [Pids -> Seq(Nat)] /\ Len(w.input) \in Nat
  BY DEF Worlds
<1>1. /\ v.got = [w.got EXCEPT ![Shell] = @ \o b]
      /\ v.input = c
      /\ v.rxMasked = (w.rxMasked /\ ~(k > 0 /\ Len(w.input) = InputCap))
  BY Zenon DEF Moved, SameConsole
<1>2. k \in 0..Len(w.input) /\ k > 0
  BY <1>0
<1>3. a \in Seq(Nat) /\ b \in Seq(Nat) /\ c \in Seq(Nat) /\ Len(c) = Len(w.input) - k
  BY <1>0, <1>2, Cut, PidFacts, ZenonT(60)
<1>4. (a \o b) \o c = a \o w.input
  BY <1>0, <1>2, <1>3, MoveFront, ZenonT(60)
<1> HIDE DEF a, b, c
<1>5. v.got[Shell] = a \o b
  BY <1>0, <1>1, PidFacts, Zenon DEF a
<1>6. v.got[Shell] \o v.input = w.got[Shell] \o w.input
  BY <1>1, <1>4, <1>5, Zenon DEF a
<1>7. \A p \in Pids \ {Shell} : v.got[p] = <<>>
  BY <1>0, <1>1, Zenon DEF ConsoleOK
<1>8. Len(v.input) <= InputCap /\ Len(v.input) # InputCap
  BY <1>0, <1>1, <1>2, <1>3 DEF ConsoleOK
<1>9. ~v.rxMasked
  BY <1>1, <1>2, Zenon DEF ConsoleOK
<1>10. v.got[Shell] \o v.input \o dev = [i \in 1..n |-> i]
  BY <1>6, Zenon DEF ConsoleOK
<1> QED BY <1>7, <1>8, <1>9, <1>10, Zenon DEF ConsoleOK

\* One submission, for the keyboard.
LEMMA SqeConsole ==
  ASSUME NEW w \in Worlds, NEW v \in Worlds, NEW p \in Pids, NEW e \in Sqe,
         device \in Seq(Nat), count > 0, Processed(w, v, p, e),
         ConsoleOK(w, device, typed), ReadersOK(w, exitCode[Shell])
  PROVE  ConsoleOK(v, device, typed) /\ ReadersOK(v, exitCode[Shell])
<1>1. CASE SameConsole(w, v) /\ v.pending = w.pending
  BY <1>1, Zenon DEF SameConsole, ConsoleOK, ReadersOK
<1>2. CASE ReadNow(w, v, p, e)
  <2>1. PICK d \in Worlds : Moved(w, d, p, InputCount(w, e.arg)) /\ SameConsole(d, v)
    BY <1>2, Zenon DEF ReadNow
  <2>2. /\ p = Shell /\ exitCode[Shell] = None /\ w.input # <<>> /\ v.pending = w.pending
        /\ InputCount(w, e.arg) \in 1..Len(w.input)
    BY <1>2, Zenon DEF ReadNow, Foreground, Running, SameParked
  <2>3. ConsoleOK(v, device, typed)
    BY <2>1, <2>2, MovedConsole, Zenon
  <2>4. ReadersOK(v, exitCode[Shell])
    BY <2>2, Zenon DEF ReadersOK
  <2> QED BY <2>3, <2>4, Zenon
<1>3. CASE ParkedRead(w, v, p, e)
  <2>1. SameConsole(w, v) /\ ~(Foreground(p) /\ w.input # <<>>)
    BY <1>3, Zenon DEF ParkedRead
  <2>2. p # Shell => v.pending[Shell] = w.pending[Shell]
    <3>1. w.pending \in [Pids -> [Slots -> Sqe \union {None}]]
      BY Zenon DEF Worlds
    <3> QED BY <1>3, <3>1 DEF ParkedRead
  <2>3. p = Shell /\ exitCode[Shell] = None => w.input = <<>>
    BY <2>1, Zenon DEF Foreground, Running, Shell
  <2>4. ReadersOK(v, exitCode[Shell])
    BY <2>1, <2>2, <2>3, Zenon DEF ReadersOK, SameConsole
  <2> QED BY <2>1, <2>4, Zenon DEF SameConsole, ConsoleOK
<1>4. (SameConsole(w, v) /\ v.pending = w.pending) \/ ReadNow(w, v, p, e) \/ ParkedRead(w, v, p, e)
  BY Zenon DEF Processed, Answered, Spawned, ParkedWait, SameParked
<1> QED BY <1>1, <1>2, <1>3, <1>4, Zenon

\* After i submissions of p: the spawns still queued, and the submissions to come.
SpawnsAfter(p, i) == QueuedSpawns \ ({p} \X (1..i))
QueuedAfter(p, i) == {sq[p][j] : j \in (i + 1)..Len(sq[p])}

Midway(p, i) ==
    {w \in Worlds :
        /\ w.count > 0 /\ w.count + Cardinality(SpawnsAfter(p, i)) <= NumProcs
        /\ WorldOK(w, p, QueuedAfter(p, i))
        /\ ConsoleOK(w, device, typed) /\ ReadersOK(w, exitCode[Shell])
        /\ w.count >= count
        /\ Range(cq[p]) \subseteq Range(w.cq[p])
        /\ \A q \in Pids \ {p} : w.cq[q] = cq[q] /\ w.pending[q] = pending[q]}

\* The requests in flight, of every process.
LEMMA FlightsFromInv ==
  ASSUME TypeOK, TagInv
  PROVE  FlightsOK
<1> SUFFICES ASSUME NEW p \in Pids PROVE FlightOK(inflight[p]) /\ stash[p] \in SUBSET Cqe
  BY Zenon DEF FlightsOK
<1>1. inflight[p] \in SUBSET Sqe /\ stash[p] \in SUBSET Cqe
  BY Zenon DEF TypeOK, SideType
<1> QED BY <1>1, Zenon DEF TagInv, TagsOK, FlightOK

\* A submission takes its own spawn from the count of those that are queued.
LEMMA SpawnsStep ==
  ASSUME LibraryFacts, NEW p \in Pids, sq \in [Pids -> Seq(Sqe)], IsFiniteSet(QueuedSpawns),
         NEW i \in 1..Len(sq[p])
  PROVE  /\ Cardinality(SpawnsAfter(p, i)) \in Nat /\ Cardinality(SpawnsAfter(p, i - 1)) \in Nat
         /\ Cardinality(SpawnsAfter(p, i - 1)) =
                Cardinality(SpawnsAfter(p, i)) + (IF sq[p][i].op = "spawn" THEN 1 ELSE 0)
<1> DEFINE S == SpawnsAfter(p, i - 1)
<1>1. Len(sq[p]) \in Nat /\ DOMAIN sq[p] = 1..Len(sq[p])
  OBVIOUS
<1>2. SpawnsAfter(p, i) = S \ {<<p, i>>}
  <2>1. 1..i = (1..(i - 1)) \union {i}
    BY <1>1
  <2>2. {p} \X (1..i) = ({p} \X (1..(i - 1))) \union {<<p, i>>}
    BY <2>1
  <2> QED BY <2>2, Zenon DEF SpawnsAfter
<1>3. <<p, i>> \in QueuedSpawns <=> sq[p][i].op = "spawn"
  BY <1>1 DEF QueuedSpawns
<1>4. <<p, i>> \notin {p} \X (1..(i - 1))
  BY <1>1
<1>5. <<p, i>> \in S <=> sq[p][i].op = "spawn"
  BY <1>3, <1>4, Zenon DEF SpawnsAfter
<1>6. IsFiniteSet(S)
  <2>1. S \in SUBSET QueuedSpawns
    BY Zenon DEF SpawnsAfter
  <2> HIDE DEF S
  <2> QED BY <2>1, CardSubset, Zenon
<1> HIDE DEF S
<1>7. /\ IsFiniteSet(S \ {<<p, i>>})
      /\ Cardinality(S \ {<<p, i>>}) = IF <<p, i>> \in S THEN Cardinality(S) - 1 ELSE Cardinality(S)
  BY <1>6, CardRemove, Zenon
<1>8. Cardinality(S) \in Nat /\ Cardinality(S \ {<<p, i>>}) \in Nat
  BY <1>6, <1>7, CardNat, Zenon
<1> QED BY <1>2, <1>5, <1>7, <1>8 DEF S

\* A submission is the first of those to come, and is there once.
LEMMA QueuedStep ==
  ASSUME NEW p \in Pids, sq \in [Pids -> Seq(Sqe)], NEW i \in 1..Len(sq[p]),
         \A j, k \in DOMAIN sq[p] : sq[p][j] = sq[p][k] => j = k
  PROVE  /\ sq[p][i] \in QueuedAfter(p, i - 1)
         /\ QueuedAfter(p, i - 1) \ {sq[p][i]} = QueuedAfter(p, i)
<1>1. Len(sq[p]) \in Nat /\ DOMAIN sq[p] = 1..Len(sq[p])
  OBVIOUS
<1>2. ((i - 1) + 1)..Len(sq[p]) = ((i + 1)..Len(sq[p])) \union {i}
  BY <1>1
<1>3. \A j \in (i + 1)..Len(sq[p]) : j # i /\ j \in DOMAIN sq[p] /\ i \in DOMAIN sq[p]
  BY <1>1
<1>4. QueuedAfter(p, i - 1) = QueuedAfter(p, i) \union {sq[p][i]}
  BY <1>2, Zenon DEF QueuedAfter
<1>5. sq[p][i] \notin QueuedAfter(p, i)
  BY <1>3, Zenon DEF QueuedAfter
<1> QED BY <1>4, <1>5, Zenon

\* One turn of the loop of drain().
LEMMA MidwayStep ==
  ASSUME LibraryFacts, TypeOK, RoomForSpawns, TagInv, NEW p \in Pids, NEW i \in 1..Len(sq[p]),
         NEW w \in Midway(p, i - 1)
  PROVE  ProcessSqe(w, p, sq[p][i]) \in Midway(p, i)
<1> DEFINE e == sq[p][i]
           v == ProcessSqe(w, p, e)
<1>1. sq \in [Pids -> Seq(Sqe)] /\ exitCode \in [Pids -> {None, 0, -1}] /\ device \in Seq(Nat) /\ count > 0
  BY Zenon DEF TypeOK, SideType
<1>0. count \in Nat
  BY Zenon DEF TypeOK, SideType, World, Worlds
<1>2. e \in Sqe
  BY <1>1
<1>3. /\ w \in Worlds /\ w.count \in Nat /\ w.count > 0
      /\ w.count + Cardinality(SpawnsAfter(p, i - 1)) <= NumProcs
      /\ WorldOK(w, p, QueuedAfter(p, i - 1))
      /\ ConsoleOK(w, device, typed) /\ ReadersOK(w, exitCode[Shell])
      /\ w.count >= count
      /\ Range(cq[p]) \subseteq Range(w.cq[p])
      /\ \A q \in Pids \ {p} : w.cq[q] = cq[q] /\ w.pending[q] = pending[q]
  BY Zenon DEF Midway, Worlds
<1>4. /\ Cardinality(SpawnsAfter(p, i)) \in Nat /\ Cardinality(SpawnsAfter(p, i - 1)) \in Nat
      /\ Cardinality(SpawnsAfter(p, i - 1)) =
                Cardinality(SpawnsAfter(p, i)) + (IF e.op = "spawn" THEN 1 ELSE 0)
  BY <1>1, SpawnsStep, Zenon DEF RoomForSpawns
<1>5. e \in QueuedAfter(p, i - 1) /\ QueuedAfter(p, i - 1) \ {e} = QueuedAfter(p, i)
  BY <1>1, QueuedStep, Zenon DEF TagInv, TagsOK
<1> HIDE DEF e
<1>6. w.count <= NumProcs /\ (e.op = "spawn" => w.count < NumProcs)
  BY <1>3, <1>4
<1>7. v \in Worlds /\ Processed(w, v, p, e)
  BY <1>1, <1>2, <1>3, <1>6, ProcessSqeIs, Zenon
<1> HIDE DEF v
<1>8. /\ v.count \in {w.count, w.count + 1} /\ (v.count = w.count \/ e.op = "spawn")
      /\ \A q \in Pids \ {p} : v.cq[q] = w.cq[q] /\ v.pending[q] = w.pending[q]
  <2>1. TableOK(w)
    BY <1>3, Zenon DEF WorldOK
  <2>2. /\ v.count \in {w.count, w.count + 1}
        /\ v.count = w.count \/ e.op = "spawn"
        /\ \A q \in Pids \ {p} :
                /\ v.cq[q] = w.cq[q] /\ v.pending[q] = w.pending[q]
                /\ \A f : OnChild(v, q, f) <=> OnChild(w, q, f)
    BY <1>2, <1>3, <1>6, <1>7, <2>1, SqeFrame, ZenonT(60)
  <2> QED BY <2>2, Zenon
<1>9. v.count > 0 /\ v.count + Cardinality(SpawnsAfter(p, i)) <= NumProcs /\ v.count >= count
  <2> DEFINE s == Cardinality(SpawnsAfter(p, i - 1))
             t == Cardinality(SpawnsAfter(p, i))
  <2>1. s \in Nat /\ t \in Nat /\ w.count + s <= NumProcs /\ s = t + (IF e.op = "spawn" THEN 1 ELSE 0)
    BY <1>3, <1>4, Zenon
  <2> HIDE DEF s, t
  <2>2. v.count > 0 /\ v.count + t <= NumProcs /\ v.count >= count
    <3>1. w.count \in Nat /\ w.count > 0 /\ w.count >= count
      BY <1>3, Zenon
    <3>2. v.count \in {w.count, w.count + 1} /\ (v.count = w.count \/ e.op = "spawn")
      BY <1>8, Zenon
    <3> QED BY <1>0, <2>1, <3>1, <3>2
  <2> QED BY <2>2, Zenon DEF t
<1>10. WorldOK(v, p, QueuedAfter(p, i))
  BY <1>3, <1>5, <1>6, <1>7, SqeOK, FlightsFromInv
<1>11. ConsoleOK(v, device, typed) /\ ReadersOK(v, exitCode[Shell])
  BY <1>1, <1>2, <1>3, <1>7, SqeConsole, Zenon
<1>12. Range(w.cq[p]) \subseteq Range(v.cq[p])
  <2>1. w.cq \in [Pids -> Seq(Cqe)] /\ e.tag \in Nat
    BY <1>2, <1>3, Zenon DEF Worlds, Sqe
  <2>2. \A res \in Int : Range(w.cq[p]) \subseteq Range(Posted(w.cq, p, e.tag, res)[p])
    BY <2>1, PostCompleted, Zenon
  <2>3. v.cq = w.cq \/ \E res \in Int : v.cq = Posted(w.cq, p, e.tag, res)
    BY <1>2, <1>3, <1>7, PostsOnce, Zenon
  <2> QED BY <2>2, <2>3, Zenon
<1> QED BY <1>3, <1>7, <1>8, <1>9, <1>10, <1>11, <1>12, Zenon DEF Midway, v, e

\* drain(), all of it.
LEMMA DrainOK ==
  ASSUME LibraryFacts, JringInv, NEW p \in Pids
  PROVE  Drain(p) \in Midway(p, Len(sq[p]))
<1> DEFINE G == [i \in 0..Len(sq[p]) |-> Midway(p, i)]
<1>1. sq \in [Pids -> Seq(Sqe)] /\ Len(sq[p]) \in Nat /\ TypeOK /\ RoomForSpawns /\ TagInv
  BY DEF JringInv, TypeOK, SideType
<1>2. World \in Midway(p, 0)
  <2>1. SpawnsAfter(p, 0) = QueuedSpawns
    BY DEF SpawnsAfter
  <2>2. QueuedAfter(p, 0) = Range(sq[p])
    BY <1>1 DEF QueuedAfter, Range
  <2>3. WorldOK(World, p, Range(sq[p]))
    BY Zenon DEF JringInv, RequestInv, SystemOK, WorldOK
  <2>4. World.count = count /\ World.cq = cq /\ World.pending = pending
    BY Zenon DEF World
  <2>5. World.count \in Nat
    BY Zenon DEF JringInv, TypeOK, SideType, Worlds
  <2>6. World.count > 0 /\ World.count + Cardinality(SpawnsAfter(p, 0)) <= NumProcs
    BY <2>1, <2>4, Zenon DEF JringInv, TypeOK, SideType, RoomForSpawns
  <2>7. World.count >= count
    BY <2>4, <2>5
  <2> QED BY <2>2, <2>3, <2>4, <2>6, <2>7, Zenon DEF Midway, JringInv, TypeOK, SideType, ConsoleInv
<1>3. World \in G[0]
  BY <1>1, <1>2
<1>4. \A i \in 1..Len(sq[p]) : \A w \in G[i - 1] : ProcessSqe(w, p, sq[p][i]) \in G[i]
  <2> SUFFICES ASSUME NEW i \in 1..Len(sq[p]), NEW w \in G[i - 1]
               PROVE  ProcessSqe(w, p, sq[p][i]) \in G[i]
    BY Zenon
  <2>1. G[i - 1] = Midway(p, i - 1) /\ G[i] = Midway(p, i)
    BY <1>1
  <2> QED BY <1>1, <2>1, MidwayStep
<1> HIDE DEF G
<1>5. Drain(p) \in G[Len(sq[p])]
  BY <1>1, <1>3, <1>4, DrainInduction, Zenon
<1> QED BY <1>1, <1>5 DEF G

-----------------------------------------------------------------------------
(* Whole passes: drain(), poll_pending() and drain_uart(). *)

\* What SetWorld writes is the next world.
LEMMA SetWorldIs ==
  ASSUME NEW w \in Worlds, SetWorld(w)
  PROVE  World' = w
<1>1. w = [count |-> w.count, parent |-> w.parent, exitWaiter |-> w.exitWaiter,
           pending |-> w.pending, cq |-> w.cq, input |-> w.input, rxMasked |-> w.rxMasked,
           got |-> w.got]
  BY Zenon DEF Worlds
<1> QED BY <1>1, Zenon DEF SetWorld, World

\* The fields of the world are the variables.
LEMMA WorldIs ==
  /\ World.count = count /\ World.parent = parent /\ World.exitWaiter = exitWaiter
  /\ World.pending = pending /\ World.cq = cq
  /\ World.input = input /\ World.rxMasked = rxMasked /\ World.got = got
  BY Zenon DEF World

\* drain(p) and the empty submission queue it leaves.
Drains(p) ==
    /\ SetWorld(Drain(p))
    /\ sq' = [sq EXCEPT ![p] = <<>>]
    /\ UNCHANGED <<exitCode, hasRing, device, typed, nextTag, stash, inflight>>

\* A drain in PollDrain, and in enter, keeps what is true of the requests, the table
\* and the keyboard.
LEMMA DrainsOK ==
  ASSUME LibraryFacts, JringInv, NEW p \in Pids, Drains(p), hasRing[p]
  PROVE  /\ (World \in Worlds)' /\ (count > 0)'
         /\ sq' \in [Pids -> Seq(Sqe)] /\ cq'[p] = Drain(p).cq[p] /\ sq'[p] = <<>>
         /\ Range(cq[p]) \subseteq Range(cq'[p])
         /\ \A q \in Pids \ {p} : sq'[q] = sq[q] /\ cq'[q] = cq[q] /\ pending'[q] = pending[q]
         /\ count' \in Nat /\ count' >= count
         /\ RoomForSpawns' /\ TagInv' /\ RequestInv' /\ ConsoleInv'
<1> DEFINE w == Drain(p)
           n == Len(sq[p])
<1>1. w \in Midway(p, n)
  BY DrainOK, Zenon
<1> HIDE DEF w
<1>2. w \in Worlds /\ World' = w
  BY <1>1, SetWorldIs, Zenon DEF Midway, Drains, w
<1>3. /\ count' = w.count /\ cq' = w.cq /\ pending' = w.pending
  BY Zenon DEF Drains, SetWorld, w
<1>4. /\ w.count \in Nat /\ w.count > 0 /\ w.count >= count
      /\ Range(cq[p]) \subseteq Range(w.cq[p])
      /\ \A q \in Pids \ {p} : w.cq[q] = cq[q] /\ w.pending[q] = pending[q]
  BY <1>1, Zenon DEF Midway, Worlds
<1>5. sq \in [Pids -> Seq(Sqe)] /\ sq' = [sq EXCEPT ![p] = <<>>] /\ n \in Nat /\ DOMAIN sq[p] = 1..n
  BY DEF JringInv, TypeOK, SideType, Drains
<1>6. /\ sq' \in [Pids -> Seq(Sqe)] /\ sq'[p] = <<>>
      /\ \A q \in Pids \ {p} : sq'[q] = sq[q]
  BY <1>5
<1>7. RoomForSpawns'
  <2>1. QueuedSpawns' = SpawnsAfter(p, n)
    <3>1. \A q \in Pids : DOMAIN sq'[q] = IF q = p THEN {} ELSE DOMAIN sq[q]
      BY <1>6
    <3>2. ASSUME NEW x \in QueuedSpawns' PROVE x \in SpawnsAfter(p, n)
      <4>1. PICK q \in Pids : \E i \in DOMAIN sq'[q] : x = <<q, i>> /\ sq'[q][i].op = "spawn"
        BY <3>2 DEF QueuedSpawns
      <4>2. q # p
        BY <3>1, <4>1, Zenon
      <4> QED BY <1>6, <4>1, <4>2 DEF QueuedSpawns, SpawnsAfter
    <3>3. ASSUME NEW x \in SpawnsAfter(p, n) PROVE x \in QueuedSpawns'
      <4>1. PICK q \in Pids : \E i \in DOMAIN sq[q] : x = <<q, i>> /\ sq[q][i].op = "spawn"
        BY <3>3 DEF QueuedSpawns, SpawnsAfter
      <4>2. q # p
        BY <1>5, <4>1, <3>3 DEF SpawnsAfter
      <4> QED BY <1>6, <4>1, <4>2 DEF QueuedSpawns
    <3> QED BY <3>2, <3>3, Zenon
  <2>2. IsFiniteSet(SpawnsAfter(p, n))
    <3>1. SpawnsAfter(p, n) \in SUBSET QueuedSpawns /\ IsFiniteSet(QueuedSpawns)
      BY Zenon DEF SpawnsAfter, JringInv, RoomForSpawns
    <3> QED BY <3>1, CardSubset, Zenon
  <2>3. w.count + Cardinality(SpawnsAfter(p, n)) <= NumProcs
    BY <1>1, Zenon DEF Midway
  <2> QED BY <1>3, <2>1, <2>2, <2>3, Zenon DEF RoomForSpawns
<1>8. TagInv'
  <2>1. inflight' = inflight /\ nextTag' = nextTag /\ DOMAIN sq'[p] = {}
    BY <1>6 DEF Drains
  <2>2. ASSUME NEW q \in Pids PROVE TagsOK(inflight[q], sq'[q], nextTag[q])
    <3>1. TagsOK(inflight[q], sq[q], nextTag[q])
      BY Zenon DEF JringInv, TagInv
    <3>2. CASE q # p
      BY <1>6, <3>1, <3>2, Zenon
    <3>3. CASE q = p
      BY <2>1, <3>1, <3>3, Zenon DEF TagsOK
    <3> QED BY <3>2, <3>3, Zenon
  <2> QED BY <2>1, <2>2, Zenon DEF TagInv
<1>9. RequestInv'
  <2>1. WorldOK(w, p, QueuedAfter(p, n))
    BY <1>1, Zenon DEF Midway
  <2>2. QueuedAfter(p, n) = {} /\ Range(sq'[p]) = {}
    BY <1>5, <1>6 DEF QueuedAfter, Range
  <2>3. SystemOK(w, sq', inflight, stash, exitCode)
    BY <1>6, <2>1, <2>2, Zenon DEF WorldOK, SystemOK
  <2>4. inflight' = inflight /\ stash' = stash /\ exitCode' = exitCode
    BY Zenon DEF Drains
  <2> QED BY <1>2, <2>3, <2>4, Zenon DEF RequestInv
<1>10. ConsoleInv'
  <2>1. device' = device /\ typed' = typed /\ exitCode' = exitCode
    BY Zenon DEF Drains
  <2>2. ConsoleOK(w, device, typed) /\ ReadersOK(w, exitCode[Shell])
    BY <1>1, Zenon DEF Midway
  <2> QED BY <1>2, <2>1, <2>2, Zenon DEF ConsoleInv
<1>11. (World \in Worlds)' /\ (count > 0)'
  BY <1>2, <1>3, <1>4, Zenon
<1> QED BY <1>3, <1>4, <1>6, <1>7, <1>8, <1>9, <1>10, <1>11, Zenon DEF w

\* The requests in a world, with nothing else changing.
QuietOK(w) == SystemOK(w, sq, inflight, stash, exitCode)

\* poll_pending completes a parked read of the shell.
LEMMA ServedOK ==
  ASSUME LibraryFacts, FlightsOK, NEW w \in Worlds, NEW v \in Worlds, NEW s \in Slots,
         QuietOK(w), Served(w, v, s)
  PROVE  QuietOK(v)
<1> DEFINE e == w.pending[Shell][s]
           fl == inflight[Shell]
           st == stash[Shell]
           k == InputCount(w, e.arg)
           Q == Range(sq[Shell])
<1>0. Shell \in Pids /\ FlightOK(fl) /\ st \in SUBSET Cqe /\ ProcOK(w, Shell, Q, fl, st, exitCode)
  BY PidFacts, Zenon DEF FlightsOK, QuietOK, SystemOK
<1>1. /\ e # None /\ SameTable(w, v) /\ v.exitWaiter = w.exitWaiter
      /\ v.pending = [w.pending EXCEPT ![Shell] = [@ EXCEPT ![s] = None]]
      /\ k \in 0..Len(w.input) /\ k <= e.arg /\ (e.arg > 0 => k > 0)
      /\ v.cq = Posted(w.cq, Shell, e.tag, k)
  BY Zenon DEF Served
<1>2. w.pending \in [Pids -> [Slots -> Sqe \union {None}]] /\ Len(w.input) \in Nat
  BY WorldParts, Zenon
<1>2a. v.pending = Emptied(w.pending, s)
  BY <1>1, Zenon DEF Emptied
<1>3. /\ \A t \in Slots : v.pending[Shell][t] = IF t = s THEN None ELSE w.pending[Shell][t]
      /\ \A q \in Pids \ {Shell} : v.pending[q] = w.pending[q]
  <2> DEFINE g == Emptied(w.pending, s)
  <2>1. /\ \A t \in Slots : g[Shell][t] = IF t = s THEN None ELSE w.pending[Shell][t]
        /\ \A q \in Pids \ {Shell} : g[q] = w.pending[q]
    BY <1>0, <1>2, SlotEmptied, Zenon
  <2> HIDE DEF g
  <2>2. v.pending = g
    BY <1>2a DEF g
  <2> QED BY <2>1, <2>2, Zenon
<1>4. /\ SlotsOK(w, Shell, fl) /\ PlacesOK(w, Shell, Q, fl, st)
      /\ e \in fl /\ e.op = "read" /\ e.arg > 0 /\ e \in Sqe /\ e.arg \in Nat
  BY <1>0, <1>1, ZenonT(60) DEF ProcOK, ReqOK, SlotsOK, FlightOK, Sqe
<1> HIDE DEF e, fl, st, k, Q
<1>5. Parked(w, Shell, e) /\ ~Completed(w.cq[Shell], st, e) /\ e \notin Q
  BY <1>4, Zenon DEF PlacesOK, Parked, InSlot, e
<1>6. k \in Int /\ k \in 1..e.arg
  BY <1>1, <1>2, <1>4
<1>7. v.parent = w.parent /\ v.exitWaiter = w.exitWaiter /\ v.count = w.count
  BY <1>1, Zenon DEF SameTable
<1>8. \A q \in Pids : \A f : OnChild(v, q, f) <=> OnChild(w, q, f)
  BY <1>7, Zenon DEF OnChild
<1>9. ~OnChild(w, Shell, e)
  BY <1>4, Zenon DEF OnChild
<1>10. \A f \in fl : InSlot(v, Shell, f) <=> InSlot(w, Shell, f) /\ f # e
  <2>1. \A f \in fl : f # None
    BY <1>0, Zenon DEF FlightOK
  <2> QED BY <1>1, <1>3, <1>4, <2>1 DEF InSlot, SlotsOK, e
<1>11. \A f \in fl : Parked(v, Shell, f) <=> Parked(w, Shell, f) /\ f # e
  BY <1>0, <1>8, <1>9, <1>10, Zenon DEF Parked
<1>12. SlotsOK(v, Shell, fl)
  BY <1>3, <1>4, Zenon DEF SlotsOK
<1>13. \A q \in Pids : ResultsLast(w, v, q, inflight[q], exitCode, exitCode)
  BY <1>7, ResultsStay, Zenon DEF FlightsOK
<1>14. ResultIn(v, Shell, e, k, exitCode)
  BY <1>4, <1>6 DEF ResultIn
<1>15. ProcOK(v, Shell, Q, fl, st, exitCode)
  <2>1. ResultsLast(w, v, Shell, fl, exitCode, exitCode)
    BY <1>0, <1>13, Zenon DEF fl
  <2>2. ProcOK(v, Shell, Q \ {e}, fl, st, exitCode)
    BY <1>0, <1>1, <1>4, <1>5, <1>6, <1>11, <1>12, <1>14, <2>1, PostOK, Zenon
  <2> QED BY <1>5, <2>2, Zenon
<1>16. ASSUME NEW q \in Pids \ {Shell}
       PROVE  ProcOK(v, q, Range(sq[q]), inflight[q], stash[q], exitCode)
  <2>1. ProcOK(w, q, Range(sq[q]), inflight[q], stash[q], exitCode) /\ stash[q] \in SUBSET Cqe
    BY Zenon DEF QuietOK, SystemOK, FlightsOK
  <2>2. v.cq[q] = w.cq[q]
    <3>1. w.cq \in [Pids -> Seq(Cqe)]
      BY Zenon DEF Worlds
    <3> QED BY <1>1, <3>1, Zenon DEF Posted
  <2> QED BY <1>3, <1>8, <1>13, <2>1, <2>2, FrameOK, Zenon
<1>17. TableOK(v) /\ WaitersOK(v, inflight, exitCode)
  BY <1>7, <1>8 DEF QuietOK, SystemOK, TableOK, WaitersOK, OnChild
<1> QED BY <1>15, <1>16, <1>17, Zenon DEF QuietOK, SystemOK, Q, fl, st

\* The world during poll_pending, after slot s.
Offered(dev, s) ==
    {w \in Worlds :
        /\ QuietOK(w) /\ ConsoleOK(w, dev, typed)
        /\ w.count = count /\ w.parent = parent
        /\ Range(cq[Shell]) \subseteq Range(w.cq[Shell])
        /\ \A q \in Pids \ {Shell} : w.cq[q] = cq[q] /\ w.pending[q] = pending[q]
        /\ \A t \in Slots : w.pending[Shell][t] \in {pending[Shell][t], None}
        /\ w.input = <<>> \/ \A t \in 1..s : w.pending[Shell][t] = None
        /\ w.pending # pending \/ w.cq = cq}

\* One turn of the loop of poll_pending.
LEMMA PollStep ==
  ASSUME LibraryFacts, FlightsOK, pending \in [Pids -> [Slots -> Sqe \union {None}]],
         NEW dev \in Seq(Nat), NEW s \in Slots, NEW w \in Offered(dev, s - 1)
  PROVE  PollSlot(w, s) \in Offered(dev, s)
<1> DEFINE v == PollSlot(w, s)
<1>0. /\ w \in Worlds /\ QuietOK(w) /\ ConsoleOK(w, dev, typed)
      /\ w.count = count /\ w.parent = parent
      /\ Range(cq[Shell]) \subseteq Range(w.cq[Shell])
      /\ \A q \in Pids \ {Shell} : w.cq[q] = cq[q] /\ w.pending[q] = pending[q]
      /\ \A t \in Slots : w.pending[Shell][t] \in {pending[Shell][t], None}
      /\ w.input = <<>> \/ \A t \in 1..(s - 1) : w.pending[Shell][t] = None
      /\ w.pending # pending \/ w.cq = cq
  BY Zenon DEF Offered
<1>1. s \in Nat /\ 1..s = (1..(s - 1)) \union {s} /\ 1..s \subseteq Slots
  BY DEF Slots
<1>2. v \in Worlds /\ ((v = w /\ (w.pending[Shell][s] = None \/ w.input = <<>>)) \/ Served(w, v, s))
  BY <1>0, PollSlotIs, Zenon
<1> HIDE DEF v
<1>3. CASE v = w /\ (w.pending[Shell][s] = None \/ w.input = <<>>)
  <2>1. w.input = <<>> \/ \A t \in 1..s : w.pending[Shell][t] = None
    BY <1>0, <1>1, <1>3, Zenon
  <2> QED BY <1>0, <1>3, <2>1, Zenon DEF Offered, v
<1>4. CASE Served(w, v, s)
  <2> DEFINE e == w.pending[Shell][s]
             k == InputCount(w, e.arg)
  <2>1. /\ e # None /\ SameTable(w, v) /\ w.input # <<>>
        /\ v.pending = [w.pending EXCEPT ![Shell] = [@ EXCEPT ![s] = None]]
        /\ v.cq = Posted(w.cq, Shell, e.tag, k)
        /\ \E d \in Worlds : Moved(w, d, Shell, k) /\ SameConsole(d, v)
    BY <1>4, Zenon DEF Served
  <2>2. w.pending \in [Pids -> [Slots -> Sqe \union {None}]] /\ Shell \in Pids
    BY <1>0, PidFacts, Zenon DEF Worlds
  <2>3. /\ \A t \in Slots : v.pending[Shell][t] = IF t = s THEN None ELSE w.pending[Shell][t]
        /\ \A q \in Pids \ {Shell} : v.pending[q] = w.pending[q]
    <3>1. v.pending = Emptied(w.pending, s)
      BY <2>1, Zenon DEF Emptied
    <3> DEFINE g == Emptied(w.pending, s)
    <3>2. /\ \A t \in Slots : g[Shell][t] = IF t = s THEN None ELSE w.pending[Shell][t]
          /\ \A q \in Pids \ {Shell} : g[q] = w.pending[q]
      BY <2>2, SlotEmptied, Zenon
    <3> HIDE DEF g
    <3>3. v.pending = g
      BY <3>1 DEF g
    <3> QED BY <3>2, <3>3, Zenon
  <2>4. QuietOK(v)
    BY <1>0, <1>2, <1>4, ServedOK, Zenon
  <2>5. k \in 1..Len(w.input)
    <3>1. e \in inflight[Shell] /\ e.arg > 0
      BY <1>0, <2>1, <2>2, Zenon DEF QuietOK, SystemOK, ProcOK, ReqOK, SlotsOK
    <3>2. k \in 0..Len(w.input) /\ (e.arg > 0 => k > 0)
      BY <1>4, Zenon DEF Served
    <3>3. Len(w.input) \in Nat
      BY <1>0, WorldParts, Zenon
    <3> HIDE DEF k, e
    <3> QED BY <3>1, <3>2, <3>3
  <2>6. ConsoleOK(v, dev, typed)
    BY <1>0, <1>2, <2>1, <2>5, MovedConsole, Zenon
  <2>7. v.count = count /\ v.parent = parent
    BY <1>0, <2>1, Zenon DEF SameTable
  <2>8. \A q \in Pids \ {Shell} : v.cq[q] = cq[q] /\ v.pending[q] = pending[q]
    <3>1. w.cq \in [Pids -> Seq(Cqe)]
      BY <1>0, Zenon DEF Worlds
    <3>2. \A q \in Pids \ {Shell} : v.cq[q] = w.cq[q]
      BY <2>1, <3>1, Zenon DEF Posted
    <3> QED BY <1>0, <2>3, <3>2, Zenon
  <2>9. \A t \in Slots : v.pending[Shell][t] \in {pending[Shell][t], None}
    BY <1>0, <2>3, Zenon
  <2>10. \A t \in 1..s : v.pending[Shell][t] = None
    BY <1>0, <1>1, <2>1, <2>3, Zenon
  <2>11. v.pending # pending
    BY <1>0, <2>1, <2>3, Zenon
  <2>12. Range(w.cq[Shell]) \subseteq Range(v.cq[Shell])
    <3>1. w.cq \in [Pids -> Seq(Cqe)] /\ e.tag \in Nat /\ k \in Int
      BY <1>0, <2>1, <2>2, <2>5 DEF Worlds, Sqe
    <3> HIDE DEF k, e
    <3>2. Range(w.cq[Shell]) \subseteq Range(Posted(w.cq, Shell, e.tag, k)[Shell])
      BY <2>2, <3>1, PostCompleted, Zenon
    <3> QED BY <2>1, <3>2, Zenon
  <2> QED BY <1>0, <1>2, <2>4, <2>6, <2>7, <2>8, <2>9, <2>10, <2>11, <2>12, Zenon DEF Offered, v
<1> QED BY <1>2, <1>3, <1>4, Zenon

\* drain_uart moves the front of the device to the back of the ring.
LEMMA DrainUartOK ==
  ASSUME JringInv, ~rxMasked
  PROVE  /\ UartCount \in 0..Len(device)
         /\ SubSeq(device, UartCount + 1, Len(device)) \in Seq(Nat)
         /\ DrainUart \in Offered(SubSeq(device, UartCount + 1, Len(device)), 0)
         /\ DrainUart.pending = pending
<1> DEFINE k == UartCount
           buf == input \o SubSeq(device, 1, k)
           m == rxMasked \/ Len(buf) = InputCap
           w == DrainUart
           dev == SubSeq(device, k + 1, Len(device))
<1>0. /\ World \in Worlds /\ device \in Seq(Nat) /\ typed \in Nat
  BY Zenon DEF JringInv, TypeOK, SideType
<1>1. /\ input \in Seq(Nat) /\ rxMasked \in BOOLEAN /\ got \in [Pids -> Seq(Nat)]
      /\ World.input = input /\ World.rxMasked = rxMasked
  BY <1>0, WorldIs, Zenon DEF Worlds
<1>2. Len(input) <= InputCap /\ (rxMasked <=> Len(input) = InputCap)
  BY WorldIs, Zenon DEF JringInv, ConsoleInv, ConsoleOK
<1>3. k \in 0..Len(device) /\ Len(input) + k <= InputCap
  BY <1>0, <1>1, <1>2 DEF UartCount
<1>4. w = [World EXCEPT !.input = buf, !.rxMasked = m]
  BY <1>1, Zenon DEF DrainUart
<1> HIDE DEF k, w
<1>5. SubSeq(device, 1, k) \in Seq(Nat) /\ Len(SubSeq(device, 1, k)) = k /\ dev \in Seq(Nat)
  BY <1>0, <1>3, Cut
<1>6. buf \in Seq(Nat) /\ Len(buf) = Len(input) + k
  BY <1>1, <1>5
<1>7. m \in BOOLEAN
  BY Zenon
<1>8. (got[Shell] \o buf) \o dev = (got[Shell] \o input) \o device
  <2> DEFINE g == got[Shell]
  <2>1. g \in Seq(Nat) /\ input \in Seq(Nat) /\ device \in Seq(Nat) /\ k \in 0..Len(device)
    BY <1>0, <1>1, <1>3, PidFacts, Zenon
  <2> HIDE DEF g
  <2>2. Filled(g, input, device, k)
    BY <2>1, FillBack, Zenon
  <2> QED BY <2>2, Zenon DEF g, Filled
<1>9. ~rxMasked
  BY Zenon
<1>10. m <=> Len(buf) = InputCap
  BY <1>9, Zenon
<1> HIDE DEF buf, m
<1>11. /\ w \in Worlds /\ SameTable(World, w) /\ SameParked(World, w) /\ w.cq = World.cq
       /\ w.got = World.got /\ w.input = buf /\ w.rxMasked = m
  BY <1>0, <1>4, <1>6, <1>7, Zenon DEF Worlds, SameTable, SameParked
<1>12. /\ w.count = count /\ w.parent = parent /\ w.pending = pending /\ w.cq = cq
       /\ w.exitWaiter = World.exitWaiter /\ w.got = got
  BY <1>11, WorldIs, Zenon DEF SameTable, SameParked
<1>13. QuietOK(w)
  <2>1. QuietOK(World) /\ FlightsOK
    BY FlightsFromInv, Zenon DEF JringInv, RequestInv, QuietOK
  <2>2. \A q \in Pids : \A f : OnChild(w, q, f) <=> OnChild(World, q, f)
    BY <1>11, Zenon DEF OnChild, SameTable, SameParked
  <2>3. TableOK(w) /\ WaitersOK(w, inflight, exitCode)
    BY <1>11, <2>1, <2>2 DEF QuietOK, SystemOK, TableOK, WaitersOK, SameTable, SameParked, OnChild
  <2>4. ASSUME NEW q \in Pids PROVE ProcOK(w, q, Range(sq[q]), inflight[q], stash[q], exitCode)
    <3>1. ResultsLast(World, w, q, inflight[q], exitCode, exitCode)
      BY <1>0, <1>11, <2>1, ResultsStay, Zenon DEF FlightsOK, SameTable
    <3>2. ProcOK(World, q, Range(sq[q]), inflight[q], stash[q], exitCode) /\ stash[q] \in SUBSET Cqe
      BY <2>1, Zenon DEF QuietOK, SystemOK, FlightsOK
    <3>3. w.cq[q] = World.cq[q] /\ w.pending[q] = World.pending[q]
      BY <1>11, Zenon DEF SameParked
    <3> QED BY <1>0, <1>11, <2>2, <3>1, <3>2, <3>3, FrameOK, Zenon
  <2> QED BY <2>3, <2>4, Zenon DEF QuietOK, SystemOK
<1>14. ConsoleOK(w, dev, typed)
  <2>1. /\ (got[Shell] \o input) \o device = [i \in 1..typed |-> i]
        /\ \A p \in Pids \ {Shell} : got[p] = <<>>
    BY WorldIs, Zenon DEF JringInv, ConsoleInv, ConsoleOK
  <2>2. (w.got[Shell] \o w.input) \o dev = [i \in 1..typed |-> i]
    BY <1>8, <1>11, <1>12, <2>1, Zenon
  <2>3. Len(w.input) <= InputCap
    BY <1>3, <1>6, <1>11, Zenon
  <2>4. w.rxMasked <=> Len(w.input) = InputCap
    BY <1>10, <1>11, Zenon
  <2> QED BY <1>12, <2>1, <2>2, <2>3, <2>4, Zenon DEF ConsoleOK
<1>15. w \in Offered(dev, 0)
  BY <1>11, <1>12, <1>13, <1>14 DEF Offered
<1> QED BY <1>3, <1>5, <1>12, <1>15, Zenon DEF w, k

\* The UART interrupt: what the keyboard and the shell's reads are after it.
LEMMA UartOK ==
  ASSUME LibraryFacts, JringInv, ~rxMasked
  PROVE  LET w == PollPending(DrainUart)
             dev == SubSeq(device, UartCount + 1, Len(device))
         IN  w \in Offered(dev, 0) /\ ReadersOK(w, exitCode[Shell])
<1> DEFINE dev == SubSeq(device, UartCount + 1, Len(device))
           w0 == DrainUart
           G == [s \in 0..MaxPending |-> Offered(dev, s)]
<1>1. dev \in Seq(Nat) /\ w0 \in Offered(dev, 0) /\ w0.pending = pending
  BY DrainUartOK, Zenon
<1>2. FlightsOK /\ pending \in [Pids -> [Slots -> Sqe \union {None}]]
  BY FlightsFromInv, WorldIs, Zenon DEF JringInv, TypeOK, Worlds
<1> HIDE DEF dev, w0
<1>3. CASE Foreground(Shell) /\ hasRing[Shell]
  <2>1. w0 \in G[0]
    BY <1>1
  <2>2. \A s \in Slots : \A w \in G[s - 1] : PollSlot(w, s) \in G[s]
    <3> SUFFICES ASSUME NEW s \in Slots, NEW w \in G[s - 1] PROVE PollSlot(w, s) \in G[s]
      BY Zenon
    <3>1. G[s - 1] = Offered(dev, s - 1) /\ G[s] = Offered(dev, s)
      BY DEF Slots
    <3> QED BY <1>1, <1>2, <3>1, PollStep
  <2>3. G[MaxPending] = Offered(dev, MaxPending)
    OBVIOUS
  <2> HIDE DEF G
  <2>4. PollPending(w0) \in Offered(dev, MaxPending)
    BY <1>3, <2>1, <2>2, <2>3, PollInduction, Zenon
  <2>5. PollPending(w0) \in Offered(dev, 0)
    BY <2>4 DEF Offered
  <2>6. ReadersOK(PollPending(w0), exitCode[Shell])
    BY <2>4, Zenon DEF Offered, ReadersOK, Slots
  <2> QED BY <2>5, <2>6, Zenon DEF w0, dev
<1>4. CASE ~(Foreground(Shell) /\ hasRing[Shell])
  <2>1. PollPending(w0) = w0
    BY <1>4, Zenon DEF PollPending
  <2>2. ~hasRing[Shell] => \A s \in Slots : pending[Shell][s] = None
    BY PidFacts, Zenon DEF JringInv, LifeInv
  <2>3. ~Foreground(Shell) => exitCode[Shell] # None
    BY Zenon DEF JringInv, TypeOK, Foreground, Running, Shell
  <2>4. ReadersOK(w0, exitCode[Shell])
    BY <1>1, <1>4, <2>2, <2>3, Zenon DEF ReadersOK
  <2> QED BY <1>1, <2>1, <2>4, Zenon DEF w0, dev
<1> QED BY <1>3, <1>4, Zenon
=============================================================================

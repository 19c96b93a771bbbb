---------------------------- MODULE SqpollProofs ----------------------------
(***************************************************************************)
(* The safety of the poller, the programs and the scheduler together, for  *)
(* every number of processes, requests in flight and ticks.                *)
(***************************************************************************)
EXTENDS Sqpoll, ProofBasics

-----------------------------------------------------------------------------
(* The inductive invariant. *)

UserPcs == {"start", "ready", "submit", "trap", "sent", "reap", "spin", "svc", "enter"}

PollPcs == {"register", "loop", "scan", "peek", "activate", "drain", "flags", "store",
            "rescan", "repeek", "block", "woken", "yield"}

PollLocals == [pc : PollPcs, pid : Nat, lim : Nat, worked : BOOLEAN, on : BOOLEAN]

\* The parts of the state that a drain writes.
Worlds ==
    [state : [Tasks -> TaskStates], count : 0..NumProcs, parent : [Pids -> 0..NumProcs],
     parked : [Pids -> BOOLEAN], sq : [Pids -> Seq(Sqes)], cq : [Pids -> Nat]]

TypeInv ==
    /\ World \in Worlds
    /\ current \in 0..(count + 1)
    /\ ring \in [Pids -> BOOLEAN] /\ husk \in [Pids -> BOOLEAN]
    /\ waiter \in [Pids -> BOOLEAN] /\ flag \in [Pids -> BOOLEAN]
    /\ sq \in [Pids -> Seq(Sqes)]
    /\ poll \in PollLocals
    /\ user \in [Pids -> [pc : UserPcs, out : Nat]]

\* The idle task can always run, whoever runs is Runnable, and a user task runs in
\* its own space.
SchedInv ==
    /\ state[Idle] = "Runnable" /\ state[current] = "Runnable"
    /\ \A t \in Tasks : t > count + 1 => state[t] = "Exited"
    /\ IsUser(current) => live = Pid(current)

\* A process has a ring from its setup to its exit, has requests out from the first
\* one it publishes to the last one it reaps, and exits with none.
LifeInv ==
    \A p \in Pids :
        /\ ring[p] <=> user[p].pc # "start" /\ ~husk[p]
        /\ p >= count => user[p].pc = "start" /\ ~husk[p]
        /\ husk[p] => state[Task(p)] = "Exited" /\ user[p].pc = "ready"
        /\ user[p].pc \in {"start", "ready"} <=> user[p].out = 0

\* Waits are parked on living children only.
TableInv(n, par, prk) ==
    \A c \in Pids : /\ c >= n => par[c] = NumProcs
                    /\ prk[c] => par[c] \in Pids /\ ~husk[c]

\* Submission j of q is still there once the first i of p have been consumed.
Left(p, i, q, j) == j \in DOMAIN sq[q] /\ (q = p => j > i)

\* The queued waits name children of their process on which nothing is parked, and
\* for a queued spawn there is room in the process table.
QueuedInv(n, par, prk, p, i) ==
    \A q \in Pids : \A j \in DOMAIN sq[q] :
        Left(p, i, q, j) =>
            /\ sq[q][j].op = "wait" =>
                 sq[q][j].child \in Pids /\ par[sq[q][j].child] = q /\ ~prk[sq[q][j].child]
            /\ sq[q][j].op = "spawn" => n < NumProcs

\* No wait is queued twice and no two spawns are queued.
DistinctInv ==
    \A p, q \in Pids : \A i \in DOMAIN sq[p], j \in DOMAIN sq[q] :
        /\ p = q /\ sq[p][i].op = "wait" /\ sq[p][i] = sq[q][j] => i = j
        /\ sq[p][i].op = "spawn" /\ sq[q][j].op = "spawn" => p = q /\ i = j

\* Only a process with a ring has a queue, and only a wait names a child.
RingInv ==
    \A p \in Pids : /\ ~ring[p] => sq[p] = <<>>
                    /\ \A i \in DOMAIN sq[p] : sq[p][i].op = "spawn" => sq[p][i].child = 0

\* The children a process waits for.
Kids(par, prk, p) == {c \in Pids : par[c] = p /\ prk[c]}

\* InFlightAccounted, of the processes without a ring too: they have no requests.
Accounted ==
    \A p \in Pids : user[p].out = Len(sq[p]) + cq[p] + Cardinality(Kids(parent, parked, p))

\* No program has more requests out than its completion queue has entries.
BatchInv == \A p \in Pids : user[p].out <= Batch

\* A task is blocked in enter() only, after its queue was drained.
BlockInv ==
    \A p \in Pids :
        /\ state[Task(p)] = "Blocked" => user[p].pc = "enter" /\ cq[p] = 0 /\ waiter[p]
        /\ user[p].pc = "enter" => sq[p] = <<>>

\* NEED_WAKEUP is up in rings only, and in none that set_all_wakeup(false) has passed.
PollInv ==
    /\ \A p \in Pids : flag[p] => ring[p]
    /\ poll.lim <= count
    /\ poll.pc \in {"peek", "activate", "drain", "store", "repeek"} => poll.pid < poll.lim
    /\ poll.pc \in {"register", "loop", "scan", "peek", "activate", "drain", "yield"} =>
         \A p \in Pids : ~flag[p]
    /\ poll.pc \in {"flags", "store"} /\ ~poll.on =>
         \A p \in Pids : flag[p] => p >= poll.pid /\ p < poll.lim

\* What happens to the requests.
RequestInv ==
    /\ TableInv(count, parent, parked)
    /\ \A p \in Pids : QueuedInv(count, parent, parked, p, 0)
    /\ DistinctInv
    /\ RingInv
    /\ Accounted
    /\ BatchInv

SqpollInv ==
    /\ TypeInv
    /\ SchedInv
    /\ LifeInv
    /\ RequestInv
    /\ BlockInv
    /\ PollInv

-----------------------------------------------------------------------------
USE SqpollAssumption

\* Tasks and processes by number.
LEMMA Numbers ==
  /\ \A p \in Pids : /\ p \in Nat /\ p < NumProcs /\ p # NumProcs /\ Task(p) \in Tasks
                     /\ IsUser(Task(p)) /\ Pid(Task(p)) = p /\ Task(p) # Idle /\ Task(p) # Poller
  /\ \A p, q \in Pids : Task(p) = Task(q) => p = q
  /\ Idle \in Tasks /\ Poller \in Tasks /\ ~IsUser(Idle) /\ ~IsUser(Poller)
  /\ 0 \in Pids /\ NumProcs \in Nat /\ NumProcs \notin Pids
  BY DEF Pids, Task, Tasks, IsUser, Pid, Idle, Poller

\* What the world is made of.
LEMMA WorldIs ==
  ASSUME TypeInv
  PROVE  /\ World \in Worlds
         /\ World.state = state /\ World.count = count /\ World.parent = parent
         /\ World.parked = parked /\ World.cq = cq /\ World.sq = sq
         /\ state \in [Tasks -> TaskStates] /\ count \in 0..NumProcs
         /\ parent \in [Pids -> 0..NumProcs] /\ parked \in [Pids -> BOOLEAN]
         /\ cq \in [Pids -> Nat] /\ sq \in [Pids -> Seq(Sqes)]
  BY Zenon DEF TypeInv, World, Worlds

\* The running process is one of the table, with a task that is not blocked.
LEMMA Running ==
  ASSUME SqpollInv, NEW p \in Pids, current = Task(p)
  PROVE  p < count /\ state[Task(p)] = "Runnable" /\ ~husk[p]
<1>1. current \in 0..(count + 1) /\ state[current] = "Runnable" /\ count \in 0..NumProcs
  BY WorldIs, Zenon DEF SqpollInv, TypeInv, SchedInv
<1>2. husk[p] => state[Task(p)] = "Exited"
  BY Zenon DEF SqpollInv, LifeInv
<1> QED BY <1>1, <1>2, Numbers DEF Task

\* schedule() picks a Runnable task of the vector and, when it is another one and a
\* user task, installs its space.
LEMMA ScheduleIs ==
  ASSUME LibraryFacts, TypeInv, SchedInv, NEW st, NEW installed, st[Idle] = "Runnable",
         installed = live \/ st[current] # "Runnable", Schedule(st, installed)
  PROVE  /\ state' = st
         /\ current' \in 0..(count + 1) /\ st[current'] = "Runnable"
         /\ IsUser(current') => live' = Pid(current')
<1>1. count \in Nat /\ current \in 0..(count + 1) /\ Idle \in 0..(count + 1)
  BY WorldIs DEF TypeInv, Idle
<1>2. /\ NextTask(st, current, count + 2) \in 0..(count + 1)
      /\ st[NextTask(st, current, count + 2)] = "Runnable"
  <2> DEFINE m == count + 2
  <2>1. m \in Nat \ {0} /\ 0..(m - 1) = 0..(count + 1)
    BY <1>1
  <2> HIDE DEF m
  <2>2. NextTask(st, current, m) \in 0..(m - 1) /\ st[NextTask(st, current, m)] = "Runnable"
    BY <1>1, <2>1, NextTaskPicks, Zenon
  <2> QED BY <2>1, <2>2, Zenon DEF m
<1>3. /\ state' = st /\ current' = NextTask(st, current, count + 2)
      /\ live' = IF current' # current /\ IsUser(current') THEN Pid(current') ELSE installed
  BY Zenon DEF Schedule
<1>4. IsUser(current') => live' = Pid(current')
  BY <1>2, <1>3, Zenon DEF SchedInv
<1> QED BY <1>2, <1>3, <1>4, Zenon

-----------------------------------------------------------------------------
(* The children a process waits for. *)

\* They are finitely many.
LEMMA KidsFinite ==
  ASSUME LibraryFacts, NEW par, NEW prk, NEW p
  PROVE  IsFiniteSet(Kids(par, prk, p)) /\ Cardinality(Kids(par, prk, p)) \in Nat
<1>1. IsFiniteSet(Pids)
  BY CardInterval DEF Pids
<1>2. Kids(par, prk, p) \subseteq Pids
  BY Zenon DEF Kids
<1>3. IsFiniteSet(Kids(par, prk, p))
  BY <1>1, <1>2, CardSubset, Zenon
<1> QED BY <1>3, CardNat, Zenon

\* One more child ...
LEMMA KidsAdd ==
  ASSUME LibraryFacts, NEW par, NEW prk, NEW new, NEW p, NEW c,
         c \notin Kids(par, prk, p), Kids(par, new, p) = Kids(par, prk, p) \union {c}
  PROVE  Cardinality(Kids(par, new, p)) = Cardinality(Kids(par, prk, p)) + 1
  BY KidsFinite, CardAdd, Zenon

\* ... and one less.
LEMMA KidsRemove ==
  ASSUME LibraryFacts, NEW par, NEW prk, NEW new, NEW p, NEW c,
         c \in Kids(par, prk, p), Kids(par, new, p) = Kids(par, prk, p) \ {c}
  PROVE  Cardinality(Kids(par, new, p)) = Cardinality(Kids(par, prk, p)) - 1
<1> DEFINE S == Kids(par, prk, p)
<1>1. IsFiniteSet(S) /\ c \in S
  BY KidsFinite, Zenon
<1> HIDE DEF S
<1>2. Cardinality(S \ {c}) = Cardinality(S) - 1
  BY <1>1, CardRemove, Zenon
<1> QED BY <1>2, Zenon DEF S

-----------------------------------------------------------------------------
(* drain(). *)

\* The loop of drain() over the submissions of a.pid.
DrainBody(w, a, sqe) == ProcessSqe(w, a.pid, sqe, a.readable)
DrainLoop == INSTANCE FoldInduction WITH Op <- DrainBody

\* Induction along drain(): G[i] is what may hold after i submissions.
LEMMA DrainInduction ==
  ASSUME LibraryFacts, NEW p \in Pids, sq \in [Pids -> Seq(Sqes)], NEW readable,
         NEW w0, NEW G, w0 \in G[0],
         \A i \in 1..Len(sq[p]) : \A w \in G[i - 1] : ProcessSqe(w, p, sq[p][i], readable) \in G[i]
  PROVE  Consumed(w0, p, readable) \in G[Len(sq[p])]
<1> DEFINE a == [pid |-> p, readable |-> readable]
           n == Len(sq[p])
           seq == sq[p]
<1>1. Consumed(w0, p, readable) = DrainLoop!Folded(w0, a, sq[p])
  BY DEF Consumed, DrainLoop!Folded, Loop, DrainLoop!Loop, MapThenFoldSet, DrainBody,
         DrainLoop!MapThenFoldSet, Largest, DrainLoop!Largest
<1>2. /\ n \in Nat /\ DOMAIN seq = 1..n
      /\ Consumed(w0, p, readable) = DrainLoop!Folded(w0, a, seq)
  BY <1>1
<1>3. \A i \in 1..n : \A w \in G[i - 1] : DrainBody(w, a, seq[i]) \in G[i]
  BY Zenon DEF DrainBody
<1> HIDE DEF n, seq, a
<1>4. DrainLoop!Folded(w0, a, seq) \in G[n]
  BY <1>2, <1>3, Inductive, DrainLoop!FoldPreserves, Zenon
<1> QED BY <1>2, <1>4, Zenon DEF n

\* The submission is answered at once, ...
Answered(w, v, p) ==
    /\ v.cq = [w.cq EXCEPT ![p] = @ + 1]
    /\ v.state = w.state /\ v.count = w.count /\ v.parent = w.parent /\ v.parked = w.parked
    /\ v.sq = w.sq

\* ... or parked on a child that has not exited, ...
Parks(w, v, c) ==
    /\ ~husk[c]
    /\ v.parked = [w.parked EXCEPT ![c] = TRUE]
    /\ v.state = w.state /\ v.count = w.count /\ v.parent = w.parent /\ v.cq = w.cq
    /\ v.sq = w.sq

\* ... or creates a process and its task.
Spawns(w, v, p) ==
    /\ v.cq = [w.cq EXCEPT ![p] = @ + 1]
    /\ v.count = w.count + 1
    /\ v.parent = [w.parent EXCEPT ![w.count] = p]
    /\ v.state = [w.state EXCEPT ![Task(w.count)] = "Runnable"]
    /\ v.parked = w.parked /\ v.sq = w.sq

\* process_sqe does one of the three.
LEMMA ProcessSqeIs ==
  ASSUME NEW w \in Worlds, NEW p \in Pids, NEW sqe \in Sqes, NEW readable,
         sqe.op = "spawn" => w.count < NumProcs, w.cq[p] < CqEntries
  PROVE  LET v == ProcessSqe(w, p, sqe, readable)
         IN  /\ v \in Worlds
             /\ \/ Answered(w, v, p)
                \/ sqe.op = "wait" /\ Parks(w, v, sqe.child)
                \/ sqe.op = "spawn" /\ Spawns(w, v, p)
<1> DEFINE v == ProcessSqe(w, p, sqe, readable)
           x == [w.cq EXCEPT ![p] = @ + 1]
           k == [w.parked EXCEPT ![sqe.child] = TRUE]
           n == w.count + 1
           par == [w.parent EXCEPT ![w.count] = p]
           st == [w.state EXCEPT ![Task(w.count)] = "Runnable"]
<1>1. x \in [Pids -> Nat] /\ sqe.child \in Pids
  BY DEF Worlds, Sqes
<1>2. k \in [Pids -> BOOLEAN]
  BY Zenon DEF Worlds
<1>2a. x = [w.cq EXCEPT ![p] = Completed(@)]
  BY Zenon DEF Completed
<1>3. v = IF sqe.op = "spawn" /\ readable
          THEN [w EXCEPT !.cq = x, !.count = n, !.parent = par, !.state = st]
          ELSE IF sqe.op = "wait" /\ w.parent[sqe.child] = p /\ ~husk[sqe.child]
          THEN [w EXCEPT !.parked = k]
          ELSE [w EXCEPT !.cq = x]
  BY <1>2a, Zenon DEF ProcessSqe
<1>4. ASSUME sqe.op = "spawn"
      PROVE  n \in 0..NumProcs /\ par \in [Pids -> 0..NumProcs] /\ st \in [Tasks -> TaskStates]
  <2>1. /\ w.count \in 0..NumProcs /\ w.count < NumProcs /\ w.parent \in [Pids -> 0..NumProcs]
        /\ w.state \in [Tasks -> TaskStates] /\ p \in 0..NumProcs
    BY <1>4, Numbers, SMTT(30) DEF Worlds, Pids
  <2>2. "Runnable" \in TaskStates
    BY Zenon DEF TaskStates
  <2>3. n \in 0..NumProcs
    BY <2>1
  <2>4. par \in [Pids -> 0..NumProcs] /\ st \in [Tasks -> TaskStates]
    BY <2>1, <2>2, Zenon
  <2> QED BY <2>3, <2>4, Zenon
<1> SUFFICES /\ v \in Worlds
             /\ \/ Answered(w, v, p)
                \/ sqe.op = "wait" /\ Parks(w, v, sqe.child)
                \/ sqe.op = "spawn" /\ Spawns(w, v, p)
  BY Zenon
<1>5. CASE sqe.op = "spawn" /\ readable
  <2>1. v = [w EXCEPT !.cq = x, !.count = n, !.parent = par, !.state = st]
    BY <1>3, <1>5, Zenon
  <2>2. n \in 0..NumProcs /\ par \in [Pids -> 0..NumProcs] /\ st \in [Tasks -> TaskStates]
    BY <1>4, <1>5, Zenon
  <2> HIDE DEF x, n, par, st, v
  <2>3. /\ v \in Worlds
        /\ v.cq = x /\ v.count = n /\ v.parent = par /\ v.state = st /\ v.parked = w.parked
        /\ v.sq = w.sq
    BY <1>1, <2>1, <2>2, Zenon DEF Worlds
  <2> QED BY <1>5, <2>3, Zenon DEF Spawns, x, n, par, st
<1>6. CASE ~(sqe.op = "spawn" /\ readable) /\ sqe.op = "wait" /\ w.parent[sqe.child] = p /\ ~husk[sqe.child]
  <2>1. v = [w EXCEPT !.parked = k]
    BY <1>3, <1>6, Zenon
  <2> HIDE DEF k, v
  <2>2. /\ v \in Worlds /\ v.parked = k
        /\ v.state = w.state /\ v.count = w.count /\ v.parent = w.parent /\ v.cq = w.cq
        /\ v.sq = w.sq
    BY <1>2, <2>1, Zenon DEF Worlds
  <2> QED BY <1>6, <2>2, Zenon DEF Parks, k
<1>7. CASE ~(sqe.op = "spawn" /\ readable) /\ ~(sqe.op = "wait" /\ w.parent[sqe.child] = p /\ ~husk[sqe.child])
  <2>1. v = [w EXCEPT !.cq = x]
    BY <1>3, <1>7, Zenon
  <2> HIDE DEF x, v
  <2>2. /\ v \in Worlds /\ v.cq = x
        /\ v.state = w.state /\ v.count = w.count /\ v.parent = w.parent /\ v.parked = w.parked
        /\ v.sq = w.sq
    BY <1>1, <2>1, Zenon DEF Worlds
  <2> QED BY <2>2, Zenon DEF Answered, x
<1> QED BY <1>5, <1>6, <1>7, Zenon

\* The tasks of the processes there were are as in st, and the new ones can run.
TasksInv(st, w) ==
    /\ count <= w.count
    /\ \A t \in Tasks : /\ t <= count + 1 => w.state[t] = st[t]
                        /\ t > count + 1 => w.state[t] # "Blocked"
                        /\ t > w.count + 1 => w.state[t] = "Exited"

\* The other processes' completions and parked waits are as they were.
OthersInv(p, w) ==
    \A q \in Pids : q # p =>
        w.cq[q] = cq[q] /\ Kids(w.parent, w.parked, q) = Kids(parent, parked, q)

\* Each submission consumed is completed or parked.
OutInv(p, i, w) ==
    user[p].out + i = Len(sq[p]) + w.cq[p] + Cardinality(Kids(w.parent, w.parked, p))

\* What holds once drain() has consumed i submissions of p, from the task states st.
Midway(st, p, i) ==
    {w \in Worlds : /\ w.sq = sq
                    /\ TableInv(w.count, w.parent, w.parked)
                    /\ QueuedInv(w.count, w.parent, w.parked, p, i)
                    /\ TasksInv(st, w)
                    /\ OthersInv(p, w)
                    /\ OutInv(p, i, w)}

\* One submission more.
LEMMA MidwayStep ==
  ASSUME LibraryFacts, SqpollInv, NEW p \in Pids, NEW st, NEW i \in 1..Len(sq[p]),
         NEW w \in Midway(st, p, i - 1), NEW readable
  PROVE  ProcessSqe(w, p, sq[p][i], readable) \in Midway(st, p, i)
<1> DEFINE e == sq[p][i]
           v == ProcessSqe(w, p, e, readable)
<1>0. /\ sq \in [Pids -> Seq(Sqes)] /\ user[p].out \in Nat /\ DistinctInv
      /\ i \in DOMAIN sq[p] /\ e \in Sqes /\ Len(sq[p]) \in Nat
      /\ count \in 0..NumProcs /\ user[p].out <= Batch
  BY WorldIs DEF SqpollInv, RequestInv, BatchInv, TypeInv
<1>1. /\ w \in Worlds /\ w.sq = sq /\ TableInv(w.count, w.parent, w.parked)
      /\ QueuedInv(w.count, w.parent, w.parked, p, i - 1)
      /\ TasksInv(st, w) /\ OthersInv(p, w) /\ OutInv(p, i - 1, w)
  BY Zenon DEF Midway
<1>2. /\ w.count \in 0..NumProcs /\ w.parent \in [Pids -> 0..NumProcs]
      /\ w.parked \in [Pids -> BOOLEAN] /\ w.cq \in [Pids -> Nat]
      /\ w.state \in [Tasks -> TaskStates]
  BY <1>1, Zenon DEF Worlds
<1>3. /\ e.op = "wait" => e.child \in Pids /\ w.parent[e.child] = p /\ ~w.parked[e.child]
      /\ e.op = "spawn" => w.count < NumProcs
  <2>1. Left(p, i - 1, p, i)
    BY <1>0 DEF Left
  <2> QED BY <1>0, <1>1, <2>1 DEF QueuedInv
<1>5. \A q \in Pids : \A j \in DOMAIN sq[q] : Left(p, i, q, j) => Left(p, i - 1, q, j) /\ (q = p => j # i)
  BY <1>0 DEF Left
<1>6. Cardinality(Kids(w.parent, w.parked, p)) \in Nat
  BY KidsFinite, Zenon
<1> SUFFICES v \in Midway(st, p, i)
  BY Zenon DEF v, e
<1> DEFINE out == user[p].out
           len == Len(sq[p])
           kids == Cardinality(Kids(w.parent, w.parked, p))
           done == w.cq[p]
<1>6a. out \in Nat /\ len \in Nat /\ kids \in Nat /\ done \in Nat /\ out + (i - 1) = (len + done) + kids
  <2>1. out + (i - 1) = (len + done) + kids
    BY <1>1, Zenon DEF OutInv
  <2> QED BY <1>0, <1>2, <1>6, <2>1, Zenon
<1>6b. i \in Nat
  BY <1>0
<1>6d. i <= len /\ out <= Batch
  BY <1>0
<1> HIDE DEF out, len, kids, done
<1>6c. /\ out + i = (len + (done + 1)) + kids /\ out + i = (len + done) + (kids + 1)
       /\ done < CqEntries
  BY <1>6a, <1>6b, <1>6d
<1>4. /\ v \in Worlds
      /\ \/ Answered(w, v, p)
         \/ e.op = "wait" /\ Parks(w, v, e.child)
         \/ e.op = "spawn" /\ Spawns(w, v, p)
  <2>1. w.cq[p] < CqEntries
    BY <1>6c, Zenon DEF done
  <2> QED BY <1>0, <1>1, <1>3, <2>1, ProcessSqeIs, Zenon
<1> HIDE DEF v, e
<1>4a. v.sq = sq
  BY <1>1, <1>4, Zenon DEF Answered, Parks, Spawns
<1>7. CASE Answered(w, v, p)
  <2>1. TableInv(v.count, v.parent, v.parked)
    BY <1>1, <1>7, Zenon DEF Answered
  <2>2. QueuedInv(v.count, v.parent, v.parked, p, i)
    BY <1>1, <1>5, <1>7 DEF Answered, QueuedInv
  <2>3. TasksInv(st, v)
    BY <1>1, <1>7, Zenon DEF Answered, TasksInv
  <2>4. OthersInv(p, v)
    BY <1>1, <1>2, <1>7, Zenon DEF Answered, OthersInv
  <2>5. OutInv(p, i, v)
    <3>1. v.cq[p] = done + 1
      BY <1>2, <1>7, Zenon DEF Answered, done
    <3>2. Cardinality(Kids(v.parent, v.parked, p)) = kids
      BY <1>7, Zenon DEF Answered, kids
    <3> QED BY <1>6c, <3>1, <3>2, Zenon DEF OutInv, out, len
  <2> QED BY <1>4, <1>4a, <2>1, <2>2, <2>3, <2>4, <2>5, Zenon DEF Midway
<1>8. CASE e.op = "wait" /\ Parks(w, v, e.child)
  <2> DEFINE c == e.child
  <2>0. /\ c \in Pids /\ w.parent[c] = p /\ ~w.parked[c] /\ ~husk[c]
        /\ v.parked = [w.parked EXCEPT ![c] = TRUE]
        /\ v.state = w.state /\ v.count = w.count /\ v.parent = w.parent /\ v.cq = w.cq
    BY <1>3, <1>8, Zenon DEF Parks
  <2>1. TableInv(v.count, v.parent, v.parked)
    BY <1>1, <1>2, <2>0 DEF TableInv
  <2>2. QueuedInv(v.count, v.parent, v.parked, p, i)
    <3> SUFFICES ASSUME NEW q \in Pids, NEW j \in DOMAIN sq[q], Left(p, i, q, j)
                 PROVE  /\ sq[q][j].op = "wait" =>
                             sq[q][j].child \in Pids /\ v.parent[sq[q][j].child] = q /\ ~v.parked[sq[q][j].child]
                        /\ sq[q][j].op = "spawn" => v.count < NumProcs
      BY Zenon DEF QueuedInv
    <3>1. /\ sq[q][j].op = "wait" =>
               sq[q][j].child \in Pids /\ w.parent[sq[q][j].child] = q /\ ~w.parked[sq[q][j].child]
          /\ sq[q][j].op = "spawn" => w.count < NumProcs
      BY <1>1, <1>5 DEF QueuedInv
    <3>2. sq[q][j].op = "wait" => sq[q][j].child # c
      <4> SUFFICES ASSUME sq[q][j].op = "wait", sq[q][j].child = c PROVE FALSE
        BY Zenon
      <4>1. q = p /\ j # i
        BY <1>5, <2>0, <3>1, Zenon
      <4>2. sq[q][j] \in Sqes
        BY <1>0
      <4>3. sq[q][j] = e
        BY <1>0, <1>8, <4>2, SMTT(30) DEF Sqes
      <4> QED BY <1>0, <1>8, <4>1, <4>3 DEF DistinctInv, e
    <3> QED BY <1>2, <2>0, <3>1, <3>2, Zenon
  <2>3. TasksInv(st, v)
    BY <1>1, <2>0, Zenon DEF TasksInv
  <2>4. OthersInv(p, v)
    BY <1>1, <1>2, <2>0 DEF OthersInv, Kids
  <2>5. OutInv(p, i, v)
    <3>1. c \notin Kids(w.parent, w.parked, p)
      BY <2>0, Zenon DEF Kids
    <3>2. Kids(w.parent, v.parked, p) = Kids(w.parent, w.parked, p) \union {c}
      BY <1>2, <2>0, Zenon DEF Kids
    <3>3. Cardinality(Kids(w.parent, v.parked, p)) = kids + 1
      BY <3>1, <3>2, KidsAdd, Zenon DEF kids
    <3>4. Cardinality(Kids(v.parent, v.parked, p)) = kids + 1 /\ v.cq[p] = done
      BY <2>0, <3>3, Zenon DEF done
    <3> QED BY <1>6c, <3>4, Zenon DEF OutInv, out, len
  <2> QED BY <1>4, <1>4a, <2>1, <2>2, <2>3, <2>4, <2>5, Zenon DEF Midway
<1>9. CASE e.op = "spawn" /\ Spawns(w, v, p)
  <2> DEFINE c == w.count
  <2>0. /\ c \in Pids /\ w.parent[c] = NumProcs /\ ~w.parked[c] /\ v.count = c + 1
        /\ v.parent = [w.parent EXCEPT ![c] = p] /\ v.parked = w.parked
        /\ v.state = [w.state EXCEPT ![Task(c)] = "Runnable"]
        /\ v.cq = [w.cq EXCEPT ![p] = @ + 1]
        /\ c \in Nat
    <3>1. c \in Pids
      BY <1>2, <1>3, <1>9 DEF Pids
    <3> QED BY <1>1, <1>9, <3>1, Numbers DEF Spawns, TableInv
  <2> HIDE DEF c
  <2>1. TableInv(v.count, v.parent, v.parked)
    <3> SUFFICES ASSUME NEW d \in Pids
                 PROVE  /\ d >= v.count => v.parent[d] = NumProcs
                        /\ v.parked[d] => v.parent[d] \in Pids /\ ~husk[d]
      BY Zenon DEF TableInv
    <3>1. CASE d = c
      BY <1>2, <2>0, <3>1
    <3>2. CASE d # c
      <4>1. v.parent[d] = w.parent[d] /\ v.parked[d] = w.parked[d] /\ (d >= v.count => d >= c)
        BY <1>2, <2>0, <3>2, Numbers, SMTT(30)
      <4> QED BY <1>1, <4>1, Zenon DEF TableInv, c
    <3> QED BY <3>1, <3>2, Zenon
  <2>2. QueuedInv(v.count, v.parent, v.parked, p, i)
    <3> SUFFICES ASSUME NEW q \in Pids, NEW j \in DOMAIN sq[q], Left(p, i, q, j)
                 PROVE  /\ sq[q][j].op = "wait" =>
                             sq[q][j].child \in Pids /\ v.parent[sq[q][j].child] = q /\ ~v.parked[sq[q][j].child]
                        /\ sq[q][j].op = "spawn" => v.count < NumProcs
      BY Zenon DEF QueuedInv
    <3>1. sq[q][j].op = "wait" =>
               sq[q][j].child \in Pids /\ w.parent[sq[q][j].child] = q /\ ~w.parked[sq[q][j].child]
      BY <1>1, <1>5, Zenon DEF QueuedInv
    <3>2. sq[q][j].op # "spawn"
      BY <1>0, <1>5, <1>9, Zenon DEF DistinctInv, e
    <3> QED BY <1>2, <2>0, <3>1, <3>2, Numbers, Zenon
  <2>3. TasksInv(st, v)
    <3>1. count <= v.count
      BY <1>0, <1>1, <2>0 DEF TasksInv, c
    <3> SUFFICES ASSUME NEW t \in Tasks
                 PROVE  /\ t <= count + 1 => v.state[t] = st[t]
                        /\ t > count + 1 => v.state[t] # "Blocked"
                        /\ t > v.count + 1 => v.state[t] = "Exited"
      BY <3>1, Zenon DEF TasksInv
    <3>2. count <= c /\ Task(c) = c + 2 /\ Task(c) \in Tasks
      BY <1>1, <2>0, Numbers, Zenon DEF TasksInv, c, Task
    <3>3. CASE t = Task(c)
      <4>1. v.state[t] = "Runnable"
        BY <1>2, <2>0, <3>2, <3>3, Zenon
      <4>2. count \in Nat /\ c \in Nat /\ v.count = c + 1 /\ t = c + 2 /\ count <= c
        BY <1>0, <2>0, <3>2, <3>3
      <4>3. ~(t <= count + 1) /\ ~(t > v.count + 1)
        BY <4>2
      <4> QED BY <4>1, <4>3, Zenon
    <3>4. CASE t # Task(c)
      <4>1. v.state[t] = w.state[t]
        BY <1>2, <2>0, <3>2, <3>4, Zenon
      <4>2. v.count = c + 1 /\ c \in Nat /\ t \in Int
        BY <1>2, <2>0 DEF Tasks
      <4> HIDE DEF c
      <4>3. t > v.count + 1 => t > c + 1
        BY <4>2
      <4> QED BY <1>1, <4>1, <4>3, Zenon DEF TasksInv, c
    <3> QED BY <3>3, <3>4, Zenon
  <2>4. OthersInv(p, v) /\ Kids(v.parent, v.parked, p) = Kids(w.parent, w.parked, p)
    <3>1. ASSUME NEW q \in Pids PROVE Kids(v.parent, v.parked, q) = Kids(w.parent, w.parked, q)
      <4>1. \A d \in Pids : d # c => v.parent[d] = w.parent[d]
        BY <1>2, <2>0, Zenon
      <4> QED BY <2>0, <4>1, Zenon DEF Kids
    <3> QED BY <1>1, <1>2, <2>0, <3>1, Zenon DEF OthersInv
  <2>5. OutInv(p, i, v)
    <3>1. v.cq[p] = done + 1
      BY <1>2, <2>0, Zenon DEF done
    <3>2. Cardinality(Kids(v.parent, v.parked, p)) = kids
      BY <2>4, Zenon DEF kids
    <3> QED BY <1>6c, <3>1, <3>2, Zenon DEF OutInv, out, len
  <2> QED BY <1>4, <1>4a, <2>1, <2>2, <2>3, <2>4, <2>5, Zenon DEF Midway
<1> QED BY <1>4, <1>7, <1>8, <1>9, Zenon

\* The whole loop of drain(), from the task states st.
LEMMA DrainOK ==
  ASSUME LibraryFacts, SqpollInv, NEW p \in Pids, NEW st \in [Tasks -> TaskStates], NEW readable,
         \A t \in Tasks : t > count + 1 => st[t] = "Exited"
  PROVE  Consumed([World EXCEPT !.state = st], p, readable) \in Midway(st, p, Len(sq[p]))
<1> DEFINE w0 == [World EXCEPT !.state = st]
           n == Len(sq[p])
           G == [i \in 0..n |-> Midway(st, p, i)]
<1>0. /\ sq \in [Pids -> Seq(Sqes)] /\ n \in Nat /\ TypeInv
  BY DEF SqpollInv, TypeInv
<1>1. /\ w0 \in Worlds /\ w0.state = st /\ w0.count = count /\ w0.parent = parent
      /\ w0.parked = parked /\ w0.cq = cq /\ w0.sq = sq
  BY <1>0, WorldIs, Zenon DEF Worlds
<1> HIDE DEF w0
<1>2. w0 \in G[0]
  <2>1. TableInv(w0.count, w0.parent, w0.parked) /\ QueuedInv(w0.count, w0.parent, w0.parked, p, 0)
    BY <1>1, Zenon DEF SqpollInv, RequestInv
  <2>2. TasksInv(st, w0)
    BY <1>1, <1>0, WorldIs DEF TasksInv, Tasks
  <2>3. OthersInv(p, w0)
    BY <1>1, Zenon DEF OthersInv
  <2>4. OutInv(p, 0, w0)
    <3>1. user[p].out = Len(sq[p]) + cq[p] + Cardinality(Kids(parent, parked, p))
      BY Zenon DEF SqpollInv, RequestInv, Accounted
    <3>2. user[p].out + 0 = user[p].out
      BY DEF SqpollInv, TypeInv
    <3> QED BY <1>1, <3>1, <3>2, Zenon DEF OutInv
  <2>5. w0 \in Midway(st, p, 0)
    BY <1>1, <2>1, <2>2, <2>3, <2>4, Zenon DEF Midway
  <2> QED BY <1>0, <2>5
<1>3. ASSUME NEW i \in 1..n, NEW w \in G[i - 1]
      PROVE  ProcessSqe(w, p, sq[p][i], readable) \in G[i]
  <2>1. w \in Midway(st, p, i - 1)
    BY <1>0
  <2>2. ProcessSqe(w, p, sq[p][i], readable) \in Midway(st, p, i)
    BY <2>1, MidwayStep, Zenon
  <2> QED BY <1>0, <2>2
<1>4. G[n] = Midway(st, p, n)
  BY <1>0
<1> HIDE DEF G
<1>5. Consumed(w0, p, readable) \in G[n]
  BY <1>0, <1>2, <1>3, DrainInduction, Zenon
<1> QED BY <1>4, <1>5, Zenon DEF w0

\* What drain() leaves, once stored: w, and the queue of p empty.
Installed(w, p) ==
    /\ count' = w.count /\ parent' = w.parent /\ parked' = w.parked /\ cq' = w.cq
    /\ sq' = [sq EXCEPT ![p] = <<>>]

\* drain() is its loop, with sq_head brought up to the tail.
LEMMA DrainedIs ==
  ASSUME LibraryFacts, SqpollInv, NEW p \in Pids, ring[p], NEW st \in [Tasks -> TaskStates], NEW readable,
         \A t \in Tasks : t > count + 1 => st[t] = "Exited"
  PROVE  \E w \in Midway(st, p, Len(sq[p])) :
           LET d == Drained([World EXCEPT !.state = st], p, readable)
           IN  d.state = w.state /\ d.cq = w.cq /\ (SetWorld(d) => Installed(w, p))
<1> DEFINE w == Consumed([World EXCEPT !.state = st], p, readable)
           d == Drained([World EXCEPT !.state = st], p, readable)
           q == [sq EXCEPT ![p] = <<>>]
<1>1. w \in Midway(st, p, Len(sq[p]))
  BY DrainOK, Zenon
<1>2. d = [w EXCEPT !.sq[p] = <<>>]
  BY Zenon DEF Drained
<1> HIDE DEF w, d
<1>3. w \in Worlds /\ w.sq = sq
  BY <1>1, Zenon DEF Midway
<1>4. d = [w EXCEPT !.sq = q]
  BY <1>2, <1>3, Zenon
<1> HIDE DEF q
<1>5. /\ d.state = w.state /\ d.count = w.count /\ d.parent = w.parent
      /\ d.parked = w.parked /\ d.cq = w.cq /\ d.sq = q
  BY <1>3, <1>4, Zenon DEF Worlds
<1>6. SetWorld(d) => Installed(w, p)
  BY <1>5, Zenon DEF SetWorld, Installed, q
<1> QED BY <1>1, <1>5, <1>6, Zenon DEF d

\* The queues, the table and the accounts once drain() has stored its results.
LEMMA AfterDrain ==
  ASSUME LibraryFacts, SqpollInv, NEW p \in Pids, ring[p], NEW st,
         NEW w \in Midway(st, p, Len(sq[p])), Installed(w, p),
         husk' = husk, ring' = ring, \A q \in Pids : user'[q].out = user[q].out
  PROVE  /\ RequestInv'
         /\ sq' \in [Pids -> Seq(Sqes)] /\ sq'[p] = <<>>
         /\ count' >= count /\ \A q \in Pids : q # p => cq'[q] = cq[q] /\ sq'[q] = sq[q]
<1>0. /\ sq \in [Pids -> Seq(Sqes)] /\ TypeInv
  BY Zenon DEF SqpollInv, TypeInv
<1>1. /\ w \in Worlds /\ TableInv(w.count, w.parent, w.parked)
      /\ QueuedInv(w.count, w.parent, w.parked, p, Len(sq[p]))
      /\ TasksInv(st, w) /\ OthersInv(p, w) /\ OutInv(p, Len(sq[p]), w)
  BY Zenon DEF Midway
<1>2. /\ count' = w.count /\ parent' = w.parent /\ parked' = w.parked /\ cq' = w.cq
      /\ sq' = [sq EXCEPT ![p] = <<>>]
  BY Zenon DEF Installed
<1>3. /\ sq' \in [Pids -> Seq(Sqes)] /\ sq'[p] = <<>> /\ DOMAIN sq'[p] = {}
      /\ \A q \in Pids : q # p => sq'[q] = sq[q]
  BY <1>0, <1>2
<1>4. TableInv(count, parent, parked)'
  BY <1>1, <1>2, Zenon DEF TableInv
<1>5. (\A q \in Pids : QueuedInv(count, parent, parked, q, 0))'
  <2> SUFFICES ASSUME NEW r \in Pids, NEW q \in Pids, NEW j \in DOMAIN sq'[q]
               PROVE  /\ sq'[q][j].op = "wait" =>
                           sq'[q][j].child \in Pids /\ w.parent[sq'[q][j].child] = q /\ ~w.parked[sq'[q][j].child]
                      /\ sq'[q][j].op = "spawn" => w.count < NumProcs
    BY <1>2 DEF QueuedInv
  <2>1. q # p /\ sq'[q] = sq[q] /\ j \in DOMAIN sq[q]
    BY <1>3, Zenon
  <2>2. Left(p, Len(sq[p]), q, j)
    BY <2>1, Zenon DEF Left
  <2> QED BY <1>1, <2>1, <2>2 DEF QueuedInv
<1>6. DistinctInv'
  <2> SUFFICES ASSUME NEW a \in Pids, NEW b \in Pids, NEW i \in DOMAIN sq'[a], NEW j \in DOMAIN sq'[b]
               PROVE  /\ a = b /\ sq'[a][i].op = "wait" /\ sq'[a][i] = sq'[b][j] => i = j
                      /\ sq'[a][i].op = "spawn" /\ sq'[b][j].op = "spawn" => a = b /\ i = j
    BY Zenon DEF DistinctInv
  <2>1. sq'[a] = sq[a] /\ sq'[b] = sq[b]
    BY <1>3, Zenon
  <2> QED BY <2>1 DEF SqpollInv, RequestInv, DistinctInv
<1>7. RingInv'
  BY <1>3 DEF SqpollInv, RequestInv, RingInv
<1>8. Accounted'
  <2> SUFFICES ASSUME NEW q \in Pids
               PROVE  user'[q].out = Len(sq'[q]) + cq'[q] + Cardinality(Kids(parent', parked', q))
    BY Zenon DEF Accounted
  <2>1. CASE q = p
    <3> DEFINE out == user[p].out
               len == Len(sq[p])
               kids == Cardinality(Kids(w.parent, w.parked, p))
               done == w.cq[p]
    <3>1. out \in Nat /\ len \in Nat /\ kids \in Nat /\ done \in Nat
      <4>1. sq[p] \in Seq(Sqes) /\ out \in Nat /\ done \in Nat
        BY <1>0, <1>1, Zenon DEF TypeInv, Worlds
      <4>2. kids \in Nat
        BY <1>1, KidsFinite, Zenon
      <4> HIDE DEF out, kids, done
      <4> QED BY <4>1, <4>2
    <3>2. out + len = (len + done) + kids
      BY <1>1, Zenon DEF OutInv
    <3>3. Len(sq'[q]) = 0 /\ cq'[q] = done /\ Cardinality(Kids(parent', parked', q)) = kids
          /\ user'[q].out = out
      BY <1>2, <1>3, <2>1, Zenon
    <3> HIDE DEF out, len, kids, done
    <3> QED BY <3>1, <3>2, <3>3
  <2>2. CASE q # p
    <3>1. sq'[q] = sq[q] /\ cq'[q] = cq[q] /\ Kids(parent', parked', q) = Kids(parent, parked, q)
      BY <1>1, <1>2, <1>3, <2>2, Zenon DEF OthersInv
    <3>2. user[q].out = Len(sq[q]) + cq[q] + Cardinality(Kids(parent, parked, q))
      BY Zenon DEF SqpollInv, RequestInv, Accounted
    <3> QED BY <3>1, <3>2, Zenon
  <2> QED BY <2>1, <2>2, Zenon
<1>9. count' >= count /\ \A q \in Pids : q # p => cq'[q] = cq[q]
  BY <1>0, <1>1, <1>2, WorldIs, Zenon DEF TasksInv, OthersInv, Worlds
<1>10. BatchInv'
  BY Zenon DEF SqpollInv, RequestInv, BatchInv
<1> QED BY <1>3, <1>4, <1>5, <1>6, <1>7, <1>8, <1>9, <1>10, Zenon DEF RequestInv

-----------------------------------------------------------------------------
(* Steps that leave the requests alone. *)

requestVars == <<count, parent, parked, husk, ring, sq, cq>>

\* A step that publishes nothing and parks nothing leaves the queued submissions well formed.
LEMMA QueuesKept ==
  ASSUME RequestInv, UNCHANGED <<count, parent, sq>>, \A c \in Pids : parked'[c] => parked[c]
  PROVE  (\A q \in Pids : QueuedInv(count, parent, parked, q, 0))' /\ DistinctInv'
<1>1. (\A q \in Pids : QueuedInv(count, parent, parked, q, 0))'
  BY DEF RequestInv, QueuedInv, Left
<1>2. DistinctInv'
  BY DEF RequestInv, DistinctInv
<1> QED BY <1>1, <1>2

\* The process table is well formed as long as the processes stay as they are.
LEMMA TableKept ==
  ASSUME RequestInv, UNCHANGED <<count, parent, parked, husk>>
  PROVE  TableInv(count, parent, parked)'
BY DEF RequestInv, TableInv

\* What the requests rest on.
LEMMA RequestsSame ==
  ASSUME RequestInv, UNCHANGED requestVars, \A p \in Pids : user'[p].out = user[p].out
  PROVE  RequestInv'
<1> USE DEF requestVars
<1>1. /\ TableInv(count, parent, parked)' /\ DistinctInv'
      /\ (\A p \in Pids : QueuedInv(count, parent, parked, p, 0))'
  BY QueuesKept, TableKept, Zenon
<1>2. RingInv'
  BY DEF RequestInv, RingInv
<1>3. Accounted' /\ BatchInv'
  BY Zenon DEF RequestInv, Accounted, BatchInv
<1> QED BY <1>1, <1>2, <1>3, Zenon DEF RequestInv

\* A switch of tasks, and nothing else but the poller's own variables.
LEMMA SwitchOK ==
  ASSUME LibraryFacts, SqpollInv, NEW st \in [Tasks -> TaskStates],
         st[Idle] = "Runnable", \A t \in Tasks : t > count + 1 => st[t] = "Exited",
         \A p \in Pids : st[Task(p)] = state[Task(p)],
         Schedule(st, live), UNCHANGED <<procVars, ringVars, waiter, user>>,
         poll' \in PollLocals, PollInv'
  PROVE  SqpollInv'
<1> USE DEF procVars, ringVars
<1>1. TypeInv /\ SchedInv /\ LifeInv /\ RequestInv /\ BlockInv
  BY Zenon DEF SqpollInv
<1>2. /\ state' = st /\ current' \in 0..(count + 1) /\ st[current'] = "Runnable"
      /\ IsUser(current') => live' = Pid(current')
  BY <1>1, ScheduleIs, Zenon
<1>3. TypeInv'
  BY <1>1, <1>2, Zenon DEF TypeInv, World, Worlds
<1>4. SchedInv'
  BY <1>2, Zenon DEF SchedInv
<1>5. LifeInv' /\ BlockInv'
  BY <1>1, <1>2, Zenon DEF LifeInv, BlockInv
<1>6. RequestInv'
  BY <1>1, RequestsSame, Zenon DEF requestVars
<1> QED BY <1>3, <1>4, <1>5, <1>6, Zenon DEF SqpollInv

\* A step of the poller between two accesses to what it shares.
LEMMA PollOnly ==
  ASSUME SqpollInv, UNCHANGED <<schedVars, procVars, ringVars, waiter, user>>,
         poll' \in PollLocals, PollInv'
  PROVE  SqpollInv'
<1> USE DEF procVars, ringVars, schedVars
<1>1. TypeInv' /\ SchedInv' /\ LifeInv' /\ BlockInv'
  BY Zenon DEF SqpollInv, TypeInv, World, SchedInv, LifeInv, BlockInv
<1>2. RequestInv'
  BY RequestsSame, Zenon DEF requestVars, SqpollInv
<1> QED BY <1>1, <1>2, Zenon DEF SqpollInv

\* Tick: the timer interrupt.
LEMMA StepTick ==
  ASSUME LibraryFacts, SqpollInv, Tick
  PROVE  SqpollInv'
<1>1. /\ Schedule(state, live) /\ UNCHANGED <<procVars, ringVars, waiter, user>> /\ poll' = poll
  BY Zenon DEF Tick
<1>2. /\ state \in [Tasks -> TaskStates] /\ state[Idle] = "Runnable"
      /\ \A t \in Tasks : t > count + 1 => state[t] = "Exited"
      /\ poll' \in PollLocals
  BY <1>1, WorldIs, Zenon DEF SqpollInv, TypeInv, SchedInv
<1>3. PollInv'
  BY <1>1, Zenon DEF SqpollInv, PollInv, procVars, ringVars
<1> QED BY <1>1, <1>2, <1>3, SwitchOK, Zenon

\* kmain's and the poller's yield_now.
LEMMA StepYields ==
  ASSUME LibraryFacts, SqpollInv, IdleYield \/ PollYield
  PROVE  SqpollInv'
<1>1. /\ Schedule(state, live) /\ UNCHANGED <<procVars, ringVars, waiter, user>>
      /\ poll' = poll \/ (poll.pc = "yield" /\ poll' = [poll EXCEPT !.pc = "loop"])
  BY Zenon DEF IdleYield, PollYield, PollAt
<1>2. /\ state \in [Tasks -> TaskStates] /\ state[Idle] = "Runnable"
      /\ \A t \in Tasks : t > count + 1 => state[t] = "Exited"
      /\ poll \in PollLocals
  BY WorldIs, Zenon DEF SqpollInv, TypeInv, SchedInv
<1>3. poll' \in PollLocals /\ PollInv'
  BY <1>1, <1>2, Zenon DEF SqpollInv, PollInv, procVars, ringVars, PollPcs, PollLocals
<1> QED BY <1>1, <1>2, <1>3, SwitchOK, Zenon

\* The poller's block_current.
LEMMA StepBlock ==
  ASSUME LibraryFacts, SqpollInv, Block
  PROVE  SqpollInv'
<1> DEFINE st == [state EXCEPT ![Poller] = "Blocked"]
<1>1. /\ Schedule(st, live) /\ UNCHANGED <<procVars, ringVars, waiter, user>>
      /\ poll.pc = "block" /\ poll' = [poll EXCEPT !.pc = "woken"]
  BY Zenon DEF Block, PollAt
<1>2. /\ state \in [Tasks -> TaskStates] /\ state[Idle] = "Runnable" /\ count \in Nat
      /\ \A t \in Tasks : t > count + 1 => state[t] = "Exited"
      /\ poll \in PollLocals
  BY WorldIs DEF SqpollInv, TypeInv, SchedInv
<1>3. poll' \in PollLocals /\ PollInv'
  BY <1>1, <1>2, Zenon DEF SqpollInv, PollInv, procVars, ringVars, PollPcs, PollLocals
<1>4. /\ st \in [Tasks -> TaskStates] /\ st[Idle] = "Runnable"
      /\ \A t \in Tasks : t > count + 1 => st[t] = "Exited"
      /\ \A p \in Pids : st[Task(p)] = state[Task(p)]
  <2>1. \A t \in Tasks : t # Poller => st[t] = state[t]
    BY <1>2, Zenon
  <2>2. "Blocked" \in TaskStates /\ Idle # Poller /\ ~(Poller > count + 1)
    BY <1>2 DEF TaskStates, Idle, Poller
  <2>3. st \in [Tasks -> TaskStates]
    BY <1>2, <2>2, Zenon
  <2> QED BY <1>2, <2>1, <2>2, <2>3, Numbers, Zenon
<1> HIDE DEF st
<1> QED BY <1>1, <1>3, <1>4, SwitchOK, Zenon

-----------------------------------------------------------------------------
(* The poller. *)

\* The poller's locals after a step.
Locals(pc, pid, lim, on) ==
    poll' \in PollLocals /\ poll'.pc = pc /\ poll'.pid = pid /\ poll'.lim = lim /\ poll'.on = on

\* Writing some of them.
LEMMA SetLocals ==
  ASSUME poll \in PollLocals, NEW pc \in PollPcs, NEW pid \in Nat, NEW lim \in Nat,
         NEW on \in BOOLEAN,
         \/ poll' = [poll EXCEPT !.pc = pc, !.pid = pid, !.lim = lim, !.on = on]
         \/ poll' = [poll EXCEPT !.pc = pc, !.pid = pid, !.lim = lim] /\ on = poll.on
         \/ poll' = [poll EXCEPT !.pc = pc, !.pid = pid, !.lim = lim, !.worked = FALSE] /\ on = poll.on
         \/ poll' = [poll EXCEPT !.pc = pc, !.pid = pid] /\ lim = poll.lim /\ on = poll.on
         \/ poll' = [poll EXCEPT !.pc = pc, !.pid = pid, !.worked = TRUE] /\ lim = poll.lim /\ on = poll.on
         \/ poll' = [poll EXCEPT !.pc = pc] /\ pid = poll.pid /\ lim = poll.lim /\ on = poll.on
         \/ poll' = [poll EXCEPT !.pid = pid] /\ pc = poll.pc /\ lim = poll.lim /\ on = poll.on
  PROVE  Locals(pc, pid, lim, on)
  BY Zenon DEF PollLocals, Locals

\* The poller's locals, and what it knows of the flags.
LEMMA PollFacts ==
  ASSUME SqpollInv
  PROVE  /\ poll \in PollLocals /\ poll.pid \in Nat /\ poll.pid + 1 \in Nat /\ poll.lim \in Nat
         /\ poll.on \in BOOLEAN /\ poll.pc \in PollPcs
         /\ PollInv /\ count \in 0..NumProcs /\ ring \in [Pids -> BOOLEAN]
         /\ flag \in [Pids -> BOOLEAN]
         /\ \A p \in Pids : p \in Nat /\ (flag[p] => p < count)
<1>1. \A p \in Pids : p \in Nat /\ (ring[p] => ~(p >= count))
  BY Numbers, Zenon DEF SqpollInv, LifeInv
<1>2. poll \in PollLocals
  BY Zenon DEF SqpollInv, TypeInv
<1>3. poll.pid \in Nat /\ poll.lim \in Nat /\ poll.on \in BOOLEAN /\ poll.pc \in PollPcs
  BY <1>2, Zenon DEF PollLocals
<1>4. poll.pid + 1 \in Nat
  BY <1>3
<1> QED BY <1>1, <1>2, <1>3, <1>4, WorldIs DEF SqpollInv, TypeInv, PollInv

\* set_all_wakeup begins with every flag that is up ahead of it.
LEMMA StartFlags ==
  ASSUME SqpollInv, NEW on \in BOOLEAN, poll' = SetAllWakeup(on), UNCHANGED <<ring, flag, count>>
  PROVE  poll' \in PollLocals /\ PollInv'
<1>1. poll' = [poll EXCEPT !.pc = "flags", !.pid = 0, !.lim = count, !.on = on]
  BY Zenon DEF SetAllWakeup
<1>2. poll \in PollLocals /\ "flags" \in PollPcs /\ 0 \in Nat /\ count \in Nat
  BY PollFacts DEF PollPcs
<1>3. Locals("flags", 0, count, on)
  BY <1>1, <1>2, Zenon DEF Locals, PollLocals
<1>4. PollInv /\ count \in Nat /\ \A p \in Pids : p \in Nat /\ (flag[p] => p < count)
  BY PollFacts
<1> QED BY <1>3, <1>4 DEF PollInv, Locals

\* The steps that read what the poller shares, or move on.
LEMMA StepPoll ==
  ASSUME SqpollInv,
         \/ Register \/ PollLoop \/ Scan \/ Peek \/ Decide \/ Flags \/ FlagsSet
         \/ Rescan \/ Repeek \/ WokenUp
  PROVE  SqpollInv'
<1>0. /\ poll \in PollLocals /\ poll.pid \in Nat /\ poll.pid + 1 \in Nat /\ poll.lim \in Nat
      /\ poll.on \in BOOLEAN /\ poll.pc \in PollPcs /\ PollInv /\ count \in Nat
      /\ \A p \in Pids : p \in Nat /\ (flag[p] => p < count)
  BY PollFacts
<1>1. UNCHANGED <<schedVars, procVars, ringVars, waiter, user>>
  BY Zenon DEF Register, PollLoop, Scan, Peek, Decide, Flags, FlagsSet, Rescan, Repeek, WokenUp
<1>2. UNCHANGED <<ring, flag, count>>
  BY <1>1, Zenon DEF procVars, ringVars
<1>3. {"loop", "scan", "peek", "activate", "yield", "rescan", "repeek", "store", "block"} \subseteq PollPcs
      /\ 0 \in Nat
  BY Zenon DEF PollPcs
<1> SUFFICES poll' \in PollLocals /\ PollInv'
  BY <1>1, PollOnly, Zenon
<1>4. CASE Register
  <2>1. poll.pc = "register" /\ Locals("loop", poll.pid, poll.lim, poll.on)
    BY <1>0, <1>3, <1>4, SetLocals, Zenon DEF Register, PollAt
  <2> QED BY <1>0, <1>2, <2>1, Zenon DEF PollInv, Locals
<1>5. CASE PollLoop
  <2>1. poll.pc = "loop" /\ Locals("scan", 0, count, poll.on)
    BY <1>0, <1>3, <1>5, SetLocals, Zenon DEF PollLoop, PollAt
  <2> QED BY <1>0, <1>2, <2>1 DEF PollInv, Locals
<1>6. CASE Scan
  <2>1. /\ poll.pc = "scan" /\ poll.pid < poll.lim
        /\ \/ Locals("peek", poll.pid, poll.lim, poll.on)
           \/ Locals(poll.pc, poll.pid + 1, poll.lim, poll.on)
    BY <1>0, <1>3, <1>6, SetLocals, ZenonT(60) DEF Scan, PollAt
  <2> QED BY <1>0, <1>2, <2>1, Zenon DEF PollInv, Locals
<1>7. CASE Peek
  <2>0. \/ poll' = [poll EXCEPT !.pc = "activate"]
        \/ poll' = [poll EXCEPT !.pc = "scan", !.pid = poll.pid + 1]
    BY <1>7, Zenon DEF Peek
  <2>1. /\ poll.pc = "peek"
        /\ \/ Locals("activate", poll.pid, poll.lim, poll.on)
           \/ Locals("scan", poll.pid + 1, poll.lim, poll.on)
    <3>1. poll.pc = "peek" /\ {"activate", "scan"} \subseteq PollPcs
      BY <1>3, <1>7, Zenon DEF Peek, PollAt
    <3> QED BY <1>0, <2>0, <3>1, Zenon DEF Locals, PollLocals
  <2> QED BY <1>0, <1>2, <2>1, Zenon DEF PollInv, Locals
<1>8. CASE Decide
  <2>1. /\ poll.pc = "scan"
        /\ \/ poll' = SetAllWakeup(FALSE)
           \/ poll' = SetAllWakeup(TRUE)
           \/ Locals("yield", poll.pid, poll.lim, poll.on)
    BY <1>0, <1>3, <1>8, SetLocals, Zenon DEF Decide, PollAt
  <2>2. CASE Locals("yield", poll.pid, poll.lim, poll.on)
    BY <1>0, <1>2, <2>1, <2>2, Zenon DEF PollInv, Locals
  <2>3. CASE \E on \in BOOLEAN : poll' = SetAllWakeup(on)
    BY <1>2, <2>3, StartFlags, Zenon
  <2> QED BY <2>1, <2>2, <2>3, Zenon
<1>9. CASE Flags
  <2>1. /\ poll.pc = "flags" /\ poll.pid < poll.lim
        /\ \/ Locals("store", poll.pid, poll.lim, poll.on)
           \/ ~ring[poll.pid] /\ Locals(poll.pc, poll.pid + 1, poll.lim, poll.on)
    BY <1>0, <1>3, <1>9, SetLocals, ZenonT(60) DEF Flags, PollAt
  <2>2. ~ring[poll.pid] /\ ~poll.on =>
          \A p \in Pids : flag[p] => p >= poll.pid + 1 /\ p < poll.lim
    BY <1>0, <2>1 DEF PollInv
  <2> QED BY <1>0, <1>2, <2>1, <2>2, Zenon DEF PollInv, Locals
<1>10. CASE FlagsSet
  <2>1. /\ poll.pc = "flags" /\ poll.pid >= poll.lim
        /\ \/ poll.on /\ Locals("rescan", 0, count, poll.on)
           \/ ~poll.on /\ Locals("yield", poll.pid, poll.lim, poll.on)
    BY <1>0, <1>3, <1>10, SetLocals, Zenon DEF FlagsSet, PollAt
  <2>2. ~poll.on => \A p \in Pids : ~flag[p]
    BY <1>0, <2>1 DEF PollInv
  <2> QED BY <1>0, <1>2, <2>1, <2>2 DEF PollInv, Locals
<1>11. CASE Rescan
  <2>0. \/ poll' = [poll EXCEPT !.pc = "block"]
        \/ poll.pid < poll.lim /\ poll' = [poll EXCEPT !.pc = "repeek"]
        \/ poll' = [poll EXCEPT !.pid = poll.pid + 1]
    BY <1>0, <1>11 DEF Rescan
  <2>1. /\ poll.pc = "rescan"
        /\ \/ Locals("block", poll.pid, poll.lim, poll.on)
           \/ poll.pid < poll.lim /\ Locals("repeek", poll.pid, poll.lim, poll.on)
           \/ Locals(poll.pc, poll.pid + 1, poll.lim, poll.on)
    <3>1. poll.pc = "rescan" /\ {"block", "repeek"} \subseteq PollPcs
      BY <1>3, <1>11, Zenon DEF Rescan, PollAt
    <3> QED BY <1>0, <2>0, <3>1, Zenon DEF Locals, PollLocals
  <2> QED BY <1>0, <1>2, <2>1, Zenon DEF PollInv, Locals
<1>12. CASE Repeek
  <2>0. \/ poll' = SetAllWakeup(FALSE)
        \/ poll' = [poll EXCEPT !.pc = "rescan", !.pid = poll.pid + 1]
    BY <1>12, Zenon DEF Repeek
  <2>1. /\ poll.pc = "repeek"
        /\ \/ poll' = SetAllWakeup(FALSE)
           \/ Locals("rescan", poll.pid + 1, poll.lim, poll.on)
    <3>1. poll.pc = "repeek" /\ "rescan" \in PollPcs
      BY <1>3, <1>12, Zenon DEF Repeek, PollAt
    <3> QED BY <1>0, <2>0, <3>1, Zenon DEF Locals, PollLocals
  <2>2. CASE Locals("rescan", poll.pid + 1, poll.lim, poll.on)
    BY <1>0, <1>2, <2>1, <2>2, Zenon DEF PollInv, Locals
  <2> QED BY <1>2, <2>1, <2>2, StartFlags, Zenon
<1>13. CASE WokenUp
  BY <1>2, <1>13, StartFlags, Zenon DEF WokenUp
<1> QED BY <1>4, <1>5, <1>6, <1>7, <1>8, <1>9, <1>10, <1>11, <1>12, <1>13, Zenon

\* set_all_wakeup's write.
LEMMA StepStore ==
  ASSUME SqpollInv, Store
  PROVE  SqpollInv'
<1>0. /\ poll \in PollLocals /\ poll.pid \in Nat /\ poll.lim \in Nat /\ poll.on \in BOOLEAN
      /\ PollInv /\ count \in 0..NumProcs /\ ring \in [Pids -> BOOLEAN]
      /\ flag \in [Pids -> BOOLEAN]
      /\ \A p \in Pids : p \in Nat /\ (flag[p] => p < count)
  BY PollFacts, Zenon
<1>1. /\ poll.pc = "store" /\ poll' = [poll EXCEPT !.pc = "flags", !.pid = @ + 1]
      /\ flag' = [q \in Pids |-> IF ring[q] /\ frame[q] = frame[poll.pid] THEN poll.on ELSE flag[q]]
      /\ UNCHANGED <<schedVars, procVars, ring, sq, cq, waiter>> /\ user' = user
  BY Zenon DEF Store, PollAt, PageOwners
<1>2. flag' \in [Pids -> BOOLEAN]
  BY <1>0, <1>1, Zenon
<1>3. Locals("flags", poll.pid + 1, poll.lim, poll.on)
  <2>1. "flags" \in PollPcs
    BY Zenon DEF PollPcs
  <2> QED BY <1>1, <2>1, PollFacts, SetLocals, Zenon
<1>4. PollInv'
  <2>1. count' = count /\ ring' = ring
    BY <1>1, Zenon DEF procVars
  <2>2. \A p \in Pids : flag'[p] => ring[p]
    BY <1>0, <1>1, Zenon DEF PollInv
  <2>3. ASSUME ~poll.on, NEW p \in Pids, flag'[p]
        PROVE  p >= poll.pid + 1 /\ p < poll.lim
    <3>1. p # poll.pid /\ flag[p]
      BY <1>0, <1>1, <2>3, Zenon DEF PollInv
    <3>2. p >= poll.pid /\ p < poll.lim
      BY <1>0, <1>1, <2>3, <3>1, Zenon DEF PollInv
    <3> QED BY <1>0, <3>1, <3>2
  <2> QED BY <1>0, <1>3, <2>1, <2>2, <2>3, Zenon DEF PollInv, Locals
<1>5. TypeInv' /\ SchedInv' /\ LifeInv' /\ BlockInv'
  BY <1>1, <1>2, <1>3, Zenon DEF SqpollInv, TypeInv, World, SchedInv, LifeInv, BlockInv, schedVars, procVars, Locals
<1>6. RequestInv'
  BY <1>1, RequestsSame, Zenon DEF requestVars, SqpollInv, procVars
<1> QED BY <1>4, <1>5, <1>6, Zenon DEF SqpollInv

\* mmu::activate, by the poller.
LEMMA StepActivate ==
  ASSUME SqpollInv, Activate
  PROVE  SqpollInv'
<1>0. PollInv /\ poll.pid \in Nat /\ poll.lim \in Nat
  BY PollFacts, Zenon
<1>1. /\ current = Poller /\ poll.pc = "activate" /\ poll' = [poll EXCEPT !.pc = "drain"]
      /\ UNCHANGED <<state, current, procVars, ringVars, waiter, user>>
  BY Zenon DEF Activate, PollAt
<1>2. poll' \in PollLocals /\ PollInv'
  <2>1. "drain" \in PollPcs
    BY Zenon DEF PollPcs
  <2>2. Locals("drain", poll.pid, poll.lim, poll.on)
    BY <1>1, <2>1, PollFacts, SetLocals, Zenon
  <2> QED BY <1>0, <1>1, <2>2, Zenon DEF PollInv, Locals, procVars, ringVars
<1>3. SchedInv'
  BY <1>1, Numbers, Zenon DEF SqpollInv, SchedInv, procVars
<1>4. TypeInv' /\ LifeInv' /\ BlockInv'
  BY <1>1, <1>2, Zenon DEF SqpollInv, TypeInv, World, LifeInv, BlockInv, procVars, ringVars
<1>5. RequestInv'
  BY <1>1, RequestsSame, Zenon DEF requestVars, SqpollInv, procVars, ringVars
<1> QED BY <1>2, <1>3, <1>4, <1>5, Zenon DEF SqpollInv

-----------------------------------------------------------------------------
(* drain(), by the poller and in enter(). *)

\* The task states after a drain.
LEMMA StatesAfter ==
  ASSUME SqpollInv, NEW p \in Pids, NEW st,
         \A q \in Pids : st[Task(q)] = state[Task(q)],
         NEW w \in Midway(st, p, Len(sq[p]))
  PROVE  /\ w.state \in [Tasks -> TaskStates] /\ w.count \in 0..NumProcs /\ count \in 0..NumProcs
         /\ count <= w.count
         /\ \A t \in Tasks : /\ t <= count + 1 => w.state[t] = st[t]
                             /\ t > w.count + 1 => w.state[t] = "Exited"
         /\ \A q \in Pids : /\ w.state[Task(q)] = "Blocked" => state[Task(q)] = "Blocked"
                            /\ husk[q] => w.state[Task(q)] = "Exited"
<1>1. w \in Worlds /\ TasksInv(st, w)
  BY Zenon DEF Midway
<1>2. w.state \in [Tasks -> TaskStates] /\ w.count \in 0..NumProcs /\ count \in 0..NumProcs
  BY <1>1, WorldIs, Zenon DEF Worlds, SqpollInv
<1>3. ASSUME NEW q \in Pids
      PROVE  /\ w.state[Task(q)] = "Blocked" => state[Task(q)] = "Blocked"
             /\ husk[q] => w.state[Task(q)] = "Exited"
  <2>1. Task(q) \in Tasks /\ (husk[q] => Task(q) <= count + 1 /\ state[Task(q)] = "Exited")
    BY <1>2, Numbers DEF SqpollInv, LifeInv, Task
  <2>2. Task(q) <= count + 1 \/ Task(q) > count + 1
    BY <1>2, <2>1 DEF Tasks
  <2> QED BY <1>1, <2>1, <2>2, Zenon DEF TasksInv
<1> QED BY <1>1, <1>2, <1>3, Zenon DEF TasksInv

\* A program moves on.
LEMMA SetPc ==
  ASSUME user \in [Pids -> [pc : UserPcs, out : Nat]], NEW p \in Pids, NEW pc \in UserPcs,
         user' = [user EXCEPT ![p].pc = pc]
  PROVE  /\ user' \in [Pids -> [pc : UserPcs, out : Nat]] /\ user'[p].pc = pc
         /\ \A q \in Pids : user'[q].out = user[q].out /\ (q # p => user'[q] = user[q])
<1> DEFINE r == [user[p] EXCEPT !.pc = pc]
<1>1. user[p] \in [pc : UserPcs, out : Nat]
  BY Zenon
<1>2. r \in [pc : UserPcs, out : Nat] /\ r.pc = pc /\ r.out = user[p].out
  BY <1>1, Zenon
<1>3. user' = [user EXCEPT ![p] = r]
  BY Zenon
<1> HIDE DEF r
<1>4. user' \in [Pids -> [pc : UserPcs, out : Nat]] /\ user'[p] = r
      /\ \A q \in Pids : q # p => user'[q] = user[q]
  BY <1>2, <1>3
<1> QED BY <1>2, <1>4, Zenon

\* A drain of p's ring, after which p goes on at pc, or blocks with nothing to reap.
LEMMA DrainKeeps ==
  ASSUME LibraryFacts, SqpollInv, NEW p \in Pids, ring[p],
         NEW st \in [Tasks -> TaskStates], st[Idle] = "Runnable", st[current] = "Runnable",
         \A q \in Pids : st[Task(q)] = state[Task(q)],
         NEW w \in Midway(st, p, Len(sq[p])), Installed(w, p), UNCHANGED <<husk, ring>>,
         NEW pc \in UserPcs, user' = [user EXCEPT ![p].pc = pc],
         pc = user[p].pc \/ (pc \notin {"start", "ready"} /\ user[p].pc \notin {"start", "ready"}),
         poll' \in PollLocals, flag' \in [Pids -> BOOLEAN], PollInv',
         \/ /\ state' = w.state /\ UNCHANGED <<current, live, waiter>>
            /\ pc # "enter" /\ state[Task(p)] # "Blocked"
         \/ /\ pc = "enter" /\ waiter' = [waiter EXCEPT ![p] = TRUE] /\ w.cq[p] = 0
            /\ Schedule([w.state EXCEPT ![Task(p)] = "Blocked"], live)
  PROVE  SqpollInv'
<1>0. TypeInv /\ SchedInv /\ LifeInv /\ BlockInv /\ ~husk[p] /\ user[p].pc # "start"
  BY Zenon DEF SqpollInv, LifeInv
<1>1. /\ w.state \in [Tasks -> TaskStates] /\ w.count \in 0..NumProcs /\ count \in 0..NumProcs
      /\ count <= w.count
      /\ \A t \in Tasks : /\ t <= count + 1 => w.state[t] = st[t]
                          /\ t > w.count + 1 => w.state[t] = "Exited"
      /\ \A q \in Pids : /\ w.state[Task(q)] = "Blocked" => state[Task(q)] = "Blocked"
                         /\ husk[q] => w.state[Task(q)] = "Exited"
  BY StatesAfter
<1>2. /\ user' \in [Pids -> [pc : UserPcs, out : Nat]] /\ user'[p].pc = pc
      /\ \A q \in Pids : user'[q].out = user[q].out /\ (q # p => user'[q] = user[q])
  BY <1>0, SetPc, Zenon DEF TypeInv
<1>3. /\ RequestInv' /\ sq' \in [Pids -> Seq(Sqes)] /\ sq'[p] = <<>>
      /\ \A q \in Pids : q # p => cq'[q] = cq[q] /\ sq'[q] = sq[q]
  BY <1>2, AfterDrain, Zenon
<1>4. /\ count' = w.count /\ parent' = w.parent /\ parked' = w.parked /\ cq' = w.cq
      /\ w \in Worlds
  BY Zenon DEF Installed, Midway
<1>5. /\ Idle \in Tasks /\ Idle <= count + 1 /\ current \in Tasks /\ current <= count + 1
      /\ current \in 0..(count + 1) /\ Task(p) \in Tasks /\ Task(p) <= count + 1
  <2>1. current \in 0..(count + 1) /\ ~(p >= count)
    BY <1>0, Zenon DEF TypeInv, LifeInv
  <2>2. p \in Nat /\ Idle \in Tasks /\ Task(p) \in Tasks
    BY Numbers, Zenon
  <2>3. count \in 0..NumProcs /\ NumProcs \in Nat
    BY <1>1, Numbers, Zenon
  <2>4. Idle <= count + 1 /\ Task(p) <= count + 1
    BY <2>1, <2>2, <2>3 DEF Idle, Task
  <2>5. current \in Tasks /\ current <= count + 1
    BY <2>1, <2>3 DEF Tasks
  <2> QED BY <2>1, <2>2, <2>4, <2>5
<1>6. /\ state' \in [Tasks -> TaskStates] /\ current' \in 0..(count + 1)
      /\ state'[Idle] = "Runnable" /\ state'[current'] = "Runnable"
      /\ \A t \in Tasks : t > w.count + 1 => state'[t] = "Exited"
      /\ IsUser(current') => live' = Pid(current')
      /\ \A q \in Pids : /\ q # p /\ state'[Task(q)] = "Blocked" => state[Task(q)] = "Blocked"
                         /\ husk[q] => state'[Task(q)] = "Exited"
  <2>1. CASE state' = w.state /\ UNCHANGED <<current, live>>
    BY <1>0, <1>1, <1>5, <2>1, Zenon DEF SchedInv
  <2>2. CASE Schedule([w.state EXCEPT ![Task(p)] = "Blocked"], live)
    <3> DEFINE bs == [w.state EXCEPT ![Task(p)] = "Blocked"]
    <3>1. "Blocked" \in TaskStates /\ ~(Task(p) > w.count + 1) /\ Idle # Task(p)
      <4>1. "Blocked" \in TaskStates /\ Idle # Task(p)
        BY Numbers, Zenon DEF TaskStates
      <4>2. Task(p) \in Int /\ count \in Int /\ w.count \in Int /\ Task(p) <= count + 1 /\ count <= w.count
        BY <1>1, <1>5 DEF Tasks
      <4>3. ~(Task(p) > w.count + 1)
        BY <4>2
      <4> QED BY <4>1, <4>3
    <3>2. bs \in [Tasks -> TaskStates] /\ \A t \in Tasks : t # Task(p) => bs[t] = w.state[t]
      BY <1>1, <3>1, Zenon
    <3>3. bs[Idle] = "Runnable"
      BY <1>1, <1>5, <3>1, <3>2, Zenon
    <3> HIDE DEF bs
    <3>4. /\ state' = bs /\ current' \in 0..(count + 1) /\ bs[current'] = "Runnable"
          /\ IsUser(current') => live' = Pid(current')
      BY <1>0, <2>2, <3>3, ScheduleIs, Zenon DEF bs
    <3>5. \A q \in Pids : q # p => Task(q) \in Tasks /\ Task(q) # Task(p)
      BY Numbers, Zenon
    <3>6. \A q \in Pids : /\ q # p /\ bs[Task(q)] = "Blocked" => state[Task(q)] = "Blocked"
                          /\ husk[q] => bs[Task(q)] = "Exited"
      BY <1>0, <1>1, <3>2, <3>5, Zenon
    <3> QED BY <1>1, <3>1, <3>2, <3>3, <3>4, <3>6
  <2> QED BY <2>1, <2>2, Zenon
<1>7. TypeInv'
  <2>1. World' \in Worlds
    BY <1>3, <1>4, <1>6, Zenon DEF World, Worlds
  <2>2. waiter' \in [Pids -> BOOLEAN] /\ ring' \in [Pids -> BOOLEAN] /\ husk' \in [Pids -> BOOLEAN]
    BY <1>0, Zenon DEF TypeInv
  <2>3. current' \in 0..(count' + 1)
    BY <1>1, <1>4, <1>6
  <2> QED BY <1>2, <1>3, <2>1, <2>2, <2>3, Zenon DEF TypeInv
<1>8. SchedInv'
  BY <1>4, <1>6, Zenon DEF SchedInv
<1>9. LifeInv'
  <2> SUFFICES ASSUME NEW q \in Pids
               PROVE  /\ ring[q] <=> user'[q].pc # "start" /\ ~husk[q]
                      /\ q >= w.count => user'[q].pc = "start" /\ ~husk[q]
                      /\ husk[q] => state'[Task(q)] = "Exited" /\ user'[q].pc = "ready"
                      /\ user'[q].pc \in {"start", "ready"} <=> user[q].out = 0
    BY <1>2, <1>4 DEF LifeInv
  <2>1. q >= w.count => q >= count
    BY <1>1, Numbers
  <2>2. CASE q = p
    BY <1>0, <1>2, <2>1, <2>2 DEF LifeInv
  <2>3. CASE q # p
    BY <1>0, <1>2, <1>6, <2>1, <2>3, Zenon DEF LifeInv
  <2> QED BY <2>2, <2>3, Zenon
<1>10. BlockInv'
  <2> SUFFICES ASSUME NEW q \in Pids
               PROVE  /\ state'[Task(q)] = "Blocked" => user'[q].pc = "enter" /\ cq'[q] = 0 /\ waiter'[q]
                      /\ user'[q].pc = "enter" => sq'[q] = <<>>
    BY Zenon DEF BlockInv
  <2>1. CASE q = p
    <3>1. CASE state' = w.state /\ pc # "enter" /\ state[Task(p)] # "Blocked"
      BY <1>1, <1>2, <2>1, <3>1, Zenon
    <3>2. CASE pc = "enter" /\ waiter' = [waiter EXCEPT ![p] = TRUE] /\ w.cq[p] = 0
      <4>1. waiter'[p]
        BY <1>0, <3>2, Zenon DEF TypeInv
      <4> QED BY <1>2, <1>3, <1>4, <2>1, <3>2, <4>1, Zenon
    <3> QED BY <3>1, <3>2, Zenon
  <2>2. CASE q # p
    <3>1. waiter'[q] = waiter[q]
      BY <1>0, <2>2, Zenon DEF TypeInv
    <3>2. cq'[q] = cq[q] /\ sq'[q] = sq[q] /\ user'[q] = user[q]
      BY <1>2, <1>3, <2>2, Zenon
    <3>3. state'[Task(q)] = "Blocked" => state[Task(q)] = "Blocked"
      BY <1>6, <2>2, Zenon
    <3> QED BY <1>0, <3>1, <3>2, <3>3, Zenon DEF BlockInv
  <2> QED BY <2>1, <2>2, Zenon
<1> QED BY <1>3, <1>7, <1>8, <1>9, <1>10, Zenon DEF SqpollInv

\* The same for a drain that puts nobody to sleep.
LEMMA DrainQuiet ==
  ASSUME LibraryFacts, SqpollInv, NEW p \in Pids, ring[p], state[Idle] = "Runnable", state[current] = "Runnable",
         state \in [Tasks -> TaskStates], NEW w \in Midway(state, p, Len(sq[p])), Installed(w, p),
         UNCHANGED <<husk, ring>>, UNCHANGED <<current, live, waiter>>,
         NEW pc \in UserPcs, user' = [user EXCEPT ![p].pc = pc], pc = user[p].pc, pc # "enter",
         poll' \in PollLocals, flag' \in [Pids -> BOOLEAN], PollInv', state' = w.state, state[Task(p)] # "Blocked"
  PROVE  SqpollInv'
  BY DrainKeeps, ZenonT(30)

\* With nothing published, the loop of drain() does nothing ...
LEMMA LoopNothing ==
  ASSUME LibraryFacts, NEW p \in Pids, sq \in [Pids -> Seq(Sqes)], sq[p] = <<>>, NEW w, NEW readable
  PROVE  Consumed(w, p, readable) = w
<1> DEFINE G == [i \in 0..0 |-> {w}]
<1>1. Len(sq[p]) = 0 /\ w \in G[0] /\ G[0] = {w}
  OBVIOUS
<1>2. \A i \in 1..Len(sq[p]) : \A v \in G[i - 1] : ProcessSqe(v, p, sq[p][i], readable) \in G[i]
  BY <1>1
<1> HIDE DEF G
<1>3. Consumed(w, p, readable) \in G[0]
  BY <1>1, <1>2, DrainInduction, Zenon
<1> QED BY <1>1, <1>3, Zenon

\* ... and neither does drain().
LEMMA DrainNothing ==
  ASSUME LibraryFacts, TypeInv, NEW p \in Pids, sq[p] = <<>>, NEW readable
  PROVE  Drained(World, p, readable) = World
<1>1. sq \in [Pids -> Seq(Sqes)] /\ World \in Worlds /\ World.sq = sq
  BY WorldIs, Zenon
<1>2. Consumed(World, p, readable) = World
  BY <1>1, LoopNothing, Zenon
<1>3. [World EXCEPT !.sq[p] = <<>>] = World
  <2> DEFINE w == World
  <2>1. w \in Worlds /\ [w.sq EXCEPT ![p] = <<>>] = w.sq
    BY <1>1, Zenon
  <2> HIDE DEF w
  <2>2. [w EXCEPT !.sq[p] = <<>>] = w
    BY <2>1 DEF Worlds
  <2> QED BY <2>2, Zenon DEF w
<1> QED BY <1>2, <1>3, Zenon DEF Drained

\* The poller's drain.
LEMMA StepDrain ==
  ASSUME LibraryFacts, SqpollInv, Drain
  PROVE  SqpollInv'
<1>0. /\ TypeInv /\ PollInv /\ poll.pid \in Nat /\ poll.lim \in Nat /\ count \in 0..NumProcs
      /\ sq \in [Pids -> Seq(Sqes)] /\ user \in [Pids -> [pc : UserPcs, out : Nat]]
      /\ flag \in [Pids -> BOOLEAN]
  BY PollFacts, Zenon DEF SqpollInv, TypeInv
<1>1. /\ poll.pc = "drain" /\ current = Poller
      /\ poll' = [poll EXCEPT !.pc = "scan", !.pid = poll.pid + 1, !.worked = TRUE]
      /\ UNCHANGED <<current, live, husk, ring, frame, flag, waiter, user>>
  BY Zenon DEF Drain, PollAt
<1> DEFINE p == poll.pid
<1>2. p \in Pids
  BY <1>0, <1>1 DEF PollInv, Pids
<1>3. PICK readable \in {TRUE, live = p} :
        SetWorld(Drained(World, p, readable)) /\ state' = Drained(World, p, readable).state
  BY Zenon DEF Drain
<1>4. poll' \in PollLocals /\ poll'.pc = "scan" /\ poll'.pid = p + 1 /\ poll'.lim = poll.lim
  <2>1. "scan" \in PollPcs /\ p + 1 \in Nat /\ poll \in PollLocals
    BY PollFacts, Zenon DEF PollPcs
  <2> QED BY <1>1, <2>1, Zenon DEF PollLocals
<1> HIDE DEF p
<1>5. ASSUME count' \in 0..NumProcs, count <= count' PROVE PollInv'
  BY <1>0, <1>1, <1>4, <1>5 DEF PollInv
<1>6. CASE sq[p] = <<>>
  <2>1. Drained(World, p, readable) = World
    BY <1>0, <1>2, <1>6, DrainNothing, Zenon
  <2>2. UNCHANGED <<state, count, parent, parked, cq, sq>>
    BY <1>0, <1>3, <2>1, WorldIs, Zenon DEF SetWorld
  <2>4. PollInv'
    BY <1>0, <1>5, <2>2
  <2> QED BY <1>1, <1>4, <2>2, <2>4, PollOnly, Zenon DEF schedVars, procVars, ringVars
<1>7. CASE sq[p] # <<>>
  <2>1. ring[p] /\ state[Task(p)] # "Blocked" /\ user[p].pc # "enter"
    BY <1>2, <1>7, Zenon DEF SqpollInv, RequestInv, RingInv, BlockInv
  <2>2. /\ state \in [Tasks -> TaskStates] /\ state[Idle] = "Runnable" /\ state[current] = "Runnable"
        /\ \A t \in Tasks : t > count + 1 => state[t] = "Exited"
    BY <1>0, WorldIs, Zenon DEF SqpollInv, SchedInv
  <2>3. [World EXCEPT !.state = state] = World
    BY DEF World
  <2>4. PICK w \in Midway(state, p, Len(sq[p])) :
          LET d == Drained([World EXCEPT !.state = state], p, readable)
          IN  d.state = w.state /\ d.cq = w.cq /\ (SetWorld(d) => Installed(w, p))
    BY <1>2, <2>1, <2>2, DrainedIs, Zenon
  <2>5. Installed(w, p) /\ state' = w.state
    BY <1>3, <2>3, <2>4, Zenon
  <2>6. count' = w.count /\ w.count \in 0..NumProcs /\ count <= w.count
    BY <1>2, <2>4, <2>5, StatesAfter, Zenon DEF Installed
  <2>7. PollInv'
    BY <1>5, <2>6, Zenon
  <2>8. user' = [user EXCEPT ![p].pc = user[p].pc] /\ user[p].pc \in UserPcs
    BY <1>0, <1>1, <1>2, Zenon
  <2>9. flag' \in [Pids -> BOOLEAN]
    BY <1>0, <1>1, Zenon
  <2> DEFINE k == user[p].pc
  <2>10. k \in UserPcs /\ user' = [user EXCEPT ![p].pc = k] /\ k = user[p].pc /\ k # "enter"
    BY <2>1, <2>8, Zenon
  <2> HIDE DEF k
  <2>11. UNCHANGED <<husk, ring>> /\ UNCHANGED <<current, live, waiter>> /\ poll' \in PollLocals
    BY <1>1, <1>4, Zenon
  <2> QED BY <1>2, <2>1, <2>2, <2>4, <2>5, <2>7, <2>9, <2>10, <2>11, DrainQuiet, Zenon
<1> QED BY <1>6, <1>7, Zenon

-----------------------------------------------------------------------------
(* SYS_RING_ENTER. *)

\* enter() wakes the poller and drains.
LEMMA EnterDrains ==
  ASSUME LibraryFacts, SqpollInv, NEW p \in Pids, current = Task(p), user[p].pc \notin {"start", "ready"}
  PROVE  /\ ring[p]
         /\ \E st \in [Tasks -> TaskStates] :
              /\ st[Idle] = "Runnable" /\ st[current] = "Runnable"
              /\ \A q \in Pids : st[Task(q)] = state[Task(q)]
              /\ \E w \in Midway(st, p, Len(sq[p])) :
                   /\ EnterWorld(p).state = w.state /\ EnterWorld(p).cq = w.cq
                   /\ SetWorld(EnterWorld(p)) => Installed(w, p)
<1> DEFINE woken == Woken(state, Poller)
           st == IF flag[p] /\ poll.pc # "register" THEN woken ELSE state
<1>1. /\ state \in [Tasks -> TaskStates] /\ state[Idle] = "Runnable" /\ state[current] = "Runnable"
      /\ count \in Nat
      /\ \A t \in Tasks : t > count + 1 => state[t] = "Exited"
  BY WorldIs DEF SqpollInv, SchedInv
<1>2. ring[p]
  BY Running, Zenon DEF SqpollInv, LifeInv
<1>3. /\ woken \in [Tasks -> TaskStates] /\ woken[Idle] = "Runnable" /\ woken[current] = "Runnable"
      /\ \A q \in Pids : woken[Task(q)] = state[Task(q)]
      /\ \A t \in Tasks : t > count + 1 => woken[t] = "Exited"
  <2>1. woken = [state EXCEPT ![Poller] = IF @ = "Blocked" THEN "Runnable" ELSE @]
    BY Zenon DEF Woken
  <2>2. "Runnable" \in TaskStates /\ ~(Poller > count + 1) /\ Poller # Idle
    BY <1>1 DEF TaskStates, Poller, Idle
  <2>3. \A t \in Tasks : t # Poller => woken[t] = state[t]
    BY <1>1, <2>1, Zenon
  <2>4. woken \in [Tasks -> TaskStates]
    BY <1>1, <2>1, <2>2, Zenon
  <2> QED BY <1>1, <2>2, <2>3, <2>4, Numbers, Zenon
<1> HIDE DEF woken
<1>4. /\ st \in [Tasks -> TaskStates] /\ st[Idle] = "Runnable" /\ st[current] = "Runnable"
      /\ \A q \in Pids : st[Task(q)] = state[Task(q)]
      /\ \A t \in Tasks : t > count + 1 => st[t] = "Exited"
  BY <1>1, <1>3, Zenon
<1>5. EnterWorld(p) = Drained([World EXCEPT !.state = st], p, TRUE)
  BY Zenon DEF EnterWorld, woken
<1> HIDE DEF st
<1>6. \E w \in Midway(st, p, Len(sq[p])) :
        /\ EnterWorld(p).state = w.state /\ EnterWorld(p).cq = w.cq
        /\ SetWorld(EnterWorld(p)) => Installed(w, p)
  <2> DEFINE d == Drained([World EXCEPT !.state = st], p, TRUE)
  <2>1. PICK w \in Midway(st, p, Len(sq[p])) :
          d.state = w.state /\ d.cq = w.cq /\ (SetWorld(d) => Installed(w, p))
    BY <1>2, <1>4, DrainedIs, Zenon
  <2>2. EnterWorld(p) = d
    BY <1>5, Zenon
  <2> HIDE DEF d
  <2>3. SetWorld(EnterWorld(p)) => SetWorld(d)
    BY <2>2, Zenon DEF SetWorld
  <2> QED BY <2>1, <2>2, <2>3, Zenon
<1> QED BY <1>2, <1>4, <1>6, Zenon

\* The flag that enter() lowers.
LEMMA LowersFlag ==
  ASSUME SqpollInv, NEW p \in Pids, flag' = [flag EXCEPT ![p] = FALSE], ring' = ring,
         poll' = poll, count' \in 0..NumProcs, count <= count'
  PROVE  flag' \in [Pids -> BOOLEAN] /\ poll' \in PollLocals /\ PollInv'
<1>1. /\ flag \in [Pids -> BOOLEAN] /\ PollInv /\ poll \in PollLocals
      /\ count \in 0..NumProcs /\ poll.lim \in Nat
  BY PollFacts, Zenon
<1>2. flag' \in [Pids -> BOOLEAN] /\ \A q \in Pids : flag'[q] => flag[q]
  BY <1>1, Zenon
<1>3. poll'.lim <= count'
  BY <1>1 DEF PollInv
<1> QED BY <1>1, <1>2, <1>3, Zenon DEF PollInv

\* enter(0).
LEMMA StepEnterSubmit ==
  ASSUME LibraryFacts, SqpollInv, NEW p \in Pids, EnterSubmit(p)
  PROVE  SqpollInv'
<1> DEFINE d == EnterWorld(p)
<1>1. /\ current = Task(p) /\ user[p].pc = "trap" /\ SetWorld(d) /\ state' = d.state
      /\ flag' = [flag EXCEPT ![p] = FALSE] /\ user' = [user EXCEPT ![p].pc = "sent"]
      /\ UNCHANGED <<current, live, husk, ring, waiter, poll>>
  BY Zenon DEF EnterSubmit, At, Goto
<1> HIDE DEF d
<1>2. PICK st \in [Tasks -> TaskStates] :
              /\ st[Idle] = "Runnable" /\ st[current] = "Runnable"
              /\ \A q \in Pids : st[Task(q)] = state[Task(q)]
              /\ \E w \in Midway(st, p, Len(sq[p])) :
                   /\ d.state = w.state /\ d.cq = w.cq
                   /\ SetWorld(d) => Installed(w, p)
  BY <1>1, EnterDrains, Zenon DEF d
<1>2a. PICK w \in Midway(st, p, Len(sq[p])) : d.state = w.state /\ d.cq = w.cq /\ Installed(w, p)
  BY <1>1, <1>2, Zenon
<1>3. count' \in 0..NumProcs /\ count <= count'
  BY <1>1, <1>2, <1>2a, StatesAfter, Zenon DEF Installed
<1>4. flag' \in [Pids -> BOOLEAN] /\ poll' \in PollLocals /\ PollInv'
  BY <1>1, <1>3, LowersFlag, Zenon
<1>5. ring[p] /\ state[Task(p)] # "Blocked"
  BY <1>1, EnterDrains, Running, Zenon
<1>6. "sent" \in UserPcs
  BY Zenon DEF UserPcs
<1>7. state' = w.state
  BY <1>1, <1>2a, Zenon
<1> QED BY <1>1, <1>2, <1>2a, <1>4, <1>5, <1>6, <1>7, DrainKeeps, Zenon

\* enter(1), up to its return or its first block.
LEMMA StepEnterWait ==
  ASSUME LibraryFacts, SqpollInv, NEW p \in Pids, EnterWait(p)
  PROVE  SqpollInv'
<1> DEFINE d == EnterWorld(p)
<1>1. /\ current = Task(p) /\ user[p].pc = "svc" /\ SetWorld(d)
      /\ flag' = [flag EXCEPT ![p] = FALSE] /\ CheckOrBlock(p, d.state, d.cq[p])
      /\ UNCHANGED <<husk, ring, poll>>
  BY Zenon DEF EnterWait, At
<1> HIDE DEF d
<1>2. PICK st \in [Tasks -> TaskStates] :
              /\ st[Idle] = "Runnable" /\ st[current] = "Runnable"
              /\ \A q \in Pids : st[Task(q)] = state[Task(q)]
              /\ \E w \in Midway(st, p, Len(sq[p])) :
                   /\ d.state = w.state /\ d.cq = w.cq
                   /\ SetWorld(d) => Installed(w, p)
  BY <1>1, EnterDrains, Zenon DEF d
<1>2a. PICK w \in Midway(st, p, Len(sq[p])) : d.state = w.state /\ d.cq = w.cq /\ Installed(w, p)
  BY <1>1, <1>2, Zenon
<1>3. count' \in 0..NumProcs /\ count <= count'
  BY <1>1, <1>2, <1>2a, StatesAfter, Zenon DEF Installed
<1>4. flag' \in [Pids -> BOOLEAN] /\ poll' \in PollLocals /\ PollInv'
  BY <1>1, <1>3, LowersFlag, Zenon
<1>5. ring[p] /\ state[Task(p)] # "Blocked"
  BY <1>1, EnterDrains, Running, Zenon
<1>6. "reap" \in UserPcs /\ "enter" \in UserPcs
  BY Zenon DEF UserPcs
<1>7. CASE w.cq[p] >= 1
  <2>1. user' = [user EXCEPT ![p].pc = "reap"] /\ state' = w.state /\ UNCHANGED <<current, live, waiter>>
    BY <1>1, <1>2a, <1>7, Zenon DEF CheckOrBlock, Goto
  <2> QED BY <1>1, <1>2, <1>2a, <1>4, <1>5, <1>6, <2>1, DrainKeeps, Zenon
<1>8. CASE ~(w.cq[p] >= 1)
  <2>1. /\ user' = [user EXCEPT ![p].pc = "enter"] /\ waiter' = [waiter EXCEPT ![p] = TRUE]
        /\ Schedule([w.state EXCEPT ![Task(p)] = "Blocked"], live)
    BY <1>1, <1>2a, <1>8, Zenon DEF CheckOrBlock, Goto
  <2>2. w.cq[p] = 0
    BY <1>2a, <1>8 DEF Midway, Worlds
  <2> QED BY <1>1, <1>2, <1>2a, <1>4, <1>5, <1>6, <2>1, <2>2, DrainKeeps, Zenon
<1> QED BY <1>7, <1>8, Zenon

\* enter(1), woken: the queue was drained before, so that this is a check only.
LEMMA StepEnterRecheck ==
  ASSUME LibraryFacts, SqpollInv, NEW p \in Pids, EnterRecheck(p)
  PROVE  SqpollInv'
<1>0. TypeInv /\ sq \in [Pids -> Seq(Sqes)] /\ PollInv
  BY Zenon DEF SqpollInv, TypeInv
<1>1. /\ current = Task(p) /\ user[p].pc = "enter" /\ CheckOrBlock(p, state, cq[p])
      /\ UNCHANGED <<count, husk, parent, parked, ring, sq, cq, flag, poll>>
  BY Zenon DEF EnterRecheck, At, procVars, ringVars
<1>2. ring[p] /\ state[Task(p)] # "Blocked" /\ sq[p] = <<>>
  BY <1>1, EnterDrains, Running, Zenon DEF SqpollInv, BlockInv
<1>3. /\ state \in [Tasks -> TaskStates] /\ state[Idle] = "Runnable" /\ state[current] = "Runnable"
      /\ \A t \in Tasks : t > count + 1 => state[t] = "Exited"
  BY <1>0, WorldIs, Zenon DEF SqpollInv, SchedInv
<1>4. World \in Midway(state, p, Len(sq[p]))
  <2>1. [World EXCEPT !.state = state] = World
    BY DEF World
  <2>2. Consumed(World, p, TRUE) = World
    BY <1>0, <1>2, LoopNothing, Zenon
  <2>3. Consumed([World EXCEPT !.state = state], p, TRUE) \in Midway(state, p, Len(sq[p]))
    BY <1>2, <1>3, DrainOK, Zenon
  <2> QED BY <2>1, <2>2, <2>3, Zenon
<1>5. /\ World.state = state /\ World.cq = cq /\ cq[p] \in Nat /\ Installed(World, p)
  <2>1. [sq EXCEPT ![p] = <<>>] = sq
    BY <1>0, <1>2, Zenon
  <2> QED BY <1>0, <1>1, <2>1, WorldIs, Zenon DEF Installed
<1>6. flag' \in [Pids -> BOOLEAN] /\ poll' \in PollLocals /\ PollInv'
  BY <1>0, <1>1, Zenon DEF TypeInv, PollInv
<1>7. "reap" \in UserPcs /\ "enter" \in UserPcs
  BY Zenon DEF UserPcs
<1>8. CASE cq[p] >= 1
  <2>1. user' = [user EXCEPT ![p].pc = "reap"] /\ state' = World.state /\ UNCHANGED <<current, live, waiter>>
    BY <1>1, <1>5, <1>8, Zenon DEF CheckOrBlock, Goto
  <2> QED BY <1>1, <1>2, <1>3, <1>4, <1>5, <1>6, <1>7, <2>1, DrainKeeps, Zenon
<1>9. CASE ~(cq[p] >= 1)
  <2>1. /\ user' = [user EXCEPT ![p].pc = "enter"] /\ waiter' = [waiter EXCEPT ![p] = TRUE]
        /\ Schedule([World.state EXCEPT ![Task(p)] = "Blocked"], live)
    BY <1>1, <1>5, <1>9, Zenon DEF CheckOrBlock, Goto
  <2>2. World.cq[p] = 0
    BY <1>5, <1>9
  <2> QED BY <1>1, <1>2, <1>3, <1>4, <1>5, <1>6, <1>7, <2>1, <2>2, DrainKeeps, Zenon
<1> QED BY <1>8, <1>9, Zenon

-----------------------------------------------------------------------------
(* The rest of a process's life. *)

\* kmain creates the first process.
LEMMA StepBoot ==
  ASSUME SqpollInv, Boot
  PROVE  SqpollInv'
<1>0. TypeInv /\ SchedInv /\ LifeInv /\ RequestInv /\ BlockInv /\ PollInv
  BY Zenon DEF SqpollInv
<1>1. /\ count = 0 /\ count' = 1 /\ state' = [state EXCEPT ![Task(0)] = "Runnable"]
      /\ UNCHANGED <<current, live, husk, parent, parked, ring, sq, cq, flag, waiter, poll, user>>
  BY Zenon DEF Boot, ringVars
<1>2. \A p \in Pids : user[p].pc = "start" /\ ~husk[p] /\ ~ring[p] /\ sq[p] = <<>>
  BY <1>0, <1>1, Numbers DEF LifeInv, RequestInv, RingInv
<1>3. /\ state' \in [Tasks -> TaskStates] /\ state'[Task(0)] = "Runnable"
      /\ \A t \in Tasks : t # Task(0) => state'[t] = state[t]
  <2>1. Task(0) \in Tasks /\ "Runnable" \in TaskStates /\ state \in [Tasks -> TaskStates]
    BY <1>0, WorldIs, Numbers, Zenon DEF TaskStates
  <2> QED BY <1>1, <2>1, Zenon
<1>4. TypeInv'
  <2>1. World' \in Worlds
    <3>1. count' \in 0..NumProcs
      BY <1>1
    <3> QED BY <1>0, <1>1, <1>3, <3>1, WorldIs, Zenon DEF World, Worlds
  <2>2. current' \in 0..(count' + 1)
    BY <1>0, <1>1 DEF TypeInv
  <2> QED BY <1>0, <1>1, <2>1, <2>2, Zenon DEF TypeInv
<1>5. SchedInv'
  <2>1. \A t \in Tasks : t > count' + 1 => state'[t] = "Exited"
    BY <1>0, <1>1, <1>3 DEF SchedInv, Tasks, Task
  <2>2. state'[Idle] = "Runnable" /\ state'[current'] = "Runnable"
    <3>1. Idle \in Tasks /\ current \in Tasks /\ Idle # Task(0)
      BY <1>0, <1>1, Numbers DEF TypeInv, Tasks
    <3> QED BY <1>0, <1>1, <1>3, <3>1, Zenon DEF SchedInv
  <2> QED BY <1>0, <1>1, <2>1, <2>2, Zenon DEF SchedInv
<1>6. LifeInv'
  BY <1>0, <1>1, <1>2, Numbers, Zenon DEF LifeInv
<1>7. RequestInv'
  <2>1. TableInv(count, parent, parked)'
    <3>1. \A c \in Pids : c >= 1 => c >= 0
      BY DEF Pids
    <3> QED BY <1>0, <1>1, <3>1, Zenon DEF RequestInv, TableInv
  <2>2. (\A p \in Pids : QueuedInv(count, parent, parked, p, 0))'
    BY <1>1, <1>2 DEF QueuedInv
  <2>3. DistinctInv' /\ RingInv' /\ Accounted' /\ BatchInv'
    BY <1>0, <1>1 DEF RequestInv, DistinctInv, RingInv, Accounted, BatchInv
  <2> QED BY <2>1, <2>2, <2>3, Zenon DEF RequestInv
<1>8. BlockInv'
  <2> SUFFICES ASSUME NEW p \in Pids, state'[Task(p)] = "Blocked" PROVE state[Task(p)] = "Blocked"
    BY <1>0, <1>1, Zenon DEF BlockInv
  <2> QED BY <1>3, Numbers, Zenon
<1>9. PollInv'
  BY <1>0, <1>1 DEF PollInv, TypeInv, PollLocals
<1> QED BY <1>4, <1>5, <1>6, <1>7, <1>8, <1>9, Zenon DEF SqpollInv

\* A step of the running program p that leaves the scheduler, the process table and
\* the flags alone.
LEMMA ProgramStep ==
  ASSUME SqpollInv, NEW p \in Pids, current = Task(p),
         UNCHANGED <<schedVars, procVars, flag, waiter, poll>>,
         ring' \in [Pids -> BOOLEAN], sq' \in [Pids -> Seq(Sqes)], cq' \in [Pids -> Nat],
         user' \in [Pids -> [pc : UserPcs, out : Nat]], ring'[p], RequestInv',
         \A q \in Pids : q # p => /\ user'[q] = user[q] /\ ring'[q] = ring[q]
                                  /\ sq'[q] = sq[q] /\ cq'[q] = cq[q],
         user'[p].pc \notin {"start", "enter"}, user'[p].pc = "ready" <=> user'[p].out = 0
  PROVE  SqpollInv'
<1> USE DEF schedVars, procVars
<1>0. /\ TypeInv /\ SchedInv /\ LifeInv /\ BlockInv /\ PollInv
      /\ p < count /\ state[Task(p)] = "Runnable" /\ ~husk[p] /\ count \in Nat /\ p \in Nat
  BY Running, WorldIs, Numbers DEF SqpollInv
<1>1. TypeInv'
  <2>1. World' \in Worlds
    BY <1>0, WorldIs, Zenon DEF World, Worlds
  <2> QED BY <1>0, <2>1, Zenon DEF TypeInv
<1>2. SchedInv'
  BY <1>0, Zenon DEF SchedInv
<1>3. LifeInv'
  <2> SUFFICES ASSUME NEW q \in Pids
               PROVE  /\ ring'[q] <=> user'[q].pc # "start" /\ ~husk[q]
                      /\ q >= count => user'[q].pc = "start" /\ ~husk[q]
                      /\ husk[q] => state[Task(q)] = "Exited" /\ user'[q].pc = "ready"
                      /\ user'[q].pc \in {"start", "ready"} <=> user'[q].out = 0
    BY Zenon DEF LifeInv
  <2>1. CASE q = p
    BY <1>0, <2>1
  <2>2. CASE q # p
    BY <1>0, <2>2, Zenon DEF LifeInv
  <2> QED BY <2>1, <2>2, Zenon
<1>4. BlockInv'
  <2> SUFFICES ASSUME NEW q \in Pids
               PROVE  /\ state[Task(q)] = "Blocked" => user'[q].pc = "enter" /\ cq'[q] = 0 /\ waiter[q]
                      /\ user'[q].pc = "enter" => sq'[q] = <<>>
    BY Zenon DEF BlockInv
  <2>1. CASE q = p
    BY <1>0, <2>1, Zenon
  <2>2. CASE q # p
    <3>1. user'[q] = user[q] /\ sq'[q] = sq[q] /\ cq'[q] = cq[q]
      BY <2>2, Zenon
    <3>2. /\ state[Task(q)] = "Blocked" => user[q].pc = "enter" /\ cq[q] = 0 /\ waiter[q]
          /\ user[q].pc = "enter" => sq[q] = <<>>
      BY <1>0, Zenon DEF BlockInv
    <3> QED BY <3>1, <3>2, Zenon
  <2> QED BY <2>1, <2>2, Zenon
<1>5. PollInv'
  <2>1. \A q \in Pids : flag[q] => ring'[q]
    BY <1>0, Zenon DEF PollInv
  <2> QED BY <1>0, <2>1, Zenon DEF PollInv
<1> QED BY <1>1, <1>2, <1>3, <1>4, <1>5, Zenon DEF SqpollInv

\* SYS_RING_SETUP.
LEMMA StepSetup ==
  ASSUME SqpollInv, NEW p \in Pids, Setup(p)
  PROVE  SqpollInv'
<1>0. TypeInv /\ LifeInv /\ RequestInv /\ sq \in [Pids -> Seq(Sqes)] /\ cq \in [Pids -> Nat]
  BY WorldIs, Zenon DEF SqpollInv, TypeInv
<1>1. /\ current = Task(p) /\ user[p].pc = "start" /\ ring' = [ring EXCEPT ![p] = TRUE]
      /\ user' = [user EXCEPT ![p].pc = "ready"]
      /\ UNCHANGED <<schedVars, procVars, sq, cq, flag, waiter, poll>>
  BY Zenon DEF Setup, At, Goto
<1>2. "ready" \in UserPcs
  BY Zenon DEF UserPcs
<1>3. /\ user' \in [Pids -> [pc : UserPcs, out : Nat]] /\ user'[p].pc = "ready"
      /\ \A q \in Pids : user'[q].out = user[q].out /\ (q # p => user'[q] = user[q])
  BY <1>0, <1>1, <1>2, SetPc, Zenon DEF TypeInv
<1>4. user[p].out = 0
  BY <1>0, <1>1, Zenon DEF LifeInv
<1>5. ring' \in [Pids -> BOOLEAN] /\ ring'[p] /\ \A q \in Pids : q # p => ring'[q] = ring[q]
  BY <1>0, <1>1, Zenon DEF TypeInv
<1>6. RequestInv'
  <2>1. UNCHANGED <<count, parent, parked, husk, sq, cq>>
    BY <1>1, Zenon DEF procVars
  <2>2. /\ TableInv(count, parent, parked)' /\ DistinctInv'
        /\ (\A q \in Pids : QueuedInv(count, parent, parked, q, 0))'
    BY <1>0, <2>1, QueuesKept, TableKept, Zenon
  <2>3. Accounted' /\ BatchInv'
    BY <1>0, <1>3, <2>1, Zenon DEF RequestInv, Accounted, BatchInv
  <2>4. RingInv'
    BY <1>0, <1>5, <2>1, Zenon DEF RequestInv, RingInv
  <2> QED BY <2>2, <2>3, <2>4, Zenon DEF RequestInv
<1> QED BY <1>0, <1>1, <1>3, <1>4, <1>5, <1>6, ProgramStep, Zenon

\* uring::submit, the choice of how to reap, and uring::reap with nothing to reap.
LEMMA StepMoves ==
  ASSUME SqpollInv, NEW p \in Pids,
         \/ Submit(p)
         \/ StartReap(p)
         \/ Reap(p) /\ ~(cq[p] > 0)
  PROVE  SqpollInv'
<1>0. /\ TypeInv /\ LifeInv /\ RequestInv /\ sq \in [Pids -> Seq(Sqes)] /\ cq \in [Pids -> Nat]
      /\ ring \in [Pids -> BOOLEAN]
  BY WorldIs, Zenon DEF SqpollInv, TypeInv
<1>1. PICK pc \in {"trap", "sent", "reap", "spin", "svc"} :
        /\ current = Task(p) /\ user[p].pc \in {"submit", "sent", "reap", "spin"}
        /\ user' = [user EXCEPT ![p].pc = pc]
        /\ UNCHANGED <<schedVars, procVars, ringVars, waiter, poll>>
  BY Zenon DEF Submit, StartReap, Reap, At, Goto, ringVars
<1>2. pc \in UserPcs
  BY Zenon DEF UserPcs
<1>3. /\ user' \in [Pids -> [pc : UserPcs, out : Nat]] /\ user'[p].pc = pc
      /\ \A q \in Pids : user'[q].out = user[q].out /\ (q # p => user'[q] = user[q])
  BY <1>0, <1>1, <1>2, SetPc, Zenon DEF TypeInv
<1>4. user[p].out # 0 /\ ring[p]
  BY <1>0, <1>1, Running, Zenon DEF LifeInv
<1>5. RequestInv'
  BY <1>0, <1>1, <1>3, RequestsSame, Zenon DEF requestVars, procVars, ringVars
<1>6. user'[p].pc \notin {"start", "enter"} /\ (user'[p].pc = "ready" <=> user'[p].out = 0)
  BY <1>3, <1>4, Zenon
<1> QED BY <1>0, <1>1, <1>3, <1>4, <1>5, <1>6, ProgramStep, Zenon DEF ringVars

\* uring::sqe.
LEMMA StepPublish ==
  ASSUME LibraryFacts, SqpollInv, NEW p \in Pids, NEW sqe \in Sqes, Publish(p, sqe)
  PROVE  SqpollInv'
<1>0. /\ TypeInv /\ LifeInv /\ RequestInv /\ sq \in [Pids -> Seq(Sqes)] /\ cq \in [Pids -> Nat]
      /\ ring \in [Pids -> BOOLEAN] /\ user \in [Pids -> [pc : UserPcs, out : Nat]]
  BY WorldIs, Zenon DEF SqpollInv, TypeInv
<1>1. /\ current = Task(p) /\ user[p].pc \in {"ready", "sent"} /\ MayPublish(p, sqe)
      /\ user[p].out < Batch
      /\ sq' = [sq EXCEPT ![p] = Append(sq[p], sqe)]
      /\ user' = [user EXCEPT ![p] = [pc |-> "submit", out |-> user[p].out + 1]]
      /\ UNCHANGED <<schedVars, procVars, ring, cq, flag, waiter, poll>>
  BY Zenon DEF Publish, At
<1> DEFINE n == Len(sq[p])
<1>2. /\ sq' \in [Pids -> Seq(Sqes)] /\ n \in Nat
      /\ DOMAIN sq[p] = 1..n /\ DOMAIN sq'[p] = 1..(n + 1) /\ Len(sq'[p]) = n + 1
      /\ sq'[p][n + 1] = sqe /\ \A j \in 1..n : sq'[p][j] = sq[p][j]
      /\ \A q \in Pids : q # p => sq'[q] = sq[q]
  BY <1>0, <1>1
<1>3. /\ user' \in [Pids -> [pc : UserPcs, out : Nat]]
      /\ user'[p].pc = "submit" /\ user'[p].out = user[p].out + 1 /\ user'[p].out # 0
      /\ \A q \in Pids : q # p => user'[q] = user[q]
  BY <1>0, <1>1 DEF UserPcs
<1>4. ring[p]
  BY <1>0, <1>1, Running, Zenon DEF LifeInv
<1> HIDE DEF n
\* A queued submission is an old one or the new one.
<1>5. ASSUME NEW q \in Pids, NEW j \in DOMAIN sq'[q]
      PROVE  \/ j \in DOMAIN sq[q] /\ sq'[q][j] = sq[q][j] /\ (q = p => j # n + 1)
             \/ q = p /\ j = n + 1 /\ sq'[q][j] = sqe
  <2>1. CASE q = p /\ j = n + 1
    BY <1>2, <2>1, Zenon
  <2>2. CASE q = p /\ j # n + 1
    <3>1. j \in 1..n
      BY <1>2, <2>2
    <3> QED BY <1>2, <2>2, <3>1, Zenon
  <2>3. CASE q # p
    BY <1>2, <2>3, Zenon
  <2> QED BY <2>1, <2>2, <2>3, Zenon
<1>6. RequestInv'
  <2>1. UNCHANGED <<count, parent, parked, husk, ring, cq>>
    BY <1>1, Zenon DEF procVars
  <2>2. TableInv(count, parent, parked)'
    BY <1>0, <2>1, Zenon DEF RequestInv, TableInv
  <2>3. /\ sqe.op = "wait" => parent[sqe.child] = p /\ ~parked[sqe.child] /\ sqe \notin Range(sq[p])
        /\ sqe.op = "spawn" => /\ sqe.child = 0 /\ count < NumProcs
                               /\ \A q \in Pids : sqe \notin Range(sq[q])
        /\ sqe.child \in Pids
    BY <1>1, Zenon DEF MayPublish, Sqes
  <2>4. (\A q \in Pids : QueuedInv(count, parent, parked, q, 0))'
    <3> SUFFICES ASSUME NEW q \in Pids, NEW j \in DOMAIN sq'[q]
                 PROVE  /\ sq'[q][j].op = "wait" =>
                             sq'[q][j].child \in Pids /\ parent[sq'[q][j].child] = q /\ ~parked[sq'[q][j].child]
                        /\ sq'[q][j].op = "spawn" => count < NumProcs
      BY <2>1, Zenon DEF QueuedInv
    <3>1. CASE j \in DOMAIN sq[q] /\ sq'[q][j] = sq[q][j]
      <4>1. QueuedInv(count, parent, parked, q, 0) /\ Left(q, 0, q, j)
        BY <1>0, <3>1 DEF RequestInv, Left
      <4> QED BY <3>1, <4>1 DEF QueuedInv
    <3>2. CASE q = p /\ sq'[q][j] = sqe
      BY <2>3, <3>2, Zenon
    <3> QED BY <1>5, <3>1, <3>2, Zenon
  <2>5. DistinctInv'
    <3> SUFFICES ASSUME NEW a \in Pids, NEW b \in Pids, NEW i \in DOMAIN sq'[a], NEW j \in DOMAIN sq'[b]
                 PROVE  /\ a = b /\ sq'[a][i].op = "wait" /\ sq'[a][i] = sq'[b][j] => i = j
                        /\ sq'[a][i].op = "spawn" /\ sq'[b][j].op = "spawn" => a = b /\ i = j
      BY Zenon DEF DistinctInv
    <3>0. \A q \in Pids : \A k \in DOMAIN sq[q] :
             /\ q = p /\ sqe.op = "wait" => sq[q][k] # sqe
             /\ sqe.op = "spawn" => sq[q][k].op # "spawn"
      <4> SUFFICES ASSUME NEW q \in Pids, NEW k \in DOMAIN sq[q]
                   PROVE  /\ q = p /\ sqe.op = "wait" => sq[q][k] # sqe
                          /\ sqe.op = "spawn" => sq[q][k].op # "spawn"
        BY Zenon
      <4>1. sq[q][k] \in Range(sq[q]) /\ sq[q][k] \in Sqes
        BY <1>0, SMTT(30) DEF Range
      <4>2. sq[q][k].op = "spawn" /\ sqe.op = "spawn" => sq[q][k] = sqe
        <5> DEFINE e == sq[q][k]
        <5>1. e \in Sqes /\ (e.op = "spawn" => e.child = 0)
          BY <1>0, <4>1, Zenon DEF RequestInv, RingInv
        <5> HIDE DEF e
        <5>2. e.op = "spawn" /\ sqe.op = "spawn" => e = sqe
          BY <2>3, <5>1, SMTT(30) DEF Sqes
        <5> QED BY <5>2, Zenon DEF e
      <4> QED BY <2>3, <4>1, <4>2, Zenon
    <3>1. CASE /\ i \in DOMAIN sq[a] /\ sq'[a][i] = sq[a][i]
               /\ j \in DOMAIN sq[b] /\ sq'[b][j] = sq[b][j]
      BY <1>0, <3>1 DEF RequestInv, DistinctInv
    <3>2. CASE /\ a = p /\ i = n + 1 /\ sq'[a][i] = sqe
               /\ j \in DOMAIN sq[b] /\ sq'[b][j] = sq[b][j]
      BY <3>0, <3>2, Zenon
    <3>3. CASE /\ i \in DOMAIN sq[a] /\ sq'[a][i] = sq[a][i]
               /\ b = p /\ j = n + 1 /\ sq'[b][j] = sqe
      BY <3>0, <3>3, Zenon
    <3>4. CASE a = p /\ i = n + 1 /\ b = p /\ j = n + 1
      BY <3>4, Zenon
    <3> QED BY <1>5, <3>1, <3>2, <3>3, <3>4, Zenon
  <2>6. RingInv'
    BY <1>0, <1>2, <1>4, <1>5, <2>1, <2>3, SMTT(30) DEF RequestInv, RingInv
  <2>7. Accounted'
    <3> SUFFICES ASSUME NEW q \in Pids
                 PROVE  user'[q].out = Len(sq'[q]) + cq[q] + Cardinality(Kids(parent, parked, q))
      BY <2>1, Zenon DEF Accounted
    <3>1. user[q].out = Len(sq[q]) + cq[q] + Cardinality(Kids(parent, parked, q))
      BY <1>0, Zenon DEF RequestInv, Accounted
    <3>2. CASE q # p
      BY <1>2, <1>3, <3>1, <3>2, Zenon
    <3>3. CASE q = p
      <4> DEFINE kids == Cardinality(Kids(parent, parked, q))
                 done == cq[q]
                 out == user[q].out
      <4>1. kids \in Nat /\ done \in Nat /\ out \in Nat /\ out = n + done + kids
        BY <1>0, <3>1, <3>3, KidsFinite, Zenon DEF n
      <4> HIDE DEF kids, done, out
      <4>2. out + 1 = (n + 1) + done + kids
        BY <1>2, <4>1
      <4> QED BY <1>2, <1>3, <3>3, <4>2, Zenon DEF kids, done, out
    <3> QED BY <3>2, <3>3, Zenon
  <2>8. BatchInv'
    <3>1. user'[p].out <= Batch
      BY <1>0, <1>1, <1>3
    <3> QED BY <1>0, <1>3, <3>1, Zenon DEF RequestInv, BatchInv
  <2> QED BY <2>2, <2>4, <2>5, <2>6, <2>7, <2>8, Zenon DEF RequestInv
<1>7. user'[p].pc \notin {"start", "enter"} /\ (user'[p].pc = "ready" <=> user'[p].out = 0)
  BY <1>3, Zenon
<1> QED BY <1>0, <1>1, <1>2, <1>3, <1>4, <1>6, <1>7, ProgramStep, Zenon

\* uring::reap takes a completion.
LEMMA StepReap ==
  ASSUME LibraryFacts, SqpollInv, NEW p \in Pids, Reap(p), cq[p] > 0
  PROVE  SqpollInv'
<1>0. /\ TypeInv /\ LifeInv /\ RequestInv /\ sq \in [Pids -> Seq(Sqes)] /\ cq \in [Pids -> Nat]
      /\ ring \in [Pids -> BOOLEAN] /\ user \in [Pids -> [pc : UserPcs, out : Nat]]
  BY WorldIs, Zenon DEF SqpollInv, TypeInv
<1> DEFINE next == [pc |-> IF user[p].out = 1 THEN "ready" ELSE user[p].pc, out |-> user[p].out - 1]
<1>1. /\ current = Task(p) /\ user[p].pc \in {"reap", "spin"}
      /\ cq' = [cq EXCEPT ![p] = cq[p] - 1] /\ user' = [user EXCEPT ![p] = next]
      /\ UNCHANGED <<schedVars, procVars, ring, sq, flag, waiter, poll>>
  BY Zenon DEF Reap, At
<1>2. cq' \in [Pids -> Nat] /\ cq'[p] = cq[p] - 1 /\ \A q \in Pids : q # p => cq'[q] = cq[q]
  BY <1>0, <1>1
<1> DEFINE kids == Cardinality(Kids(parent, parked, p))
           len == Len(sq[p])
           out == user[p].out
<1>3. /\ out = len + cq[p] + kids /\ kids \in Nat /\ len \in Nat /\ cq[p] \in Nat /\ out \in Nat
  BY <1>0, KidsFinite DEF RequestInv, Accounted
<1> HIDE DEF kids, len
<1>4. out - 1 \in Nat /\ out - 1 = len + (cq[p] - 1) + kids /\ (out = 1 <=> out - 1 = 0)
  BY <1>3
<1>5. next \in [pc : UserPcs, out : Nat]
  BY <1>0, <1>4, Zenon DEF UserPcs
<1>6. /\ user' \in [Pids -> [pc : UserPcs, out : Nat]] /\ user'[p].out = out - 1
      /\ user'[p].pc \notin {"start", "enter"} /\ (user'[p].pc = "ready" <=> user'[p].out = 0)
      /\ \A q \in Pids : q # p => user'[q] = user[q]
  BY <1>0, <1>1, <1>4, <1>5, Zenon
<1>7. ring[p]
  BY <1>0, <1>1, Running, Zenon DEF LifeInv
<1>8. RequestInv'
  <2>1. UNCHANGED <<count, parent, parked, husk, ring, sq>>
    BY <1>1, Zenon DEF procVars
  <2>2. /\ TableInv(count, parent, parked)' /\ DistinctInv'
        /\ (\A q \in Pids : QueuedInv(count, parent, parked, q, 0))'
    BY <1>0, <2>1, QueuesKept, TableKept, Zenon
  <2>3. RingInv'
    BY <1>0, <2>1, Zenon DEF RequestInv, RingInv
  <2>4. Accounted'
    <3> SUFFICES ASSUME NEW q \in Pids
                 PROVE  user'[q].out = Len(sq[q]) + cq'[q] + Cardinality(Kids(parent, parked, q))
      BY <2>1, Zenon DEF Accounted
    <3>1. CASE q = p
      BY <1>2, <1>4, <1>6, <3>1, Zenon DEF len, kids
    <3>2. CASE q # p
      BY <1>0, <1>2, <1>6, <3>2, Zenon DEF RequestInv, Accounted
    <3> QED BY <3>1, <3>2, Zenon
  <2>5. BatchInv'
    <3>1. out <= Batch
      BY <1>0, Zenon DEF RequestInv, BatchInv
    <3>2. user'[p].out <= Batch
      BY <1>3, <1>6, <3>1
    <3> QED BY <1>0, <1>6, <3>2, Zenon DEF RequestInv, BatchInv
  <2> QED BY <2>2, <2>3, <2>4, <2>5, Zenon DEF RequestInv
<1> HIDE DEF next, out
<1> QED BY <1>0, <1>1, <1>2, <1>6, <1>7, <1>8, ProgramStep, Zenon

\* SYS_EXIT: nothing of the process is in flight, the parent's wait is answered and
\* the parent woken.
LEMMA StepExit ==
  ASSUME LibraryFacts, SqpollInv, NEW p \in Pids, Exit(p)
  PROVE  SqpollInv'
<1> DEFINE par == parent[p]
           notified == [state EXCEPT ![Task(p)] = "Exited"]
           st == IF parked[p] /\ waiter[par] THEN Woken(notified, Task(par)) ELSE notified
<1>0. /\ TypeInv /\ SchedInv /\ LifeInv /\ RequestInv /\ BlockInv /\ PollInv
      /\ state \in [Tasks -> TaskStates] /\ count \in 0..NumProcs /\ cq \in [Pids -> Nat]
      /\ parked \in [Pids -> BOOLEAN] /\ waiter \in [Pids -> BOOLEAN] /\ ring \in [Pids -> BOOLEAN]
      /\ husk \in [Pids -> BOOLEAN] /\ flag \in [Pids -> BOOLEAN] /\ sq \in [Pids -> Seq(Sqes)]
  BY WorldIs, Zenon DEF SqpollInv, TypeInv
<1>1. /\ current = Task(p) /\ user[p].pc = "ready"
      /\ husk' = [husk EXCEPT ![p] = TRUE] /\ ring' = [ring EXCEPT ![p] = FALSE]
      /\ flag' = [flag EXCEPT ![p] = FALSE] /\ parked' = [parked EXCEPT ![p] = FALSE]
      /\ cq' = [q \in Pids |-> IF parked[p] /\ q = par /\ ring[q] THEN Completed(cq[q]) ELSE cq[q]]
      /\ waiter' = [q \in Pids |-> waiter[q] /\ q # p /\ ~(parked[p] /\ q = par)]
      /\ Schedule(st, KernelSpace)
      /\ UNCHANGED <<count, parent, sq, poll, user>>
  BY Zenon DEF Exit, At
<1>2. /\ husk' \in [Pids -> BOOLEAN] /\ ring' \in [Pids -> BOOLEAN] /\ flag' \in [Pids -> BOOLEAN]
      /\ parked' \in [Pids -> BOOLEAN] /\ waiter' \in [Pids -> BOOLEAN]
      /\ husk'[p] /\ ~ring'[p] /\ ~flag'[p] /\ ~parked'[p]
      /\ \A q \in Pids : q # p => /\ husk'[q] = husk[q] /\ ring'[q] = ring[q]
                                  /\ flag'[q] = flag[q] /\ parked'[q] = parked[q]
  BY <1>0, <1>1, Zenon
<1>3. cq' \in [Pids -> Nat]
  BY <1>0, <1>1 DEF Completed
\* The exiting process waits for nobody, and its own queue is empty.
<1>4. sq[p] = <<>> /\ cq[p] = 0 /\ Kids(parent, parked, p) = {} /\ p < count /\ ~husk[p]
  <2> DEFINE len == Len(sq[p])
             kids == Cardinality(Kids(parent, parked, p))
             done == cq[p]
  <2>1. len \in Nat /\ kids \in Nat /\ done \in Nat
    BY <1>0, KidsFinite
  <2>2. 0 = len + done + kids
    BY <1>0, <1>1, Zenon DEF LifeInv, RequestInv, Accounted
  <2> HIDE DEF len, kids, done
  <2>3. len = 0 /\ done = 0 /\ kids = 0
    BY <2>1, <2>2
  <2>4. sq[p] = <<>> /\ cq[p] = 0
    BY <1>0, <2>3 DEF len, done
  <2>5. Kids(parent, parked, p) = {}
    BY <2>3, KidsFinite, CardEmpty, CardNat, Zenon DEF kids
  <2> QED BY <1>1, <2>4, <2>5, Running, Zenon
\* The parent of a process that is waited for is another one, with a ring.
<1>5. parked[p] => /\ par \in Pids /\ par # p /\ ring[par] /\ p \in Kids(parent, parked, par)
                   /\ cq[par] < CqEntries
  <2> SUFFICES ASSUME parked[p]
               PROVE  /\ par \in Pids /\ par # p /\ ring[par] /\ p \in Kids(parent, parked, par)
                      /\ cq[par] < CqEntries
    BY Zenon
  <2>1. par \in Pids /\ p \in Kids(parent, parked, par)
    BY <1>0, Zenon DEF RequestInv, TableInv, Kids
  <2>2. par # p
    BY <1>4, <2>1, Zenon
  <2> DEFINE len == Len(sq[par])
             kids == Cardinality(Kids(parent, parked, par))
             done == cq[par]
  <2>3. len \in Nat /\ kids \in Nat /\ done \in Nat /\ kids # 0
    BY <1>0, <2>1, KidsFinite, CardEmpty, CardNat
  <2>4. user[par].out = len + done + kids /\ user[par].out <= Batch
    BY <1>0, <2>1, Zenon DEF RequestInv, Accounted, BatchInv
  <2> HIDE DEF len, kids, done
  <2>5. user[par].out # 0 /\ done < CqEntries
    BY <2>3, <2>4
  <2>6. ring[par]
    BY <1>0, <2>1, <2>5, Zenon DEF LifeInv
  <2> QED BY <2>1, <2>2, <2>5, <2>6, Zenon DEF done
\* The task states, before the next task is chosen.
<1>6. /\ st \in [Tasks -> TaskStates] /\ st[Task(p)] = "Exited"
      /\ \A t \in Tasks : t # Task(p) => st[t] = state[t] \/ (state[t] = "Blocked" /\ st[t] = "Runnable")
      /\ parked[p] /\ state[Task(par)] = "Blocked" => st[Task(par)] # "Blocked"
  <2>1. Task(p) \in Tasks /\ "Exited" \in TaskStates /\ "Runnable" \in TaskStates
    BY Numbers, Zenon DEF TaskStates
  <2>2. /\ notified \in [Tasks -> TaskStates] /\ notified[Task(p)] = "Exited"
        /\ \A t \in Tasks : t # Task(p) => notified[t] = state[t]
    BY <1>0, <2>1, Zenon
  <2> HIDE DEF notified
  <2>3. CASE ~(parked[p] /\ waiter[par])
    <3>1. st = notified
      BY <2>3, Zenon
    <3>2. parked[p] => state[Task(par)] # "Blocked"
      BY <1>0, <1>5, <2>3, Zenon DEF BlockInv
    <3> QED BY <2>2, <3>1, <3>2
  <2>4. CASE parked[p] /\ waiter[par]
    <3>1. st = [notified EXCEPT ![Task(par)] = IF @ = "Blocked" THEN "Runnable" ELSE @]
      BY <2>4, Zenon DEF Woken
    <3>2. Task(par) \in Tasks /\ Task(par) # Task(p)
      BY <1>5, <2>4, Numbers, Zenon
    <3> HIDE DEF st
    <3> QED BY <2>1, <2>2, <3>1, <3>2, Zenon
  <2> QED BY <2>3, <2>4, Zenon
<1> HIDE DEF st
<1>7. st[Idle] = "Runnable" /\ st[current] # "Runnable"
  BY <1>0, <1>1, <1>6, Numbers, Zenon DEF SchedInv
<1>8. /\ state' = st /\ current' \in 0..(count + 1) /\ st[current'] = "Runnable"
      /\ IsUser(current') => live' = Pid(current')
  BY <1>0, <1>1, <1>7, ScheduleIs, Zenon
<1>9. TypeInv'
  <2>1. World' \in Worlds
    BY <1>0, <1>1, <1>2, <1>3, <1>6, <1>8, WorldIs, Zenon DEF World, Worlds
  <2> QED BY <1>0, <1>1, <1>2, <1>8, <2>1, Zenon DEF TypeInv
<1>10. SchedInv'
  <2>1. \A t \in Tasks : t > count + 1 => st[t] = "Exited"
    BY <1>0, <1>6, Zenon DEF SchedInv
  <2> QED BY <1>1, <1>7, <1>8, <2>1, Zenon DEF SchedInv
<1>11. LifeInv'
  <2> SUFFICES ASSUME NEW q \in Pids
               PROVE  /\ ring'[q] <=> user[q].pc # "start" /\ ~husk'[q]
                      /\ q >= count => user[q].pc = "start" /\ ~husk'[q]
                      /\ husk'[q] => st[Task(q)] = "Exited" /\ user[q].pc = "ready"
                      /\ user[q].pc \in {"start", "ready"} <=> user[q].out = 0
    BY <1>1, <1>8, Zenon DEF LifeInv
  <2>1. CASE q = p
    <3>1. ~(p >= count)
      BY <1>0, <1>4, Numbers, SMTT(30)
    <3> QED BY <1>0, <1>1, <1>2, <1>6, <2>1, <3>1 DEF LifeInv
  <2>2. CASE q # p
    <3>1. Task(q) \in Tasks /\ Task(q) # Task(p)
      BY <2>2, Numbers, Zenon
    <3> QED BY <1>0, <1>2, <1>6, <2>2, <3>1 DEF LifeInv
  <2> QED BY <2>1, <2>2, Zenon
<1>12. BlockInv'
  <2> SUFFICES ASSUME NEW q \in Pids
               PROVE  /\ st[Task(q)] = "Blocked" => user[q].pc = "enter" /\ cq'[q] = 0 /\ waiter'[q]
                      /\ user[q].pc = "enter" => sq[q] = <<>>
    BY <1>1, <1>8, Zenon DEF BlockInv
  <2>1. user[q].pc = "enter" => sq[q] = <<>>
    BY <1>0, Zenon DEF BlockInv
  <2>2. ASSUME st[Task(q)] = "Blocked"
        PROVE  user[q].pc = "enter" /\ cq'[q] = 0 /\ waiter'[q]
    <3>1. q # p /\ state[Task(q)] = "Blocked" /\ ~(parked[p] /\ q = par)
      BY <1>6, <2>2, Numbers, Zenon
    <3>2. user[q].pc = "enter" /\ cq[q] = 0 /\ waiter[q]
      BY <1>0, <3>1, Zenon DEF BlockInv
    <3>3. cq'[q] = cq[q]
      BY <1>1, <3>1, Zenon
    <3>4. waiter'[q]
      BY <1>1, <3>1, <3>2, Zenon
    <3> QED BY <3>2, <3>3, <3>4, Zenon
  <2> QED BY <2>1, <2>2, Zenon
<1>13. PollInv'
  <2>1. \A q \in Pids : (flag'[q] => flag[q]) /\ (flag'[q] => ring'[q])
    BY <1>0, <1>2, Zenon DEF PollInv
  <2> QED BY <1>0, <1>1, <2>1, Zenon DEF PollInv
<1>14. RequestInv'
  <2>1. TableInv(count, parent, parked)'
    BY <1>0, <1>1, <1>2 DEF RequestInv, TableInv
  <2>2. \A q \in Pids : parked'[q] => parked[q]
    BY <1>2, Zenon
  <2>3. (\A q \in Pids : QueuedInv(count, parent, parked, q, 0))' /\ DistinctInv'
    BY <1>0, <1>1, <2>2, QueuesKept, Zenon
  <2>4. RingInv'
    BY <1>0, <1>1, <1>2, <1>4 DEF RequestInv, RingInv
  <2>5. Accounted'
    <3> SUFFICES ASSUME NEW q \in Pids
                 PROVE  user[q].out = Len(sq[q]) + cq'[q] + Cardinality(Kids(parent, parked', q))
      BY <1>1, Zenon DEF Accounted
    <3>1. user[q].out = Len(sq[q]) + cq[q] + Cardinality(Kids(parent, parked, q))
      BY <1>0, Zenon DEF RequestInv, Accounted
    <3>2. CASE parked[p] /\ q = par
      <4>1. cq'[q] = cq[q] + 1
        BY <1>1, <1>5, <3>2, Zenon DEF Completed
      <4>2. Kids(parent, parked', q) = Kids(parent, parked, q) \ {p} /\ p \in Kids(parent, parked, q)
        BY <1>2, <1>5, <3>2, Zenon DEF Kids
      <4>3. Cardinality(Kids(parent, parked', q)) = Cardinality(Kids(parent, parked, q)) - 1
        BY <4>2, KidsRemove, Zenon
      <4> DEFINE len == Len(sq[q])
                 kids == Cardinality(Kids(parent, parked, q))
                 done == cq[q]
      <4>4. len \in Nat /\ kids \in Nat /\ done \in Nat
        BY <1>0, KidsFinite
      <4> HIDE DEF len, kids, done
      <4>5. len + done + kids = len + (done + 1) + (kids - 1)
        BY <4>4
      <4> QED BY <3>1, <4>1, <4>3, <4>5, Zenon DEF len, kids, done
    <3>3. CASE ~(parked[p] /\ q = par)
      <4>1. cq'[q] = cq[q]
        BY <1>1, <3>3, Zenon
      <4>2. Kids(parent, parked', q) = Kids(parent, parked, q)
        BY <1>2, <3>3, Zenon DEF Kids
      <4> QED BY <3>1, <4>1, <4>2, Zenon
    <3> QED BY <3>2, <3>3, Zenon
  <2>6. BatchInv'
    BY <1>0, <1>1, Zenon DEF RequestInv, BatchInv
  <2> QED BY <2>1, <2>2, <2>3, <2>4, <2>5, <2>6, Zenon DEF RequestInv
<1> QED BY <1>9, <1>10, <1>11, <1>12, <1>13, <1>14, Zenon DEF SqpollInv

-----------------------------------------------------------------------------
(* The theorems. *)

\* After boot, before the first process.
LEMMA InitOK ==
  ASSUME LibraryFacts, Init
  PROVE  SqpollInv
<1> USE DEF Init
<1>1. World \in Worlds
  <2>1. state \in [Tasks -> TaskStates]
    BY Zenon DEF TaskStates
  <2>2. /\ count \in 0..NumProcs /\ parent \in [Pids -> 0..NumProcs] /\ parked \in [Pids -> BOOLEAN]
        /\ cq \in [Pids -> Nat]
    OBVIOUS
  <2>3. <<>> \in Seq(Sqes)
    OBVIOUS
  <2>4. sq \in [Pids -> Seq(Sqes)]
    BY <2>3, Zenon
  <2> QED BY <2>1, <2>2, <2>4, Zenon DEF World, Worlds
<1>2. TypeInv
  <2>1. current \in 0..(count + 1)
    BY DEF Idle
  <2>2. /\ ring \in [Pids -> BOOLEAN] /\ husk \in [Pids -> BOOLEAN]
        /\ waiter \in [Pids -> BOOLEAN] /\ flag \in [Pids -> BOOLEAN]
    BY Zenon
  <2>4. sq \in [Pids -> Seq(Sqes)]
    BY <1>1, Zenon DEF World, Worlds
  <2>5. poll \in PollLocals /\ user \in [Pids -> [pc : UserPcs, out : Nat]]
    BY Zenon DEF PollLocals, PollPcs, UserPcs
  <2> QED BY <1>1, <2>1, <2>2, <2>4, <2>5, Zenon DEF TypeInv
<1>3. SchedInv
  BY Numbers DEF SchedInv, Idle, Poller, Tasks, IsUser
<1>4. LifeInv /\ BlockInv
  <2>1. \A p \in Pids : state[Task(p)] = "Exited"
    BY Numbers, Zenon
  <2> QED BY <2>1, Zenon DEF LifeInv, BlockInv
<1>5. RequestInv
  <2>1. TableInv(count, parent, parked)
    BY Zenon DEF TableInv
  <2>2. \A p \in Pids : sq[p] = <<>> /\ DOMAIN sq[p] = {} /\ Len(sq[p]) = 0
    OBVIOUS
  <2>3. /\ \A p \in Pids : QueuedInv(count, parent, parked, p, 0)
        /\ DistinctInv /\ RingInv
    BY <2>2, Zenon DEF QueuedInv, DistinctInv, RingInv
  <2>4. Accounted
    <3> SUFFICES ASSUME NEW p \in Pids
                 PROVE  user[p].out = Len(sq[p]) + cq[p] + Cardinality(Kids(parent, parked, p))
      BY Zenon DEF Accounted
    <3>1. Kids(parent, parked, p) = {}
      BY Zenon DEF Kids
    <3>2. Cardinality(Kids(parent, parked, p)) = 0
      BY <3>1, CardEmpty, CardNat, Zenon
    <3> QED BY <2>2, <3>2
  <2>5. BatchInv
    BY DEF BatchInv
  <2> QED BY <2>1, <2>3, <2>4, <2>5, Zenon DEF RequestInv
<1>6. PollInv
  BY DEF PollInv
<1> QED BY <1>2, <1>3, <1>4, <1>5, <1>6, Zenon DEF SqpollInv

\* One step of the poller, of a program, of kmain or of the timer.
LEMMA NextOK ==
  ASSUME LibraryFacts, SqpollInv, [Next]_vars
  PROVE  SqpollInv'
<1>1. CASE UNCHANGED vars
  <2>1. UNCHANGED <<schedVars, procVars, ringVars, waiter, user>> /\ poll' = poll
    BY <1>1, Zenon DEF vars, schedVars, procVars, ringVars
  <2>2. poll' \in PollLocals /\ PollInv'
    BY <2>1, Zenon DEF SqpollInv, TypeInv, PollInv, procVars, ringVars
  <2> QED BY <2>1, <2>2, PollOnly, Zenon
<1>2. CASE Tick
  BY <1>2, StepTick, Zenon
<1>3. CASE Boot
  BY <1>3, StepBoot, Zenon
<1>4. CASE IdleYield
  BY <1>4, StepYields, Zenon
<1>5. CASE PollStep
  BY <1>5, StepPoll, StepActivate, StepDrain, StepStore, StepBlock, StepYields, Zenon DEF PollStep
<1>6. ASSUME NEW p \in Pids, UserStep(p) PROVE SqpollInv'
  <2>1. CASE Reap(p)
    BY <2>1, StepMoves, StepReap, Zenon
  <2> QED
    BY <1>6, <2>1, StepSetup, StepPublish, StepMoves, StepEnterSubmit, StepEnterWait,
       StepEnterRecheck, StepExit, Zenon DEF UserStep
<1> QED BY <1>1, <1>2, <1>3, <1>4, <1>5, <1>6, Zenon DEF Next

-----------------------------------------------------------------------------
(* The invariant, with the library's theorems. *)

INSTANCE FiniteSetTheorems

\* The library's theorems give LibraryFacts.
LEMMA LibraryHolds == LibraryFacts
<1>1. ASSUME NEW S \in SUBSET Nat, S # {} PROVE \E i \in S : \A j \in S : i <= j
  <2> DEFINE Less == {ss \in Nat \X Nat : ss[1] < ss[2]}
  <2>1. IsWellFoundedOn(Less, Nat)
    BY NatLessThanWellFounded, Zenon DEF OpToRel
  <2> HIDE DEF Less
  <2>2. PICK i \in S : \A j \in S : ~(<<j, i>> \in Less)
    BY <1>1, <2>1, WFMin, Zenon
  <2>3. \A j \in S : ~(j < i)
    BY <2>2, Zenon DEF Less
  <2> QED BY <2>3
<1>2. ASSUME NEW S, IsFiniteSet(S), NEW T, NEW f \in Injection(T, S)
      PROVE  IsFiniteSet(T) /\ Cardinality(T) <= Cardinality(S)
  BY <1>2, FS_Injection, Zenon
<1>3. ASSUME NEW S, IsFiniteSet(S), NEW x
      PROVE  /\ IsFiniteSet(S \union {x}) /\ IsFiniteSet(S \ {x})
             /\ Cardinality(S \union {x}) = IF x \in S THEN Cardinality(S) ELSE Cardinality(S) + 1
             /\ Cardinality(S \ {x}) = IF x \in S THEN Cardinality(S) - 1 ELSE Cardinality(S)
  BY <1>3, FS_AddElement, FS_RemoveElement, Zenon
<1>4. ASSUME NEW S, IsFiniteSet(S)
      PROVE  /\ Cardinality(S) \in Nat /\ (Cardinality(S) = 0 <=> S = {})
             /\ \A T \in SUBSET S : IsFiniteSet(T) /\ Cardinality(T) <= Cardinality(S)
  BY <1>4, FS_CardinalityType, FS_EmptySet, FS_Subset, Zenon
<1> QED BY <1>1, <1>2, <1>3, <1>4, FS_EmptySet, FS_Interval, Zenon DEF LibraryFacts

\* The inductive invariant holds, for any number of processes, of requests in
\* flight and of ticks before the poller sleeps.
THEOREM SqpollInvariant == Spec => []SqpollInv
<1>1. Init => SqpollInv
  BY LibraryHolds, InitOK, Zenon
<1>2. SqpollInv /\ [Next]_vars => SqpollInv'
  BY LibraryHolds, NextOK, Zenon
<1> QED BY <1>1, <1>2, PTL DEF Spec

\* schedule() gives a user task its own address space each time it runs, whatever
\* the poller activated in between.
THEOREM OwnSpace == Spec => []UserInOwnSpace
<1>1. SqpollInv => UserInOwnSpace
  BY Zenon DEF SqpollInv, SchedInv, UserInOwnSpace
<1> QED BY <1>1, SqpollInvariant, PTL

\* set_all_wakeup(false) leaves no flag up before the poller polls again, so that
\* submit() traps only when the poller sleeps or goes to sleep.
THEOREM NoTrap == Spec => []NoTrapWhilePolling
<1>1. SqpollInv => NoTrapWhilePolling
  BY Zenon DEF SqpollInv, PollInv, NoTrapWhilePolling
<1> QED BY <1>1, SqpollInvariant, PTL

\* drain(), run by the poller or by enter(), answers or parks each submission once:
\* the requests out are the queued, the completed and the parked ones.
THEOREM NothingInFlightLost == Spec => []InFlightAccounted
<1>1. SqpollInv => InFlightAccounted
  BY Zenon DEF SqpollInv, RequestInv, Accounted, InFlightAccounted, Kids
<1> QED BY <1>1, SqpollInvariant, PTL

\* A task blocked in enter() has a wait parked on a living child, whose exit wakes it.
THEOREM BlockedWillWake == Spec => []BlockedHasWaker
<1>1. SqpollInv => BlockedHasWaker
  <2> SUFFICES ASSUME SqpollInv, NEW p \in Pids, state[Task(p)] = "Blocked"
               PROVE  cq[p] = 0 /\ waiter[p] /\ \E c \in Pids : parent[c] = p /\ parked[c] /\ ~husk[c]
    BY Zenon DEF BlockedHasWaker
  <2>1. /\ user[p].pc = "enter" /\ cq[p] = 0 /\ waiter[p] /\ sq[p] = <<>> /\ user[p].out \in Nat
        /\ user[p].out # 0
    BY Zenon DEF SqpollInv, BlockInv, LifeInv, TypeInv
  <2>2. user[p].out = Len(sq[p]) + cq[p] + Cardinality(Kids(parent, parked, p))
    BY Zenon DEF SqpollInv, RequestInv, Accounted
  <2>3. Cardinality(Kids(parent, parked, p)) # 0
    <3>1. Len(sq[p]) = 0 /\ Cardinality(Kids(parent, parked, p)) \in Nat
      BY <2>1, LibraryHolds, KidsFinite, Zenon
    <3> QED BY <2>1, <2>2, <3>1
  <2>4. PICK c \in Pids : parent[c] = p /\ parked[c]
    BY <2>3, LibraryHolds, CardEmpty, Zenon DEF Kids
  <2>5. ~husk[c]
    BY <2>4, Zenon DEF SqpollInv, RequestInv, TableInv
  <2> QED BY <2>1, <2>4, <2>5, Zenon
<1> QED BY <1>1, SqpollInvariant, PTL

=============================================================================

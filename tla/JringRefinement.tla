--------------------------- MODULE JringRefinement ---------------------------
(***************************************************************************)
(* jring implements Requests, for any number of processes, slots, entries  *)
(* and keys: the completions of ring.rs and uring.rs, as a program sees    *)
(* them, are a step by step execution of what it is promised.              *)
(***************************************************************************)
EXTENDS JringProofs

\* The tags of q: in flight, completed, handed out.
Flight(q) == TagsOf(inflight[q])
Done(q) == TagsOf(Range(cq[q]) \union stash[q])
Used(q) == 1..(nextTag[q] - 1)
Ended(q) == exitCode[q] # None

\* What R maps to `open'.
Open(q) ==
    IF Ended(q) THEN {}
    ELSE TagsOf(Range(sq[q])) \union ParkedReads(q) \union ParkedWaits(q)

\* What R maps to `returned'.
Back(q) == IF Ended(q) THEN {} ELSE Used(q) \ Flight(q)

-----------------------------------------------------------------------------
(* What is open is what is in flight and not completed. *)

\* Every completion is of a request in flight, and every request has a tag that was
\* handed out.
LEMMA DoneInFlight ==
  ASSUME JringInv, NEW q \in Pids
  PROVE  Done(q) \subseteq Flight(q) /\ Flight(q) \subseteq Used(q)
<1>1. \A c \in Range(cq[q]) \union stash[q] : \E e \in inflight[q] : e.tag = c.tag
  BY WorldIs, Zenon DEF JringInv, RequestInv, SystemOK, ProcOK, ReqOK, ResultsOK
<1>2. \A e \in inflight[q] : e.tag \in 1..(nextTag[q] - 1)
  BY Zenon DEF JringInv, TagInv, TagsOK
<1> QED BY <1>1, <1>2, Zenon DEF Done, Flight, Used, TagsOf

\* A process that has exited has nothing in flight.
LEMMA EndedIs ==
  ASSUME JringInv, NEW q \in Pids, Ended(q)
  PROVE  Flight(q) = {} /\ Done(q) = {}
<1>1. ~hasRing[q]
  BY Zenon DEF JringInv, LifeInv, Ended, Active
<1>2. inflight[q] = {} /\ cq[q] = <<>> /\ stash[q] = {}
  BY <1>1, Zenon DEF JringInv, LifeInv
<1>3. Range(<<>>) = {}
  BY DEF Range
<1> QED BY <1>2, <1>3, Zenon DEF Flight, Done, TagsOf

\* With queues of the right size the queued, the parked and the completed requests
\* are those in flight, each in one place.
LEMMA OpenIs ==
  ASSUME Sized, JringInv, NEW q \in Pids
  PROVE  Open(q) = Flight(q) \ Done(q)
<1>1. CASE Ended(q)
  BY <1>1, EndedIs, Zenon DEF Open
<1>2. CASE ~Ended(q)
  <2> DEFINE fl == inflight[q]
  <2>1. /\ fl \in SUBSET Sqe
        /\ ProcOK(World, q, Range(sq[q]), fl, stash[q], exitCode)
        /\ WaitersOK(World, inflight, exitCode)
    BY Zenon DEF JringInv, TypeOK, SideType, RequestInv, SystemOK
  <2>2. /\ Range(sq[q]) \subseteq fl /\ SlotsOK(World, q, fl)
        /\ \A e \in Range(sq[q]) : ~Completed(cq[q], stash[q], e)
        /\ \A e \in fl : Parked(World, q, e) => ~Completed(cq[q], stash[q], e)
        /\ \A e \in fl : e \in Range(sq[q]) \/ Parked(World, q, e) \/ Completed(cq[q], stash[q], e)
    BY <2>1, WorldIs, Zenon DEF ProcOK, ReqOK, PlacesOK, KeptOK
  <2>3. \A e : Completed(cq[q], stash[q], e) <=> e.tag \in Done(q)
    BY Zenon DEF Completed, Done, TagsOf
  <2>4. \A t \in ParkedReads(q) : \E e \in fl : e.tag = t /\ Parked(World, q, e)
    BY <2>2, WorldIs, Zenon DEF ParkedReads, SlotsOK, Parked, InSlot
  <2>5. \A t \in ParkedWaits(q) : \E e \in fl : e.tag = t /\ Parked(World, q, e)
    <3> SUFFICES ASSUME NEW c \in Pids, parent[c] = q, exitWaiter[c] # None
                 PROVE  \E e \in fl : e.tag = exitWaiter[c] /\ Parked(World, q, e)
      BY Zenon DEF ParkedWaits
    <3>1. PICK e \in fl : e.arg = c /\ OnChild(World, q, e)
      BY <1>2, <2>1, WorldIs, Zenon DEF WaitersOK, Ended
    <3> QED BY <3>1, WorldIs, Zenon DEF OnChild, Parked
  <2>6. \A t \in TagsOf(Range(sq[q])) : t \in Flight(q) /\ t \notin Done(q)
    BY <2>2, <2>3, Zenon DEF TagsOf, Flight
  <2>7. \A t \in ParkedReads(q) \union ParkedWaits(q) : t \in Flight(q) /\ t \notin Done(q)
    BY <2>2, <2>3, <2>4, <2>5, Zenon DEF TagsOf, Flight
  <2>8. ASSUME NEW t \in Flight(q), t \notin Done(q)
        PROVE  t \in TagsOf(Range(sq[q])) \union ParkedReads(q) \union ParkedWaits(q)
    <3>1. PICK e \in fl : e.tag = t
      BY <2>8, Zenon DEF Flight, TagsOf
    <3>2. e \in Range(sq[q]) \/ Parked(World, q, e)
      BY <2>2, <2>3, <2>8, <3>1, Zenon
    <3>3. e \in Sqe
      BY <2>1, Zenon
    <3> QED BY <3>1, <3>2, <3>3, ParkedTag, Zenon DEF TagsOf
  <2> QED BY <1>2, <2>6, <2>7, <2>8, Zenon DEF Open
<1> QED BY <1>1, <1>2, Zenon


\* The same before and after a step.
Accounted ==
    \A q \in Pids : /\ Done(q) \subseteq Flight(q) /\ Flight(q) \subseteq Used(q)
                    /\ Open(q) = Flight(q) \ Done(q)

\* It holds in every state of the invariant ...
LEMMA AccountedIs == Sized /\ JringInv => Accounted
  BY DoneInFlight, OpenIs, Zenon DEF Accounted

\* ... and after every step from one.
LEMMA StillAccounted ==
  ASSUME Sized, JringInv'
  PROVE  Accounted'
<1>1. (Sized /\ JringInv => Accounted)'
  BY AccountedIs, PTL
<1> QED BY <1>1, Zenon

-----------------------------------------------------------------------------
(* The steps of Requests. *)

\* The kernel completes some requests, or none.
LEMMA Completes ==
  ASSUME Sized, JringInv, JringInv', NEW q \in Pids,
         nextTag'[q] = nextTag[q], Flight(q)' = Flight(q), Ended(q)' = Ended(q),
         Done(q) \subseteq Done(q)'
  PROVE  R!Complete(q)
<1>1. Open(q) = Flight(q) \ Done(q)
  BY OpenIs, Zenon
<1>2. Open(q)' = Flight(q)' \ Done(q)' /\ Done(q)' \subseteq Flight(q)'
  BY StillAccounted, Zenon DEF Accounted
<1>4. Open(q)' \subseteq Open(q) /\ Done(q)' = Done(q) \union (Open(q) \ Open(q)')
  BY <1>1, <1>2, Zenon
<1>5. Used(q)' = Used(q) /\ Back(q)' = Back(q)
  BY Zenon DEF Used, Back
<1> QED BY <1>4, <1>5, Zenon DEF R!Complete, Open, Done, Used, Back, Ended, Flight

\* sqe(): a request under a new tag.
LEMMA Submits ==
  ASSUME Sized, JringInv, JringInv', NEW q \in Pids, ~Ended(q), ~Ended(q)',
         nextTag[q] \in 1..Quota[q], nextTag'[q] = nextTag[q] + 1,
         Flight(q)' = Flight(q) \union {nextTag[q]}, Done(q)' = Done(q)
  PROVE  R!Submit(q)
<1> DEFINE t == nextTag[q]
<1>1. Open(q) = Flight(q) \ Done(q) /\ Done(q) \subseteq Flight(q) /\ Flight(q) \subseteq Used(q)
  BY OpenIs, DoneInFlight, Zenon
<1>2. Open(q)' = Flight(q)' \ Done(q)'
  BY StillAccounted, Zenon DEF Accounted
<1>3. t \in Nat /\ t > 0
  BY JringAssumption
<1>4. t \notin Used(q) /\ Used(q)' = Used(q) \union {t}
  BY <1>3 DEF Used
<1>5. Open(q)' = Open(q) \union {t}
  BY <1>1, <1>2, <1>4, Zenon
<1>6. Back(q)' = Back(q)
  BY <1>1, <1>4, Zenon DEF Back
<1>7. t \in UNION {1..Quota[p] : p \in Pids}
  BY Zenon
<1> HIDE DEF t
<1> QED BY <1>4, <1>5, <1>6, <1>7, Zenon DEF R!Submit, Open, Done, Used, Back, Ended, Flight

\* wait() returns.
LEMMA Returns ==
  ASSUME Sized, JringInv, JringInv', NEW q \in Pids, ~Ended(q), ~Ended(q)',
         NEW t \in Done(q), nextTag'[q] = nextTag[q],
         Flight(q)' = Flight(q) \ {t}, Done(q)' = Done(q) \ {t}
  PROVE  R!Return(q)
<1>1. Open(q) = Flight(q) \ Done(q) /\ Done(q) \subseteq Flight(q) /\ Flight(q) \subseteq Used(q)
  BY OpenIs, DoneInFlight, Zenon
<1>2. Open(q)' = Flight(q)' \ Done(q)'
  BY StillAccounted, Zenon DEF Accounted
<1>3. Used(q)' = Used(q)
  BY Zenon DEF Used
<1>4. Open(q)' = Open(q)
  BY <1>1, <1>2, Zenon
<1>5. Back(q)' = Back(q) \union {t}
  BY <1>1, <1>3, Zenon DEF Back
<1> QED BY <1>3, <1>4, <1>5, Zenon DEF R!Return, Open, Done, Used, Back, Ended, Flight

\* The process exits.
LEMMA Aborts ==
  ASSUME JringInv', NEW q \in Pids, Ended(q)', cq'[q] = <<>>, stash'[q] = {}, nextTag'[q] = nextTag[q]
  PROVE  R!Abort(q)
<1>1. Open(q)' = {} /\ Back(q)' = {}
  BY Zenon DEF Open, Back
<1>2. Done(q)' = {}
  <2>1. Range(<<>>) = {}
    BY DEF Range
  <2> QED BY <2>1, Zenon DEF Done, TagsOf
<1>3. Used(q)' = Used(q)
  BY Zenon DEF Used
<1> QED BY <1>1, <1>2, <1>3, Zenon DEF R!Abort, Open, Done, Used, Back, Ended, Flight

\* A process that the step leaves alone but for completions of its requests.
Undisturbed(q) ==
    /\ inflight'[q] = inflight[q] /\ nextTag'[q] = nextTag[q] /\ exitCode'[q] = exitCode[q]
    /\ stash'[q] = stash[q] /\ Range(cq[q]) \subseteq Range(cq'[q])

\* Such a process takes the abstract step that completes requests, of none or some.
LEMMA UndisturbedIs ==
  ASSUME Sized, JringInv, JringInv', NEW q \in Pids, Undisturbed(q)
  PROVE  R!Complete(q)
<1>1. Flight(q)' = Flight(q) /\ Ended(q)' = Ended(q)
  BY Zenon DEF Undisturbed, Flight, Ended, TagsOf
<1>2. Done(q) \subseteq Done(q)'
  BY Zenon DEF Undisturbed, Done, TagsOf
<1> QED BY <1>1, <1>2, Completes, Zenon DEF Undisturbed

\* A step that leaves every process alone but p.
LEMMA OthersKeep ==
  ASSUME Sized, JringInv, JringInv', NEW p \in Pids,
         \A q \in Pids \ {p} : Undisturbed(q),
         R!Complete(p) \/ R!Submit(p) \/ R!Return(p) \/ R!Abort(p)
  PROVE  R!Next
<1>1. \A q \in Pids \ {p} : R!Complete(q)
  BY UndisturbedIs, Zenon
<1>2. \A q \in Pids : R!Complete(q) \/ R!Submit(q) \/ R!Return(q) \/ R!Abort(q)
  BY <1>1, Zenon
<1> QED BY <1>2, Zenon DEF R!Next

\* A step that leaves every process alone.
LEMMA AllKeep ==
  ASSUME Sized, JringInv, JringInv', \A q \in Pids : Undisturbed(q)
  PROVE  R!Next
<1>1. \A q \in Pids : R!Complete(q)
  BY UndisturbedIs, Zenon
<1> QED BY <1>1, Zenon DEF R!Next

-----------------------------------------------------------------------------
(* The steps of jring. *)

\* A drain completes requests of the process it is for.
LEMMA RefineDrain ==
  ASSUME LibraryFacts, Sized, JringInv, JringInv', NEW p \in Pids, Drains(p), hasRing[p]
  PROVE  R!Next
<1>1. /\ Range(cq[p]) \subseteq Range(cq'[p])
      /\ \A q \in Pids \ {p} : cq'[q] = cq[q]
  BY DrainsOK, Zenon
<1>2. UNCHANGED <<exitCode, nextTag, stash, inflight>>
  BY Zenon DEF Drains
<1>3. \A q \in Pids : Undisturbed(q)
  BY <1>1, <1>2 DEF Undisturbed
<1> QED BY <1>3, AllKeep, Zenon

\* The UART interrupt completes parked reads of the shell.
LEMMA RefineUart ==
  ASSUME LibraryFacts, Sized, JringInv, JringInv', UartIrq
  PROVE  R!Next
<1> DEFINE w == PollPending(DrainUart)
           dev == SubSeq(device, UartCount + 1, Len(device))
<1>1. /\ ~rxMasked /\ SetWorld(w) /\ UNCHANGED <<exitCode, nextTag, stash, inflight>>
  BY Zenon DEF UartIrq, clientVars
<1>2. w \in Offered(dev, 0)
  BY <1>1, UartOK, Zenon
<1> HIDE DEF w, dev
<1>3. /\ Range(cq[Shell]) \subseteq Range(w.cq[Shell])
      /\ \A q \in Pids \ {Shell} : w.cq[q] = cq[q]
  BY <1>2, Zenon DEF Offered
<1>4. cq' = w.cq
  BY <1>1, Zenon DEF SetWorld
<1>5. \A q \in Pids : Undisturbed(q)
  BY <1>1, <1>3, <1>4 DEF Undisturbed
<1> QED BY <1>5, AllKeep, Zenon

\* sqe() submits.
LEMMA RefinePublish ==
  ASSUME Sized, JringInv, JringInv', NEW p \in Pids, NEW ask \in Asks, Publish(p, ask)
  PROVE  R!Next
<1> DEFINE e == [op |-> ask.op, arg |-> ask.arg, tag |-> nextTag[p]]
<1>1. /\ pc[p] = "run" /\ nextTag[p] <= Quota[p]
      /\ inflight' = [inflight EXCEPT ![p] = @ \union {e}]
      /\ nextTag' = [nextTag EXCEPT ![p] = @ + 1]
      /\ UNCHANGED <<exitCode, cq, stash>>
  BY Zenon DEF Publish, procVars
<1>2. /\ inflight \in [Pids -> SUBSET Sqe] /\ nextTag \in [Pids -> Nat] /\ nextTag[p] > 0
      /\ Quota[p] \in Nat
  BY JringAssumption, Zenon DEF JringInv, TypeOK, SideType, TagInv, TagsOK
<1>3. nextTag[p] \in 1..Quota[p]
  BY <1>1, <1>2
<1>4. /\ inflight'[p] = inflight[p] \union {e} /\ nextTag'[p] = nextTag[p] + 1 /\ e.tag = nextTag[p]
      /\ \A q \in Pids \ {p} : inflight'[q] = inflight[q] /\ nextTag'[q] = nextTag[q]
  BY <1>1, <1>2, Zenon
<1> HIDE DEF e
<1>5. Flight(p)' = Flight(p) \union {nextTag[p]} /\ Done(p)' = Done(p)
  BY <1>1, <1>4, Zenon DEF Flight, Done, TagsOf
<1>6. ~Ended(p) /\ ~Ended(p)'
  BY <1>1, Zenon DEF JringInv, LifeInv, Ended
<1>7. R!Submit(p)
  BY <1>3, <1>4, <1>5, <1>6, Submits, Zenon
<1>8. \A q \in Pids \ {p} : Undisturbed(q)
  BY <1>1, <1>4, Zenon DEF Undisturbed
<1> QED BY <1>7, <1>8, OthersKeep, Zenon

\* The completion that a program gets is the only one with its tag.
LEMMA Handed ==
  ASSUME Sized, JringInv, JringInv', NEW p \in Pids, pc[p] \in {"run", "reap"}, NEW tag,
         UNCHANGED <<exitCode, nextTag>>,
         inflight' = [inflight EXCEPT ![p] = {e \in @ : e.tag # tag}],
         \E c \in Range(cq[p]) \union stash[p] : c.tag = tag,
         Without(Range(cq'[p]) \union stash'[p], Range(cq[p]) \union stash[p], tag),
         \A q \in Pids \ {p} : stash'[q] = stash[q] /\ cq'[q] = cq[q]
  PROVE  R!Next
<1>1. inflight \in [Pids -> SUBSET Sqe]
  BY Zenon DEF JringInv, TypeOK, SideType
<1>2. /\ inflight'[p] = {e \in inflight[p] : e.tag # tag}
      /\ \A q \in Pids \ {p} : inflight'[q] = inflight[q]
  BY <1>1, Zenon
<1>3. Flight(p)' = Flight(p) \ {tag}
  BY <1>2, Zenon DEF Flight, TagsOf
<1>4. Done(p)' = Done(p) \ {tag} /\ tag \in Done(p)
  BY Zenon DEF Done, TagsOf, Without
<1>5. ~Ended(p) /\ ~Ended(p)'
  BY Zenon DEF JringInv, LifeInv, Ended
<1>6. R!Return(p)
  BY <1>3, <1>4, <1>5, Returns, Zenon
<1>7. \A q \in Pids \ {p} : Undisturbed(q)
  BY <1>2, Zenon DEF Undisturbed
<1> QED BY <1>6, <1>7, OthersKeep, Zenon

\* wait() with the completion in the stash returns it; else nothing moves.
LEMMA RefineStartWait ==
  ASSUME Sized, JringInv, JringInv', NEW p \in Pids, NEW tag \in Nat, StartWait(p, tag)
  PROVE  R!Next
<1>1. pc[p] = "run" /\ UNCHANGED <<exitCode, nextTag, cq>>
  BY Zenon DEF StartWait, procVars
<1>2. CASE \E c \in stash[p] : c.tag = tag
  <2> DEFINE st2 == {c \in stash[p] : c.tag # tag}
  <2>1. /\ stash' = [stash EXCEPT ![p] = st2]
        /\ inflight' = [inflight EXCEPT ![p] = {e \in @ : e.tag # tag}]
    BY <1>2, Zenon DEF StartWait, Return
  <2>2. stash'[p] = st2 /\ \A q \in Pids \ {p} : stash'[q] = stash[q]
    BY <2>1, Zenon DEF JringInv, TypeOK, SideType
  <2>3. CompsOK(cq[p], stash[p])
    BY WorldIs, Zenon DEF JringInv, RequestInv, SystemOK, ProcOK, ReqOK
  <2>4. \A c \in Range(cq[p]) : c.tag # tag
    BY <1>2, <2>3, Zenon DEF CompsOK, Range
  <2>5. Without(Range(cq'[p]) \union stash'[p], Range(cq[p]) \union stash[p], tag)
    BY <1>1, <2>2, <2>4, Zenon DEF Without
  <2>6. \E c \in Range(cq[p]) \union stash[p] : c.tag = tag
    BY <1>2, Zenon
  <2> QED BY <1>1, <2>1, <2>2, <2>5, <2>6, Handed, Zenon
<1>3. CASE ~\E c \in stash[p] : c.tag = tag
  <2>1. UNCHANGED <<stash, inflight>>
    BY <1>3, Zenon DEF StartWait
  <2>2. \A q \in Pids : Undisturbed(q)
    BY <1>1, <2>1, Zenon DEF Undisturbed
  <2> QED BY <2>2, AllKeep, Zenon
<1> QED BY <1>2, <1>3, Zenon

\* reap() returns the completion it pops, or keeps it in the stash.
LEMMA RefineReap ==
  ASSUME Sized, JringInv, JringInv', NEW p \in Pids, Reap(p)
  PROVE  R!Next
<1>1. /\ pc[p] = "reap" /\ UNCHANGED <<exitCode, nextTag, sq, pending, parent, exitWaiter>>
  BY Zenon DEF Reap, procVars
<1>2. CASE cq[p] = <<>>
  <2>1. UNCHANGED <<cq, stash, inflight>>
    BY <1>2, Zenon DEF Reap
  <2>2. \A q \in Pids : Undisturbed(q)
    BY <1>1, <2>1, Zenon DEF Undisturbed
  <2> QED BY <2>2, AllKeep, Zenon
<1>3. CASE cq[p] # <<>>
  <2> DEFINE h == Head(cq[p])
             t == Tail(cq[p])
  <2>1. cq' = [cq EXCEPT ![p] = t]
    BY <1>3, Zenon DEF Reap
  <2>2. /\ cq \in [Pids -> Seq(Cqe)] /\ cq[p] \in Seq(Cqe) /\ stash \in [Pids -> SUBSET Cqe]
        /\ stash[p] \in SUBSET Cqe
    BY WorldIs, Zenon DEF JringInv, TypeOK, SideType, Worlds
  <2>3. CompsOK(cq[p], stash[p])
    BY WorldIs, Zenon DEF JringInv, RequestInv, SystemOK, ProcOK, ReqOK
  <2>4. /\ Range(cq[p]) = {h} \union Range(t)
        /\ \A c \in Range(t) \union stash[p] : c.tag # h.tag
    BY <1>3, <2>2, <2>3, PopIs, Zenon
  <2> HIDE DEF h, t
  <2>5. cq'[p] = t /\ \A q \in Pids \ {p} : cq'[q] = cq[q]
    BY <2>1, <2>2, Zenon
  <2>6. CASE h.tag = want[p]
    <3>1. /\ inflight' = [inflight EXCEPT ![p] = {e \in @ : e.tag # want[p]}] /\ stash' = stash
      BY <1>3, <2>6, Zenon DEF Reap, Return, h
    <3>2. Without(Range(cq'[p]) \union stash'[p], Range(cq[p]) \union stash[p], want[p])
      BY <2>4, <2>5, <2>6, <3>1, Zenon DEF Without
    <3>3. \E c \in Range(cq[p]) \union stash[p] : c.tag = want[p]
      BY <2>4, <2>6, Zenon
    <3> QED BY <1>1, <2>5, <3>1, <3>2, <3>3, Handed, Zenon
  <2>7. CASE h.tag # want[p]
    <3>1. inflight' = inflight /\ \A q \in Pids \ {p} : stash'[q] = stash[q]
      BY <1>3, <2>2, <2>7, Zenon DEF Reap, h
    <3>2. Flight(p)' = Flight(p) /\ Ended(p)' = Ended(p) /\ Open(p)' = Open(p)
      BY <1>1, <3>1, Zenon DEF Flight, Ended, Open, TagsOf, ParkedReads, ParkedWaits
    <3>3. Open(p) = Flight(p) \ Done(p) /\ Done(p) \subseteq Flight(p)
      BY OpenIs, DoneInFlight, Zenon
    <3>4. Open(p)' = Flight(p)' \ Done(p)'
      BY StillAccounted, Zenon DEF Accounted
    <3>5. Done(p) \subseteq Done(p)'
      BY <3>2, <3>3, <3>4, Zenon
    <3>6. R!Complete(p)
      BY <1>1, <3>2, <3>5, Completes, Zenon
    <3>7. \A q \in Pids \ {p} : Undisturbed(q)
      BY <1>1, <2>5, <3>1, Zenon DEF Undisturbed
    <3> QED BY <3>6, <3>7, OthersKeep, Zenon
  <2> QED BY <2>6, <2>7, Zenon
<1> QED BY <1>2, <1>3, Zenon

\* The process ends, and its parent's wait may complete.
LEMMA RefineExit ==
  ASSUME LibraryFacts, Sized, JringInv, JringInv', NEW p \in Pids, NEW code \in {0, -1}, Exit(p, code)
  PROVE  R!Next
<1>1. /\ exitCode' = [exitCode EXCEPT ![p] = code] /\ stash' = [stash EXCEPT ![p] = {}]
      /\ inflight' = [inflight EXCEPT ![p] = {}] /\ nextTag' = nextTag
  BY Zenon DEF Exit
<1>2. /\ exitCode \in [Pids -> {None, 0, -1}] /\ stash \in [Pids -> SUBSET Cqe]
      /\ inflight \in [Pids -> SUBSET Sqe] /\ code # None
  BY JringAssumption DEF JringInv, TypeOK, SideType
<1>3. cq'[p] = <<>> /\ \A q \in Pids \ {p} : Range(cq[q]) \subseteq Range(cq'[q])
  BY ExitWorld, Zenon
<1>4. exitCode'[p] = code /\ stash'[p] = {} /\ nextTag'[p] = nextTag[p]
  BY <1>1, <1>2, Zenon
<1>5. \A q \in Pids \ {p} : Undisturbed(q)
  BY <1>1, <1>2, <1>3, Zenon DEF Undisturbed
<1>6. R!Abort(p)
  BY <1>2, <1>3, <1>4, Aborts, Zenon DEF Ended
<1> QED BY <1>5, <1>6, OthersKeep, Zenon

\* Every step of jring is a step of Requests.
LEMMA RefineNext ==
  ASSUME LibraryFacts, Sized, JringInv, JringInv', [Next]_vars
  PROVE  R!Next
<1>1. CASE Key \/ UNCHANGED vars
  <2>1. UNCHANGED <<exitCode, nextTag, stash, inflight, cq>>
    BY <1>1, Zenon DEF Key, vars, procVars, clientVars
  <2>2. \A q \in Pids : Undisturbed(q)
    BY <2>1, Zenon DEF Undisturbed
  <2> QED BY <2>2, AllKeep, Zenon
<1>2. CASE UartIrq
  BY <1>2, RefineUart, Zenon
<1>3. ASSUME NEW p \in Pids, PollDrain(p) \/ EnterSubmit(p) PROVE R!Next
  <2>1. hasRing[p] /\ Drains(p)
    BY <1>3, Zenon DEF EnterSubmit, PollDrain, Drains, clientVars
  <2> QED BY <2>1, RefineDrain, Zenon
<1>4. ASSUME NEW p \in Pids, Setup(p) \/ EnterRecheck(p) PROVE R!Next
  <2>1. UNCHANGED <<exitCode, nextTag, stash, inflight, cq>>
    BY <1>4, Zenon DEF Setup, EnterRecheck
  <2>2. \A q \in Pids : Undisturbed(q)
    BY <2>1, Zenon DEF Undisturbed
  <2> QED BY <2>2, AllKeep, Zenon
<1>5. ASSUME NEW p \in Pids, NEW ask \in Asks, Publish(p, ask) PROVE R!Next
  BY <1>5, RefinePublish, Zenon
<1>6. ASSUME NEW p \in Pids, NEW tag \in 1..Quota[p], StartWait(p, tag) PROVE R!Next
  <2>1. tag \in Nat
    BY JringAssumption
  <2> QED BY <1>6, <2>1, RefineStartWait, Zenon
<1>7. ASSUME NEW p \in Pids, Reap(p) PROVE R!Next
  BY <1>7, RefineReap, Zenon
<1>8. ASSUME NEW p \in Pids, EnterWait(p) PROVE R!Next
  <2>1. Drains(p) /\ pc[p] = "svc"
    BY <1>8, Zenon DEF EnterWait, Drains
  <2>2. hasRing[p]
    BY <2>1, Zenon DEF JringInv, LifeInv, Active
  <2> QED BY <2>1, <2>2, RefineDrain, Zenon
<1>9. ASSUME NEW p \in Pids, SysExit(p) \/ KillUser(p) PROVE R!Next
  BY <1>9, RefineExit, Zenon DEF SysExit, KillUser
<1> QED BY <1>1, <1>2, <1>3, <1>4, <1>5, <1>6, <1>7, <1>8, <1>9, Zenon DEF Next, Client

\* At the start nothing has been asked.
LEMMA RefineInit == Init => R!Init
<1> SUFFICES ASSUME Init PROVE R!Init
  BY Zenon
<1>1. Range(<<>>) = {}
  BY DEF Range
<1>2. \A q \in Pids : Used(q) = {} /\ Flight(q) = {} /\ Done(q) = {} /\ Back(q) = {}
  BY <1>1 DEF Init, Used, Flight, Done, Back, TagsOf
<1>3. \A q \in Pids : Open(q) = {}
  BY <1>1, Zenon DEF Init, Open, ParkedReads, ParkedWaits, TagsOf
<1> QED BY <1>2, <1>3, Zenon DEF R!Init, Open, Done, Used, Back, Ended, Flight

\* jring implements the promise of Requests, whatever the sizes, for programs that
\* keep no more in flight than their queue and stash hold and wait once for a child:
\* a request is completed at most once, and returned once, when it is waited for.
THEOREM JringImplementsRequests ==
  ASSUME Sized
  PROVE  Spec => ImplementsRequests
<1>1. JringInv /\ JringInv' /\ [Next]_vars => R!Next
  BY LibraryHolds, RefineNext, Zenon
<1>2. Init => R!Init
  BY RefineInit, Zenon
<1>3. Spec => []JringInv
  BY JringInvariant, Zenon
<1> QED BY <1>1, <1>2, <1>3, PTL DEF Spec, ImplementsRequests, R!Spec

=============================================================================

----------------------------- MODULE JringProofs -----------------------------
(***************************************************************************)
(* The safety of jring, for every number of processes, slots, queue        *)
(* entries, keys and requests: each action preserves the invariant.        *)
(***************************************************************************)
EXTENDS JringLoops

USE JringAssumption

-----------------------------------------------------------------------------
(* The actions. *)

\* take_waiter: a task that stays blocked was not among those woken.
LEMMA WakeIs ==
  ASSUME JringInv, NEW ps, WakeWaiters(ps)
  PROVE  /\ ringWaiter' \in [Pids -> BOOLEAN] /\ blocked' \in [Pids -> BOOLEAN]
         /\ \A q \in Pids : blocked'[q] => blocked[q] /\ q \notin ps /\ ringWaiter'[q]
<1>1. ringWaiter \in [Pids -> BOOLEAN] /\ blocked \in [Pids -> BOOLEAN]
  BY Zenon DEF JringInv, TypeOK, SideType
<1>2. \A q \in Pids : blocked[q] => ringWaiter[q]
  BY Zenon DEF JringInv, WaitInv
<1>3. /\ ringWaiter' = [q \in Pids |-> ringWaiter[q] /\ q \notin ps]
      /\ blocked' = [q \in Pids |-> blocked[q] /\ ~(q \in ps /\ ringWaiter[q])]
  BY Zenon DEF WakeWaiters
<1>4. ringWaiter' \in [Pids -> BOOLEAN] /\ blocked' \in [Pids -> BOOLEAN]
  BY <1>3, Zenon
<1>5. ASSUME NEW q \in Pids, blocked'[q] PROVE blocked[q] /\ q \notin ps /\ ringWaiter'[q]
  <2>1. blocked[q] /\ ~(q \in ps /\ ringWaiter[q])
    BY <1>3, <1>5, Zenon
  <2>2. ringWaiter'[q] <=> ringWaiter[q] /\ q \notin ps
    BY <1>3, Zenon
  <2> QED BY <1>2, <2>1, <2>2, Zenon
<1> QED BY <1>4, <1>5, Zenon

\* The queued spawns are a function of the submission queues.
LEMMA RoomSame ==
  ASSUME RoomForSpawns, UNCHANGED <<sq, count>>
  PROVE  RoomForSpawns'
<1>1. QueuedSpawns' = QueuedSpawns
  BY DEF QueuedSpawns
<1> QED BY <1>1, Zenon DEF RoomForSpawns

\* The UART interrupt.
LEMMA StepUart ==
  ASSUME LibraryFacts, JringInv, UartIrq
  PROVE  JringInv'
<1> DEFINE w == PollPending(DrainUart)
           dev == SubSeq(device, UartCount + 1, Len(device))
           ps == IF w.pending # pending THEN {Shell} ELSE {}
<1>0. /\ ~rxMasked /\ SetWorld(w) /\ WakeWaiters(ps) /\ device' = dev
      /\ UNCHANGED <<exitCode, hasRing, sq, typed, nextTag, stash, want, pc, inflight>>
  BY Zenon DEF UartIrq, clientVars
<1>1. w \in Offered(dev, 0) /\ ReadersOK(w, exitCode[Shell]) /\ dev \in Seq(Nat)
  BY <1>0, UartOK, DrainUartOK, Zenon
<1> HIDE DEF w, dev
<1>2. /\ w \in Worlds /\ QuietOK(w) /\ ConsoleOK(w, dev, typed)
      /\ w.count = count
      /\ \A q \in Pids \ {Shell} : w.cq[q] = cq[q] /\ w.pending[q] = pending[q]
      /\ \A t \in Slots : w.pending[Shell][t] \in {pending[Shell][t], None}
      /\ w.pending # pending \/ w.cq = cq
  BY <1>1, Zenon DEF Offered
<1>3. World' = w /\ count' = w.count /\ cq' = w.cq /\ pending' = w.pending
  BY <1>0, <1>2, SetWorldIs, Zenon DEF SetWorld
<1>4. /\ ringWaiter' \in [Pids -> BOOLEAN] /\ blocked' \in [Pids -> BOOLEAN]
      /\ \A q \in Pids : blocked'[q] => blocked[q] /\ q \notin ps /\ ringWaiter'[q]
  BY <1>0, WakeIs, Zenon
<1>5. TypeOK'
  BY <1>0, <1>1, <1>2, <1>3, <1>4, Zenon DEF JringInv, TypeOK, SideType
<1>6. RoomForSpawns'
  BY <1>0, <1>2, <1>3, RoomSame, Zenon DEF JringInv
<1>7. ASSUME ~hasRing[Shell] PROVE w.cq = cq /\ w.pending = pending
  <2>1. \A t \in Slots : pending[Shell][t] = None
    BY <1>7, PidFacts, Zenon DEF JringInv, LifeInv
  <2>2. w.pending \in [Pids -> [Slots -> Sqe \union {None}]] /\ pending \in [Pids -> [Slots -> Sqe \union {None}]]
    BY <1>2, WorldIs, Zenon DEF JringInv, TypeOK, Worlds
  <2>3. w.pending[Shell] \in [Slots -> Sqe \union {None}] /\ pending[Shell] \in [Slots -> Sqe \union {None}]
    BY <2>2, PidFacts, Zenon
  <2>4. \A t \in Slots : w.pending[Shell][t] = pending[Shell][t]
    BY <1>2, <2>1, Zenon
  <2>5. w.pending[Shell] = pending[Shell]
    BY <2>3, <2>4
  <2>6. w.pending = pending
    BY <1>2, <2>2, <2>5
  <2> QED BY <1>2, <2>6, Zenon
<1>8. LifeInv'
  BY <1>0, <1>2, <1>3, <1>7 DEF JringInv, LifeInv
<1>9. TagInv'
  BY <1>0, Zenon DEF JringInv, TagInv
<1>10. WaitInv'
  <2>1. \A q \in Pids : blocked'[q] => cq'[q] = cq[q]
    BY <1>2, <1>3, <1>4, Zenon
  <2> QED BY <1>0, <1>4, <2>1, Zenon DEF JringInv, WaitInv
<1>11. RequestInv'
  BY <1>0, <1>2, <1>3, Zenon DEF QuietOK, RequestInv
<1>12. ConsoleInv'
  BY <1>0, <1>1, <1>2, <1>3, Zenon DEF ConsoleInv
<1> QED BY <1>5, <1>6, <1>8, <1>9, <1>10, <1>11, <1>12, Zenon DEF JringInv

\* A drain by the poller or by enter(0).
LEMMA StepPollDrain ==
  ASSUME LibraryFacts, JringInv, NEW p \in Pids, PollDrain(p)
  PROVE  JringInv'
<1>0. /\ hasRing[p] /\ sq[p] # <<>> /\ Drains(p)
      /\ UNCHANGED <<exitCode, hasRing, ringWaiter, blocked, device, typed, nextTag, stash, want, pc, inflight>>
  BY Zenon DEF PollDrain, Drains, clientVars
<1>1. /\ (World \in Worlds)' /\ (count > 0)'
      /\ sq' \in [Pids -> Seq(Sqe)] /\ sq'[p] = <<>>
      /\ \A q \in Pids \ {p} : sq'[q] = sq[q] /\ cq'[q] = cq[q] /\ pending'[q] = pending[q]
      /\ count' \in Nat /\ count' >= count
      /\ RoomForSpawns' /\ TagInv' /\ RequestInv' /\ ConsoleInv'
  BY <1>0, DrainsOK, Zenon
<1>2. TypeOK'
  BY <1>0, <1>1, Zenon DEF JringInv, TypeOK, SideType
<1>3. LifeInv'
  <2>1. count \in Nat /\ \A q \in Pids : q \in Int
    BY WorldIs, PidFacts, Zenon DEF JringInv, TypeOK, Worlds
  <2>2. \A q \in Pids : q < count => q < count'
    BY <1>1, <2>1
  <2>3. \A q \in Pids : ~hasRing[q] => sq'[q] = sq[q] /\ cq'[q] = cq[q] /\ pending'[q] = pending[q]
    BY <1>0, <1>1, Zenon
  <2> QED BY <1>0, <2>2, <2>3 DEF JringInv, LifeInv
<1>4. WaitInv'
  <2>1. pc[p] # "enter" /\ ~blocked[p]
    BY <1>0, Zenon DEF JringInv, WaitInv
  <2> QED BY <1>0, <1>1, <2>1, Zenon DEF JringInv, WaitInv
<1> QED BY <1>1, <1>2, <1>3, <1>4, Zenon DEF JringInv

\* Registering as the waiter, or going back to reap.
LEMMA CheckIs ==
  ASSUME JringInv, NEW p \in Pids, NEW n \in Nat, CheckOrBlock(p, n)
  PROVE  /\ pc' \in [Pids -> Pcs] /\ ringWaiter' \in [Pids -> BOOLEAN] /\ blocked' \in [Pids -> BOOLEAN]
         /\ pc'[p] \in {"reap", "enter"} /\ (pc'[p] = "enter" => n = 0 /\ ringWaiter'[p])
         /\ blocked'[p] => blocked[p] \/ pc'[p] = "enter"
         /\ \A q \in Pids \ {p} :
                pc'[q] = pc[q] /\ ringWaiter'[q] = ringWaiter[q] /\ blocked'[q] = blocked[q]
<1>1. /\ ringWaiter \in [Pids -> BOOLEAN] /\ blocked \in [Pids -> BOOLEAN] /\ pc \in [Pids -> Pcs]
  BY Zenon DEF JringInv, TypeOK, SideType
<1>2. "reap" \in Pcs /\ "enter" \in Pcs
  BY Zenon DEF Pcs
<1>3. CASE n >= 1
  BY <1>1, <1>2, <1>3, Zenon DEF CheckOrBlock
<1>4. CASE ~(n >= 1)
  <2>1. n = 0
    BY <1>4
  <2> QED BY <1>1, <1>2, <1>4, <2>1, Zenon DEF CheckOrBlock
<1> QED BY <1>3, <1>4, Zenon

\* enter(1): drain, then wait for a completion.
LEMMA StepEnterWait ==
  ASSUME LibraryFacts, JringInv, NEW p \in Pids, EnterWait(p)
  PROVE  JringInv'
<1> DEFINE n == Len(Drain(p).cq[p])
<1>0. /\ pc[p] = "svc" /\ Drains(p) /\ CheckOrBlock(p, n)
      /\ UNCHANGED <<exitCode, hasRing, device, typed, nextTag, stash, want, inflight>>
  BY Zenon DEF EnterWait, Drains
<1>1. hasRing[p] /\ ~blocked[p] /\ p < count
  BY <1>0, Zenon DEF JringInv, LifeInv, WaitInv, Active
<1>2. /\ (World \in Worlds)' /\ (count > 0)'
      /\ sq' \in [Pids -> Seq(Sqe)] /\ cq'[p] = Drain(p).cq[p] /\ sq'[p] = <<>>
      /\ \A q \in Pids \ {p} : sq'[q] = sq[q] /\ cq'[q] = cq[q] /\ pending'[q] = pending[q]
      /\ count' \in Nat /\ count' >= count
      /\ RoomForSpawns' /\ TagInv' /\ RequestInv' /\ ConsoleInv'
  BY <1>0, <1>1, DrainsOK, Zenon
<1>3. n \in Nat /\ n = Len(cq'[p]) /\ cq'[p] \in Seq(Cqe)
  <2>1. Drain(p) \in Worlds
    BY DrainOK, Zenon DEF Midway
  <2>2. Drain(p).cq[p] \in Seq(Cqe)
    BY <2>1, Zenon DEF Worlds
  <2> QED BY <1>2, <2>2
<1> HIDE DEF n
<1>4. /\ pc' \in [Pids -> Pcs] /\ ringWaiter' \in [Pids -> BOOLEAN] /\ blocked' \in [Pids -> BOOLEAN]
      /\ pc'[p] \in {"reap", "enter"} /\ (pc'[p] = "enter" => n = 0 /\ ringWaiter'[p])
      /\ blocked'[p] => blocked[p] \/ pc'[p] = "enter"
      /\ \A q \in Pids \ {p} :
                pc'[q] = pc[q] /\ ringWaiter'[q] = ringWaiter[q] /\ blocked'[q] = blocked[q]
  BY <1>0, <1>3, CheckIs, Zenon
<1>5. TypeOK'
  BY <1>0, <1>2, <1>4, Zenon DEF JringInv, TypeOK, SideType
<1>6. LifeInv'
  <2>1. count \in Nat /\ \A q \in Pids : q \in Int
    BY WorldIs, PidFacts, Zenon DEF JringInv, TypeOK, Worlds
  <2>2. \A q \in Pids : q < count => q < count'
    BY <1>2, <2>1
  <2>3. \A q \in Pids : ~hasRing[q] => sq'[q] = sq[q] /\ cq'[q] = cq[q] /\ pending'[q] = pending[q]
    BY <1>1, <1>2, Zenon
  <2>4. \A q \in Pids : /\ pc'[q] \in Active <=> pc[q] \in Active
                        /\ pc'[q] = "exited" <=> pc[q] = "exited"
                        /\ pc'[q] = "start" <=> pc[q] = "start"
    BY <1>0, <1>4, Zenon DEF Active
  <2> QED BY <1>0, <2>2, <2>3, <2>4 DEF JringInv, LifeInv
<1>7. WaitInv'
  <2>1. /\ \E e \in inflight[p] : e.tag = want[p]
        /\ \A c \in stash[p] : c.tag # want[p]
    BY <1>0, Zenon DEF JringInv, WaitInv
  <2>2. pc'[p] = "enter" => cq'[p] = <<>>
    BY <1>3, <1>4
  <2>3. /\ pc'[p] \in {"reap", "svc", "enter"} =>
            (\E e \in inflight'[p] : e.tag = want'[p]) /\ (\A c \in stash'[p] : c.tag # want'[p])
        /\ pc'[p] = "enter" => sq'[p] = <<>>
        /\ blocked'[p] => pc'[p] = "enter" /\ ringWaiter'[p] /\ cq'[p] = <<>>
    BY <1>0, <1>1, <1>2, <1>4, <2>1, <2>2, Zenon
  <2>4. \A q \in Pids \ {p} :
        /\ pc'[q] \in {"reap", "svc", "enter"} =>
            (\E e \in inflight'[q] : e.tag = want'[q]) /\ (\A c \in stash'[q] : c.tag # want'[q])
        /\ pc'[q] = "enter" => sq'[q] = <<>>
        /\ blocked'[q] => pc'[q] = "enter" /\ ringWaiter'[q] /\ cq'[q] = <<>>
    <3> TAKE q \in Pids \ {p}
    <3>1. /\ pc'[q] = pc[q] /\ ringWaiter'[q] = ringWaiter[q] /\ blocked'[q] = blocked[q]
          /\ sq'[q] = sq[q] /\ cq'[q] = cq[q]
          /\ inflight' = inflight /\ want' = want /\ stash' = stash
      BY <1>0, <1>2, <1>4, Zenon
    <3> QED BY <3>1, Zenon DEF JringInv, WaitInv
  <2> QED BY <2>3, <2>4, Zenon DEF WaitInv
<1> QED BY <1>2, <1>5, <1>6, <1>7, Zenon DEF JringInv

\* Steps that leave the world alone.
worldVars == <<count, parent, exitWaiter, pending, cq, input, rxMasked, got>>

\* A step that leaves the table, the queues and the console alone leaves the world.
LEMMA WorldSame ==
  ASSUME UNCHANGED worldVars
  PROVE  World' = World
  BY Zenon DEF worldVars, World

\* Woken in enter().
LEMMA StepEnterRecheck ==
  ASSUME JringInv, NEW p \in Pids, EnterRecheck(p)
  PROVE  JringInv'
<1> DEFINE n == Len(cq[p])
<1>0. /\ pc[p] = "enter" /\ ~blocked[p] /\ CheckOrBlock(p, n)
      /\ UNCHANGED worldVars
      /\ UNCHANGED <<exitCode, hasRing, sq, device, typed, nextTag, stash, want, inflight>>
  BY Zenon DEF EnterRecheck, consoleVars, worldVars
<1>1. World' = World /\ UNCHANGED <<count, cq, pending>>
  BY <1>0, WorldSame, Zenon DEF worldVars
<1>2. n \in Nat /\ cq[p] \in Seq(Cqe)
  BY WorldIs DEF JringInv, TypeOK, Worlds
<1>3. /\ pc' \in [Pids -> Pcs] /\ ringWaiter' \in [Pids -> BOOLEAN] /\ blocked' \in [Pids -> BOOLEAN]
      /\ pc'[p] \in {"reap", "enter"} /\ (pc'[p] = "enter" => n = 0 /\ ringWaiter'[p])
      /\ blocked'[p] => blocked[p] \/ pc'[p] = "enter"
      /\ \A q \in Pids \ {p} :
                pc'[q] = pc[q] /\ ringWaiter'[q] = ringWaiter[q] /\ blocked'[q] = blocked[q]
  <2> HIDE DEF n
  <2> QED BY <1>0, <1>2, CheckIs, Zenon
<1>4. TypeOK'
  BY <1>0, <1>1, <1>3, Zenon DEF JringInv, TypeOK, SideType
<1>5. RoomForSpawns'
  BY <1>0, <1>1, RoomSame, Zenon DEF JringInv
<1>6. LifeInv'
  <2>1. \A q \in Pids : /\ pc'[q] \in Active <=> pc[q] \in Active
                        /\ pc'[q] = "exited" <=> pc[q] = "exited"
                        /\ pc'[q] = "start" <=> pc[q] = "start"
    BY <1>0, <1>3, Zenon DEF Active
  <2> QED BY <1>0, <1>1, <2>1, Zenon DEF JringInv, LifeInv
<1>7. TagInv'
  BY <1>0, Zenon DEF JringInv, TagInv
<1>8. WaitInv'
  <2>1. /\ \E e \in inflight[p] : e.tag = want[p]
        /\ \A c \in stash[p] : c.tag # want[p]
        /\ sq[p] = <<>>
    BY <1>0, Zenon DEF JringInv, WaitInv
  <2>2. pc'[p] = "enter" => cq[p] = <<>>
    BY <1>2, <1>3
  <2>3. /\ pc'[p] \in {"reap", "svc", "enter"} =>
            (\E e \in inflight'[p] : e.tag = want'[p]) /\ (\A c \in stash'[p] : c.tag # want'[p])
        /\ pc'[p] = "enter" => sq'[p] = <<>>
        /\ blocked'[p] => pc'[p] = "enter" /\ ringWaiter'[p] /\ cq'[p] = <<>>
    BY <1>0, <1>1, <1>3, <2>1, <2>2, Zenon
  <2>4. \A q \in Pids \ {p} :
        /\ pc'[q] \in {"reap", "svc", "enter"} =>
            (\E e \in inflight'[q] : e.tag = want'[q]) /\ (\A c \in stash'[q] : c.tag # want'[q])
        /\ pc'[q] = "enter" => sq'[q] = <<>>
        /\ blocked'[q] => pc'[q] = "enter" /\ ringWaiter'[q] /\ cq'[q] = <<>>
    BY <1>0, <1>1, <1>3, ZenonT(60) DEF JringInv, WaitInv
  <2> QED BY <2>3, <2>4, Zenon DEF WaitInv
<1>9. RequestInv' /\ ConsoleInv'
  BY <1>0, <1>1, Zenon DEF JringInv, RequestInv, ConsoleInv
<1> QED BY <1>4, <1>5, <1>6, <1>7, <1>8, <1>9, Zenon DEF JringInv

\* A key is typed.
LEMMA StepKey ==
  ASSUME JringInv, Key
  PROVE  JringInv'
<1>0. /\ typed' = typed + 1 /\ device' = Append(device, typed + 1)
      /\ UNCHANGED worldVars
      /\ UNCHANGED <<exitCode, hasRing, ringWaiter, blocked, sq, nextTag, stash, want, pc, inflight>>
  BY Zenon DEF Key, procVars, clientVars, worldVars
<1>1. World' = World /\ UNCHANGED <<count, cq, pending>>
  BY <1>0, WorldSame, Zenon DEF worldVars
<1>2. /\ device \in Seq(Nat) /\ typed \in Nat /\ input \in Seq(Nat) /\ got \in [Pids -> Seq(Nat)]
  BY WorldIs, Zenon DEF JringInv, TypeOK, SideType, Worlds
<1>3. TypeOK'
  BY <1>0, <1>1, <1>2 DEF JringInv, TypeOK, SideType
<1>4. RoomForSpawns'
  BY <1>0, <1>1, RoomSame, Zenon DEF JringInv
<1>5. LifeInv'
  BY <1>0, <1>1, Zenon DEF JringInv, LifeInv
<1>6. TagInv' /\ WaitInv'
  BY <1>0, <1>1, Zenon DEF JringInv, TagInv, WaitInv
<1>7. RequestInv'
  BY <1>0, <1>1, Zenon DEF JringInv, RequestInv
<1>8. ConsoleInv'
  <2> DEFINE a == World.got[Shell] \o World.input
  <2>1. a \in Seq(Nat)
    BY <1>2, WorldIs, PidFacts
  <2>2. TypedAre(a \o device, typed)
    BY Zenon DEF JringInv, ConsoleInv, ConsoleOK, TypedAre
  <2> HIDE DEF a
  <2>3. TypedAre(a \o device', typed')
    BY <1>0, <1>2, <2>1, <2>2, TypeNext, Zenon
  <2>4. ConsoleOK(World, device', typed')
    BY <2>3, Zenon DEF JringInv, ConsoleInv, ConsoleOK, TypedAre, a
  <2> QED BY <1>0, <1>1, <2>4, Zenon DEF JringInv, ConsoleInv
<1> QED BY <1>3, <1>4, <1>5, <1>6, <1>7, <1>8, Zenon DEF JringInv

\* SYS_RING_SETUP.
LEMMA StepSetup ==
  ASSUME JringInv, NEW p \in Pids, Setup(p)
  PROVE  JringInv'
<1>0. /\ Running(p) /\ pc[p] = "start"
      /\ hasRing' = [hasRing EXCEPT ![p] = TRUE] /\ pc' = [pc EXCEPT ![p] = "run"]
      /\ UNCHANGED worldVars
      /\ UNCHANGED <<exitCode, ringWaiter, blocked, sq, device, typed, nextTag, stash, want, inflight>>
  BY Zenon DEF Setup, consoleVars, worldVars
<1>1. World' = World /\ UNCHANGED <<count, cq, pending>>
  BY <1>0, WorldSame, Zenon DEF worldVars
<1>2. hasRing \in [Pids -> BOOLEAN] /\ pc \in [Pids -> Pcs] /\ "run" \in Pcs
  BY Zenon DEF JringInv, TypeOK, SideType, Pcs
<1>3. /\ hasRing' \in [Pids -> BOOLEAN] /\ pc' \in [Pids -> Pcs]
      /\ hasRing'[p] = TRUE /\ pc'[p] = "run"
      /\ \A q \in Pids \ {p} : hasRing'[q] = hasRing[q] /\ pc'[q] = pc[q]
  BY <1>0, <1>2, Zenon
<1>4. TypeOK'
  BY <1>0, <1>1, <1>3, Zenon DEF JringInv, TypeOK, SideType
<1>5. RoomForSpawns'
  BY <1>0, <1>1, RoomSame, Zenon DEF JringInv
<1>6. LifeInv'
  <2>1. p < count /\ exitCode[p] = None
    BY <1>0, Zenon DEF Running
  <2>2. "run" \in Active
    BY Zenon DEF Active
  <2> QED BY <1>0, <1>1, <1>3, <2>1, <2>2 DEF JringInv, LifeInv
<1>7. TagInv'
  BY <1>0, Zenon DEF JringInv, TagInv
<1>8. WaitInv'
  <2>1. ~blocked[p]
    BY <1>0, Zenon DEF JringInv, WaitInv
  <2> QED BY <1>0, <1>1, <1>3, <2>1 DEF JringInv, WaitInv
<1>9. RequestInv' /\ ConsoleInv'
  BY <1>0, <1>1, Zenon DEF JringInv, RequestInv, ConsoleInv
<1> QED BY <1>4, <1>5, <1>6, <1>7, <1>8, <1>9, Zenon DEF JringInv

\* The tag of a request is not that of another, in flight, parked or completed.
LEMMA TagIsNew ==
  ASSUME NEW w \in Worlds, NEW p \in Pids, NEW Q, NEW fls \in [Pids -> SUBSET Sqe],
         NEW st \in SUBSET Cqe, NEW xc, NEW e \in Sqe,
         \A f \in fls[p] : f.tag # e.tag, xc[p] = None,
         ProcOK(w, p, Q, fls[p], st, xc), WaitersOK(w, fls, xc)
  PROVE  e \notin fls[p] /\ ~Parked(w, p, e) /\ ~Completed(w.cq[p], st, e)
<1>0. e # None /\ e.tag # None /\ e.tag \in Nat
  BY DEF Sqe
<1>1. e \notin fls[p]
  BY Zenon
<1>2. ~InSlot(w, p, e)
  BY <1>0, <1>1, Zenon DEF InSlot, ProcOK, ReqOK, SlotsOK
<1>3. ~OnChild(w, p, e)
  <2> SUFFICES ASSUME OnChild(w, p, e) PROVE FALSE
    BY Zenon
  <2>1. e.arg \in Pids /\ w.parent[e.arg] = p /\ w.exitWaiter[e.arg] = e.tag
    BY Zenon DEF OnChild
  <2>2. \E f \in fls[p] : f.arg = e.arg /\ OnChild(w, p, f)
    BY <1>0, <2>1, Zenon DEF WaitersOK
  <2> QED BY <2>1, <2>2, Zenon DEF OnChild
<1>4. ~Completed(w.cq[p], st, e)
  BY Zenon DEF Completed, ProcOK, ReqOK, ResultsOK
<1> QED BY <1>1, <1>2, <1>3, <1>4, Zenon DEF Parked

\* Queueing a request whose tag is new.
LEMMA QueueOK ==
  ASSUME NEW w \in Worlds, NEW p \in Pids, NEW Q, NEW fl, NEW st, NEW xc, NEW e,
         ProcOK(w, p, Q, fl, st, xc),
         e \notin fl /\ ~Parked(w, p, e) /\ ~Completed(w.cq[p], st, e)
  PROVE  ProcOK(w, p, Q \union {e}, fl \union {e}, st, xc)
<1>1. SlotsOK(w, p, fl \union {e})
  BY Zenon DEF ProcOK, ReqOK, SlotsOK
<1>2. PlacesOK(w, p, Q \union {e}, fl \union {e}, st)
  BY Zenon DEF ProcOK, ReqOK, PlacesOK
<1>3. ResultsOK(w, p, fl \union {e}, st, xc)
  BY Zenon DEF ProcOK, ReqOK, ResultsOK
<1>4. Sized => KeptOK(w, p, Q \union {e}, fl \union {e}, st)
  BY Zenon DEF ProcOK, KeptOK
<1> QED BY <1>1, <1>2, <1>3, <1>4, Zenon DEF ProcOK, ReqOK

\* The tags of a process with one request more.
LEMMA TagsGrow ==
  ASSUME LibraryFacts, NEW fl \in SUBSET Sqe, NEW q \in Seq(Sqe), NEW next \in Nat, NEW e \in Sqe,
         TagsOK(fl, q, next), Range(q) \subseteq fl, e.tag = next,
         Cardinality(fl) < InFlight,
         e.op = "wait" => e.arg \in Pids,
         ~WaitTwice /\ e.op = "wait" => \A f \in fl : f.op # "wait" \/ f.arg # e.arg
  PROVE  TagsOK(fl \union {e}, Append(q, e), next + 1)
<1> DEFINE gl == fl \union {e}
           r == Append(q, e)
<1>0. /\ next > 0 /\ IsFiniteSet(fl) /\ Cardinality(fl) \in Nat
      /\ \A f \in fl : f.tag \in 1..(next - 1) /\ (f.op = "wait" => f.arg \in Pids)
      /\ \A f, g \in fl : f.tag = g.tag => f = g
      /\ \A i, j \in DOMAIN q : q[i] = q[j] => i = j
  BY CardNat, Zenon DEF TagsOK
<1>1. \A f \in fl : f.tag # e.tag
  BY <1>0
<1>2. \A f \in gl : f.tag \in 1..((next + 1) - 1) /\ (f.op = "wait" => f.arg \in Pids)
  BY <1>0
<1>3. \A f, g \in gl : f.tag = g.tag => f = g
  BY <1>0, <1>1, Zenon
<1>4. IsFiniteSet(gl) /\ Cardinality(gl) <= InFlight
  <2>1. IsFiniteSet(gl) /\ Cardinality(gl) = IF e \in fl THEN Cardinality(fl) ELSE Cardinality(fl) + 1
    BY <1>0, CardAdd, Zenon
  <2> QED BY <1>0, <2>1
<1>5. \A i, j \in DOMAIN r : r[i] = r[j] => i = j
  <2>1. /\ DOMAIN r = 1..(Len(q) + 1) /\ DOMAIN q = 1..Len(q) /\ Len(q) \in Nat
        /\ \A i \in 1..Len(q) : r[i] = q[i]
        /\ r[Len(q) + 1] = e
    OBVIOUS
  <2>2. \A i \in 1..Len(q) : q[i] # e
    BY <1>1, <2>1, Zenon DEF Range
  <2> HIDE DEF r
  <2>3. \A i \in DOMAIN r : i \in 1..Len(q) \/ i = Len(q) + 1
    BY <2>1
  <2> SUFFICES ASSUME NEW i \in DOMAIN r, NEW j \in DOMAIN r, r[i] = r[j] PROVE i = j
    BY Zenon
  <2>4. CASE i \in 1..Len(q) /\ j \in 1..Len(q)
    BY <1>0, <2>1, <2>4, Zenon
  <2>5. CASE i = Len(q) + 1 /\ j \in 1..Len(q)
    BY <2>1, <2>2, <2>5, Zenon
  <2>6. CASE j = Len(q) + 1 /\ i \in 1..Len(q)
    BY <2>1, <2>2, <2>6, Zenon
  <2> QED BY <2>3, <2>4, <2>5, <2>6, Zenon
<1>6. ~WaitTwice => \A f, g \in gl : f.op = "wait" /\ g.op = "wait" /\ f.arg = g.arg => f = g
  BY Zenon DEF TagsOK
<1>7. next + 1 > 0
  OBVIOUS
<1> HIDE DEF gl, r
<1>8. TagsOK(gl, r, next + 1)
  BY <1>2, <1>3, <1>4, <1>5, <1>6, <1>7, Zenon DEF TagsOK
<1> QED BY <1>8, Zenon DEF gl, r

\* A request is written and its tail published.
LEMMA StepPublish ==
  ASSUME LibraryFacts, JringInv, NEW p \in Pids, NEW ask \in Asks, Publish(p, ask)
  PROVE  JringInv'
<1> DEFINE e == [op |-> ask.op, arg |-> ask.arg, tag |-> nextTag[p]]
           fl == inflight[p]
<1>0. /\ pc[p] = "run" /\ Cardinality(fl) < InFlight /\ MayAsk(p, ask)
      /\ sq' = [sq EXCEPT ![p] = Append(@, e)]
      /\ inflight' = [inflight EXCEPT ![p] = @ \union {e}]
      /\ nextTag' = [nextTag EXCEPT ![p] = @ + 1]
      /\ UNCHANGED worldVars
      /\ UNCHANGED <<exitCode, hasRing, ringWaiter, blocked, device, typed, stash, want, pc>>
  BY Zenon DEF Publish, procVars, consoleVars, worldVars
<1>1. World' = World /\ UNCHANGED <<count, cq, pending>>
  BY <1>0, WorldSame, Zenon DEF worldVars
<1>2. /\ sq \in [Pids -> Seq(Sqe)] /\ inflight \in [Pids -> SUBSET Sqe]
      /\ nextTag \in [Pids -> Nat] /\ World \in Worlds /\ stash[p] \in SUBSET Cqe
      /\ fl \in SUBSET Sqe /\ sq[p] \in Seq(Sqe) /\ nextTag[p] \in Nat
  BY Zenon DEF JringInv, TypeOK, SideType
<1>3. /\ ask.op \in {"nop", "bad", "read", "spawn", "wait"} /\ ask.arg \in Nat
      /\ ask.op = "wait" => ask.arg \in Pids
  BY DEF Asks, Pids
<1>4. e \in Sqe /\ e.tag = nextTag[p] /\ e.op = ask.op /\ e.arg = ask.arg
  BY <1>2, <1>3, Zenon DEF Sqe
<1>5. /\ ask.op = "spawn" => count + Cardinality(QueuedSpawns) < NumProcs
      /\ ask.op = "wait" => WaitTwice \/ \A f \in fl : f.op # "wait" \/ f.arg # ask.arg
  BY <1>0, Zenon DEF MayAsk
<1> HIDE DEF e, fl
<1>6. /\ sq' \in [Pids -> Seq(Sqe)] /\ inflight' \in [Pids -> SUBSET Sqe] /\ nextTag' \in [Pids -> Nat]
      /\ sq'[p] = Append(sq[p], e) /\ inflight'[p] = fl \union {e} /\ nextTag'[p] = nextTag[p] + 1
      /\ \A q \in Pids \ {p} : sq'[q] = sq[q] /\ inflight'[q] = inflight[q] /\ nextTag'[q] = nextTag[q]
  BY <1>0, <1>2, <1>4 DEF fl
<1>7. TypeOK'
  BY <1>0, <1>1, <1>6, Zenon DEF JringInv, TypeOK, SideType
<1>8. RoomForSpawns'
  <2> DEFINE n == Len(sq[p])
             S == QueuedSpawns
  <2>1. /\ DOMAIN sq'[p] = DOMAIN sq[p] \union {n + 1} /\ DOMAIN sq[p] = 1..n /\ n \in Nat
        /\ \A i \in DOMAIN sq[p] : sq'[p][i] = sq[p][i]
        /\ sq'[p][n + 1] = e
    BY <1>2, <1>4, <1>6
  <2>2. QueuedSpawns' = IF e.op = "spawn" THEN S \union {<<p, n + 1>>} ELSE S
    <3>1. n + 1 \notin DOMAIN sq[p]
      BY <2>1
    <3>2. {i \in DOMAIN sq'[p] : sq'[p][i].op = "spawn"} =
            {i \in DOMAIN sq[p] : sq[p][i].op = "spawn"} \union (IF e.op = "spawn" THEN {n + 1} ELSE {})
      BY <2>1, <3>1, Zenon
    <3> HIDE DEF n
    <3>3. \A x : x \in QueuedSpawns' <=> x \in S \/ (e.op = "spawn" /\ x = <<p, n + 1>>)
      <4> DEFINE D(q) == {i \in DOMAIN sq[q] : sq[q][i].op = "spawn"}
                 E(q) == {i \in DOMAIN sq'[q] : sq'[q][i].op = "spawn"}
      <4>1. \A x : x \in S <=> \E q \in Pids : x \in {q} \X D(q)
        BY DEF QueuedSpawns
      <4>2. \A x : x \in QueuedSpawns' <=> \E q \in Pids : x \in {q} \X E(q)
        BY DEF QueuedSpawns
      <4>3. \A q \in Pids \ {p} : E(q) = D(q)
        BY <1>6, Zenon
      <4>4. E(p) = D(p) \union (IF e.op = "spawn" THEN {n + 1} ELSE {})
        BY <3>2, Zenon
      <4> HIDE DEF D, E, S
      <4>5. \A x : x \in {p} \X E(p) <=> x \in {p} \X D(p) \/ (e.op = "spawn" /\ x = <<p, n + 1>>)
        BY <4>4
      <4> QED BY <4>1, <4>2, <4>3, <4>5, Zenon
    <3> QED BY <3>3, Zenon
  <2>3. IsFiniteSet(S) /\ count + Cardinality(S) <= NumProcs /\ count \in Nat
    BY <1>2, WorldIs, Zenon DEF JringInv, RoomForSpawns, Worlds
  <2> HIDE DEF S, n
  <2>4. /\ IsFiniteSet(S \union {<<p, n + 1>>})
        /\ Cardinality(S \union {<<p, n + 1>>}) =
                IF <<p, n + 1>> \in S THEN Cardinality(S) ELSE Cardinality(S) + 1
    BY <2>3, CardAdd, Zenon
  <2>5. Cardinality(S) \in Nat
    BY <2>3, CardNat, Zenon
  <2>6. e.op = "spawn" => count + Cardinality(S) < NumProcs
    BY <1>4, <1>5, Zenon DEF S
  <2>7. IsFiniteSet(QueuedSpawns') /\ count + Cardinality(QueuedSpawns') <= NumProcs
    BY <2>2, <2>3, <2>4, <2>5, <2>6
  <2> QED BY <1>1, <2>7, Zenon DEF RoomForSpawns
<1>9. hasRing[p] /\ exitCode[p] = None /\ ~blocked[p]
  BY <1>0, Zenon DEF JringInv, LifeInv, WaitInv, Active
<1>10. LifeInv'
  BY <1>0, <1>1, <1>6, <1>9 DEF JringInv, LifeInv
<1>11. /\ TagsOK(fl, sq[p], nextTag[p]) /\ ProcOK(World, p, Range(sq[p]), fl, stash[p], exitCode)
       /\ TableOK(World) /\ WaitersOK(World, inflight, exitCode)
  BY Zenon DEF JringInv, TagInv, RequestInv, SystemOK, fl
<1>12. TagInv'
  <2>1. Range(sq[p]) \subseteq fl
    BY <1>11, Zenon DEF ProcOK, ReqOK, PlacesOK
  <2>2. TagsOK(fl \union {e}, Append(sq[p], e), nextTag[p] + 1)
    BY <1>0, <1>2, <1>3, <1>4, <1>5, <1>11, <2>1, TagsGrow, Zenon
  <2>3. \A q \in Pids \ {p} : TagsOK(inflight'[q], sq'[q], nextTag'[q])
    BY <1>6, Zenon DEF JringInv, TagInv
  <2> QED BY <1>6, <2>2, <2>3, Zenon DEF TagInv
<1>13. WaitInv'
  BY <1>0, <1>1, <1>6, <1>9 DEF JringInv, WaitInv
<1>14. RequestInv'
  <2>1. \A f \in inflight[p] : f.tag # e.tag
    BY <1>2, <1>4, <1>11 DEF TagsOK, fl
  <2>2. e \notin fl /\ ~Parked(World, p, e) /\ ~Completed(World.cq[p], stash[p], e)
    BY <1>2, <1>4, <1>9, <1>11, <2>1, TagIsNew, Zenon DEF fl
  <2>3. ProcOK(World, p, Range(sq[p]) \union {e}, fl \union {e}, stash[p], exitCode)
    BY <1>2, <1>11, <2>2, QueueOK, Zenon
  <2>4. Range(sq'[p]) = Range(sq[p]) \union {e}
    BY <1>2, <1>4, <1>6, RangeAppend
  <2>5. \A q \in Pids : ProcOK(World, q, Range(sq'[q]), inflight'[q], stash[q], exitCode)
    BY <1>6, <2>3, <2>4, Zenon DEF JringInv, RequestInv, SystemOK
  <2>6. WaitersOK(World, inflight', exitCode)
    <3>1. \A q \in Pids : inflight[q] \subseteq inflight'[q]
      BY <1>6, Zenon DEF fl
    <3>2. \A c \in Pids : World.parent[c] # None => World.parent[c] \in Pids
      BY <1>2, Zenon DEF Worlds
    <3> QED BY <1>11, <3>1, <3>2, Zenon DEF WaitersOK
  <2> QED BY <1>0, <1>1, <1>11, <2>5, <2>6, Zenon DEF RequestInv, SystemOK
<1>15. ConsoleInv'
  BY <1>0, <1>1, Zenon DEF JringInv, ConsoleInv
<1> QED BY <1>7, <1>8, <1>10, <1>12, <1>13, <1>14, <1>15, Zenon DEF JringInv

\* Completions move from the queue to the stash or to the program: fl2 are the
\* requests still in flight and st2 the stash.
LEMMA ClientOK ==
  ASSUME NEW w \in Worlds, NEW v \in Worlds, NEW p \in Pids, NEW Q, NEW fl, NEW st, NEW xc,
         NEW fl2 \in SUBSET fl, NEW st2,
         v.parent = w.parent, v.exitWaiter = w.exitWaiter, v.pending = w.pending,
         ProcOK(w, p, Q, fl, st, xc), CompsOK(v.cq[p], st2),
         Range(v.cq[p]) \union st2 \subseteq Range(w.cq[p]) \union st,
         \A e \in fl : e \in Q \/ Parked(w, p, e) => e \in fl2,
         \A c \in Range(v.cq[p]) \union st2 : \A e \in fl : e.tag = c.tag => e \in fl2,
         Sized => \A e \in fl2 : Completed(w.cq[p], st, e) => Completed(v.cq[p], st2, e)
  PROVE  ProcOK(v, p, Q, fl2, st2, xc)
<1>1. \A f : Parked(v, p, f) <=> Parked(w, p, f)
  BY Zenon DEF Parked, InSlot, OnChild
<1>2. \A e : Completed(v.cq[p], st2, e) => Completed(w.cq[p], st, e)
  BY Zenon DEF Completed
<1>3. SlotsOK(v, p, fl2)
  <2>1. SlotsOK(w, p, fl)
    BY Zenon DEF ProcOK, ReqOK
  <2>2. \A s \in Slots : w.pending[p][s] # None => w.pending[p][s] \in fl2
    BY <2>1, Zenon DEF SlotsOK, Parked, InSlot
  <2> QED BY <2>1, <2>2, Zenon DEF SlotsOK
<1>4. PlacesOK(v, p, Q, fl2, st2)
  BY <1>1, <1>2, Zenon DEF ProcOK, ReqOK, PlacesOK
<1>5. ResultsOK(v, p, fl2, st2, xc)
  <2> SUFFICES ASSUME NEW c \in Range(v.cq[p]) \union st2
               PROVE  \E e \in fl2 : e.tag = c.tag /\ ResultIn(v, p, e, c.res, xc)
    BY Zenon DEF ResultsOK
  <2>1. PICK e \in fl : e.tag = c.tag /\ ResultIn(w, p, e, c.res, xc)
    BY Zenon DEF ProcOK, ReqOK, ResultsOK
  <2>2. e \in fl2
    BY <2>1, Zenon
  <2>3. ResultIn(v, p, e, c.res, xc)
    BY <2>1, Zenon DEF ResultIn
  <2> QED BY <2>1, <2>2, <2>3, Zenon
<1>6. Sized => KeptOK(v, p, Q, fl2, st2)
  BY <1>1, Zenon DEF ProcOK, KeptOK
<1> QED BY <1>3, <1>4, <1>5, <1>6, Zenon DEF ProcOK, ReqOK

\* The records of T but those with the tag.
Without(S, T, tag) == S = {x \in T : x.tag # tag}

\* The completion for a tag is returned: taken from the queue and the stash, and its
\* request from those in flight.
LEMMA ReturnOK ==
  ASSUME NEW w \in Worlds, NEW v \in Worlds, NEW p \in Pids, NEW Q, NEW fl, NEW st, NEW xc,
         NEW st2, NEW tag, NEW fl2, Without(fl2, fl, tag),
         v.parent = w.parent, v.exitWaiter = w.exitWaiter, v.pending = w.pending,
         ProcOK(w, p, Q, fl, st, xc), CompsOK(v.cq[p], st2),
         \E c \in Range(w.cq[p]) \union st : c.tag = tag,
         Without(Range(v.cq[p]) \union st2, Range(w.cq[p]) \union st, tag)
  PROVE  ProcOK(v, p, Q, fl2, st2, xc)
<1>1. \A e \in fl : e \in Q \/ Parked(w, p, e) => e \in fl2
  BY Zenon DEF ProcOK, ReqOK, PlacesOK, Completed, Without
<1>2. \A c \in Range(v.cq[p]) \union st2 : \A e \in fl : e.tag = c.tag => e \in fl2
  BY Zenon DEF Without
<1>3. \A e \in fl2 : Completed(w.cq[p], st, e) => Completed(v.cq[p], st2, e)
  BY Zenon DEF Completed, Without
<1>4. Range(v.cq[p]) \union st2 \subseteq Range(w.cq[p]) \union st
  BY Zenon DEF Without
<1>5. fl2 \in SUBSET fl
  BY Zenon DEF Without
<1> QED BY <1>1, <1>2, <1>3, <1>4, <1>5, ClientOK, Zenon

\* The waits that are parked are not those returned.
LEMMA WaitersReturn ==
  ASSUME NEW w \in Worlds, NEW v \in Worlds, NEW p \in Pids,
         NEW fls \in [Pids -> SUBSET Sqe], NEW gls \in [Pids -> SUBSET Sqe], NEW xc,
         v.parent = w.parent, v.exitWaiter = w.exitWaiter,
         WaitersOK(w, fls, xc),
         \A q \in Pids \ {p} : gls[q] = fls[q],
         \A e \in fls[p] : Parked(w, p, e) => e \in gls[p]
  PROVE  WaitersOK(v, gls, xc)
<1>1. \A q, f : OnChild(v, q, f) <=> OnChild(w, q, f)
  BY Zenon DEF OnChild
<1>2. \A q \in Pids : \A f \in fls[q] : OnChild(w, q, f) => f \in gls[q]
  BY Zenon DEF Parked
<1>3. \A c \in Pids : w.parent[c] # None => w.parent[c] \in Pids
  BY Zenon DEF Worlds
<1> QED BY <1>1, <1>2, <1>3, Zenon DEF WaitersOK

\* Fewer requests in flight, the submission queue as it was.
LEMMA TagsShrink ==
  ASSUME LibraryFacts, NEW fl \in SUBSET Sqe, NEW gl \in SUBSET fl, NEW q, NEW next, TagsOK(fl, q, next)
  PROVE  TagsOK(gl, q, next)
<1>1. IsFiniteSet(gl) /\ Cardinality(gl) <= Cardinality(fl)
  BY CardSubset, Zenon DEF TagsOK
<1>2. Cardinality(gl) \in Nat /\ Cardinality(fl) \in Nat /\ Cardinality(fl) <= InFlight
  BY <1>1, CardNat, Zenon DEF TagsOK
<1>3. Cardinality(gl) <= InFlight
  BY <1>1, <1>2
<1> QED BY <1>1, <1>3, Zenon DEF TagsOK

\* wait(tag) looks in the stash, and starts to reap.
LEMMA StepStartWait ==
  ASSUME LibraryFacts, JringInv, NEW p \in Pids, NEW tag \in Nat, StartWait(p, tag)
  PROVE  JringInv'
<1>0. /\ pc[p] = "run" /\ \E e \in inflight[p] : e.tag = tag
      /\ UNCHANGED worldVars
      /\ UNCHANGED <<exitCode, hasRing, ringWaiter, blocked, sq, device, typed, nextTag>>
  BY Zenon DEF StartWait, procVars, consoleVars, worldVars
<1>1. World' = World /\ UNCHANGED <<count, cq, pending>>
  BY <1>0, WorldSame, Zenon DEF worldVars
<1>2. /\ inflight \in [Pids -> SUBSET Sqe] /\ stash \in [Pids -> SUBSET Cqe]
      /\ want \in [Pids -> Nat \union {None}] /\ pc \in [Pids -> Pcs] /\ World \in Worlds
  BY Zenon DEF JringInv, TypeOK, SideType
<1>3. RoomForSpawns' /\ ConsoleInv'
  BY <1>0, <1>1, RoomSame, Zenon DEF JringInv, ConsoleInv
<1>4. hasRing[p] /\ ~blocked[p]
  BY <1>0, Zenon DEF JringInv, LifeInv, WaitInv, Active
<1>5. CASE \E c \in stash[p] : c.tag = tag
  <2> DEFINE st2 == {c \in stash[p] : c.tag # tag}
             fl2 == {e \in inflight[p] : e.tag # tag}
  <2>1. /\ stash' = [stash EXCEPT ![p] = st2] /\ inflight' = [inflight EXCEPT ![p] = fl2]
        /\ want' = want /\ pc' = pc
    BY <1>5, Zenon DEF StartWait, Return
  <2>2. /\ stash' \in [Pids -> SUBSET Cqe] /\ inflight' \in [Pids -> SUBSET Sqe]
        /\ stash'[p] = st2 /\ inflight'[p] = fl2
        /\ \A q \in Pids \ {p} : stash'[q] = stash[q] /\ inflight'[q] = inflight[q]
    BY <1>2, <2>1, Zenon
  <2>3. TypeOK'
    BY <1>0, <1>1, <2>1, <2>2, Zenon DEF JringInv, TypeOK, SideType
  <2>4. LifeInv'
    BY <1>0, <1>1, <1>4, <2>1, <2>2, Zenon DEF JringInv, LifeInv
  <2>5. TagInv'
    <3>1. \A q \in Pids : inflight[q] \in SUBSET Sqe /\ inflight'[q] \in SUBSET inflight[q]
      BY <1>2, <2>2, Zenon
    <3>2. \A q \in Pids : TagsOK(inflight[q], sq[q], nextTag[q])
      BY Zenon DEF JringInv, TagInv
    <3>3. \A q \in Pids : TagsOK(inflight'[q], sq[q], nextTag[q])
      BY <3>1, <3>2, TagsShrink, Zenon
    <3> QED BY <1>0, <3>3, Zenon DEF TagInv
  <2>6. WaitInv'
    BY <1>0, <1>1, <1>4, <2>1, <2>2 DEF JringInv, WaitInv
  <2>7. RequestInv'
    <3>1. ProcOK(World, p, Range(sq[p]), inflight[p], stash[p], exitCode)
      BY Zenon DEF JringInv, RequestInv, SystemOK
    <3>2. CompsOK(World.cq[p], stash[p])
      BY <3>1, Zenon DEF ProcOK, ReqOK
    <3>3. CompsOK(World.cq[p], st2)
      BY <3>2, Zenon DEF CompsOK
    <3>4. \A c \in Range(World.cq[p]) : c.tag # tag
      BY <1>5, <3>2, Zenon DEF CompsOK, Range
    <3>5. Without(Range(World.cq[p]) \union st2, Range(World.cq[p]) \union stash[p], tag)
      BY <3>4, Zenon DEF Without
    <3>6. \E c \in Range(World.cq[p]) \union stash[p] : c.tag = tag
      BY <1>5, Zenon
    <3>7. ProcOK(World, p, Range(sq[p]), fl2, st2, exitCode)
      <4>1. Without(fl2, inflight[p], tag)
        BY Zenon DEF Without
      <4> HIDE DEF st2, fl2
      <4> QED BY <1>2, <3>1, <3>3, <3>5, <3>6, <4>1, ReturnOK, Zenon
    <3>8. \A e \in inflight[p] : Parked(World, p, e) => e \in fl2
      BY <1>5, <3>1, Zenon DEF ProcOK, ReqOK, PlacesOK, Completed
    <3>9. WaitersOK(World, inflight', exitCode)
      <4>1. WaitersOK(World, inflight, exitCode)
        BY Zenon DEF JringInv, RequestInv, SystemOK
      <4> QED BY <1>2, <2>2, <3>8, <4>1, WaitersReturn, Zenon
    <3>10. \A q \in Pids : ProcOK(World, q, Range(sq[q]), inflight'[q], stash'[q], exitCode)
      BY <2>2, <3>7, Zenon DEF JringInv, RequestInv, SystemOK
    <3> QED BY <1>0, <1>1, <3>9, <3>10, Zenon DEF JringInv, RequestInv, SystemOK
  <2> QED BY <1>3, <2>3, <2>4, <2>5, <2>6, <2>7, Zenon DEF JringInv
<1>6. CASE ~\E c \in stash[p] : c.tag = tag
  <2>1. /\ want' = [want EXCEPT ![p] = tag] /\ pc' = [pc EXCEPT ![p] = "reap"]
        /\ stash' = stash /\ inflight' = inflight
    BY <1>6, Zenon DEF StartWait
  <2>2. /\ want' \in [Pids -> Nat \union {None}] /\ pc' \in [Pids -> Pcs]
        /\ want'[p] = tag /\ pc'[p] = "reap"
        /\ \A q \in Pids \ {p} : want'[q] = want[q] /\ pc'[q] = pc[q]
    BY <1>2, <2>1, Zenon DEF Pcs
  <2>3. TypeOK'
    BY <1>0, <1>1, <2>1, <2>2, Zenon DEF JringInv, TypeOK, SideType
  <2>4. LifeInv'
    <3>1. \A q \in Pids : /\ pc'[q] \in Active <=> pc[q] \in Active
                          /\ pc'[q] = "exited" <=> pc[q] = "exited"
                          /\ pc'[q] = "start" <=> pc[q] = "start"
      BY <1>0, <2>2, Zenon DEF Active
    <3> QED BY <1>0, <1>1, <2>1, <3>1, Zenon DEF JringInv, LifeInv
  <2>5. TagInv' /\ RequestInv'
    BY <1>0, <1>1, <2>1, Zenon DEF JringInv, TagInv, RequestInv
  <2>6. WaitInv'
    BY <1>0, <1>1, <1>4, <1>6, <2>1, <2>2 DEF JringInv, WaitInv
  <2> QED BY <1>3, <2>3, <2>4, <2>5, <2>6, Zenon DEF JringInv
<1> QED BY <1>5, <1>6, Zenon

\* Popping the head of the completion queue.
LEMMA PopIs ==
  ASSUME NEW q \in Seq(Cqe), q # <<>>, NEW st \in SUBSET Cqe, CompsOK(q, st)
  PROVE  /\ Head(q) \in Cqe /\ Tail(q) \in Seq(Cqe)
         /\ Range(q) = {Head(q)} \union Range(Tail(q))
         /\ CompsOK(Tail(q), st) /\ CompsOK(Tail(q), st \union {Head(q)})
         /\ \A c \in Range(Tail(q)) \union st : c.tag # Head(q).tag
<1> DEFINE h == Head(q)
           t == Tail(q)
           n == Len(q)
<1>1. /\ n \in Nat /\ n >= 1 /\ DOMAIN q = 1..n
      /\ h = q[1] /\ h \in Cqe /\ t \in Seq(Cqe) /\ Len(t) = n - 1 /\ DOMAIN t = 1..(n - 1)
      /\ \A i \in 1..(n - 1) : t[i] = q[i + 1]
  OBVIOUS
<1> HIDE DEF h, t, n
<1>2. \A i \in 1..(n - 1) : i + 1 \in 1..n /\ i + 1 # 1
  BY <1>1
<1>3. \A i \in 1..n : i = 1 \/ (i - 1 \in 1..(n - 1) /\ (i - 1) + 1 = i)
  BY <1>1
<1>4. Range(q) = {h} \union Range(t)
  <2>1. \A x \in Range(q) : x \in {h} \union Range(t)
    <3> TAKE x \in Range(q)
    <3>1. PICK i \in 1..n : x = q[i]
      BY <1>1, Zenon DEF Range
    <3>2. CASE i = 1
      BY <1>1, <3>1, <3>2, Zenon
    <3>3. CASE i # 1
      <4>1. t[i - 1] = q[i] /\ i - 1 \in DOMAIN t
        BY <1>1, <1>3, <3>3, Zenon
      <4> QED BY <3>1, <4>1, Zenon DEF Range
    <3> QED BY <3>2, <3>3, Zenon
  <2>2. \A x \in {h} \union Range(t) : x \in Range(q)
    <3>1. h \in Range(q)
      BY <1>1 DEF Range
    <3>2. \A i \in DOMAIN t : t[i] \in Range(q)
      BY <1>1, <1>2, Zenon DEF Range
    <3> QED BY <3>1, <3>2, Zenon DEF Range
  <2> QED BY <2>1, <2>2, Zenon
<1>5. \A i, j \in 1..n : q[i].tag = q[j].tag => i = j
  BY <1>1, Zenon DEF CompsOK
<1>6. \A i \in 1..n : \A c \in st : q[i].tag # c.tag
  BY <1>1, Zenon DEF CompsOK
<1>7. \A i, j \in DOMAIN t : t[i].tag = t[j].tag => i = j
  <2> SUFFICES ASSUME NEW i \in 1..(n - 1), NEW j \in 1..(n - 1), t[i].tag = t[j].tag PROVE i = j
    BY <1>1, Zenon
  <2>1. i + 1 = j + 1
    BY <1>1, <1>2, <1>5
  <2> QED BY <1>1, <2>1
<1>8. \A i \in DOMAIN t : t[i].tag # h.tag /\ \A c \in st : t[i].tag # c.tag
  BY <1>1, <1>2, <1>5, <1>6
<1>9. \A c \in st : c.tag # h.tag
  BY <1>1, <1>6
<1>10. CompsOK(t, st) /\ CompsOK(t, st \union {h})
  BY <1>7, <1>8, <1>9, Zenon DEF CompsOK
<1>11. \A c \in Range(t) \union st : c.tag # h.tag
  BY <1>8, <1>9, Zenon DEF Range
<1> QED BY <1>1, <1>4, <1>10, <1>11, Zenon DEF h, t

\* The stash has room for what is popped while a program waits for another tag.
LEMMA RoomInStash ==
  ASSUME LibraryFacts, NEW T, NEW fl, NEW e \in fl, IsFiniteSet(fl), NEW h \in T, NEW st, st = T \ {h},
         \A c \in T : c.tag # e.tag /\ \E f \in fl : f.tag = c.tag,
         \A c, d \in T : c.tag = d.tag => c = d
  PROVE  Cardinality(st) + 2 <= Cardinality(fl) /\ Cardinality(st) \in Nat
<1> DEFINE g == [c \in T |-> CHOOSE f \in fl : f.tag = c.tag]
<1>1. \A c \in T : g[c] \in fl /\ g[c].tag = c.tag
  BY Zenon
<1>2. \A c \in T : g[c] # e
  BY <1>1, Zenon
<1>3. \A c, d \in T : g[c] = g[d] => c = d
  BY <1>1
<1>4. g \in [T -> fl \ {e}]
  BY <1>1, <1>2, Zenon
<1> HIDE DEF g
<1>5. g \in Injection(T, fl \ {e})
  BY <1>3, <1>4, Zenon DEF Injection, IsInjective
<1>6. IsFiniteSet(fl \ {e}) /\ Cardinality(fl \ {e}) = Cardinality(fl) - 1
  BY CardRemove, Zenon
<1>7. IsFiniteSet(T) /\ Cardinality(T) <= Cardinality(fl \ {e})
  BY <1>5, <1>6, CardInjection, Zenon
<1>8. IsFiniteSet(st) /\ Cardinality(st) = Cardinality(T) - 1
  BY <1>7, CardRemove, Zenon
<1>9. Cardinality(fl) \in Nat /\ Cardinality(T) \in Nat /\ Cardinality(st) \in Nat
  BY <1>7, <1>8, CardNat, Zenon
<1> QED BY <1>6, <1>7, <1>8, <1>9

\* What reap() pops goes to the program, or to the stash.
LEMMA ReapRequests ==
  ASSUME LibraryFacts, JringInv, NEW p \in Pids, Reap(p), cq[p] # <<>>
  PROVE  /\ (World \in Worlds)' /\ RequestInv'
         /\ stash' \in [Pids -> SUBSET Cqe] /\ inflight' \in [Pids -> SUBSET Sqe]
         /\ \A q \in Pids \ {p} : inflight'[q] = inflight[q] /\ stash'[q] = stash[q] /\ cq'[q] = cq[q]
         /\ \A q \in Pids : inflight'[q] \in SUBSET inflight[q]
         /\ pc'[p] = "reap" => /\ \E e \in inflight'[p] : e.tag = want[p]
                               /\ \A c \in stash'[p] : c.tag # want[p]
<1> DEFINE h == Head(cq[p])
           t == Tail(cq[p])
           fl == inflight[p]
           st == stash[p]
           Q == Range(sq[p])
           x == [cq EXCEPT ![p] = t]
           v == [World EXCEPT !.cq = x]
<1>0. /\ World \in Worlds /\ inflight \in [Pids -> SUBSET Sqe] /\ stash \in [Pids -> SUBSET Cqe]
      /\ cq \in [Pids -> Seq(Cqe)] /\ fl \in SUBSET Sqe /\ st \in SUBSET Cqe /\ cq[p] \in Seq(Cqe)
      /\ pc \in [Pids -> Pcs]
  BY WorldIs, Zenon DEF JringInv, TypeOK, SideType, Worlds
<1>1. /\ pc[p] = "reap" /\ cq' = x
      /\ UNCHANGED <<count, parent, exitWaiter, pending, input, rxMasked, got, sq, exitCode>>
  BY Zenon DEF Reap, procVars, consoleVars
<1>2. ProcOK(World, p, Q, fl, st, exitCode) /\ World.cq[p] = cq[p]
  BY WorldIs, Zenon DEF JringInv, RequestInv, SystemOK
<1>3. CompsOK(cq[p], st)
  BY <1>2, Zenon DEF ProcOK, ReqOK
<1>4. /\ h \in Cqe /\ t \in Seq(Cqe)
      /\ Range(cq[p]) = {h} \union Range(t)
      /\ CompsOK(t, st) /\ CompsOK(t, st \union {h})
      /\ \A c \in Range(t) \union st : c.tag # h.tag
  BY <1>0, <1>3, PopIs, Zenon
<1> HIDE DEF h, t, fl, st, Q
<1>5. x \in [Pids -> Seq(Cqe)] /\ x[p] = t /\ \A q \in Pids \ {p} : x[q] = cq[q]
  BY <1>0, <1>4, Zenon
<1> HIDE DEF x
<1>6. /\ v \in Worlds /\ SameTable(World, v) /\ SameParked(World, v) /\ SameConsole(World, v)
      /\ v.cq = x
  BY <1>0, <1>5, SetCq, Zenon
<1>7. World' = v
  <2> HIDE DEF v
  <2>1. SetWorld(v)
    BY <1>1, <1>6, WorldIs, Zenon DEF SetWorld, SameTable, SameParked, SameConsole
  <2> QED BY <1>6, <2>1, SetWorldIs, Zenon
<1> HIDE DEF v
<1>8. /\ v.parent = World.parent /\ v.exitWaiter = World.exitWaiter /\ v.pending = World.pending
      /\ v.count = World.count /\ v.cq[p] = t /\ \A q \in Pids \ {p} : v.cq[q] = World.cq[q]
  BY <1>5, <1>6, WorldIs, Zenon DEF SameTable, SameParked
<1>9. TableOK(v)
  BY <1>8, Zenon DEF JringInv, RequestInv, SystemOK, TableOK
<1>10. /\ \A q, f : OnChild(v, q, f) <=> OnChild(World, q, f)
       /\ \A q \in Pids : ResultsLast(World, v, q, inflight[q], exitCode, exitCode)
  <2>1. FlightsOK
    BY FlightsFromInv, Zenon DEF JringInv
  <2> QED BY <1>0, <1>6, <1>8, <2>1, ResultsStay, Zenon DEF OnChild, FlightsOK
<1>11. ASSUME NEW q \in Pids \ {p}
       PROVE  ProcOK(v, q, Range(sq[q]), inflight[q], stash[q], exitCode)
  <2>1. ProcOK(World, q, Range(sq[q]), inflight[q], stash[q], exitCode) /\ stash[q] \in SUBSET Cqe
    BY <1>0, Zenon DEF JringInv, RequestInv, SystemOK
  <2>2. v.pending[q] = World.pending[q]
    BY <1>8, Zenon
  <2> QED BY <1>0, <1>6, <1>8, <1>10, <2>1, <2>2, FrameOK, Zenon
<1>12. WaitersOK(World, inflight, exitCode)
  BY Zenon DEF JringInv, RequestInv, SystemOK
<1>13. CASE h.tag = want[p]
  <2> DEFINE fl2 == {e \in fl : e.tag # want[p]}
  <2>1. inflight' = [inflight EXCEPT ![p] = fl2] /\ stash' = stash /\ pc' = [pc EXCEPT ![p] = "run"]
    BY <1>13, Zenon DEF Reap, Return, h, fl
  <2>2. /\ inflight' \in [Pids -> SUBSET Sqe] /\ inflight'[p] = fl2
        /\ \A q \in Pids \ {p} : inflight'[q] = inflight[q]
        /\ \A q \in Pids : inflight'[q] \in SUBSET inflight[q]
        /\ pc'[p] = "run"
    BY <1>0, <2>1, Zenon DEF fl
  <2>3. Without(fl2, fl, want[p])
    BY Zenon DEF Without
  <2>4. Without(Range(v.cq[p]) \union st, Range(World.cq[p]) \union st, want[p])
    BY <1>2, <1>4, <1>8, <1>13, Zenon DEF Without
  <2>5. \E c \in Range(World.cq[p]) \union st : c.tag = want[p]
    BY <1>2, <1>4, <1>13, Zenon
  <2> HIDE DEF fl2
  <2>6. ProcOK(v, p, Q, fl2, st, exitCode)
    BY <1>0, <1>2, <1>4, <1>6, <1>8, <2>3, <2>4, <2>5, ReturnOK, Zenon
  <2>7. \A e \in inflight[p] : Parked(World, p, e) => e \in inflight'[p]
    BY <1>2, <2>2, <2>3, <2>5, Zenon DEF ProcOK, ReqOK, PlacesOK, Completed, Without, fl
  <2>8. WaitersOK(v, inflight', exitCode)
    BY <1>0, <1>6, <1>8, <1>12, <2>2, <2>7, WaitersReturn, Zenon
  <2>9. SystemOK(v, sq, inflight', stash', exitCode)
    BY <1>9, <1>11, <2>1, <2>2, <2>6, <2>8, Zenon DEF SystemOK, Q, st
  <2>10. RequestInv' /\ (World \in Worlds)'
    BY <1>1, <1>6, <1>7, <2>9, Zenon DEF RequestInv
  <2> QED BY <1>0, <1>1, <1>5, <2>1, <2>2, <2>10, Zenon
<1>14. CASE h.tag # want[p]
  <2> DEFINE st2 == IF Cardinality(st) < StashSlots THEN st \union {h} ELSE st
  <2>1. stash' = [stash EXCEPT ![p] = st2] /\ inflight' = inflight
    BY <1>14, Zenon DEF Reap, h, st
  <2>2. /\ stash' \in [Pids -> SUBSET Cqe] /\ stash'[p] = st2
        /\ \A q \in Pids \ {p} : stash'[q] = stash[q]
    BY <1>0, <1>4, <2>1, Zenon DEF st
  <2>3. CompsOK(t, st2) /\ st2 \subseteq st \union {h}
    BY <1>4, Zenon
  <2>4. (\E e \in fl : e.tag = want[p]) /\ (\A c \in st : c.tag # want[p])
    BY <1>1, Zenon DEF JringInv, WaitInv, fl, st
  <2>5. Sized => st2 = st \union {h}
    <3>1. PICK e \in fl : e.tag = want[p]
      BY <2>4, Zenon
    <3>2. \A c \in st \union {h} : c.tag # e.tag /\ \E f \in fl : f.tag = c.tag
      BY <1>2, <1>4, <1>14, <2>4, <3>1, Zenon DEF ProcOK, ReqOK, ResultsOK
    <3>3. \A c, d \in st \union {h} : c.tag = d.tag => c = d
      BY <1>4, Zenon DEF CompsOK
    <3>4. st = (st \union {h}) \ {h}
      BY <1>4, Zenon
    <3>5. IsFiniteSet(fl) /\ Cardinality(fl) <= InFlight
      BY Zenon DEF JringInv, TagInv, TagsOK, fl
    <3> DEFINE T == st \union {h}
    <3> HIDE DEF T
    <3>6. Cardinality(st) + 2 <= Cardinality(fl) /\ Cardinality(st) \in Nat
      <4>1. h \in T /\ st = T \ {h}
        BY <3>4, Zenon DEF T
      <4>2. \A c \in T : c.tag # e.tag /\ \E f \in fl : f.tag = c.tag
        BY <3>2, Zenon DEF T
      <4>3. \A c, d \in T : c.tag = d.tag => c = d
        BY <3>3, Zenon DEF T
      <4> QED BY <3>5, <4>1, <4>2, <4>3, RoomInStash
    <3>7. Cardinality(fl) \in Nat
      BY <3>5, CardNat, Zenon
    <3>8. Sized => Cardinality(st) < StashSlots
      BY <3>5, <3>6, <3>7 DEF Sized
    <3> QED BY <3>8, Zenon
  <2> HIDE DEF st2
  <2>6. /\ Range(v.cq[p]) \union st2 \subseteq Range(World.cq[p]) \union st
        /\ Sized => \A e \in fl : Completed(World.cq[p], st, e) => Completed(v.cq[p], st2, e)
    BY <1>2, <1>4, <1>8, <2>3, <2>5, Zenon DEF Completed
  <2>7. ProcOK(v, p, Q, fl, st2, exitCode)
    BY <1>0, <1>2, <1>6, <1>8, <2>3, <2>6, ClientOK, Zenon
  <2>8. WaitersOK(v, inflight', exitCode)
    BY <1>0, <1>6, <1>8, <1>12, <2>1, WaitersReturn, Zenon
  <2>9. SystemOK(v, sq, inflight', stash', exitCode)
    BY <1>9, <1>11, <2>1, <2>2, <2>7, <2>8, Zenon DEF SystemOK, Q, fl
  <2>10. RequestInv' /\ (World \in Worlds)'
    BY <1>1, <1>6, <1>7, <2>9, Zenon DEF RequestInv
  <2>11. /\ \E e \in inflight'[p] : e.tag = want[p]
         /\ \A c \in stash'[p] : c.tag # want[p]
    BY <1>14, <2>1, <2>2, <2>3, <2>4, Zenon DEF fl
  <2> QED BY <1>0, <1>1, <1>5, <2>1, <2>2, <2>10, <2>11, Zenon
<1> QED BY <1>13, <1>14, Zenon

\* One turn of the loop of reap().
LEMMA StepReap ==
  ASSUME LibraryFacts, JringInv, NEW p \in Pids, Reap(p)
  PROVE  JringInv'
<1>0. /\ pc[p] = "reap"
      /\ UNCHANGED <<count, parent, exitWaiter, pending, input, rxMasked, got>>
      /\ UNCHANGED <<exitCode, hasRing, ringWaiter, blocked, sq, device, typed, nextTag>>
  BY Zenon DEF Reap, procVars, consoleVars
<1>1. /\ inflight \in [Pids -> SUBSET Sqe] /\ stash \in [Pids -> SUBSET Cqe]
      /\ want \in [Pids -> Nat \union {None}] /\ pc \in [Pids -> Pcs] /\ World \in Worlds
      /\ {"run", "svc"} \subseteq Pcs
  BY Zenon DEF JringInv, TypeOK, SideType, Pcs
<1>2. hasRing[p] /\ ~blocked[p]
  BY <1>0, Zenon DEF JringInv, LifeInv, WaitInv, Active
<1>3. RoomForSpawns'
  BY <1>0, RoomSame, Zenon DEF JringInv
<1>4. ConsoleInv'
  <2>1. World'.input = input /\ World'.rxMasked = rxMasked /\ World'.got = got /\ World'.pending = pending
    BY <1>0, Zenon DEF World
  <2> QED BY <1>0, <2>1, WorldIs, ZenonT(60) DEF JringInv, ConsoleInv, ConsoleOK, ReadersOK
<1>5. CASE cq[p] = <<>>
  <2>1. pc' = [pc EXCEPT ![p] = "svc"] /\ UNCHANGED <<cq, stash, want, inflight>>
    BY <1>5, Zenon DEF Reap
  <2>2. World' = World
    BY <1>0, <2>1, WorldSame, Zenon DEF worldVars
  <2>3. pc' \in [Pids -> Pcs] /\ pc'[p] = "svc" /\ \A q \in Pids \ {p} : pc'[q] = pc[q]
    BY <1>1, <2>1, Zenon
  <2>4. TypeOK'
    BY <1>0, <2>1, <2>2, <2>3, Zenon DEF JringInv, TypeOK, SideType
  <2>5. LifeInv'
    <3>1. \A q \in Pids : /\ pc'[q] \in Active <=> pc[q] \in Active
                          /\ pc'[q] = "exited" <=> pc[q] = "exited"
                          /\ pc'[q] = "start" <=> pc[q] = "start"
      BY <1>0, <2>3, Zenon DEF Active
    <3> QED BY <1>0, <2>1, <3>1, Zenon DEF JringInv, LifeInv
  <2>6. TagInv' /\ RequestInv'
    BY <1>0, <2>1, <2>2, Zenon DEF JringInv, TagInv, RequestInv
  <2>7. WaitInv'
    BY <1>0, <1>2, <2>1, <2>3, Zenon DEF JringInv, WaitInv
  <2> QED BY <1>3, <1>4, <2>4, <2>5, <2>6, <2>7, Zenon DEF JringInv
<1>6. CASE cq[p] # <<>>
  <2>1. /\ (World \in Worlds)' /\ RequestInv'
        /\ stash' \in [Pids -> SUBSET Cqe] /\ inflight' \in [Pids -> SUBSET Sqe]
        /\ \A q \in Pids \ {p} : inflight'[q] = inflight[q] /\ stash'[q] = stash[q] /\ cq'[q] = cq[q]
        /\ \A q \in Pids : inflight'[q] \in SUBSET inflight[q]
        /\ pc'[p] = "reap" => /\ \E e \in inflight'[p] : e.tag = want[p]
                              /\ \A c \in stash'[p] : c.tag # want[p]
    BY <1>6, ReapRequests, Zenon
  <2>2. \/ want' = want /\ pc' = pc
        \/ want' = [want EXCEPT ![p] = None] /\ pc' = [pc EXCEPT ![p] = "run"]
    BY <1>6, Zenon DEF Reap
  <2>3. /\ want' \in [Pids -> Nat \union {None}] /\ pc' \in [Pids -> Pcs]
        /\ pc'[p] = "run" \/ (pc'[p] = "reap" /\ want' = want)
        /\ \A q \in Pids \ {p} : pc'[q] = pc[q] /\ want'[q] = want[q]
    BY <1>0, <1>1, <2>2, Zenon
  <2>4. TypeOK'
    BY <1>0, <2>1, <2>3, Zenon DEF JringInv, TypeOK, SideType
  <2>5. LifeInv'
    <3>1. \A q \in Pids : /\ pc'[q] \in Active <=> pc[q] \in Active
                          /\ pc'[q] = "exited" <=> pc[q] = "exited"
                          /\ pc'[q] = "start" <=> pc[q] = "start"
      BY <1>0, <2>3, Zenon DEF Active
    <3> QED BY <1>0, <1>2, <2>1, <3>1 DEF JringInv, LifeInv
  <2>6. TagInv'
    <3>1. \A q \in Pids : inflight[q] \in SUBSET Sqe
      BY <1>1, Zenon
    <3>2. \A q \in Pids : TagsOK(inflight[q], sq[q], nextTag[q])
      BY Zenon DEF JringInv, TagInv
    <3>3. \A q \in Pids : TagsOK(inflight'[q], sq[q], nextTag[q])
      BY <2>1, <3>1, <3>2, TagsShrink, Zenon
    <3> QED BY <1>0, <3>3, Zenon DEF TagInv
  <2>7. WaitInv'
    BY <1>0, <1>2, <2>1, <2>3 DEF JringInv, WaitInv
  <2> QED BY <1>3, <1>4, <2>1, <2>4, <2>5, <2>6, <2>7, Zenon DEF JringInv
<1> QED BY <1>5, <1>6, Zenon

\* notify_exit: the parent's parked wait is completed, with the exit code, if the
\* parent still has its ring; every other process keeps what it has.
Notified(p, u) ==
    /\ u \in Worlds /\ SameTable(World, u) /\ SameConsole(World, u)
    /\ u.pending = pending /\ u.exitWaiter = [exitWaiter EXCEPT ![p] = None]
    /\ IF exitWaiter[p] # None /\ hasRing[parent[p]]
       THEN u.cq = Posted(cq, parent[p], exitWaiter[p], exitCode'[p])
       ELSE u.cq = cq

\* notify_exit completes the wait parked on the process, if there is one.
LEMMA NotifyIs ==
  ASSUME JringInv, NEW p \in Pids, exitCode'[p] \in Int
  PROVE  Notified(p, NotifyExit(p))
<1> DEFINE x == [exitWaiter EXCEPT ![p] = None]
           v == [World EXCEPT !.exitWaiter = x]
           u == NotifyExit(p)
<1>0. /\ World \in Worlds /\ exitWaiter \in [Pids -> Nat \union {None}]
      /\ parent \in [Pids -> Pids \union {None}]
  BY WorldIs, Zenon DEF JringInv, TypeOK, Worlds
<1>1. x \in [Pids -> Nat \union {None}]
  BY <1>0, Zenon
<1>2. u = IF exitWaiter[p] # None /\ hasRing[parent[p]]
          THEN Complete(v, parent[p], exitWaiter[p], exitCode'[p]) ELSE v
  BY WorldIs, Zenon DEF NotifyExit
<1> HIDE DEF x, u
<1>3. /\ v \in Worlds /\ SameTable(World, v) /\ SameConsole(World, v)
      /\ v.exitWaiter = x /\ v.pending = World.pending /\ v.cq = World.cq
  BY <1>0, <1>1, SetExitWaiter, Zenon
<1> HIDE DEF v
<1>4. CASE exitWaiter[p] # None /\ hasRing[parent[p]]
  <2>1. exitWaiter[p] \in Nat
    BY <1>0, <1>4, Zenon
  <2>2. parent[p] \in Pids
    <3>1. parent[p] # None
      BY <1>4, WorldIs, Zenon DEF JringInv, RequestInv, SystemOK, WaitersOK
    <3> QED BY <1>0, <3>1, Zenon
  <2>3. u = Complete(v, parent[p], exitWaiter[p], exitCode'[p])
    BY <1>2, <1>4, Zenon
  <2>4. /\ u \in Worlds /\ SameTable(v, u) /\ SameParked(v, u) /\ SameConsole(v, u)
        /\ u.cq = Posted(v.cq, parent[p], exitWaiter[p], exitCode'[p])
    BY <1>3, <2>1, <2>2, <2>3, CompleteIs, ZenonT(60)
  <2> QED BY <1>3, <1>4, <2>4, WorldIs, Zenon DEF Notified, SameTable, SameParked, SameConsole, x, u
<1>5. CASE ~(exitWaiter[p] # None /\ hasRing[parent[p]])
  <2>1. u = v
    BY <1>2, <1>5, Zenon
  <2> QED BY <1>3, <1>5, <2>1, WorldIs, Zenon DEF Notified, x, u
<1> QED BY <1>4, <1>5, Zenon

\* The requests of the other processes when p exits.
LEMMA NotifyOK ==
  ASSUME LibraryFacts, JringInv, NEW p \in Pids, exitCode[p] = None, NEW xd, xd[p] \in Int, xd[p] = exitCode'[p],
         \A q \in Pids \ {p} : xd[q] = exitCode[q],
         NEW u, Notified(p, u), NEW q \in Pids \ {p}
  PROVE  /\ ProcOK(u, q, Range(sq[q]), inflight[q], stash[q], xd)
         /\ u.cq[q] = cq[q] \/ (exitWaiter[p] # None /\ hasRing[q] /\ parent[p] = q)
         /\ Range(cq[q]) \subseteq Range(u.cq[q])
<1> DEFINE fl == inflight[q]
           st == stash[q]
           Q == Range(sq[q])
<1>0. /\ World \in Worlds /\ exitWaiter \in [Pids -> Nat \union {None}]
      /\ parent \in [Pids -> Pids \union {None}] /\ cq \in [Pids -> Seq(Cqe)]
  BY WorldIs, Zenon DEF JringInv, TypeOK, Worlds
<1>1. FlightOK(fl) /\ st \in SUBSET Cqe
  BY FlightsFromInv, Zenon DEF JringInv, FlightsOK
<1>2. ProcOK(World, q, Q, fl, st, exitCode) /\ WaitersOK(World, inflight, exitCode)
  BY Zenon DEF JringInv, RequestInv, SystemOK
<1>3. hasRing[q] => exitCode[q] = None
  BY Zenon DEF JringInv, LifeInv, Active
<1>4. ~hasRing[q] => fl = {}
  BY Zenon DEF JringInv, LifeInv
<1>5. /\ u \in Worlds /\ u.parent = parent /\ u.pending = pending
      /\ u.exitWaiter[p] = None /\ \A c \in Pids \ {p} : u.exitWaiter[c] = exitWaiter[c]
  BY <1>0, WorldIs, Zenon DEF Notified, SameTable
<1>6. \A f : InSlot(u, q, f) <=> InSlot(World, q, f)
  BY <1>5, WorldIs, Zenon DEF InSlot
<1>7. \A f \in fl : OnChild(u, q, f) <=> OnChild(World, q, f) /\ f.arg # p
  <2>1. \A f \in fl : f.tag \in Nat /\ f.tag # None
    BY <1>1 DEF FlightOK, Sqe
  <2> QED BY <1>5, <2>1, WorldIs, Zenon DEF OnChild
<1>8. ResultsLast(World, u, q, fl, exitCode, xd)
  <2>1. \A c \in Pids : exitCode[c] # None => xd[c] = exitCode[c]
    BY Zenon
  <2> QED BY <1>0, <1>1, <1>5, <2>1, ResultsStay, WorldIs, Zenon
<1> HIDE DEF fl, st, Q
<1>9. CASE exitWaiter[p] # None /\ hasRing[q] /\ parent[p] = q
  <2>1. PICK e \in fl : e.arg = p /\ OnChild(World, q, e)
    BY <1>2, <1>3, <1>9, WorldIs, Zenon DEF WaitersOK, fl
  <2>2. /\ e.op = "wait" /\ World.parent[p] = q /\ exitWaiter[p] = e.tag
    BY <2>1, WorldIs, Zenon DEF OnChild
  <2>3. u.cq = Posted(World.cq, q, e.tag, xd[p])
    BY <1>9, <2>2, WorldIs, Zenon DEF Notified
  <2>4. ~Completed(World.cq[q], st, e) /\ e \notin Q
    BY <1>2, <2>1, Zenon DEF ProcOK, ReqOK, PlacesOK, Parked
  <2>5. ~InSlot(World, q, e)
    <3>1. e # None
      BY <1>1, Zenon DEF FlightOK, Sqe
    <3>2. \A s \in Slots : World.pending[q][s] = e => e.op = "read"
      BY <1>2, <3>1, Zenon DEF ProcOK, ReqOK, SlotsOK
    <3> QED BY <2>2, <3>2, Zenon DEF InSlot
  <2>6. \A f \in fl : OnChild(World, q, f) /\ f.arg = p => f = e
    BY <1>1, <2>2, WorldIs, Zenon DEF OnChild, FlightOK
  <2>7. \A f \in fl : Parked(u, q, f) <=> Parked(World, q, f) /\ f # e
    BY <1>6, <1>7, <2>1, <2>5, <2>6, Zenon DEF Parked
  <2>8. SlotsOK(u, q, fl)
    BY <1>2, <1>5, WorldIs DEF ProcOK, ReqOK, SlotsOK
  <2>9. ResultIn(u, q, e, xd[p], xd)
    BY <1>5, <2>1, <2>2, WorldIs, Zenon DEF ResultIn
  <2>10. ProcOK(u, q, Q \ {e}, fl, st, xd)
    BY <1>0, <1>1, <1>2, <1>5, <1>8, <2>1, <2>3, <2>4, <2>7, <2>8, <2>9, PostOK, Zenon
  <2>11. Q \ {e} = Q
    BY <2>4, Zenon
  <2>12. Range(cq[q]) \subseteq Range(u.cq[q])
    <3>1. e.tag \in Nat
      BY <1>1, Zenon DEF FlightOK, Sqe
    <3>2. Range(cq[q]) \subseteq Range(Posted(cq, q, e.tag, xd[p])[q])
      BY <1>0, <3>1, PostCompleted, Zenon
    <3> QED BY <2>3, <3>2, WorldIs, Zenon
  <2> QED BY <1>9, <2>10, <2>11, <2>12, Zenon DEF fl, st, Q
<1>10. CASE ~(exitWaiter[p] # None /\ hasRing[q] /\ parent[p] = q)
  <2>1. u.cq[q] = cq[q]
    <3>1. exitWaiter[p] # None => parent[p] \in Pids /\ exitWaiter[p] \in Nat
      BY <1>0, <1>2, WorldIs DEF WaitersOK
    <3>2. u.cq = cq \/ (exitWaiter[p] # None /\ parent[p] # q /\ u.cq = Posted(cq, parent[p], exitWaiter[p], exitCode'[p]))
      BY <1>10, Zenon DEF Notified
    <3> QED BY <1>0, <3>1, <3>2, Zenon DEF Posted
  <2>2. \A f \in fl : OnChild(World, q, f) => f.arg # p
    <3>1. \A f \in fl : f.tag \in Nat /\ f.tag # None
      BY <1>1 DEF FlightOK, Sqe
    <3> QED BY <1>4, <1>10, <3>1, WorldIs, Zenon DEF OnChild, fl
  <2>3. \A f \in fl : OnChild(u, q, f) <=> OnChild(World, q, f)
    BY <1>7, <2>2, Zenon
  <2>4. u.cq[q] = World.cq[q] /\ u.pending[q] = World.pending[q]
    BY <1>5, <2>1, WorldIs, Zenon
  <2>5. ProcOK(u, q, Q, fl, st, xd)
    BY <1>0, <1>1, <1>2, <1>5, <1>8, <2>3, <2>4, FrameOK, Zenon
  <2> QED BY <2>1, <2>5, Zenon DEF fl, st, Q
<1> QED BY <1>9, <1>10, Zenon

\* The requests and the console once the process is torn down.
LEMMA ExitWorld ==
  ASSUME LibraryFacts, JringInv, NEW p \in Pids, NEW code \in {0, -1}, Exit(p, code)
  PROVE  /\ (World \in Worlds)' /\ count' = count
         /\ cq'[p] = <<>> /\ \A s \in Slots : pending'[p][s] = None
         /\ \A q \in Pids \ {p} : /\ pending'[q] = pending[q]
                                  /\ cq'[q] = cq[q] \/ (exitWaiter[p] # None /\ hasRing[q] /\ parent[p] = q)
                                  /\ Range(cq[q]) \subseteq Range(cq'[q])
         /\ RequestInv' /\ ConsoleInv'
<1> DEFINE u == NotifyExit(p)
           x == [u.pending EXCEPT ![p] = [s \in Slots |-> None]]
           y == [u.cq EXCEPT ![p] = <<>>]
           v == [u EXCEPT !.pending = x]
           w == [v EXCEPT !.cq = y]
           xd == exitCode'
<1>0. /\ Running(p) /\ exitCode' = [exitCode EXCEPT ![p] = code]
      /\ sq' = [sq EXCEPT ![p] = <<>>] /\ stash' = [stash EXCEPT ![p] = {}]
      /\ inflight' = [inflight EXCEPT ![p] = {}] /\ UNCHANGED <<device, typed>>
      /\ SetWorld([u EXCEPT !.pending[p] = [s \in Slots |-> None], !.cq[p] = <<>>])
  BY Zenon DEF Exit
<1>1. /\ exitCode \in [Pids -> {None, 0, -1}] /\ sq \in [Pids -> Seq(Sqe)]
      /\ stash \in [Pids -> SUBSET Cqe] /\ inflight \in [Pids -> SUBSET Sqe]
      /\ World \in Worlds /\ parent \in [Pids -> Pids \union {None}]
      /\ exitWaiter \in [Pids -> Nat \union {None}]
  BY WorldIs, Zenon DEF JringInv, TypeOK, SideType, Worlds
<1>2. /\ xd[p] \in Int /\ xd[p] = code /\ xd[p] # None /\ \A q \in Pids \ {p} : xd[q] = exitCode[q]
      /\ sq'[p] = <<>> /\ stash'[p] = {} /\ inflight'[p] = {}
      /\ \A q \in Pids \ {p} : sq'[q] = sq[q] /\ stash'[q] = stash[q] /\ inflight'[q] = inflight[q]
  BY <1>0, <1>1
<1>3. exitCode[p] = None
  BY <1>0, Zenon DEF Running
<1>4. Notified(p, u)
  BY <1>2, NotifyIs, Zenon
<1> HIDE DEF u, xd
<1>5. /\ u \in Worlds /\ u.count = count /\ u.parent = parent /\ u.pending = pending
      /\ SameConsole(World, u)
      /\ u.pending \in [Pids -> [Slots -> Sqe \union {None}]] /\ u.cq \in [Pids -> Seq(Cqe)]
      /\ u.exitWaiter = [exitWaiter EXCEPT ![p] = None]
  BY <1>4, WorldIs, Zenon DEF Notified, SameTable, Worlds
<1>6. /\ x \in [Pids -> [Slots -> Sqe \union {None}]] /\ y \in [Pids -> Seq(Cqe)]
      /\ x[p] = [s \in Slots |-> None] /\ y[p] = <<>>
      /\ \A q \in Pids \ {p} : x[q] = pending[q] /\ y[q] = u.cq[q]
  BY <1>5
<1>7. w = [u EXCEPT !.pending[p] = [s \in Slots |-> None], !.cq[p] = <<>>]
  BY <1>5, Zenon
<1>8. SetWorld(w)
  BY <1>0, <1>7, Zenon
<1> HIDE DEF x, y
<1>9. /\ v \in Worlds /\ SameTable(u, v) /\ SameConsole(u, v)
      /\ v.pending = x /\ v.exitWaiter = u.exitWaiter /\ v.cq = u.cq
  BY <1>5, <1>6, SetPending, Zenon
<1> HIDE DEF v
<1>10. /\ w \in Worlds /\ SameTable(v, w) /\ SameParked(v, w) /\ SameConsole(v, w) /\ w.cq = y
  BY <1>6, <1>9, SetCq, Zenon
<1> HIDE DEF w
<1>11. World' = w
  BY <1>8, <1>10, SetWorldIs, Zenon
<1>12. /\ w.count = count /\ w.parent = parent /\ w.pending = x /\ w.cq = y
       /\ w.exitWaiter = u.exitWaiter
       /\ w.input = input /\ w.rxMasked = rxMasked /\ w.got = got
       /\ w.exitWaiter[p] = None /\ \A c \in Pids \ {p} : w.exitWaiter[c] = exitWaiter[c]
  BY <1>1, <1>5, <1>9, <1>10, WorldIs DEF SameTable, SameParked, SameConsole
<1>13. /\ count' = count /\ pending' = x /\ cq' = y
  BY <1>8, <1>12, Zenon DEF SetWorld
<1>14. \A q \in Pids \ {p} : /\ ProcOK(u, q, Range(sq[q]), inflight[q], stash[q], xd)
                             /\ u.cq[q] = cq[q] \/ (exitWaiter[p] # None /\ hasRing[q] /\ parent[p] = q)
                             /\ Range(cq[q]) \subseteq Range(u.cq[q])
  BY <1>2, <1>3, <1>4, NotifyOK, Zenon DEF xd
<1>15. ASSUME NEW q \in Pids \ {p}
       PROVE  ProcOK(w, q, Range(sq[q]), inflight[q], stash[q], xd)
  <2>1. FlightOK(inflight[q]) /\ stash[q] \in SUBSET Cqe
    BY FlightsFromInv, Zenon DEF JringInv, FlightsOK
  <2>2. ResultsLast(u, w, q, inflight[q], xd, xd)
    BY <1>5, <1>10, <1>12, <2>1, ResultsStay, Zenon
  <2>3. \A f : OnChild(w, q, f) <=> OnChild(u, q, f)
    BY <1>5, <1>12, Zenon DEF OnChild
  <2>4. w.cq[q] = u.cq[q] /\ w.pending[q] = u.pending[q]
    BY <1>5, <1>6, <1>12, Zenon
  <2> QED BY <1>5, <1>10, <1>14, <2>1, <2>2, <2>3, <2>4, FrameOK, Zenon
<1>16. ProcOK(w, p, Range(<<>>), {}, {}, xd)
  <2>1. w.cq[p] = <<>> /\ \A s \in Slots : w.pending[p][s] = None
    BY <1>6, <1>12, Zenon
  <2>2. Range(<<>>) = {} /\ DOMAIN <<>> = {}
    BY DEF Range
  <2> QED BY <2>1, <2>2, Zenon DEF ProcOK, ReqOK, SlotsOK, PlacesOK, ResultsOK, CompsOK, KeptOK
<1>17. WaitersOK(w, inflight', xd)
  <2> SUFFICES ASSUME NEW c \in Pids, w.exitWaiter[c] # None
               PROVE  /\ w.parent[c] # None /\ xd[c] = None
                      /\ \/ xd[w.parent[c]] # None
                         \/ \E e \in inflight'[w.parent[c]] : e.arg = c /\ OnChild(w, w.parent[c], e)
    BY Zenon DEF WaitersOK
  <2>1. c # p /\ exitWaiter[c] # None
    BY <1>12, Zenon
  <2>2. /\ parent[c] # None /\ exitCode[c] = None
        /\ \/ exitCode[parent[c]] # None
           \/ \E e \in inflight[parent[c]] : e.arg = c /\ OnChild(World, parent[c], e)
    BY <2>1, WorldIs, Zenon DEF JringInv, RequestInv, SystemOK, WaitersOK
  <2>3. parent[c] \in Pids
    BY <1>1, <2>2, Zenon
  <2>4. CASE parent[c] = p
    BY <1>2, <1>12, <2>1, <2>2, <2>4, Zenon
  <2>5. CASE parent[c] # p
    <3>1. \A e : e.arg = c /\ OnChild(World, parent[c], e) => OnChild(w, parent[c], e)
      BY <1>12, <2>1, WorldIs, Zenon DEF OnChild
    <3> QED BY <1>2, <1>12, <2>1, <2>2, <2>3, <2>5, <3>1, Zenon
  <2> QED BY <2>4, <2>5, Zenon
<1>18. TableOK(w)
  BY <1>12, WorldIs, Zenon DEF JringInv, RequestInv, SystemOK, TableOK
<1>19. RequestInv'
  <2>1. \A q \in Pids : ProcOK(w, q, Range(sq'[q]), inflight'[q], stash'[q], xd)
    BY <1>2, <1>15, <1>16, Zenon
  <2> QED BY <1>11, <1>17, <1>18, <2>1, Zenon DEF RequestInv, SystemOK, xd
<1>20. ConsoleInv'
  <2>1. ConsoleOK(w, device', typed')
    <3>1. /\ w.got = World.got /\ w.input = World.input /\ w.rxMasked = World.rxMasked
          /\ device' = device /\ typed' = typed
      BY <1>0, <1>12, WorldIs, Zenon
    <3>2. ConsoleOK(World, device, typed)
      BY Zenon DEF JringInv, ConsoleInv
    <3> QED BY <3>1, <3>2, Zenon DEF ConsoleOK
  <2>2. ReadersOK(w, xd[Shell])
    <3>1. CASE p = Shell
      BY <1>2, <3>1, Zenon DEF ReadersOK
    <3>2. CASE p # Shell
      BY <1>2, <1>6, <1>12, <3>2, PidFacts, WorldIs, ZenonT(60) DEF JringInv, ConsoleInv, ReadersOK
    <3> QED BY <3>1, <3>2, Zenon
  <2> QED BY <1>11, <2>1, <2>2, Zenon DEF ConsoleInv, xd
<1>21. (World \in Worlds)'
  BY <1>10, <1>11, Zenon
<1>22. cq'[p] = <<>> /\ \A s \in Slots : pending'[p][s] = None
  BY <1>6, <1>13, Zenon
<1>23. \A q \in Pids \ {p} : pending'[q] = pending[q] /\ cq'[q] = u.cq[q]
  BY <1>6, <1>13, Zenon
<1> QED BY <1>13, <1>14, <1>19, <1>20, <1>21, <1>22, <1>23, Zenon

\* SYS_EXIT and the death of a program.
LEMMA StepExit ==
  ASSUME LibraryFacts, JringInv, NEW p \in Pids, NEW code \in {0, -1}, Exit(p, code)
  PROVE  JringInv'
<1> DEFINE ps == {p} \union (IF exitWaiter[p] # None THEN {parent[p]} ELSE {})
<1>0. /\ Running(p) /\ exitCode' = [exitCode EXCEPT ![p] = code] /\ WakeWaiters(ps)
      /\ hasRing' = [hasRing EXCEPT ![p] = FALSE]
      /\ sq' = [sq EXCEPT ![p] = <<>>] /\ stash' = [stash EXCEPT ![p] = {}]
      /\ inflight' = [inflight EXCEPT ![p] = {}] /\ want' = [want EXCEPT ![p] = None]
      /\ pc' = [pc EXCEPT ![p] = "exited"] /\ UNCHANGED <<device, typed, nextTag>>
  BY Zenon DEF Exit
<1>1. /\ exitCode \in [Pids -> {None, 0, -1}] /\ sq \in [Pids -> Seq(Sqe)]
      /\ stash \in [Pids -> SUBSET Cqe] /\ inflight \in [Pids -> SUBSET Sqe]
      /\ hasRing \in [Pids -> BOOLEAN] /\ want \in [Pids -> Nat \union {None}]
      /\ pc \in [Pids -> Pcs] /\ "exited" \in Pcs
  BY Zenon DEF JringInv, TypeOK, SideType, Pcs
<1>2. /\ (World \in Worlds)' /\ count' = count
      /\ cq'[p] = <<>> /\ \A s \in Slots : pending'[p][s] = None
      /\ \A q \in Pids \ {p} : /\ pending'[q] = pending[q]
                               /\ cq'[q] = cq[q] \/ (exitWaiter[p] # None /\ hasRing[q] /\ parent[p] = q)
      /\ RequestInv' /\ ConsoleInv'
  BY ExitWorld
<1>3. /\ exitCode' \in [Pids -> {None, 0, -1}] /\ sq' \in [Pids -> Seq(Sqe)]
      /\ stash' \in [Pids -> SUBSET Cqe] /\ inflight' \in [Pids -> SUBSET Sqe]
      /\ hasRing' \in [Pids -> BOOLEAN] /\ want' \in [Pids -> Nat \union {None}]
      /\ pc' \in [Pids -> Pcs]
  BY <1>0, <1>1
<1>4. /\ exitCode'[p] = code /\ code # None /\ sq'[p] = <<>> /\ stash'[p] = {} /\ inflight'[p] = {}
      /\ hasRing'[p] = FALSE /\ pc'[p] = "exited"
      /\ \A q \in Pids \ {p} :
            /\ exitCode'[q] = exitCode[q] /\ sq'[q] = sq[q] /\ stash'[q] = stash[q]
            /\ inflight'[q] = inflight[q] /\ hasRing'[q] = hasRing[q] /\ want'[q] = want[q]
            /\ pc'[q] = pc[q]
  BY <1>0, <1>1
<1>5. /\ ringWaiter' \in [Pids -> BOOLEAN] /\ blocked' \in [Pids -> BOOLEAN]
      /\ \A q \in Pids : blocked'[q] => blocked[q] /\ q \notin ps /\ ringWaiter'[q]
  BY <1>0, WakeIs, Zenon
<1>6. TypeOK'
  BY <1>0, <1>2, <1>3, <1>5, Zenon DEF JringInv, TypeOK, SideType
<1>7. RoomForSpawns'
  <2>1. QueuedSpawns' \subseteq QueuedSpawns
    <3>1. \A q \in Pids : sq'[q] = sq[q] \/ sq'[q] = <<>>
      BY <1>4, Zenon
    <3> QED BY <3>1 DEF QueuedSpawns
  <2>2. /\ IsFiniteSet(QueuedSpawns) /\ count + Cardinality(QueuedSpawns) <= NumProcs /\ count \in Nat
    BY WorldIs, Zenon DEF JringInv, RoomForSpawns, TypeOK, Worlds
  <2>3. /\ IsFiniteSet(QueuedSpawns') /\ Cardinality(QueuedSpawns') <= Cardinality(QueuedSpawns)
        /\ Cardinality(QueuedSpawns') \in Nat /\ Cardinality(QueuedSpawns) \in Nat
    BY <2>1, <2>2, CardSubset, CardNat, Zenon
  <2>4. count + Cardinality(QueuedSpawns') <= NumProcs
    BY <2>2, <2>3
  <2> QED BY <1>2, <2>3, <2>4, Zenon DEF RoomForSpawns
<1>8. LifeInv'
  <2>1. p < count
    BY <1>0, Zenon DEF Running
  <2>2. ASSUME NEW q \in Pids \ {p}, ~hasRing[q] PROVE cq'[q] = <<>>
    BY <1>2, <2>2, Zenon DEF JringInv, LifeInv
  <2>3. "exited" \notin Active /\ "start" # "exited"
    BY Zenon DEF Active
  <2> QED BY <1>2, <1>4, <2>1, <2>2, <2>3 DEF JringInv, LifeInv
<1>9. TagInv'
  <2>1. \A q \in Pids : nextTag'[q] = nextTag[q] /\ TagsOK(inflight[q], sq[q], nextTag[q])
    BY <1>0, Zenon DEF JringInv, TagInv
  <2>2. TagsOK({}, <<>>, nextTag[p])
    <3>1. nextTag[p] > 0 /\ IsFiniteSet({}) /\ Cardinality({}) = 0 /\ DOMAIN <<>> = {}
      BY <2>1, CardEmpty, CardNat DEF TagsOK
    <3>2. 0 <= InFlight
      OBVIOUS
    <3> QED BY <3>1, <3>2, Zenon DEF TagsOK
  <2> QED BY <1>4, <2>1, <2>2, Zenon DEF TagInv
<1>10. WaitInv'
  <2>1. \A q \in Pids \ {p} : blocked'[q] => cq'[q] = cq[q]
    BY <1>2, <1>5, Zenon
  <2>2. ~blocked'[p]
    BY <1>5, Zenon
  <2> QED BY <1>4, <1>5, <2>1, <2>2 DEF JringInv, WaitInv
<1> QED BY <1>2, <1>6, <1>7, <1>8, <1>9, <1>10, Zenon DEF JringInv

-----------------------------------------------------------------------------
(* The invariant holds in every state. *)

\* It holds when the first program starts.
LEMMA InitOK ==
  ASSUME LibraryFacts
  PROVE  Init => JringInv
<1> SUFFICES ASSUME Init PROVE JringInv
  BY Zenon
<1> USE DEF Init
<1>1. TypeOK
  <2>1. World \in Worlds
    <3>1. /\ count \in Nat /\ parent \in [Pids -> Pids \union {None}]
          /\ exitWaiter \in [Pids -> Nat \union {None}]
          /\ pending \in [Pids -> [Slots -> Sqe \union {None}]]
          /\ cq \in [Pids -> Seq(Cqe)] /\ input \in Seq(Nat) /\ rxMasked \in BOOLEAN
          /\ got \in [Pids -> Seq(Nat)]
      <4>1. <<>> \in Seq(Cqe) /\ <<>> \in Seq(Nat) /\ 1 \in Nat
        OBVIOUS
      <4>2. [s \in Slots |-> None] \in [Slots -> Sqe \union {None}]
        BY Zenon
      <4> QED BY <4>1, <4>2, Zenon
    <3> QED BY <3>1, Zenon DEF World, Worlds
  <2> QED BY <2>1 DEF TypeOK, SideType, Pcs
<1>2. RoomForSpawns
  <2>1. QueuedSpawns = {}
    BY DEF QueuedSpawns
  <2> QED BY <2>1, CardEmpty, CardNat DEF RoomForSpawns
<1>3. LifeInv /\ WaitInv
  BY Zenon DEF LifeInv, WaitInv, Active
<1>4. TagInv
  <2>1. IsFiniteSet({}) /\ Cardinality({}) = 0 /\ DOMAIN <<>> = {}
    BY CardEmpty, CardNat
  <2>2. 0 <= InFlight
    OBVIOUS
  <2> QED BY <2>1, <2>2 DEF TagInv, TagsOK
<1>5. RequestInv
  <2>1. Range(<<>>) = {} /\ DOMAIN <<>> = {}
    BY DEF Range
  <2>2. \A p \in Pids : ProcOK(World, p, Range(sq[p]), inflight[p], stash[p], exitCode)
    BY <2>1, WorldIs DEF ProcOK, ReqOK, SlotsOK, PlacesOK, ResultsOK, CompsOK, KeptOK
  <2>3. \A c \in Pids : World.parent[c] = None /\ World.exitWaiter[c] = None
    BY WorldIs
  <2>4. TableOK(World) /\ WaitersOK(World, inflight, exitCode)
    BY <2>3, Zenon DEF TableOK, WaitersOK
  <2> QED BY <2>2, <2>4, Zenon DEF RequestInv, SystemOK
<1>6. ConsoleInv
  <2>1. <<>> \o <<>> \o <<>> = [i \in 1..0 |-> i] /\ Len(<<>>) = 0
    OBVIOUS
  <2>2. got[Shell] = <<>> /\ \A p \in Pids : got[p] = <<>>
    BY PidFacts, Zenon
  <2>3. ~World.rxMasked /\ World.input = <<>> /\ World.got = got
    BY WorldIs, Zenon
  <2> QED BY <2>1, <2>2, <2>3 DEF ConsoleInv, ConsoleOK, ReadersOK
<1> QED BY <1>1, <1>2, <1>3, <1>4, <1>5, <1>6, Zenon DEF JringInv

\* Every step of the system keeps it.
LEMMA NextOK ==
  ASSUME LibraryFacts
  PROVE  JringInv /\ [Next]_vars => JringInv'
<1> SUFFICES ASSUME JringInv, [Next]_vars PROVE JringInv'
  BY Zenon
<1>1. CASE Key
  BY <1>1, StepKey, Zenon
<1>2. CASE UartIrq
  BY <1>2, StepUart, Zenon
<1>3. ASSUME NEW p \in Pids, PollDrain(p) \/ EnterSubmit(p) PROVE JringInv'
  BY <1>3, StepPollDrain, Zenon DEF EnterSubmit
<1>4. ASSUME NEW p \in Pids, Setup(p) PROVE JringInv'
  BY <1>4, StepSetup, Zenon
<1>5. ASSUME NEW p \in Pids, NEW ask \in Asks, Publish(p, ask) PROVE JringInv'
  BY <1>5, StepPublish, Zenon
<1>6. ASSUME NEW p \in Pids, NEW tag \in 1..Quota[p], StartWait(p, tag) PROVE JringInv'
  <2>1. tag \in Nat
    OBVIOUS
  <2> QED BY <1>6, <2>1, StepStartWait, Zenon
<1>7. ASSUME NEW p \in Pids, Reap(p) PROVE JringInv'
  BY <1>7, StepReap, Zenon
<1>8. ASSUME NEW p \in Pids, EnterWait(p) PROVE JringInv'
  BY <1>8, StepEnterWait, Zenon
<1>9. ASSUME NEW p \in Pids, EnterRecheck(p) PROVE JringInv'
  BY <1>9, StepEnterRecheck, Zenon
<1>10. ASSUME NEW p \in Pids, SysExit(p) \/ KillUser(p) PROVE JringInv'
  BY <1>10, StepExit, Zenon DEF SysExit, KillUser
<1>11. CASE UNCHANGED vars
  <2>1. /\ UNCHANGED worldVars /\ UNCHANGED <<count, cq, pending>>
        /\ UNCHANGED <<exitCode, hasRing, ringWaiter, blocked, sq, device, typed, nextTag, stash,
                       want, pc, inflight>>
    BY <1>11, Zenon DEF vars, procVars, consoleVars, clientVars, worldVars
  <2>2. World' = World
    BY <2>1, WorldSame, Zenon
  <2>3. RoomForSpawns'
    BY <2>1, RoomSame, Zenon DEF JringInv
  <2>4. TypeOK' /\ LifeInv' /\ TagInv' /\ WaitInv'
    BY <2>1, <2>2, Zenon DEF JringInv, TypeOK, SideType, LifeInv, TagInv, WaitInv
  <2>5. RequestInv' /\ ConsoleInv'
    BY <2>1, <2>2, Zenon DEF JringInv, RequestInv, ConsoleInv
  <2> QED BY <2>3, <2>4, <2>5, Zenon DEF JringInv
<1> QED BY <1>1, <1>2, <1>3, <1>4, <1>5, <1>6, <1>7, <1>8, <1>9, <1>10, <1>11, Zenon DEF Next, Client

-----------------------------------------------------------------------------
(* The invariant, with the library's theorems. *)

INSTANCE FiniteSetTheorems

\* The library's theorems give LibraryFacts.
LEMMA LibraryHolds == LibraryFacts
<1>1. ASSUME NEW S \in SUBSET Nat, S # {} PROVE \E i \in S : \A j \in S : i <= j
  <2> DEFINE Less == {ss \in Nat \X Nat : ss[1] < ss[2]}
  <2>1. IsWellFoundedOn(Less, Nat)
    BY NatLessThanWellFounded, Zenon DEF OpToRel
  <2> HIDE DEF Less
  <2>2. PICK i \in S : \A j \in S : ~(<<j, i>> \in Less)
    BY <1>1, <2>1, WFMin, Zenon
  <2>3. \A j \in S : ~(j < i)
    BY <2>2, Zenon DEF Less
  <2> QED BY <2>3
<1>2. ASSUME NEW S, IsFiniteSet(S), NEW T, NEW f \in Injection(T, S)
      PROVE  IsFiniteSet(T) /\ Cardinality(T) <= Cardinality(S)
  BY <1>2, FS_Injection, Zenon
<1>3. ASSUME NEW S, IsFiniteSet(S), NEW x
      PROVE  /\ IsFiniteSet(S \union {x}) /\ IsFiniteSet(S \ {x})
             /\ Cardinality(S \union {x}) = IF x \in S THEN Cardinality(S) ELSE Cardinality(S) + 1
             /\ Cardinality(S \ {x}) = IF x \in S THEN Cardinality(S) - 1 ELSE Cardinality(S)
  BY <1>3, FS_AddElement, FS_RemoveElement, Zenon
<1>4. ASSUME NEW S, IsFiniteSet(S)
      PROVE  /\ Cardinality(S) \in Nat /\ (Cardinality(S) = 0 <=> S = {})
             /\ \A T \in SUBSET S : IsFiniteSet(T) /\ Cardinality(T) <= Cardinality(S)
  BY <1>4, FS_CardinalityType, FS_EmptySet, FS_Subset, Zenon
<1> QED BY <1>1, <1>2, <1>3, <1>4, FS_EmptySet, FS_Interval, Zenon DEF LibraryFacts

\* The invariant of jring: of the rings and the request tables of ring.rs, the
\* console buffer of input.rs and the stash of uring.rs together.
THEOREM JringInvariant == Spec => []JringInv
<1>1. Init => JringInv
  BY LibraryHolds, InitOK, Zenon
<1>2. JringInv /\ [Next]_vars => JringInv'
  BY LibraryHolds, NextOK, Zenon
<1> QED BY <1>1, <1>2, PTL DEF Spec

-----------------------------------------------------------------------------
(* What it says of the system. *)

\* The console loses, repeats and reorders no key, and gives them to the foreground
\* only, through push(), drain_uart(), drain_input() and poll_pending().
THEOREM KeysInOrder == Spec => []InputInOrder
<1>1. JringInv => InputInOrder
  BY WorldIs, Zenon DEF JringInv, ConsoleInv, ConsoleOK, InputInOrder
<1> QED BY <1>1, JringInvariant, PTL

\* The receive interrupt is masked exactly while the input buffer is full, between
\* drain_uart(), which masks it, and pop(), which unmasks it.
THEOREM FlowControl == Spec => []MaskedIffFull
<1>1. JringInv => MaskedIffFull
  <2>1. World.rxMasked = rxMasked /\ World.input = input
    BY WorldIs, Zenon
  <2> QED BY <2>1, Zenon DEF JringInv, ConsoleInv, ConsoleOK, MaskedIffFull
<1> QED BY <1>1, JringInvariant, PTL

\* poll_pending() leaves no foreground read parked beside input.
THEOREM NoInputBehindReads == Spec => []ParkedMeansNoInput
<1>1. JringInv => ParkedMeansNoInput
  BY WorldIs, Zenon DEF JringInv, ConsoleInv, ReadersOK, ParkedMeansNoInput, Foreground, Running
<1> QED BY <1>1, JringInvariant, PTL

\* A completion carries the tag of a request the program has in flight, and a result
\* that is true of it, however full the queues get.
THEOREM TrueResults == Spec => []ResultsTrue
<1>1. JringInv => ResultsTrue
  <2> SUFFICES ASSUME JringInv, NEW p \in Pids, NEW c \in Range(cq[p]) \union stash[p]
               PROVE  \E e \in inflight[p] : e.tag = c.tag /\ TrueResult(p, e, c.res)
    BY Zenon DEF ResultsTrue
  <2>1. \E e \in inflight[p] : e.tag = c.tag /\ ResultIn(World, p, e, c.res, exitCode)
    BY WorldIs, Zenon DEF JringInv, RequestInv, SystemOK, ProcOK, ReqOK, ResultsOK
  <2>2. \A e \in inflight[p] : ResultIn(World, p, e, c.res, exitCode) => TrueResult(p, e, c.res)
    BY WorldIs, Zenon DEF ResultIn, TrueResult
  <2> QED BY <2>1, <2>2, Zenon
<1> QED BY <1>1, JringInvariant, PTL

\* What is parked, by request and by tag.
LEMMA ParkedTag ==
  ASSUME NEW p \in Pids, NEW e \in Sqe, Parked(World, p, e)
  PROVE  e.tag \in ParkedReads(p) \union ParkedWaits(p)
<1>1. e # None /\ e.tag # None
  BY DEF Sqe
<1>2. CASE InSlot(World, p, e)
  BY <1>1, <1>2, WorldIs, Zenon DEF InSlot, ParkedReads
<1>3. CASE OnChild(World, p, e)
  BY <1>1, <1>3, WorldIs, Zenon DEF OnChild, ParkedWaits
<1> QED BY <1>2, <1>3, Zenon DEF Parked

\* A program that keeps no more requests in flight than the completion queue and the
\* stash hold, and waits once for a child, loses none of them: sqe(), drain(),
\* complete() and reap() account for each.
THEOREM NoRequestLost ==
  ASSUME Sized
  PROVE  Spec => []NothingLost
<1>1. JringInv => NothingLost
  <2> SUFFICES ASSUME JringInv, NEW p \in Pids, NEW e \in inflight[p]
               PROVE  \/ e \in Range(sq[p])
                      \/ e.tag \in ParkedReads(p) \union ParkedWaits(p)
                      \/ \E c \in Range(cq[p]) \union stash[p] : c.tag = e.tag
    BY Zenon DEF NothingLost
  <2>1. e \in Range(sq[p]) \/ Parked(World, p, e) \/ Completed(World.cq[p], stash[p], e)
    BY Zenon DEF JringInv, RequestInv, SystemOK, ProcOK, KeptOK
  <2>2. e \in Sqe
    BY Zenon DEF JringInv, TypeOK, SideType
  <2> QED BY <2>1, <2>2, ParkedTag, WorldIs, Zenon DEF Completed
<1> QED BY <1>1, JringInvariant, PTL

\* Then a task blocked in enter() is registered, has nothing to reap, and waits for
\* a parked read or for a child that runs: no wakeup is lost.
THEOREM NoLostWakeup ==
  ASSUME Sized
  PROVE  Spec => []BlockedHasWaker
<1>1. JringInv => BlockedHasWaker
  <2> SUFFICES ASSUME JringInv, NEW p \in Pids, blocked[p]
               PROVE  /\ cq[p] = <<>> /\ ringWaiter[p]
                      /\ \/ ParkedReads(p) # {}
                         \/ \E c \in Pids : parent[c] = p /\ exitWaiter[c] # None /\ Running(c)
    BY Zenon DEF BlockedHasWaker
  <2>1. pc[p] = "enter" /\ ringWaiter[p] /\ cq[p] = <<>> /\ sq[p] = <<>>
    BY Zenon DEF JringInv, WaitInv
  <2>2. PICK e \in inflight[p] : e.tag = want[p]
    BY <2>1, Zenon DEF JringInv, WaitInv
  <2>3. \A c \in stash[p] : c.tag # want[p]
    BY <2>1, Zenon DEF JringInv, WaitInv
  <2>4. Range(<<>>) = {}
    BY DEF Range
  <2>5. e \in Range(sq[p]) \/ Parked(World, p, e) \/ Completed(World.cq[p], stash[p], e)
    BY Zenon DEF JringInv, RequestInv, SystemOK, ProcOK, KeptOK
  <2>6. Parked(World, p, e)
    BY <2>1, <2>2, <2>3, <2>4, <2>5, WorldIs, Zenon DEF Completed
  <2>7. e \in Sqe /\ e # None /\ e.tag # None
    BY DEF JringInv, TypeOK, SideType, Sqe
  <2>8. CASE InSlot(World, p, e)
    BY <2>1, <2>7, <2>8, WorldIs, Zenon DEF InSlot, ParkedReads
  <2>9. CASE OnChild(World, p, e)
    <3>1. /\ e.arg \in Pids /\ parent[e.arg] = p /\ exitWaiter[e.arg] = e.tag
      BY <2>9, WorldIs, Zenon DEF OnChild
    <3>2. exitCode[e.arg] = None
      BY <2>7, <3>1, WorldIs, Zenon DEF JringInv, RequestInv, SystemOK, WaitersOK
    <3>3. e.arg < count
      BY <3>1, PidFacts, WorldIs, Zenon DEF JringInv, RequestInv, SystemOK, TableOK
    <3> QED BY <2>1, <2>7, <3>1, <3>2, <3>3, Zenon DEF Running
  <2> QED BY <2>6, <2>8, <2>9, Zenon DEF Parked
<1> QED BY <1>1, JringInvariant, PTL

=============================================================================

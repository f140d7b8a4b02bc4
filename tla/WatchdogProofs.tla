---- MODULE WatchdogProofs ----
(***************************************************************************)
(* Proofs about the watchdog for any number of peers and overlapping       *)
(* rounds and any value of the knobs.  The inductive invariant IInv is     *)
(* proved one conjunct at a time; the lemmas named ...Moves first say      *)
(* which actions can disturb a group of variables at all.                  *)
(***************************************************************************)
EXTENDS Watchdog, FiniteSetTheorems, TLAPS

USE NodesAssumption, KnobsAssumption

(* Abbreviations that every leaf may look through.                         *)
USE DEF outside, world, Flock, OneMore, GoodRound, TakeStamp, StampsFile, Within, AllSent

LEMMA InitType == Init => TypeOK
<1> SUFFICES ASSUME Init PROVE TypeOK
  OBVIOUS
<1> USE DEF Init, TypeOK, Mode, Idle, Job, PCs, Nodes, Kept
<1>1. job \in [Proc -> Job]
  OBVIOUS
<1>2. reboots \in [Mode -> Seq(Nat)] /\ orders \in Seq(Order) /\ disk \in [Mode -> Kept]
  OBVIOUS
<1>3. /\ lock \in Proc \union {Free} /\ reachable \subseteq Peers /\ hit \subseteq Nodes
      /\ lost \subseteq Peers /\ stalled \subseteq Stallable
  OBVIOUS
<1>4. fails \in [Mode -> Nat] /\ busy \in [Mode -> Nat] /\ streak \in [Mode -> Nat] /\ exempt \in [Mode -> Nat] /\ alarm \in [Mode -> BOOLEAN]
  OBVIOUS
<1> QED BY <1>1, <1>2, <1>3, <1>4

(* The order that the round of p gives first.                              *)
OrderOf(p) == [now |-> job[p].now, at |-> clock, forgot |-> forgot,
               serial |-> Len(reboots["real"]) + forgot]

LEMMA OrderOfType ==
  ASSUME TypeOK, NEW p \in Proc
  PROVE  OrderOf(p) \in Order
<1>1. Len(reboots["real"]) \in Nat
  BY DEF TypeOK, Mode
<1>2. job[p].now \in Nat
  BY DEF TypeOK, Job
<1> QED BY <1>1, <1>2 DEF TypeOK, OrderOf, Order

LEMMA OrderedType ==
  ASSUME TypeOK, NEW p \in Proc, Ordered(p)
  PROVE  orders' \in Seq(Order)
<1>1. orders \in Seq(Order) /\ OrderOf(p) \in Order
  BY OrderOfType DEF TypeOK
<1>2. orders' = Append(orders, OrderOf(p)) \/ orders' = orders
  BY DEF Ordered, OrderOf
<1> QED BY SMTT(30), <1>1, <1>2

LEMMA Entry ==
  ASSUME NEW S, NEW s \in Seq(S), NEW i \in DOMAIN s
  PROVE  s[i] \in S /\ i \in Nat
  OBVIOUS

LEMMA OrderEntry ==
  ASSUME TypeOK, NEW i \in DOMAIN orders
  PROVE  /\ orders[i].now \in Nat /\ orders[i].at \in Nat
         /\ orders[i].serial \in Nat /\ orders[i].forgot \in Nat /\ i \in Nat
<1>1. orders \in Seq(Order)
  BY DEF TypeOK
<1>2. orders[i] \in Order /\ i \in Nat
  BY <1>1, Entry
<1> QED BY <1>2 DEF Order

(* The steps that leave alone everything the invariant speaks of.          *)
Still == UNCHANGED <<files, disk, lock, job, clock, hist, tally>>

GoesOn(p, step, peers) == ~At(p, "idle") /\ Goto(p, step, peers) /\ alarm' = alarm

Ends(p) == ~At(p, "idle") /\ Exit(p)

(* The round of p learns something, and goes on or ends for that.          *)
Passes(p) ==
  /\ UNCHANGED <<files, outside, hist, tally>>
  /\ Ends(p) \/ \E step \in {"container", "health", "probe", "count"} : GoesOn(p, step, {})

LEMMA PassCases ==
  ASSUME NEW p \in Proc,
         \/ UnitStarting(p) \/ UnitWatched(p) \/ ContainerYoung(p) \/ ContainerOld(p)
         \/ Health(p) \/ ProbeFrozen(p) \/ TimedOut(p)
  PROVE  Passes(p)
<1> USE DEF Passes, Ends, GoesOn, At, files
<1>1. CASE UnitStarting(p)
  BY <1>1 DEF UnitStarting
<1>2. CASE UnitWatched(p)
  BY <1>2 DEF UnitWatched
<1>3. CASE ContainerYoung(p)
  BY <1>3 DEF ContainerYoung
<1>4. CASE ContainerOld(p)
  BY <1>4 DEF ContainerOld
<1>5. CASE Health(p)
  BY <1>5 DEF Health
<1>6. CASE ProbeFrozen(p)
  BY <1>6 DEF ProbeFrozen
<1>7. CASE TimedOut(p)
  BY <1>7 DEF TimedOut, Hangs
<1> QED BY <1>1, <1>2, <1>3, <1>4, <1>5, <1>6, <1>7

(* The steps of the specification, the ones of the environment that only   *)
(* move the unit, the engine, the links, the stalls or PAUSE taken         *)
(* together.                                                               *)
LEMMA StepCases ==
  ASSUME [Next]_vars
  PROVE  \/ Still
         \/ \E m \in Modes : WriteBack(m) \/ \E p \in Proc : Begin(p, m)
         \/ \E p \in Proc : \/ Passes(p) \/ UnitInactive(p)
                            \/ ProbeOk(p) \/ ProbeBusy(p)
                            \/ ProbeBusyTooLong(p)
                            \/ CountFailure(p)
                            \/ LimitExceeded(p) \/ LimitPassed(p)
                            \/ DryAct(p) \/ Stamp(p) \/ SelfReboot(p)
                            \/ \E q \in Peers : \/ PeerAnswers(p, q) \/ PeerSilent(p, q)
                                                \/ SendPeer(p, q)
                            \/ Kill(p)
         \/ HeadReset \/ Tick
         \/ \E m \in Mode : ClearAlarm(m)
<1>1. CASE UNCHANGED vars
  BY <1>1 DEF Still, vars, files, hist, tally
<1>2. CASE UnitStarts \/ UnitUp \/ UnitFails \/ UnitStops \/ EngineChanges
  BY <1>2 DEF UnitStarts, UnitUp, UnitFails, UnitStops, EngineChanges, quiet, Still
<1>3. CASE LinkChanges \/ StallChanges \/ TogglePause
  BY <1>3 DEF LinkChanges, StallChanges, TogglePause, quiet, Still
<1> QED BY <1>1, <1>2, <1>3, PassCases DEF Next, Round, Environment

(* What a step does to the rounds in progress: one begins under a free     *)
(* lock, goes on, or ends; the head restarts; or none of them moves, and   *)
(* then no ALARM appears.                                                  *)
Starts(p, m) ==
  /\ lock = Free /\ lock' = p /\ ~alarm[m] /\ alarm' = alarm
  /\ job' = [job EXCEPT ![p] = [pc |-> "unit", now |-> clock, mode |-> m, left |-> {}]]

AllEnd == job' = [p \in Proc |-> Idle] /\ lock' = Free

NoneMoves == UNCHANGED <<job, lock>> /\ \A m \in Mode : alarm'[m] => alarm[m]

LEMMA JobMoves ==
  ASSUME TypeOK, [Next]_vars
  PROVE  \/ \E m \in Mode, p \in Proc : Starts(p, m)
         \/ \E p \in Proc : \E step \in PCs, peers \in SUBSET Peers : GoesOn(p, step, peers)
         \/ \E p \in Proc : Ends(p)
         \/ AllEnd
         \/ NoneMoves
<1> USE DEF At, files
<1>1. ASSUME NEW m \in Modes, NEW p \in Proc, Begin(p, m) PROVE Starts(p, m) /\ m \in Mode
  BY <1>1 DEF Begin, Starts, Gated, Mode
<1>2. ASSUME NEW p \in Proc,
             \/ UnitInactive(p) \/ ProbeOk(p) \/ ProbeBusy(p) \/ LimitExceeded(p)
             \/ DryAct(p) \/ Kill(p)
      PROVE  Ends(p)
  BY <1>2 DEF UnitInactive, ProbeOk, ProbeBusy, BusyRound, LimitExceeded, DryAct, Kill, RaiseAlarm, Ends
<1>3. ASSUME NEW p \in Proc, NEW q \in Peers, PeerSilent(p, q) PROVE Ends(p)
  BY <1>3 DEF PeerSilent, RaiseAlarm, Ends
<1>4. ASSUME NEW p \in Proc,
             ProbeBusyTooLong(p) \/ LimitPassed(p) \/ Stamp(p)
      PROVE  \E step \in PCs, peers \in SUBSET Peers : GoesOn(p, step, peers)
  <2>1. CASE ProbeBusyTooLong(p)
    BY <2>1 DEF ProbeBusyTooLong, BusyRound, GoesOn, PCs
  <2>2. CASE LimitPassed(p)
    BY <2>2 DEF LimitPassed, GoesOn, PCs
  <2>3. CASE Stamp(p)
    BY <2>3 DEF Stamp, GoesOn, PCs
  <2> QED BY <1>4, <2>1, <2>2, <2>3
<1>5. ASSUME NEW p \in Proc, CountFailure(p)
      PROVE  Ends(p) \/ \E step \in PCs, peers \in SUBSET Peers : GoesOn(p, step, peers)
  BY <1>5 DEF CountFailure, Ends, GoesOn, PCs
<1>6. ASSUME NEW p \in Proc, NEW q \in Peers, PeerAnswers(p, q) \/ SendPeer(p, q)
      PROVE  \E step \in PCs, peers \in SUBSET Peers : GoesOn(p, step, peers)
  <2>1. job[p].left \subseteq Peers
    BY DEF TypeOK, Job
  <2>2. CASE PeerAnswers(p, q)
    BY <2>1, <2>2 DEF PeerAnswers, GoesOn, PCs
  <2>3. CASE SendPeer(p, q)
    BY <2>1, <2>3 DEF SendPeer, GoesOn, PCs
  <2> QED BY <1>6, <2>2, <2>3
<1>7. ASSUME (\E p \in Proc : SelfReboot(p)) \/ HeadReset PROVE AllEnd
  BY <1>7 DEF SelfReboot, HeadReset, HeadRestarts, AllEnd
<1>8. ASSUME Still \/ Tick \/ \E m \in Modes : WriteBack(m) PROVE NoneMoves
  BY <1>8 DEF Still, Tick, WriteBack, NoneMoves
<1>9. ASSUME NEW m \in Mode, ClearAlarm(m) PROVE NoneMoves
  BY <1>9 DEF ClearAlarm, NoneMoves, Set, TypeOK
<1>10. ASSUME NEW p \in Proc, Passes(p)
       PROVE  Ends(p) \/ \E step \in PCs, peers \in SUBSET Peers : GoesOn(p, step, peers)
  BY <1>10 DEF Passes, PCs
<1> QED
  BY <1>1, <1>2, <1>3, <1>4, <1>5, <1>6, <1>7, <1>8, <1>9, <1>10, StepCases

LEMMA LockStep ==
  ASSUME TypeOK, LockInv, [Next]_vars
  PROVE  LockInv'
<1>0. job \in [Proc -> Job] /\ Free \notin Proc
  BY DEF TypeOK
<1> USE <1>0 DEF LockInv, At, ModeOf
<1>1. ASSUME NEW m \in Mode, NEW p \in Proc, Starts(p, m) PROVE LockInv'
  BY <1>1 DEF Starts
<1>2. ASSUME NEW p \in Proc, NEW step \in PCs, NEW peers \in SUBSET Peers,
             GoesOn(p, step, peers)
      PROVE  LockInv'
  BY <1>2 DEF GoesOn, Goto
<1>3. ASSUME NEW p \in Proc, Ends(p) PROVE LockInv'
  BY <1>3 DEF Ends, Exit, Idle
<1>4. CASE AllEnd
  BY <1>4 DEF AllEnd, Idle
<1>5. CASE NoneMoves
  BY <1>5 DEF NoneMoves, Job
<1> QED
  BY <1>1, <1>2, <1>3, <1>4, <1>5, JobMoves

LEMMA JobTypeStep ==
  ASSUME TypeOK, [Next]_vars
  PROVE  job' \in [Proc -> Job] /\ lock' \in Proc \union {Free}
<1> DEFINE Goal == job' \in [Proc -> Job] /\ lock' \in Proc \union {Free}
<1>0. job \in [Proc -> Job] /\ lock \in Proc \union {Free} /\ clock \in Nat
  BY DEF TypeOK
<1>1. Idle \in Job
  BY DEF Idle, Job, PCs, Mode
<1>2. ASSUME NEW m \in Mode, NEW p \in Proc, Starts(p, m) PROVE Goal
  BY <1>0, <1>2 DEF Starts, Job, PCs
<1>3. ASSUME NEW p \in Proc, NEW step \in PCs, NEW peers \in SUBSET Peers,
             GoesOn(p, step, peers)
      PROVE  Goal
  BY <1>0, <1>3 DEF GoesOn, Goto, Job
<1>4. ASSUME NEW p \in Proc, Ends(p) PROVE Goal
  BY <1>0, <1>1, <1>4 DEF Ends, Exit
<1>5. CASE AllEnd
  BY <1>1, <1>5 DEF AllEnd
<1>6. CASE NoneMoves
  BY <1>0, <1>6 DEF NoneMoves
<1> QED
  BY <1>2, <1>3, <1>4, <1>5, <1>6, JobMoves

LEMMA AppendFacts ==
  ASSUME NEW S, NEW s \in Seq(S), NEW n \in S
  PROVE  /\ Len(s) \in Nat /\ DOMAIN s = 1 .. Len(s)
         /\ Len(Append(s, n)) = Len(s) + 1
         /\ DOMAIN Append(s, n) = 1 .. Len(s) + 1
         /\ Append(s, n)[Len(s) + 1] = n
         /\ \A i \in 1 .. Len(s) : Append(s, n)[i] = s[i] /\ s[i] \in S
  OBVIOUS

LEMMA PrefixFacts ==
  ASSUME NEW S, NEW s \in Seq(S), NEW n \in 0 .. Len(s)
  PROVE  /\ SubSeq(s, 1, n) \in Seq(S)
         /\ Len(SubSeq(s, 1, n)) = n /\ DOMAIN SubSeq(s, 1, n) = 1 .. n
         /\ \A i \in 1 .. n : SubSeq(s, 1, n)[i] = s[i] /\ i \in DOMAIN s
  OBVIOUS

LEMMA ExceptType ==
  ASSUME NEW f \in [Mode -> Nat], NEW m \in Mode, NEW n \in Nat
  PROVE  [f EXCEPT ![m] = n] \in [Mode -> Nat]
  OBVIOUS

LEMMA CountType ==
  ASSUME TypeOK, NEW p \in Proc, CountFailure(p)
  PROVE  fails' \in [Mode -> Nat] /\ streak' \in [Mode -> Nat]
<1> DEFINE m == job[p].mode
           k == IF streak[m] < FailNeeded THEN streak[m] + 1 ELSE streak[m]
<1>1. m \in Mode /\ fails \in [Mode -> Nat] /\ streak \in [Mode -> Nat] /\ FailNeeded \in Nat
  BY DEF TypeOK, Job
<1>2. fails' = [fails EXCEPT ![m] = FailCount(m)] /\ streak' = [streak EXCEPT ![m] = k]
  BY DEF CountFailure, Set, ModeOf
<1> HIDE DEF m
<1>3. fails[m] \in Nat /\ streak[m] \in Nat
  BY <1>1
<1>4. FailCount(m) \in Nat
  BY <1>1, <1>3 DEF FailCount
<1>5. k \in Nat
  BY <1>1, <1>3
<1> HIDE DEF k
<1> QED BY <1>1, <1>2, <1>4, <1>5, ExceptType

LEMMA SaturateType ==
  ASSUME NEW n \in Nat, NEW max \in Nat
  PROVE  Saturate(n, max) \in Nat
  BY DEF Saturate

(* What a power loss leaves is of the kind of what was there.              *)
LEMMA DiskType ==
  ASSUME TypeOK, DiskInv, NEW m \in Mode
  PROVE  /\ disk[m].fails \in Nat /\ disk[m].busy \in Nat /\ disk[m].stamps \in Nat
         /\ reboots[m] \in Seq(Nat) /\ Len(reboots[m]) \in Nat
         /\ disk[m].stamps <= Len(reboots[m])
         /\ disk[m].stamps \in 0 .. Len(reboots[m])
<1>1. disk[m] \in Kept /\ reboots[m] \in Seq(Nat)
  BY DEF TypeOK
<1>2. disk[m].fails \in Nat /\ disk[m].busy \in Nat /\ disk[m].stamps \in Nat
  BY <1>1 DEF Kept
<1>3. disk[m].stamps <= Len(reboots[m]) /\ Len(reboots[m]) \in Nat
  BY <1>1 DEF DiskInv
<1> QED BY <1>1, <1>2, <1>3

LEMMA ResetType ==
  ASSUME TypeOK, DiskInv, HeadReset
  PROVE  /\ fails' \in [Mode -> Nat] /\ busy' \in [Mode -> Nat] /\ streak' \in [Mode -> Nat]
         /\ alarm' \in [Mode -> BOOLEAN] /\ reboots' \in [Mode -> Seq(Nat)]
         /\ forgot' \in Nat
<1>1. fails' \in [Mode -> Nat] /\ busy' \in [Mode -> Nat] /\ streak' \in [Mode -> Nat]
  BY DiskType DEF HeadReset
<1>2. \A m \in Mode : disk[m].alarm \in BOOLEAN
  BY DEF TypeOK, Kept
<1>3. alarm' \in [Mode -> BOOLEAN]
  BY <1>2 DEF HeadReset
<1>4. ASSUME NEW m \in Mode PROVE SubSeq(reboots[m], 1, disk[m].stamps) \in Seq(Nat)
  BY DiskType, PrefixFacts
<1>5. reboots' \in [Mode -> Seq(Nat)]
  BY <1>4 DEF HeadReset
<1>6. forgot \in Nat /\ "real" \in Mode
  BY DEF TypeOK, Mode
<1>7. /\ disk["real"].stamps \in Nat /\ Len(reboots["real"]) \in Nat
      /\ disk["real"].stamps <= Len(reboots["real"])
  BY <1>6, DiskType
<1>8. forgot' = forgot + Len(reboots["real"]) - disk["real"].stamps
  BY DEF HeadReset
<1>9. forgot' \in Nat
  BY <1>6, <1>7, <1>8
<1> QED BY <1>1, <1>3, <1>5, <1>9

LEMMA TypeStep ==
  ASSUME TypeOK, DiskInv, [Next]_vars
  PROVE  TypeOK'
<1> USE JobTypeStep
<1> USE DEF TypeOK, Mode, Nodes, files, world, hist, tally, quiet, Set, At, ModeOf
<1>1. ASSUME NEW p \in Proc, UnitInactive(p) PROVE TypeOK'
  BY <1>1 DEF UnitInactive
<1>2. ASSUME NEW m \in Modes, NEW p \in Proc, Begin(p, m) PROVE TypeOK'
  BY <1>2 DEF Begin
<1>3. ASSUME NEW p \in Proc, Passes(p) PROVE TypeOK'
  BY <1>3 DEF Passes
<1>4. ASSUME NEW p \in Proc, ProbeOk(p) PROVE TypeOK'
  BY <1>4 DEF ProbeOk
<1>5. ASSUME NEW p \in Proc, ProbeBusy(p) PROVE TypeOK'
  <2>1. job[p].mode \in Mode
    BY DEF Job
  <2>2. BusyCount(job[p].mode) \in Nat
    BY SMTT(30), <2>1 DEF BusyCount
  <2>3. busy' = [busy EXCEPT ![job[p].mode] = BusyCount(job[p].mode)]
    BY <1>5 DEF ProbeBusy
  <2> DEFINE e == exempt[job[p].mode]
             n == IF e > BusyMax THEN e ELSE e + 1
  <2>e. exempt \in [Mode -> Nat] /\ BusyMax \in Nat
    OBVIOUS
  <2>n. n \in Nat
    BY SMTT(30), <2>1, <2>e
  <2>4. n \in Nat /\ exempt' = [exempt EXCEPT ![job[p].mode] = n]
    BY <1>5, <2>n DEF ProbeBusy
  <2> HIDE DEF n
  <2>5. busy' \in [Mode -> Nat] /\ exempt' \in [Mode -> Nat]
    BY <2>2, <2>3, <2>4
  <2> QED BY <1>5, <2>5 DEF ProbeBusy
<1>6. ASSUME NEW p \in Proc, ProbeBusyTooLong(p) PROVE TypeOK'
  <2>0. job[p].mode \in Mode
    BY DEF Job
  <2>1. BusyCount(job[p].mode) \in Nat
    BY <2>0 DEF BusyCount
  <2>2. busy' = [busy EXCEPT ![job[p].mode] = BusyCount(job[p].mode)]
    BY <1>6 DEF ProbeBusyTooLong
  <2>3. busy' \in [Mode -> Nat]
    BY <2>1, <2>2
  <2> QED BY <1>6, <2>3 DEF ProbeBusyTooLong
<1>7. ASSUME NEW m \in Modes, WriteBack(m) PROVE TypeOK'
  <2>1. m \in Mode
    OBVIOUS
  <2>2. /\ disk[m] \in Kept /\ fails[m] \in Nat /\ busy[m] \in Nat
        /\ Len(reboots[m]) \in Nat
    BY <2>1
  <2>3. alarm[m] \in BOOLEAN
    BY <2>1
  <2>4. ASSUME NEW k \in Kept PROVE [disk EXCEPT ![m] = k] \in [Mode -> Kept]
    OBVIOUS
  <2>5. disk' \in [Mode -> Kept]
    <3>1. ASSUME NEW n \in Nat
          PROVE  /\ [disk EXCEPT ![m].fails = n] \in [Mode -> Kept]
                 /\ [disk EXCEPT ![m].busy = n] \in [Mode -> Kept]
                 /\ [disk EXCEPT ![m].stamps = n] \in [Mode -> Kept]
      BY <2>1, <2>2 DEF Kept
    <3>2. [disk EXCEPT ![m].alarm = alarm[m]] \in [Mode -> Kept]
      BY <2>1, <2>2, <2>3 DEF Kept
    <3>3. CASE \E n \in {0, fails[m]} : disk' = [disk EXCEPT ![m].fails = n]
      <4>1. PICK n \in {0, fails[m]} : disk' = [disk EXCEPT ![m].fails = n]
        BY <3>3
      <4>2. n \in Nat
        BY <2>2
      <4> QED BY <3>1, <4>1, <4>2
    <3>4. CASE \E n \in {0, busy[m]} : disk' = [disk EXCEPT ![m].busy = n]
      <4>1. PICK n \in {0, busy[m]} : disk' = [disk EXCEPT ![m].busy = n]
        BY <3>4
      <4>2. n \in Nat
        BY <2>2
      <4> QED BY <3>1, <4>1, <4>2
    <3>5. CASE disk' = [disk EXCEPT ![m].stamps = Len(reboots[m])]
      BY <2>2, <3>1, <3>5
    <3> QED BY <1>7, <3>2, <3>3, <3>4, <3>5 DEF WriteBack
  <2> QED BY <1>7, <2>5 DEF WriteBack
<1>8. ASSUME NEW p \in Proc, LimitExceeded(p) PROVE TypeOK'
  BY <1>8 DEF LimitExceeded, RaiseAlarm
<1>9. ASSUME NEW p \in Proc, LimitPassed(p) PROVE TypeOK'
  BY <1>9 DEF LimitPassed
<1>10. ASSUME NEW p \in Proc, DryAct(p) PROVE TypeOK'
  <2>1. job[p].now \in Nat
    BY DEF Job
  <2>2. Append(reboots["dry"], job[p].now) \in Seq(Nat)
    BY <2>1
  <2> QED BY <1>10, <2>2 DEF DryAct
<1>11. ASSUME NEW p \in Proc, Stamp(p) PROVE TypeOK'
  <2>1. job[p].now \in Nat
    BY DEF Job
  <2>2. Append(reboots["real"], job[p].now) \in Seq(Nat)
    BY <2>1
  <2> QED BY <1>11, <2>2 DEF Stamp
<1>12. ASSUME NEW p \in Proc, CountFailure(p) PROVE TypeOK'
  <2>3. fails' \in [Mode -> Nat] /\ streak' \in [Mode -> Nat]
    BY <1>12, CountType
  <2> QED BY <1>12, <2>3 DEF CountFailure
<1>13. ASSUME NEW p \in Proc, NEW q \in Peers, PeerAnswers(p, q) PROVE TypeOK'
  BY <1>13 DEF PeerAnswers
<1>14. ASSUME NEW p \in Proc, NEW q \in Peers, PeerSilent(p, q) PROVE TypeOK'
  BY <1>14 DEF PeerSilent, RaiseAlarm
<1>15. ASSUME NEW p \in Proc, NEW q \in Peers, SendPeer(p, q) PROVE TypeOK'
  <2>1. orders' \in Seq(Order)
    BY <1>15, OrderedType DEF SendPeer
  <2> QED BY <1>15, <2>1 DEF SendPeer
<1>16. ASSUME NEW p \in Proc, SelfReboot(p) PROVE TypeOK'
  <2>1. ASSUME NEW m \in Mode PROVE Contents(m) \in Kept
    <3>1. alarm[m] \in BOOLEAN
      OBVIOUS
    <3>2. fails[m] \in Nat /\ busy[m] \in Nat /\ Len(reboots[m]) \in Nat
      OBVIOUS
    <3> QED BY <3>1, <3>2 DEF Contents, Kept
  <2>2. disk' \in [Mode -> Kept]
    BY <1>16, <2>1 DEF SelfReboot
  <2>3. orders' \in Seq(Order)
    BY <1>16, OrderedType DEF SelfReboot
  <2> QED BY <1>16, <2>2, <2>3 DEF SelfReboot, HeadRestarts
<1>17. ASSUME NEW p \in Proc, Kill(p) PROVE TypeOK'
  BY SMTT(30), <1>17 DEF Kill
<1>18. ASSUME HeadReset PROVE TypeOK'
  <2>1. /\ disk' = disk /\ pause' = pause /\ clock' = clock /\ uptime' = 0 /\ age' = 0
        /\ faults' = faults + 1 /\ unit' = "activating" /\ engine' = "exited"
        /\ reachable' = reachable /\ stalled' = stalled /\ orders' = orders
        /\ hit' = hit /\ lost' = lost /\ exempt' = [m \in Mode |-> 0]
    BY <1>18 DEF HeadReset, HeadRestarts
  <2>2. faults' \in Nat
    BY <2>1
  <2>3. pause' \in BOOLEAN
    BY <2>1
  <2>4. exempt' \in [Mode -> Nat]
    BY <2>1
  <2> QED BY <1>18, <2>1, <2>2, <2>3, <2>4, ResetType
<1>19. ASSUME Tick PROVE TypeOK'
  <2>1. clock \in Nat /\ uptime \in Nat /\ age \in Nat
    OBVIOUS
  <2>2. /\ clock' = clock + 1 /\ uptime' = Saturate(uptime, BootGrace)
        /\ age' = Saturate(age, ContGrace)
    BY <1>19 DEF Tick
  <2>3. uptime' \in Nat /\ age' \in Nat
    BY <2>1, <2>2, SaturateType
  <2>4. clock' \in Nat
    BY <2>1, <2>2
  <2> QED BY <1>19, <2>3, <2>4 DEF Tick
<1>20. ASSUME UnitStarts PROVE TypeOK'
  BY <1>20 DEF UnitStarts
<1>21. ASSUME UnitUp PROVE TypeOK'
  BY <1>21 DEF UnitUp
<1>22. ASSUME UnitFails PROVE TypeOK'
  BY <1>22 DEF UnitFails
<1>23. ASSUME UnitStops PROVE TypeOK'
  BY <1>23 DEF UnitStops
<1>24. ASSUME EngineChanges PROVE TypeOK'
  BY <1>24 DEF EngineChanges
<1>25. ASSUME LinkChanges PROVE TypeOK'
  BY <1>25 DEF LinkChanges
<1>26. ASSUME TogglePause PROVE TypeOK'
  BY <1>26 DEF TogglePause
<1>27. ASSUME NEW m \in Mode, ClearAlarm(m) PROVE TypeOK'
  BY <1>27 DEF ClearAlarm
<1>29. ASSUME StallChanges PROVE TypeOK'
  BY <1>29 DEF StallChanges
<1>28. CASE UNCHANGED vars
  BY <1>28 DEF vars
<1> QED
  BY <1>1, <1>2, <1>3, <1>4, <1>5, <1>6, <1>7, <1>8, <1>9, <1>10, <1>11, <1>12,
     <1>13, <1>14, <1>15, <1>16, <1>17, <1>18, <1>19, <1>20, <1>21, <1>22, <1>23, <1>24, <1>25, <1>26, <1>27, <1>28, <1>29, PassCases
  DEF Next, Round, Environment

-----------------------------------------------------------------------------
(* The counters.                                                           *)
Counters == <<fails, busy, streak, exempt>>

CounterInv ==
  \A m \in Mode : fails[m] <= streak[m] /\ exempt[m] <= busy[m] /\ busy[m] <= BusyMax

JudgedInv ==
  \A p \in Proc : At(p, "limit") \/ At(p, "peers") => streak[ModeOf(p)] >= FailNeeded

LEMMA CounterMoves ==
  ASSUME [Next]_vars
  PROVE  \/ UNCHANGED Counters
         \/ \E p \in Proc : \/ UnitInactive(p)
                            \/ ProbeOk(p) \/ ProbeBusy(p) \/ ProbeBusyTooLong(p)
                            \/ CountFailure(p) \/ RaiseAlarm(p)
                            \/ DryAct(p) \/ Stamp(p) \/ SelfReboot(p)
         \/ HeadReset
<1> USE DEF Counters, files, tally
<1>1. ASSUME NEW m \in Modes, WriteBack(m) \/ \E p \in Proc : Begin(p, m)
      PROVE  UNCHANGED Counters
  BY <1>1 DEF Begin, WriteBack
<1>2. ASSUME NEW p \in Proc, Passes(p) \/ LimitPassed(p) \/ Kill(p)
      PROVE  UNCHANGED Counters
  BY <1>2 DEF Passes, LimitPassed, Kill
<1>3. ASSUME NEW p \in Proc, NEW q \in Peers, PeerAnswers(p, q) \/ SendPeer(p, q)
      PROVE  UNCHANGED Counters
  BY <1>3 DEF PeerAnswers, SendPeer
<1>4. ASSUME NEW p \in Proc, LimitExceeded(p) \/ \E q \in Peers : PeerSilent(p, q)
      PROVE  RaiseAlarm(p)
  BY <1>4 DEF LimitExceeded, PeerSilent
<1>5. ASSUME Still \/ Tick \/ \E m \in Mode : ClearAlarm(m) PROVE UNCHANGED Counters
  BY <1>5 DEF Still, Tick, ClearAlarm
<1> QED
  BY <1>1, <1>2, <1>3, <1>4, <1>5, StepCases

LEMMA CounterStep ==
  ASSUME TypeOK, CounterInv, DiskInv, [Next]_vars
  PROVE  CounterInv'
<1>0. /\ fails \in [Mode -> Nat] /\ busy \in [Mode -> Nat]
      /\ streak \in [Mode -> Nat] /\ exempt \in [Mode -> Nat]
      /\ BusyMax \in Nat /\ FailNeeded \in Nat /\ Modes \subseteq Mode
      /\ \A p \in Proc : ModeOf(p) \in Mode
  BY DEF TypeOK, Job, ModeOf, Mode
<1> USE <1>0 DEF CounterInv, Set, tally
<1>1. CASE UNCHANGED Counters
  BY <1>1 DEF Counters
<1>2. ASSUME NEW p \in Proc, UnitInactive(p) PROVE CounterInv'
  BY <1>2 DEF UnitInactive
<1>3. ASSUME NEW p \in Proc, ProbeOk(p) PROVE CounterInv'
  BY <1>3 DEF ProbeOk
<1>4. ASSUME NEW p \in Proc, ProbeBusy(p) PROVE CounterInv'
  BY <1>4 DEF ProbeBusy, BusyCount
<1>5. ASSUME NEW p \in Proc, ProbeBusyTooLong(p) PROVE CounterInv'
  BY <1>5 DEF ProbeBusyTooLong, BusyCount
<1>6. ASSUME NEW p \in Proc, CountFailure(p) PROVE CounterInv'
  BY <1>6 DEF CountFailure, FailCount
<1>7. ASSUME NEW p \in Proc, RaiseAlarm(p) PROVE CounterInv'
  BY <1>7 DEF RaiseAlarm
<1>8. ASSUME NEW p \in Proc, DryAct(p) PROVE CounterInv'
  BY <1>8 DEF DryAct
<1>9. ASSUME NEW p \in Proc, Stamp(p) PROVE CounterInv'
  BY <1>9 DEF Stamp
<1>10. ASSUME NEW p \in Proc, SelfReboot(p) PROVE CounterInv'
  BY <1>10 DEF SelfReboot, HeadRestarts, files
<1>11. ASSUME HeadReset PROVE CounterInv'
  <2>1. \A m \in Mode : disk[m].fails \in Nat /\ disk[m].busy \in Nat /\ disk[m].busy <= BusyMax
    BY DEF TypeOK, Kept, DiskInv
  <2> QED BY <1>11, <2>1 DEF HeadReset, HeadRestarts
<1> QED
  BY <1>1, <1>2, <1>3, <1>4, <1>5, <1>6, <1>7, <1>8, <1>9, <1>10, <1>11, CounterMoves

LEMMA JudgedStep ==
  ASSUME TypeOK, LockInv, CounterInv, JudgedInv, [Next]_vars
  PROVE  JudgedInv'
<1>0. /\ job \in [Proc -> Job] /\ streak \in [Mode -> Nat] /\ fails \in [Mode -> Nat]
      /\ Free \notin Proc /\ FailNeeded \in Nat
      /\ \A p \in Proc : job[p].mode \in Mode
      /\ \A m \in Mode : fails[m] <= streak[m]
  BY DEF TypeOK, Job, CounterInv
<1> USE <1>0 DEF JudgedInv, LockInv, At, ModeOf, tally
<1>1. CASE Still
  BY <1>1 DEF Still
<1>2. ASSUME NEW m \in Modes, WriteBack(m) PROVE JudgedInv'
  BY <1>2 DEF WriteBack
<1>3. ASSUME NEW m \in Modes, NEW p \in Proc, Begin(p, m) PROVE JudgedInv'
  BY <1>3 DEF Begin
<1>6. ASSUME NEW p \in Proc, Ends(p) PROVE JudgedInv'
  BY <1>6 DEF Ends, Exit, Idle
<1>4. ASSUME NEW p \in Proc, Passes(p) PROVE JudgedInv'
  BY <1>4, <1>6 DEF Passes, GoesOn, Goto
<1>5. ASSUME NEW p \in Proc, ProbeBusyTooLong(p) PROVE JudgedInv'
  BY <1>5 DEF ProbeBusyTooLong, BusyRound, Goto
<1>7. ASSUME NEW p \in Proc, CountFailure(p) PROVE JudgedInv'
  <2>1. CASE FailCount(job[p].mode) < FailNeeded
    BY <1>6, <1>7, <2>1 DEF CountFailure, Ends
  <2>2. CASE ~(FailCount(job[p].mode) < FailNeeded)
    <3> DEFINE m == job[p].mode
    <3>1. /\ streak' = [streak EXCEPT ![m] = IF streak[m] < FailNeeded THEN streak[m] + 1
                                                                  ELSE streak[m]]
          /\ job' = [job EXCEPT ![p] = [pc |-> "limit", now |-> job[p].now,
                                        mode |-> job[p].mode, left |-> {}]]
          /\ lock = p
      BY <1>7, <2>2 DEF CountFailure, Goto, Set
    <3>2. streak'[m] >= FailNeeded
      <4>1. streak[m] \in Nat /\ fails[m] \in Nat /\ fails[m] <= streak[m] /\ m \in Mode
        OBVIOUS
      <4>2. fails[m] + 1 >= FailNeeded
        BY <2>2, <4>1 DEF FailCount
      <4>3. streak'[m] = IF streak[m] < FailNeeded THEN streak[m] + 1 ELSE streak[m]
        BY <3>1, <4>1
      <4> QED BY <4>1, <4>2, <4>3
    <3> QED BY <3>1, <3>2
  <2> QED BY <2>1, <2>2
<1>8. ASSUME NEW p \in Proc, LimitPassed(p) PROVE JudgedInv'
  BY <1>8 DEF LimitPassed, Goto
<1>9. ASSUME NEW p \in Proc, NEW q \in Peers, PeerAnswers(p, q) PROVE JudgedInv'
  BY <1>9 DEF PeerAnswers, Goto
<1>10. ASSUME NEW p \in Proc, Stamp(p) PROVE JudgedInv'
  BY <1>10 DEF Stamp, Goto
<1>11. ASSUME NEW p \in Proc, NEW q \in Peers, SendPeer(p, q) PROVE JudgedInv'
  BY <1>11 DEF SendPeer, Goto
<1>12. ASSUME HeadRestarts PROVE JudgedInv'
  BY <1>12 DEF HeadRestarts, Idle
<1>13. ASSUME Tick \/ \E m \in Mode : ClearAlarm(m) PROVE JudgedInv'
  BY <1>13 DEF Tick, ClearAlarm
<1>14. ASSUME NEW p \in Proc,
              \/ UnitInactive(p) \/ ProbeOk(p) \/ ProbeBusy(p) \/ LimitExceeded(p)
              \/ DryAct(p) \/ Kill(p)
              \/ \E q \in Peers : PeerSilent(p, q)
       PROVE  Ends(p)
  BY <1>14 DEF UnitInactive, ProbeOk, ProbeBusy, BusyRound, LimitExceeded, DryAct, Kill,
               PeerSilent, RaiseAlarm, Ends
<1> QED
  BY <1>1, <1>2, <1>3, <1>4, <1>5, <1>6, <1>7, <1>8, <1>9, <1>10, <1>11, <1>12, <1>13,
     <1>14, StepCases DEF SelfReboot, HeadReset

-----------------------------------------------------------------------------
(* What is on the disk. *)

LEMMA DiskMoves ==
  ASSUME [Next]_vars
  PROVE  \/ UNCHANGED <<reboots, disk>>
         \/ \E m \in Modes : WriteBack(m)
         \/ \E p \in Proc : DryAct(p) \/ Stamp(p) \/ SelfReboot(p)
         \/ HeadReset
<1> DEFINE Same == UNCHANGED <<reboots, disk>>
<1> USE DEF files
<1>1. ASSUME NEW m \in Modes, NEW p \in Proc, Begin(p, m) PROVE Same
  BY <1>1 DEF Begin
<1>2. ASSUME NEW p \in Proc, \/ Passes(p) \/ UnitInactive(p) \/ ProbeOk(p) \/ ProbeBusy(p)
                             \/ ProbeBusyTooLong(p) \/ CountFailure(p)
      PROVE  Same
  BY <1>2 DEF Passes, UnitInactive, ProbeOk, ProbeBusy, ProbeBusyTooLong, CountFailure
<1>3. ASSUME NEW p \in Proc, LimitExceeded(p) \/ LimitPassed(p) \/ Kill(p)
      PROVE  Same
  BY <1>3 DEF LimitExceeded, LimitPassed, Kill, RaiseAlarm
<1>4. ASSUME NEW p \in Proc, NEW q \in Peers,
             PeerAnswers(p, q) \/ PeerSilent(p, q) \/ SendPeer(p, q)
      PROVE  Same
  BY <1>4 DEF PeerAnswers, PeerSilent, SendPeer, RaiseAlarm
<1>5. ASSUME Tick \/ Still \/ \E m \in Mode : ClearAlarm(m) PROVE Same
  BY <1>5 DEF Tick, Still, ClearAlarm
<1> QED
  BY <1>1, <1>2, <1>3, <1>4, <1>5, StepCases

(* What a power loss leaves was there before: stamps that were written,    *)
(* and a count of busy rounds that is within the bound.                    *)
LEMMA DiskStep ==
  ASSUME TypeOK, CounterInv, CounterInv', DiskInv, [Next]_vars
  PROVE  DiskInv'
<1>0. /\ disk \in [Mode -> Kept] /\ reboots \in [Mode -> Seq(Nat)] /\ BusyMax \in Nat
      /\ busy \in [Mode -> Nat]
  BY DEF TypeOK
<1>k. \A m \in Mode : /\ disk[m].stamps \in Nat /\ disk[m].busy \in Nat
                      /\ Len(reboots[m]) \in Nat /\ reboots[m] \in Seq(Nat)
                      /\ disk[m].stamps <= Len(reboots[m]) /\ disk[m].busy <= BusyMax
                      /\ busy[m] <= BusyMax
  BY <1>0 DEF Kept, DiskInv, CounterInv
<1>1. CASE UNCHANGED <<reboots, disk>>
  BY <1>1 DEF DiskInv
<1>2. ASSUME NEW m \in Modes, WriteBack(m) PROVE DiskInv'
  <2>1. UNCHANGED reboots
    BY <1>2 DEF WriteBack, files
  <2>2. ASSUME NEW n \in Mode
        PROVE  disk'[n].stamps <= Len(reboots[n]) /\ disk'[n].busy <= BusyMax
    <3>0. /\ m \in Mode /\ disk[n] \in Kept /\ disk[m] \in Kept /\ 0 <= BusyMax
          /\ disk[n].stamps <= Len(reboots[n]) /\ disk[n].busy <= BusyMax
      <4>1. m \in Mode
        BY DEF Mode
      <4> QED BY <1>0, <1>k, <4>1
    <3>1. ASSUME NEW v, disk' = [disk EXCEPT ![m].fails = v]
          PROVE  disk'[n].stamps = disk[n].stamps /\ disk'[n].busy = disk[n].busy
      BY <1>0, <3>0, <3>1 DEF Kept
    <3>7. ASSUME NEW v, disk' = [disk EXCEPT ![m].alarm = v]
          PROVE  disk'[n].stamps = disk[n].stamps /\ disk'[n].busy = disk[n].busy
      BY <1>0, <3>0, <3>7 DEF Kept
    <3>2. ASSUME NEW v, disk' = [disk EXCEPT ![m].busy = v]
          PROVE  disk'[n].stamps = disk[n].stamps /\ disk'[n].busy \in {disk[n].busy, v}
      BY <1>0, <3>0, <3>2 DEF Kept
    <3>3. ASSUME disk' = [disk EXCEPT ![m].stamps = Len(reboots[m])]
          PROVE  /\ disk'[n].stamps = disk[n].stamps \/ disk'[n].stamps = Len(reboots[n])
                 /\ disk'[n].busy = disk[n].busy
      BY <1>0, <3>0, <3>3 DEF Kept
    <3>4. ASSUME NEW v \in {0, busy[m]}, disk' = [disk EXCEPT ![m].busy = v]
          PROVE  disk'[n].stamps <= Len(reboots[n]) /\ disk'[n].busy <= BusyMax
      BY <1>k, <3>0, <3>2, <3>4
    <3>5. CASE disk' = [disk EXCEPT ![m].stamps = Len(reboots[m])]
      BY <1>k, <3>0, <3>3, <3>5
    <3>6. ASSUME NEW v, disk' = [disk EXCEPT ![m].fails = v] \/ disk' = [disk EXCEPT ![m].alarm = v]
          PROVE  disk'[n].stamps <= Len(reboots[n]) /\ disk'[n].busy <= BusyMax
      BY <3>0, <3>1, <3>6, <3>7
    <3> QED BY <1>2, <3>4, <3>5, <3>6 DEF WriteBack
  <2> QED BY <2>1, <2>2 DEF DiskInv
<1>3. ASSUME NEW p \in Proc, DryAct(p) \/ Stamp(p) PROVE DiskInv'
  <2>1. disk' = disk /\ job[p].now \in Nat
    BY <1>3 DEF DryAct, Stamp, TypeOK, Job
  <2>2. \E m \in Mode : reboots' = [reboots EXCEPT ![m] = Append(reboots[m], job[p].now)]
    BY <1>3 DEF DryAct, Stamp, Set, Mode
  <2>3. PICK m \in Mode : reboots' = [reboots EXCEPT ![m] = Append(reboots[m], job[p].now)]
    BY <2>2
  <2>4. Len(Append(reboots[m], job[p].now)) = Len(reboots[m]) + 1
    BY <1>k, <2>1, AppendFacts
  <2>5. ASSUME NEW n \in Mode PROVE disk[n].stamps <= Len(reboots'[n])
    BY <1>0, <1>k, <2>3, <2>4
  <2> QED BY <1>k, <2>1, <2>5 DEF DiskInv
<1>4. ASSUME NEW p \in Proc, SelfReboot(p) PROVE DiskInv'
  <2>1. disk' = [m \in Mode |-> Contents(m)] /\ reboots' = reboots
    BY <1>4 DEF SelfReboot, files
  <2>2. \A m \in Mode : disk'[m].stamps = Len(reboots[m]) /\ disk'[m].busy = busy[m]
    BY <2>1 DEF Contents
  <2> QED BY <1>k, <2>1, <2>2 DEF DiskInv
<1>5. ASSUME HeadReset PROVE DiskInv'
  <2>1. disk' = disk /\ reboots' = [m \in Mode |-> SubSeq(reboots[m], 1, disk[m].stamps)]
    BY <1>5 DEF HeadReset
  <2>2. ASSUME NEW m \in Mode PROVE Len(reboots'[m]) = disk[m].stamps
    <3>1. disk[m].stamps \in 0 .. Len(reboots[m])
      BY <1>k
    <3> QED BY <1>k, <2>1, <3>1, PrefixFacts
  <2> QED BY <1>k, <2>1, <2>2 DEF DiskInv
<1> QED BY <1>1, <1>2, <1>3, <1>4, <1>5, DiskMoves

-----------------------------------------------------------------------------
(* The rounds, the stamps and the clock.                                   *)

(* Where a round can be after a step.                                      *)
LEMMA PcMoves ==
  ASSUME TypeOK, [Next]_vars, NEW p \in Proc
  PROVE  \/ job'[p] = job[p]
         \/ job'[p].pc \notin {"peers", "send"}
         \/ LimitPassed(p) \/ Stamp(p)
         \/ \E q \in Peers : PeerAnswers(p, q) \/ SendPeer(p, q)
<1>0. job \in [Proc -> Job]
  BY DEF TypeOK
<1> DEFINE Goal(r) == job'[p] = job[p] \/ r = p
<1>1. ASSUME NEW r \in Proc, NEW m \in Modes, Begin(r, m)
      PROVE  Goal(r) /\ job'[r].pc = "unit"
  BY <1>0, <1>1 DEF Begin
<1>2. ASSUME NEW r \in Proc, Ends(r)
      PROVE  Goal(r) /\ job'[r].pc = "idle"
  BY <1>0, <1>2 DEF Ends, Exit, Idle
<1>3. ASSUME NEW r \in Proc, Passes(r)
      PROVE  Goal(r) /\ job'[r].pc \notin {"peers", "send"}
  BY <1>0, <1>2, <1>3 DEF Passes, GoesOn, Goto
<1>4. ASSUME NEW r \in Proc, ProbeBusyTooLong(r)
      PROVE  Goal(r) /\ job'[r].pc = "count"
  BY <1>0, <1>4 DEF ProbeBusyTooLong, Goto
<1>5. ASSUME NEW r \in Proc, CountFailure(r)
      PROVE  Goal(r) /\ job'[r].pc \in {"idle", "limit"}
  BY <1>0, <1>5 DEF CountFailure, Goto, Exit, Idle
<1>6. ASSUME NEW r \in Proc, LimitPassed(r) \/ Stamp(r)
                             \/ \E q \in Peers : PeerAnswers(r, q) \/ SendPeer(r, q)
      PROVE  Goal(r)
  BY <1>0, <1>6 DEF LimitPassed, Stamp, PeerAnswers, SendPeer, Goto
<1>7. ASSUME HeadRestarts PROVE job'[p].pc = "idle"
  BY <1>7 DEF HeadRestarts, Idle
<1>8. ASSUME Still \/ Tick \/ (\E m \in Mode : ClearAlarm(m)) \/ \E m \in Modes : WriteBack(m)
      PROVE  job'[p] = job[p]
  BY <1>8 DEF Still, Tick, ClearAlarm, WriteBack
<1>9. ASSUME NEW r \in Proc,
             \/ UnitInactive(r) \/ ProbeOk(r) \/ ProbeBusy(r) \/ LimitExceeded(r)
             \/ DryAct(r) \/ Kill(r)
             \/ \E q \in Peers : PeerSilent(r, q)
      PROVE  Ends(r)
  BY <1>9 DEF UnitInactive, ProbeOk, ProbeBusy, BusyRound, LimitExceeded, DryAct, Kill,
              PeerSilent, RaiseAlarm, Ends, At
<1> QED
  BY <1>1, <1>2, <1>3, <1>4, <1>5, <1>6, <1>7, <1>8, <1>9, StepCases
     DEF SelfReboot, HeadReset

(* A power loss leaves the oldest of the stamps, and forgets the rest.     *)
LEMMA StampsLeft ==
  ASSUME TypeOK, DiskInv, HeadReset
  PROVE  \E n \in 0 .. Len(Stamps) :
           /\ Stamps' = SubSeq(Stamps, 1, n) /\ Len(Stamps') = n
           /\ DOMAIN Stamps' = 1 .. n /\ DOMAIN Stamps = 1 .. Len(Stamps)
           /\ \A i \in 1 .. n : Stamps'[i] = Stamps[i] /\ i \in DOMAIN Stamps
           /\ forgot' = forgot + Len(Stamps) - n
           /\ clock' = clock /\ orders' = orders
<1> DEFINE n == disk["real"].stamps
<1>1. n \in 0 .. Len(Stamps) /\ Stamps \in Seq(Nat)
  BY DEF TypeOK, Kept, DiskInv, Stamps, Mode
<1>2. Stamps' = SubSeq(Stamps, 1, n)
  BY DEF HeadReset, Stamps, Mode
<1>3. /\ forgot' = forgot + Len(Stamps) - n
      /\ clock' = clock /\ orders' = orders
  BY DEF HeadReset, HeadRestarts, Stamps
<1>4. DOMAIN Stamps = 1 .. Len(Stamps)
  BY <1>1
<1> HIDE DEF n
<1>5. /\ Len(SubSeq(Stamps, 1, n)) = n /\ DOMAIN SubSeq(Stamps, 1, n) = 1 .. n
      /\ \A i \in 1 .. n : SubSeq(Stamps, 1, n)[i] = Stamps[i] /\ i \in DOMAIN Stamps
  BY <1>1, PrefixFacts
<1> QED BY <1>1, <1>2, <1>3, <1>4, <1>5

(* The stamps, the clock and the history of orders change in few steps.    *)
LEMMA StampMoves ==
  ASSUME TypeOK, [Next]_vars
  PROVE  Stamps' = Stamps \/ HeadReset \/ \E p \in Proc : Stamp(p)
<1>1. ASSUME NEW p \in Proc, DryAct(p) PROVE Stamps' = Stamps
  BY <1>1 DEF DryAct, Set, Stamps, TypeOK, Mode
<1>2. ASSUME NEW p \in Proc, SelfReboot(p) PROVE Stamps' = Stamps
  BY <1>2 DEF SelfReboot, files, Stamps
<1>3. ASSUME NEW m \in Modes, WriteBack(m) PROVE Stamps' = Stamps
  BY <1>3 DEF WriteBack, files, Stamps
<1> QED
  BY <1>1, <1>2, <1>3, DiskMoves DEF Stamps

LEMMA ClockMoves ==
  ASSUME [Next]_vars
  PROVE  clock' = clock \/ Tick
<1>1. ASSUME NEW m \in Modes, WriteBack(m) \/ \E p \in Proc : Begin(p, m)
      PROVE  clock' = clock
  BY <1>1 DEF WriteBack, Begin
<1>2. ASSUME NEW p \in Proc, \/ Passes(p) \/ UnitInactive(p) \/ ProbeOk(p) \/ ProbeBusy(p)
                             \/ ProbeBusyTooLong(p) \/ CountFailure(p)
      PROVE  clock' = clock
  BY <1>2 DEF Passes, UnitInactive, ProbeOk, ProbeBusy, ProbeBusyTooLong, CountFailure
<1>3. ASSUME NEW p \in Proc, LimitExceeded(p) \/ LimitPassed(p) \/ SelfReboot(p) \/ Kill(p)
                             \/ DryAct(p) \/ Stamp(p)
      PROVE  clock' = clock
  BY <1>3 DEF LimitExceeded, LimitPassed, SelfReboot, Kill, HeadRestarts, RaiseAlarm,
              DryAct, Stamp
<1>4. ASSUME NEW p \in Proc, NEW q \in Peers,
             PeerAnswers(p, q) \/ PeerSilent(p, q) \/ SendPeer(p, q)
      PROVE  clock' = clock
  BY <1>4 DEF PeerAnswers, PeerSilent, SendPeer, RaiseAlarm
<1>5. ASSUME HeadReset \/ Still \/ \E m \in Mode : ClearAlarm(m)
      PROVE  clock' = clock
  BY <1>5 DEF HeadReset, Still, ClearAlarm, HeadRestarts
<1> QED
  BY <1>1, <1>2, <1>3, <1>4, <1>5, StepCases

LEMMA OrderMoves ==
  ASSUME [Next]_vars
  PROVE  \/ UNCHANGED hist
         \/ HeadReset
         \/ \E p \in Proc : Stamp(p) \/ SelfReboot(p) \/ \E q \in Peers : SendPeer(p, q)
<1> USE DEF hist
<1>1. ASSUME NEW m \in Modes, WriteBack(m) \/ \E p \in Proc : Begin(p, m)
      PROVE  UNCHANGED hist
  BY <1>1 DEF WriteBack, Begin
<1>2. ASSUME NEW p \in Proc, \/ Passes(p) \/ UnitInactive(p) \/ ProbeOk(p) \/ ProbeBusy(p)
                             \/ ProbeBusyTooLong(p) \/ CountFailure(p)
      PROVE  UNCHANGED hist
  BY <1>2 DEF Passes, UnitInactive, ProbeOk, ProbeBusy, ProbeBusyTooLong, CountFailure
<1>3. ASSUME NEW p \in Proc, LimitExceeded(p) \/ LimitPassed(p) \/ Kill(p) \/ DryAct(p)
                             \/ \E q \in Peers : PeerAnswers(p, q) \/ PeerSilent(p, q)
      PROVE  UNCHANGED hist
  BY <1>3 DEF LimitExceeded, LimitPassed, Kill, DryAct, PeerAnswers, PeerSilent, RaiseAlarm
<1>4. ASSUME Still \/ Tick \/ \E m \in Mode : ClearAlarm(m)
      PROVE  UNCHANGED hist
  BY <1>4 DEF Still, Tick, ClearAlarm
<1> QED
  BY <1>1, <1>2, <1>3, <1>4, StepCases

(* What a step does to the history of orders: nothing, or one more order   *)
(* with the youngest stamp, by the round that has just taken it.           *)
LEMMA OrdersGrow ==
  ASSUME TypeOK, SendInv, [Next]_vars
  PROVE  \/ orders' = orders
         \/ \E p \in Proc : /\ At(p, "send") /\ hit = {}
                            /\ orders' = Append(orders, OrderOf(p))
                            /\ Stamps' = Stamps /\ forgot' = forgot /\ clock' = clock
<1>1. ASSUME NEW p \in Proc, NEW q \in Peers, SendPeer(p, q)
      PROVE  /\ At(p, "send") /\ (orders' = orders \/ Ordered(p))
             /\ Stamps' = Stamps /\ forgot' = forgot /\ clock' = clock
  BY <1>1 DEF SendPeer, Stamps, files
<1>2. ASSUME NEW p \in Proc, SelfReboot(p)
      PROVE  /\ At(p, "send") /\ Ordered(p)
             /\ Stamps' = Stamps /\ forgot' = forgot /\ clock' = clock
  BY <1>2 DEF SelfReboot, HeadRestarts, Stamps, files
<1>3. ASSUME NEW p \in Proc, Ordered(p)
      PROVE  orders' = orders \/ (hit = {} /\ orders' = Append(orders, OrderOf(p)))
  BY <1>3 DEF Ordered, OrderOf
<1>4. ASSUME NEW p \in Proc, Stamp(p) PROVE orders' = orders
  BY <1>4 DEF Stamp
<1>5. ASSUME HeadReset PROVE orders' = orders
  BY <1>5 DEF HeadReset
<1> QED BY <1>1, <1>2, <1>3, <1>4, <1>5, OrderMoves DEF hist

(* No stamp and no order is younger than the round in progress.            *)
LEMMA TimeStep ==
  ASSUME TypeOK, LockInv, TimeInv, SendInv, DiskInv, [Next]_vars
  PROVE  TimeInv'
<1>0. /\ job \in [Proc -> Job] /\ clock \in Nat /\ Stamps \in Seq(Nat)
      /\ orders \in Seq(Order)
      /\ \A p \in Proc : job[p].now \in Nat
  BY DEF TypeOK, Job, Stamps, Mode
<1>1. /\ clock' \in Nat /\ clock <= clock'
  BY <1>0, ClockMoves DEF Tick
(* The rounds: one that goes on keeps its NOW, and is the one with the lock; *)
(* one that begins takes the clock.                                          *)
<1>2. ASSUME NEW p \in Proc, job'[p].pc # "idle"
      PROVE  \/ job'[p].now = clock /\ clock' = clock /\ Stamps' = Stamps /\ orders' = orders
             \/ job'[p].now = job[p].now /\ ~At(p, "idle")
  <2>1. ASSUME NEW m \in Mode, NEW r \in Proc, Starts(r, m)
        PROVE  \/ r = p /\ job'[p].now = clock
               \/ job'[p] = job[p]
    BY <1>0, <2>1 DEF Starts
  <2>2. ASSUME NEW r \in Proc, NEW step \in PCs, NEW peers \in SUBSET Peers,
               GoesOn(r, step, peers)
        PROVE  job'[p].now = job[p].now /\ ~At(p, "idle")
    BY <1>0, <1>2, <2>2 DEF GoesOn, Goto, At
  <2>3. ASSUME NEW r \in Proc, Ends(r) PROVE job'[p] = job[p]
    BY <1>0, <1>2, <2>3 DEF Ends, Exit, Idle
  <2>4. ~AllEnd
    BY <1>2 DEF AllEnd, Idle
  <2>5. CASE NoneMoves
    BY <1>2, <2>5 DEF NoneMoves, At
  <2>6. ASSUME NEW m \in Mode, NEW r \in Proc, Starts(r, m)
        PROVE  clock' = clock /\ Stamps' = Stamps /\ orders' = orders
    <3>1. lock = Free /\ job'[r].pc = "unit" /\ job[r].pc = "idle"
      BY <1>0, <2>6 DEF Starts, LockInv, At
    <3>2. \A t \in Proc : job[t].pc = "idle"
      BY <3>1 DEF LockInv, At
    <3>3. ~Tick
      BY <3>1 DEF Tick
    <3>4. ~HeadReset
      BY <3>1 DEF HeadReset, HeadRestarts, Idle
    <3>5. \A t \in Proc : ~Stamp(t) /\ ~SelfReboot(t) /\ \A q \in Peers : ~SendPeer(t, q)
      BY <3>2 DEF Stamp, TakeStamp, SelfReboot, SendPeer, At
    <3> QED BY <3>3, <3>4, <3>5, ClockMoves, StampMoves, OrderMoves DEF hist
  <2> QED BY <1>2, <2>1, <2>2, <2>3, <2>4, <2>5, <2>6, JobMoves DEF At
(* The stamps: an old one, or NOW of the round in progress.                 *)
<1>3. ASSUME NEW i \in DOMAIN Stamps'
      PROVE  \/ i \in DOMAIN Stamps /\ Stamps'[i] = Stamps[i] /\ Stamps[i] \in Nat
             \/ \E p \in Proc : ~At(p, "idle") /\ Stamps'[i] = job[p].now
  <2>0. \A k \in DOMAIN Stamps : Stamps[k] \in Nat
    BY <1>0
  <2>1. CASE Stamps' = Stamps
    BY <1>3, <2>0, <2>1
  <2>2. CASE HeadReset
    BY <1>3, <2>0, <2>2, StampsLeft
  <2>3. ASSUME NEW p \in Proc, Stamp(p)
        PROVE  \/ i \in DOMAIN Stamps /\ Stamps'[i] = Stamps[i]
               \/ ~At(p, "idle") /\ Stamps'[i] = job[p].now
    <3>1. Stamps' = Append(Stamps, job[p].now) /\ ~At(p, "idle") /\ job[p].now \in Nat
      BY <1>0, <2>3 DEF Stamp, Set, Stamps, TypeOK, Mode, At
    <3>2. /\ DOMAIN Stamps = 1 .. Len(Stamps) /\ DOMAIN Stamps' = 1 .. Len(Stamps) + 1
          /\ Len(Stamps) \in Nat
          /\ Stamps'[Len(Stamps) + 1] = job[p].now
          /\ \A k \in 1 .. Len(Stamps) : Stamps'[k] = Stamps[k]
      BY <1>0, <3>1, AppendFacts
    <3> QED BY <1>3, <3>1, <3>2
  <2> QED BY <2>0, <2>1, <2>2, <2>3, StampMoves
(* The orders likewise.                                                    *)
<1>4. ASSUME NEW k \in DOMAIN orders'
      PROVE  \/ k \in DOMAIN orders /\ orders'[k] = orders[k] /\ orders[k].now \in Nat
             \/ \E p \in Proc : ~At(p, "idle") /\ orders'[k].now = job[p].now
  <2>0. \A j \in DOMAIN orders : orders[j].now \in Nat
    BY OrderEntry
  <2>1. ASSUME NEW p \in Proc, At(p, "send"), orders' = Append(orders, OrderOf(p))
        PROVE  \/ k \in DOMAIN orders /\ orders'[k] = orders[k]
               \/ ~At(p, "idle") /\ orders'[k].now = job[p].now
    <3>1. /\ DOMAIN orders = 1 .. Len(orders) /\ DOMAIN orders' = 1 .. Len(orders) + 1
          /\ Len(orders) \in Nat
          /\ orders'[Len(orders) + 1] = OrderOf(p)
          /\ \A j \in 1 .. Len(orders) : orders'[j] = orders[j]
      BY <1>0, <2>1, AppendFacts, OrderOfType
    <3>2. OrderOf(p).now = job[p].now /\ ~At(p, "idle")
      BY <2>1 DEF OrderOf, At
    <3> QED BY <1>4, <3>1, <3>2
  <2> QED BY <1>4, <2>0, <2>1, OrdersGrow
<1>5. \A p, r \in Proc : ~At(p, "idle") /\ ~At(r, "idle") => p = r
  BY DEF LockInv
<1>6. \A i \in DOMAIN Stamps' : Stamps'[i] <= clock'
  <2> SUFFICES ASSUME NEW i \in DOMAIN Stamps' PROVE Stamps'[i] <= clock'
    OBVIOUS
  <2>1. CASE i \in DOMAIN Stamps /\ Stamps'[i] = Stamps[i] /\ Stamps[i] \in Nat
    <3>1. Stamps[i] <= clock
      BY <2>1 DEF TimeInv
    <3> QED BY <1>0, <1>1, <2>1, <3>1
  <2>2. ASSUME NEW p \in Proc, ~At(p, "idle"), Stamps'[i] = job[p].now
        PROVE  Stamps'[i] <= clock'
    <3>1. job[p].now <= clock /\ job[p].now \in Nat
      BY <1>0, <2>2 DEF TimeInv
    <3> QED BY <1>0, <1>1, <2>2, <3>1
  <2> QED BY <1>3, <2>1, <2>2
<1>7. \A k \in DOMAIN orders' : orders'[k].now <= clock'
  <2> SUFFICES ASSUME NEW k \in DOMAIN orders' PROVE orders'[k].now <= clock'
    OBVIOUS
  <2>1. CASE k \in DOMAIN orders /\ orders'[k] = orders[k] /\ orders[k].now \in Nat
    <3>1. orders[k].now <= clock
      BY <2>1 DEF TimeInv
    <3> QED BY <1>0, <1>1, <2>1, <3>1
  <2>2. ASSUME NEW p \in Proc, ~At(p, "idle"), orders'[k].now = job[p].now
        PROVE  orders'[k].now <= clock'
    <3>1. job[p].now <= clock /\ job[p].now \in Nat
      BY <1>0, <2>2 DEF TimeInv
    <3> QED BY <1>0, <1>1, <2>2, <3>1
  <2> QED BY <1>4, <2>1, <2>2
<1>8. ASSUME NEW p \in Proc, job'[p].pc # "idle"
      PROVE  /\ job'[p].now <= clock'
             /\ \A i \in DOMAIN Stamps' : Stamps'[i] <= job'[p].now
             /\ \A k \in DOMAIN orders' : orders'[k].now <= job'[p].now
  <2>1. CASE job'[p].now = clock /\ clock' = clock /\ Stamps' = Stamps /\ orders' = orders
    BY <1>0, <1>1, <1>6, <1>7, <2>1
  <2>2. CASE job'[p].now = job[p].now /\ ~At(p, "idle")
    <3>1. /\ job[p].now <= clock /\ job[p].now \in Nat
          /\ \A i \in DOMAIN Stamps : Stamps[i] <= job[p].now
          /\ \A k \in DOMAIN orders : orders[k].now <= job[p].now
      BY <1>0, <2>2 DEF TimeInv
    <3>2. job'[p].now <= clock'
      BY <1>0, <1>1, <2>2, <3>1
    <3>3. ASSUME NEW i \in DOMAIN Stamps' PROVE Stamps'[i] <= job[p].now
      BY <1>3, <1>5, <2>2, <3>1
    <3>4. ASSUME NEW k \in DOMAIN orders' PROVE orders'[k].now <= job[p].now
      BY <1>4, <1>5, <2>2, <3>1
    <3> QED BY <2>2, <3>2, <3>3, <3>4
  <2> QED BY <1>2, <1>8, <2>1, <2>2
<1> QED BY <1>6, <1>7, <1>8 DEF TimeInv, At

-----------------------------------------------------------------------------
(* The rate limit. *)

(* A stamp that the count of recent stamps allows keeps the stamps spaced. *)
LEMMA SpacedAppend ==
  ASSUME NEW s \in Seq(Nat), NEW n \in Nat, NEW w \in Nat, NEW max \in Nat \ {0},
         \A i, j \in DOMAIN s : i <= j => s[i] <= s[j],
         Limiter!Spaced(s, w, max),
         Cardinality(Recent(s, n, w)) < max
  PROVE  Limiter!Spaced(Append(s, n), w, max)
<1> DEFINE t == Append(s, n)
<1>1. Len(s) \in Nat /\ DOMAIN s = 1 .. Len(s) /\ DOMAIN t = 1 .. Len(s) + 1
  OBVIOUS
<1>2. t[Len(s) + 1] = n /\ \A i \in 1 .. Len(s) : t[i] = s[i]
  OBVIOUS
<1>3. ASSUME NEW i \in 1 .. Len(s), Len(s) + 1 - i >= max
      PROVE  n - s[i] >= w
  <2>1. SUFFICES ASSUME s[i] > n - w PROVE FALSE
    BY <1>1
  <2>2. i .. Len(s) \subseteq Recent(s, n, w)
    <3>1. ASSUME NEW k \in i .. Len(s) PROVE s[k] > n - w /\ k \in 1 .. Len(s)
      <4>1. k \in 1 .. Len(s) /\ i <= k
        BY <1>1
      <4>2. s[i] <= s[k] /\ s[i] \in Nat /\ s[k] \in Nat
        <5>1. i \in DOMAIN s /\ k \in DOMAIN s
          BY <1>1, <4>1
        <5>2. s[i] \in Nat /\ s[k] \in Nat
          BY SMTT(30), <5>1
        <5> QED BY <4>1, <5>1, <5>2
      <4>3. s[k] > n - w
        BY SMTT(30), <2>1, <4>2
      <4> QED BY <4>1, <4>3
    <3> QED BY <1>1, <3>1 DEF Recent
  <2>3. IsFiniteSet(1 .. Len(s)) /\ Recent(s, n, w) \subseteq 1 .. Len(s)
    BY <1>1, FS_Interval DEF Recent
  <2>4. IsFiniteSet(Recent(s, n, w))
    BY <2>3, FS_Subset
  <2>5. Cardinality(i .. Len(s)) <= Cardinality(Recent(s, n, w))
    BY <2>2, <2>4, FS_Subset
  <2>6. Cardinality(i .. Len(s)) = Len(s) - i + 1
    BY <1>1, FS_Interval
  <2>7. Cardinality(Recent(s, n, w)) \in Nat
    BY <2>4, FS_CardinalityType
  <2> QED BY SMTT(30), <1>1, <1>3, <2>5, <2>6, <2>7
<1>4. SUFFICES ASSUME NEW i \in DOMAIN t, NEW j \in DOMAIN t, j - i >= max
               PROVE  t[j] - t[i] >= w
  BY DEF Limiter!Spaced
<1>5. CASE j = Len(s) + 1
  BY SMTT(30), <1>1, <1>2, <1>3, <1>4, <1>5
<1>6. CASE j # Len(s) + 1
  BY SMTT(30), <1>1, <1>2, <1>4, <1>6 DEF Limiter!Spaced
<1> QED BY <1>5, <1>6

LEMMA SpacedPrefix ==
  ASSUME NEW s, NEW t, NEW w, NEW max, Limiter!Spaced(s, w, max),
         \A i \in DOMAIN t : i \in DOMAIN s /\ t[i] = s[i]
  PROVE  Limiter!Spaced(t, w, max)
  BY DEF Limiter!Spaced

LEMMA StampStep ==
  ASSUME TypeOK, LockInv, TimeInv, StampInv, DiskInv, [Next]_vars
  PROVE  StampInv'
<1>0. /\ job \in [Proc -> Job] /\ Stamps \in Seq(Nat) /\ W1 \in Nat /\ W2 \in Nat
      /\ Max1 \in Nat \ {0} /\ Max2 \in Nat \ {0}
      /\ \A p \in Proc : job[p].now \in Nat
  BY DEF TypeOK, Job, Stamps, Mode
<1>1. ASSUME NEW p \in Proc, Stamp(p) PROVE StampInv'
  <2>1. /\ Stamps' = Append(Stamps, job[p].now)
        /\ job' = [job EXCEPT ![p] = [pc |-> "send", now |-> job[p].now,
                                      mode |-> job[p].mode, left |-> Peers]]
        /\ At(p, "peers") /\ ModeOf(p) = "real"
    BY <1>1 DEF Stamp, Goto, Set, Stamps, TypeOK, Mode
  <2>2. WithinLimit(Stamps, job[p].now)
    BY <2>1 DEF StampInv
  <2>3. \A i \in DOMAIN Stamps : Stamps[i] <= job[p].now
    BY <2>1 DEF TimeInv, At
  <2>4. \A i, j \in DOMAIN Stamps' : i <= j => Stamps'[i] <= Stamps'[j]
    <3>1. \A i, j \in DOMAIN Stamps : i <= j => Stamps[i] <= Stamps[j]
      BY DEF StampInv
    <3> DEFINE x == job[p].now
               t == Append(Stamps, x)
    <3>2. /\ DOMAIN t = 1 .. Len(Stamps) + 1
          /\ DOMAIN Stamps = 1 .. Len(Stamps) /\ Len(Stamps) \in Nat
          /\ t[Len(Stamps) + 1] = x
          /\ \A i \in 1 .. Len(Stamps) : t[i] = Stamps[i]
      BY <1>0, AppendFacts
    <3> HIDE DEF t
    <3>3. SUFFICES ASSUME NEW i \in DOMAIN t, NEW j \in DOMAIN t, i <= j PROVE t[i] <= t[j]
      BY <2>1 DEF t
    <3>4. CASE j = Len(Stamps) + 1 /\ i = j
      BY <1>0, <3>2, <3>4
    <3>5. CASE j = Len(Stamps) + 1 /\ i # j
      <4>1. i \in 1 .. Len(Stamps)
        BY <3>2, <3>5
      <4> QED BY <2>3, <3>2, <3>5, <4>1
    <3>6. CASE j # Len(Stamps) + 1
      <4>1. i \in 1 .. Len(Stamps) /\ j \in 1 .. Len(Stamps)
        BY <3>2, <3>3, <3>6
      <4> QED BY <3>1, <3>2, <3>3, <4>1
    <3> QED BY <3>4, <3>5, <3>6
  <2>5. Limiter!Spaced(Stamps', W1, Max1) /\ Limiter!Spaced(Stamps', W2, Max2)
    BY <1>0, <2>1, <2>2, SpacedAppend DEF StampInv, WithinLimit
  <2>6. \A r \in Proc : ~(job'[r].pc = "peers")
    BY <1>0, <2>1 DEF LockInv, At
  <2> QED BY <2>4, <2>5, <2>6 DEF StampInv, At, ModeOf
<1>2. CASE Stamps' = Stamps
  <2>1. ASSUME NEW p \in Proc, job'[p].pc = "peers", job'[p].mode = "real"
        PROVE  WithinLimit(Stamps, job'[p].now)
    <3>1. ASSUME LimitPassed(p) PROVE WithinLimit(Stamps, job'[p].now)
      BY <1>0, <2>1, <3>1 DEF LimitPassed, Goto, Stamps, ModeOf
    <3>2. ASSUME NEW q \in Peers, PeerAnswers(p, q) PROVE WithinLimit(Stamps, job'[p].now)
      BY <1>0, <2>1, <3>2 DEF PeerAnswers, Goto, ModeOf, StampInv
    <3>3. CASE job'[p] = job[p]
      BY <2>1, <3>3 DEF StampInv, At, ModeOf
    <3>4. ASSUME Stamp(p) \/ \E q \in Peers : SendPeer(p, q) PROVE FALSE
      BY <1>0, <2>1, <3>4 DEF Stamp, SendPeer, Goto
    <3> QED BY <2>1, <3>1, <3>2, <3>3, <3>4, PcMoves
  <2> QED BY <1>2, <2>1 DEF StampInv, At, ModeOf, WithinLimit
<1>3. CASE HeadReset
  <2>1. PICK n \in 0 .. Len(Stamps) :
          /\ DOMAIN Stamps' = 1 .. n
          /\ \A i \in 1 .. n : Stamps'[i] = Stamps[i] /\ i \in DOMAIN Stamps
    BY <1>3, StampsLeft
  <2>2. \A i, j \in DOMAIN Stamps' : i <= j => Stamps'[i] <= Stamps'[j]
    BY <2>1 DEF StampInv
  <2>5. Limiter!Spaced(Stamps, W1, Max1) /\ Limiter!Spaced(Stamps, W2, Max2)
    BY DEF StampInv
  <2>3. Limiter!Spaced(Stamps', W1, Max1) /\ Limiter!Spaced(Stamps', W2, Max2)
    BY <2>1, <2>5, SpacedPrefix
  <2>4. \A p \in Proc : job'[p].pc = "idle"
    BY <1>3 DEF HeadReset, HeadRestarts, Idle
  <2> QED BY <2>2, <2>3, <2>4 DEF StampInv, At
<1> QED
  BY <1>1, <1>2, <1>3, StampMoves

-----------------------------------------------------------------------------
(* The orders. *)

LEMMA SendStep ==
  ASSUME TypeOK, LockInv, OrderInv, SendInv, [Next]_vars
  PROVE  SendInv'
<1>0. /\ job \in [Proc -> Job] /\ Stamps \in Seq(Nat) /\ Rank0 \notin Peers
      /\ \A p \in Proc : job[p].now \in Nat /\ job[p].left \subseteq Peers
      /\ orders \in Seq(Order) /\ forgot \in Nat
  BY NodesAssumption DEF TypeOK, Job, Stamps, Mode
<1> DEFINE Goal(p) ==
      /\ job'[p].mode = "real"
      /\ Len(Stamps') > 0 /\ Stamps'[Len(Stamps')] = job'[p].now
      /\ Rank0 \notin hit'
      /\ Peers \subseteq hit' \union lost' \union job'[p].left
      /\ hit' = {} => \A k \in DOMAIN orders' : orders'[k].serial < Len(Stamps') + forgot'
<1>1. ASSUME NEW p \in Proc, Stamp(p) PROVE Goal(p)
  <2>1. /\ Stamps' = Append(Stamps, job[p].now)
        /\ job'[p].now = job[p].now /\ job'[p].mode = "real" /\ job'[p].left = Peers
        /\ hit' = {} /\ orders' = orders /\ forgot' = forgot
    BY <1>0, <1>1 DEF Stamp, Goto, Set, Stamps, TypeOK, Mode, ModeOf
  <2>2. /\ Len(Stamps') = Len(Stamps) + 1 /\ Len(Stamps) \in Nat
        /\ Stamps'[Len(Stamps) + 1] = job[p].now
    BY <1>0, <2>1, AppendFacts
  <2>3. \A k \in DOMAIN orders : orders[k].serial <= Len(Stamps) + forgot /\ orders[k].serial \in Nat
    BY OrderEntry DEF OrderInv
  <2>4. \A k \in DOMAIN orders' : orders'[k].serial < Len(Stamps') + forgot'
    BY <1>0, <2>1, <2>2, <2>3
  <2> QED BY <2>1, <2>2, <2>4
<1>2. ASSUME NEW p \in Proc, NEW q \in Peers, SendPeer(p, q) PROVE Goal(p)
  <2>1. /\ At(p, "send")
        /\ Stamps' = Stamps /\ forgot' = forgot
        /\ job'[p].now = job[p].now /\ job'[p].mode = job[p].mode
        /\ job'[p].left = job[p].left \ {q}
    BY <1>0, <1>2 DEF SendPeer, Goto, Stamps, files
  <2>2. CASE q \in reachable
    <3>1. hit' = hit \union {q} /\ lost' = lost
      BY <1>2, <2>2 DEF SendPeer
    <3>2. hit' # {} /\ Rank0 \notin hit' /\ Peers \subseteq hit' \union lost' \union job'[p].left
      BY <1>0, <2>1, <3>1 DEF SendInv
    <3> QED BY <2>1, <3>2 DEF SendInv, ModeOf
  <2>3. CASE q \notin reachable
    BY <1>0, <1>2, <2>1, <2>3 DEF SendPeer, SendInv, ModeOf
  <2> QED BY <2>2, <2>3
<1>3. ASSUME NEW p \in Proc, job'[p] = job[p], At(p, "send") PROVE Goal(p)
  <2>1. lock = p
    BY <1>3 DEF LockInv, At
  <2>2. ASSUME NEW r \in Proc, Stamp(r) \/ SelfReboot(r) \/ \E q \in Peers : SendPeer(r, q)
        PROVE  r = p
    BY <2>1, <2>2 DEF LockInv, At, Stamp, SelfReboot, SendPeer
  <2>3. ~Stamp(p)
    BY <1>3 DEF Stamp, At
  <2>4. ~SelfReboot(p) /\ ~HeadReset
    BY <1>3 DEF SelfReboot, HeadReset, HeadRestarts, At, Idle
  <2>5. ASSUME NEW q \in Peers, SendPeer(p, q) PROVE FALSE
    BY <1>0, <1>3, <2>5 DEF SendPeer, Goto, At
  <2>6. Stamps' = Stamps
    BY <2>2, <2>3, <2>4, StampMoves
  <2>7. UNCHANGED hist
    BY <2>2, <2>3, <2>4, <2>5, OrderMoves
  <2> QED BY <1>3, <2>6, <2>7 DEF SendInv, hist, ModeOf
<1>4. ASSUME NEW p \in Proc, job'[p].pc = "send" PROVE Goal(p)
  <2>1. ASSUME LimitPassed(p) \/ \E q \in Peers : PeerAnswers(p, q) PROVE FALSE
    BY <1>0, <1>4, <2>1 DEF LimitPassed, PeerAnswers, Goto
  <2> QED BY <1>1, <1>2, <1>3, <1>4, <2>1, PcMoves DEF At
<1> QED BY <1>4 DEF SendInv, At, ModeOf

(* Before a round's first order, every earlier order has a stamp of its    *)
(* own, and the round has the youngest.                                    *)
LEMMA SerialsGrow ==
  ASSUME TypeOK, SendInv, OrderInv, NEW p \in Proc, At(p, "send"), hit = {},
         NEW i \in DOMAIN orders
  PROVE  (Len(Stamps) + forgot) - orders[i].serial >= (Len(orders) + 1) - i
<1> DEFINE n == Len(orders)
           a == orders[n].serial
           b == orders[i].serial
           c == Len(Stamps) + forgot
<1>1. n \in Nat /\ DOMAIN orders = 1 .. n /\ c \in Nat
  BY DEF TypeOK, Stamps, Mode
<1>2. n \in DOMAIN orders /\ i <= n
  BY <1>1
<1>3. a - b >= n - i
  BY <1>2 DEF OrderInv
<1>4. a < c
  BY <1>2 DEF SendInv
<1>5. a \in Nat /\ b \in Nat
  BY <1>2, OrderEntry
<1> HIDE DEF n, a, b, c
<1>6. c - b >= (n + 1) - i
  BY <1>1, <1>3, <1>4, <1>5
<1> QED BY <1>6 DEF n, b, c

(* A round's first order belongs to the youngest stamp, which no earlier   *)
(* order has.                                                              *)
LEMMA NewOrder ==
  ASSUME TypeOK, TimeInv, SendInv, OrderInv, NEW p \in Proc, At(p, "send"), hit = {},
         orders' = Append(orders, OrderOf(p)), Stamps' = Stamps, forgot' = forgot
  PROVE  OrderInv'
<1> DEFINE o == OrderOf(p)
           n == Len(orders)
           L == Len(Stamps)
<1>0. /\ Stamps \in Seq(Nat) /\ orders \in Seq(Order) /\ o \in Order
      /\ forgot \in Nat /\ L \in Nat /\ DOMAIN Stamps = 1 .. L
  BY OrderOfType DEF TypeOK, Stamps, Mode
<1>1. o.now = job[p].now /\ o.forgot = forgot /\ o.serial = L + forgot
  BY DEF OrderOf, Stamps
<1>a. orders' = Append(orders, o)
  OBVIOUS
<1> HIDE DEF o
<1>2. /\ n \in Nat /\ DOMAIN orders = 1 .. n /\ DOMAIN orders' = 1 .. n + 1
      /\ orders'[n + 1] = o
      /\ \A i \in 1 .. n : orders'[i] = orders[i]
  BY <1>0, <1>a, AppendFacts
<1> HIDE DEF n, L
<1>3. /\ L > 0 /\ Stamps[L] = job[p].now
      /\ \A k \in 1 .. n : orders[k].serial < L + forgot
  BY <1>2 DEF SendInv, L
<1>4. ASSUME NEW k \in 1 .. n + 1
      PROVE  LET place == orders'[k].serial - orders'[k].forgot IN
             /\ place >= 1 /\ orders'[k].forgot <= forgot
             /\ orders'[k].serial <= L + forgot
             /\ place <= L => orders'[k].now <= Stamps[place]
             /\ orders'[k].forgot = forgot => place <= L /\ Stamps[place] = orders'[k].now
  <2>1. CASE k = n + 1
    <3>1. orders'[k].serial - orders'[k].forgot = L /\ job[p].now \in Nat
      BY <1>0, <1>1, <1>2, <2>1 DEF TypeOK, Job
    <3> QED BY <1>0, <1>1, <1>2, <1>3, <2>1, <3>1
  <2>2. CASE k # n + 1
    <3>1. k \in 1 .. n /\ orders'[k] = orders[k]
      BY <1>2, <2>2
    <3> QED BY <1>2, <3>1 DEF OrderInv, L
  <2> QED BY <2>1, <2>2
<1>5. ASSUME NEW i \in 1 .. n + 1, NEW j \in 1 .. n + 1, i <= j
      PROVE  /\ orders'[j].serial - orders'[i].serial >= j - i
             /\ orders'[i].forgot <= orders'[j].forgot
  <2>1. CASE j # n + 1
    <3>1. i \in 1 .. n /\ j \in 1 .. n
      BY <1>2, <1>5, <2>1
    <3> QED BY <1>2, <1>5, <3>1 DEF OrderInv
  <2>2. CASE i = n + 1
    <3>1. i = j /\ o.serial \in Nat /\ o.forgot \in Nat
      BY <1>0, <1>2, <1>5, <2>2 DEF Order
    <3> QED BY <1>2, <2>2, <3>1
  <2>3. CASE j = n + 1 /\ i # n + 1
    <3>1. i \in 1 .. n
      BY <1>2, <2>3
    <3>2. (L + forgot) - orders[i].serial >= (n + 1) - i /\ orders[i].forgot <= forgot
      BY <1>2, <3>1, SerialsGrow DEF OrderInv, L, n
    <3>3. /\ orders'[j].serial = L + forgot /\ orders'[j].forgot = forgot
          /\ orders'[i] = orders[i] /\ j = n + 1
      BY <1>1, <1>2, <2>3, <3>1
    <3>4. orders'[j].serial - orders'[i].serial >= j - i
      <4>1. orders[i].serial \in Nat /\ i \in Nat
        BY <1>2, <3>1, OrderEntry
      <4> QED BY <1>0, <1>2, <3>2, <3>3, <4>1
    <3> QED BY <3>2, <3>3, <3>4
  <2> QED BY <2>1, <2>2, <2>3
<1> QED BY <1>2, <1>4, <1>5 DEF OrderInv, L

LEMMA OrderStep ==
  ASSUME TypeOK, LockInv, TimeInv, SendInv, OrderInv, DiskInv, [Next]_vars
  PROVE  OrderInv'
<1>0. /\ job \in [Proc -> Job] /\ Stamps \in Seq(Nat) /\ forgot \in Nat
      /\ \A p \in Proc : job[p].now \in Nat
  BY DEF TypeOK, Job, Stamps, Mode
<1>1. ASSUME NEW p \in Proc, Stamp(p) PROVE OrderInv'
  <2>1. Stamps' = Append(Stamps, job[p].now) /\ orders' = orders /\ forgot' = forgot
    BY <1>1 DEF Stamp, Set, Stamps, TypeOK, Mode
  <2>2. /\ Len(Stamps) \in Nat /\ Len(Stamps') = Len(Stamps) + 1
        /\ Stamps'[Len(Stamps) + 1] = job[p].now
        /\ \A i \in 1 .. Len(Stamps) : Stamps'[i] = Stamps[i]
    BY <1>0, <2>1, AppendFacts
  <2>3. \A k \in DOMAIN orders : orders[k].now <= job[p].now
    BY <1>1 DEF Stamp, TimeInv, At
  <2>4. ASSUME NEW k \in DOMAIN orders
        PROVE  LET place == orders[k].serial - orders[k].forgot IN
               /\ place >= 1 /\ orders[k].forgot <= forgot
               /\ orders[k].serial <= Len(Stamps') + forgot
               /\ place <= Len(Stamps') => orders[k].now <= Stamps'[place]
               /\ orders[k].forgot = forgot =>
                    place <= Len(Stamps') /\ Stamps'[place] = orders[k].now
    <3> DEFINE place == orders[k].serial - orders[k].forgot
    <3>1. orders[k].serial \in Nat /\ orders[k].forgot \in Nat
      BY OrderEntry
    <3>2. /\ place >= 1 /\ orders[k].forgot <= forgot
          /\ orders[k].serial <= Len(Stamps) + forgot
          /\ place <= Len(Stamps) => orders[k].now <= Stamps[place]
          /\ orders[k].forgot = forgot => place <= Len(Stamps) /\ Stamps[place] = orders[k].now
      BY DEF OrderInv
    <3>3. place \in Int
      BY <3>1
    <3> HIDE DEF place
    <3>4. place <= Len(Stamps) => Stamps'[place] = Stamps[place]
      BY <2>2, <3>2, <3>3
    <3>5. place <= Len(Stamps') => place <= Len(Stamps) \/ place = Len(Stamps) + 1
      BY <2>2, <3>3
    <3>6. place <= Len(Stamps') => orders[k].now <= Stamps'[place]
      BY <2>2, <2>3, <3>2, <3>4, <3>5
    <3>7. orders[k].forgot = forgot =>
            place <= Len(Stamps') /\ Stamps'[place] = orders[k].now
      BY <2>2, <3>2, <3>3, <3>4
    <3>8. orders[k].serial <= Len(Stamps') + forgot
      BY <1>0, <2>2, <3>1, <3>2
    <3> QED BY <3>2, <3>6, <3>7, <3>8 DEF place
  <2> QED BY <2>1, <2>4 DEF OrderInv
<1>2. ASSUME NEW p \in Proc, At(p, "send"), hit = {}, orders' = Append(orders, OrderOf(p)),
             Stamps' = Stamps, forgot' = forgot
      PROVE  OrderInv'
  BY <1>2, NewOrder
<1>3. CASE HeadReset
  <2>1. PICK n \in 0 .. Len(Stamps) :
          /\ Len(Stamps') = n /\ \A i \in 1 .. n : Stamps'[i] = Stamps[i]
          /\ forgot' = forgot + Len(Stamps) - n /\ orders' = orders
    BY <1>3, StampsLeft
  <2>2. Len(Stamps) \in Nat
    BY <1>0
  <2>3. ASSUME NEW k \in DOMAIN orders
        PROVE  LET place == orders[k].serial - orders[k].forgot IN
               /\ place >= 1 /\ orders[k].forgot <= forgot'
               /\ orders[k].serial <= n + forgot'
               /\ place <= n => orders[k].now <= Stamps'[place]
               /\ orders[k].forgot = forgot' =>
                    place <= n /\ Stamps'[place] = orders[k].now
    <3> DEFINE place == orders[k].serial - orders[k].forgot
    <3>1. orders[k].serial \in Nat /\ orders[k].forgot \in Nat
      BY OrderEntry
    <3>2. /\ place >= 1 /\ orders[k].forgot <= forgot
          /\ orders[k].serial <= Len(Stamps) + forgot
          /\ place <= Len(Stamps) => orders[k].now <= Stamps[place]
          /\ orders[k].forgot = forgot => place <= Len(Stamps) /\ Stamps[place] = orders[k].now
      BY DEF OrderInv
    <3>3. place \in Int
      BY <3>1
    <3> HIDE DEF place
    <3>4. place <= n => place <= Len(Stamps) /\ Stamps'[place] = Stamps[place]
      BY <2>1, <2>2, <3>2, <3>3
    <3>5. orders[k].forgot <= forgot' /\ orders[k].serial <= n + forgot'
      BY <1>0, <2>1, <2>2, <3>1, <3>2
    <3>6. orders[k].forgot = forgot' => orders[k].forgot = forgot /\ n = Len(Stamps)
      BY <1>0, <2>1, <2>2, <3>1, <3>2
    <3>7. place <= n => orders[k].now <= Stamps'[place]
      BY <3>2, <3>4
    <3>8. orders[k].forgot = forgot' => place <= n /\ Stamps'[place] = orders[k].now
      BY <3>2, <3>4, <3>6
    <3> QED BY <3>2, <3>5, <3>7, <3>8 DEF place
  <2> QED BY <2>1, <2>3 DEF OrderInv
<1>4. CASE orders' = orders /\ Stamps' = Stamps /\ forgot' = forgot
  BY <1>4 DEF OrderInv
<1>5. ASSUME ~HeadReset PROVE forgot' = forgot
  BY <1>5, OrderMoves DEF hist, Stamp, SelfReboot, SendPeer
<1> QED
  BY <1>1, <1>2, <1>3, <1>4, <1>5, OrdersGrow, StampMoves

(* The rate limit of the orders.  The new order is the n-th; between the   *)
(* i-th and it the file had at least n - i stamps, of which it has at      *)
(* least max left, and those are spaced.                                   *)
LEMMA NewOrderSpaced ==
  ASSUME TypeOK, TimeInv, SendInv, OrderInv, NEW p \in Proc, At(p, "send"),
         hit = {}, orders' = Append(orders, OrderOf(p)), Stamps' = Stamps,
         forgot' = forgot, NEW w \in Nat, NEW max \in Nat \ {0}, Limiter!Spaced(Stamps, w, max),
         OrdersSpaced(w, max)
  PROVE  OrdersSpaced(w, max)'
<1> DEFINE o == OrderOf(p)
           n == Len(orders)
           L == Len(Stamps)
<1>0. /\ Stamps \in Seq(Nat) /\ orders \in Seq(Order) /\ o \in Order
      /\ forgot \in Nat /\ L \in Nat /\ clock \in Nat /\ DOMAIN Stamps = 1 .. L
  BY OrderOfType DEF TypeOK, Stamps, Mode
<1>1. /\ o.now = job[p].now /\ o.at = clock /\ o.forgot = forgot /\ o.serial = L + forgot
  BY DEF OrderOf, Stamps
<1>a. orders' = Append(orders, o)
  OBVIOUS
<1> HIDE DEF o
<1>2. /\ n \in Nat /\ DOMAIN orders = 1 .. n /\ DOMAIN orders' = 1 .. n + 1
      /\ orders'[n + 1] = o
      /\ \A i \in 1 .. n : orders'[i] = orders[i]
  BY <1>0, <1>a, AppendFacts
<1> HIDE DEF n, L
<1>3. L > 0 /\ Stamps[L] = job[p].now /\ job[p].now <= clock
  BY DEF SendInv, TimeInv, At, L
<1>4. ASSUME NEW i \in 1 .. n, n + 1 - i >= max + (forgot - orders[i].forgot)
      PROVE  clock - orders[i].now >= w
  <2> DEFINE s == orders[i].serial
             f == orders[i].forgot
  <2>1. s \in Nat /\ f \in Nat /\ orders[i].now \in Nat
    BY <1>2, OrderEntry
  <2>2. s - f >= 1 /\ f <= forgot /\ (s - f <= L => orders[i].now <= Stamps[s - f])
    BY <1>2 DEF OrderInv, L
  <2>3. (L + forgot) - s >= (n + 1) - i
    BY <1>2, SerialsGrow DEF L, n
  <2>4. n + 1 - i >= max + (forgot - f)
    BY <1>4
  <2> HIDE DEF s, f
  <2>5. L - (s - f) >= max /\ s - f \in 1 .. L /\ L \in 1 .. L
    BY <1>0, <1>2, <1>3, <2>1, <2>2, <2>3, <2>4
  <2>6. Stamps[L] - Stamps[s - f] >= w
    BY <1>0, <2>5 DEF Limiter!Spaced
  <2>7. Stamps[s - f] \in Nat /\ Stamps[L] \in Nat
    BY <1>0, <2>5
  <2>8. orders[i].now <= Stamps[s - f]
    BY <2>2, <2>5
  <2> DEFINE x == Stamps[L]
             y == Stamps[s - f]
             z == orders[i].now
  <2>9. x \in Nat /\ y \in Nat /\ z \in Nat /\ x - y >= w /\ z <= y /\ x <= clock
    BY <1>3, <2>1, <2>6, <2>7, <2>8
  <2> HIDE DEF x, y, z
  <2>10. clock - z >= w
    BY <1>0, <2>9
  <2> QED BY <2>10 DEF z
<1> SUFFICES ASSUME NEW i \in 1 .. n + 1, NEW j \in 1 .. n + 1, i < j,
                    j - i >= max + (orders'[j].forgot - orders'[i].forgot)
             PROVE  orders'[j].at - orders'[i].now >= w
  BY <1>2 DEF OrdersSpaced
<1>5. i \in 1 .. n /\ orders'[i] = orders[i]
  BY <1>2
<1>6. CASE j = n + 1
  BY <1>1, <1>2, <1>4, <1>5, <1>6
<1>7. CASE j # n + 1
  <2>1. j \in 1 .. n /\ orders'[j] = orders[j]
    BY <1>2, <1>7
  <2> QED BY <1>2, <1>5, <2>1 DEF OrdersSpaced
<1> QED BY <1>6, <1>7

LEMMA RateStep ==
  ASSUME TypeOK, TimeInv, StampInv, SendInv, OrderInv, RateLimit, [Next]_vars
  PROVE  RateLimit'
<1>1. CASE orders' = orders
  BY <1>1 DEF RateLimit, OrdersSpaced
<1>2. ASSUME NEW p \in Proc, At(p, "send"), hit = {}, orders' = Append(orders, OrderOf(p)),
             Stamps' = Stamps, forgot' = forgot
      PROVE  RateLimit'
  <2>1. OrdersSpaced(W1, Max1)'
    BY <1>2, NewOrderSpaced DEF RateLimit, StampInv
  <2>2. OrdersSpaced(W2, Max2)'
    BY <1>2, NewOrderSpaced DEF RateLimit, StampInv
  <2> QED BY <2>1, <2>2 DEF RateLimit
<1> QED BY <1>1, <1>2, OrdersGrow

LEMMA WorkersStep ==
  ASSUME TypeOK, SendInv, WorkersFirst, [Next]_vars
  PROVE  WorkersFirst'
<1>0. Rank0 \notin Peers /\ hit \subseteq Nodes /\ lost \subseteq Peers
  BY NodesAssumption DEF TypeOK
<1>1. ASSUME NEW p \in Proc, Stamp(p) PROVE WorkersFirst'
  BY <1>1 DEF Stamp, WorkersFirst
<1>2. ASSUME NEW p \in Proc, NEW q \in Peers, SendPeer(p, q) PROVE WorkersFirst'
  <2>1. Rank0 \notin hit
    BY <1>2 DEF SendPeer, SendInv
  <2> QED BY <1>0, <1>2, <2>1 DEF SendPeer, WorkersFirst
<1>3. ASSUME NEW p \in Proc, SelfReboot(p) PROVE WorkersFirst'
  <2>1. Peers \subseteq hit \union lost
    BY <1>3 DEF SelfReboot, SendInv
  <2> QED BY <1>0, <1>3, <2>1 DEF SelfReboot, WorkersFirst, Nodes
<1>4. CASE UNCHANGED hist
  BY <1>4 DEF hist, WorkersFirst
<1>5. CASE HeadReset
  BY <1>5 DEF HeadReset, WorkersFirst
<1> QED
  BY <1>1, <1>2, <1>3, <1>4, <1>5, OrderMoves

-----------------------------------------------------------------------------
(* The inductive invariant and what follows from it.                       *)

LEMMA InitInv == Init => IInv
<1> SUFFICES ASSUME Init PROVE IInv
  OBVIOUS
<1>1. TypeOK
  BY InitType
<1>2. LockInv /\ SendInv /\ WorkersFirst
  BY DEF Init, LockInv, SendInv, WorkersFirst, At, Idle
<1>3. JudgeInv
  BY DEF Init, JudgeInv, At, Idle
<1>4. TimeInv /\ OrderInv /\ RateLimit
  BY DEF Init, TimeInv, OrderInv, RateLimit, OrdersSpaced, Stamps, At, Idle, Mode
<1>5. StampInv
  BY DEF Init, StampInv, Stamps, At, Idle, Mode, Limiter!Spaced
<1>6. DiskInv
  BY DEF Init, DiskInv
<1> QED BY <1>1, <1>2, <1>3, <1>4, <1>5, <1>6 DEF IInv

LEMMA InvStep == IInv /\ [Next]_vars => IInv'
<1> SUFFICES ASSUME IInv, [Next]_vars PROVE IInv'
  OBVIOUS
<1>1. CounterInv /\ JudgedInv
  BY DEF IInv, JudgeInv, CounterInv, JudgedInv
<1>2. CounterInv' /\ JudgedInv'
  BY <1>1, CounterStep, JudgedStep DEF IInv
<1>3. JudgeInv'
  BY <1>2 DEF JudgeInv, CounterInv, JudgedInv
<1>4. TypeOK' /\ LockInv' /\ TimeInv' /\ DiskInv'
  BY <1>1, <1>2, TypeStep, LockStep, TimeStep, DiskStep DEF IInv
<1>5. StampInv' /\ SendInv' /\ OrderInv' /\ WorkersFirst'
  BY StampStep, SendStep, OrderStep, WorkersStep DEF IInv
<1>6. RateLimit'
  BY RateStep DEF IInv
<1> QED BY <1>3, <1>4, <1>5, <1>6 DEF IInv

(* The invariant that ties the files, what of them is on the disk, the     *)
(* lock and the reboots given so far together holds in every reachable     *)
(* state.                                                                  *)
THEOREM Invariance == Spec => []IInv
  BY InitInv, InvStep, PTL DEF Spec

(* Every variable keeps its type, through kills, restarts and power losses *)
(* as well.                                                                *)
THEOREM TypeCorrect == Spec => []TypeOK
<1>1. IInv => TypeOK
  BY DEF IInv
<1> QED
  BY <1>1, Invariance, PTL

(* Whatever is killed or restarted in between, every round that rebooted a *)
(* node wrote a stamp of its own before the first order, and the reboots   *)
(* file has it unless a power loss has taken stamps since.                 *)
THEOREM StampedOrdersTheorem == Spec => []StampedOrders
<1>1. IInv => StampedOrders
  <2> SUFFICES ASSUME OrderInv, TypeOK, NEW i \in DOMAIN orders, NEW j \in DOMAIN orders
               PROVE  /\ i < j => orders[i].serial < orders[j].serial
                      /\ orders[j].forgot = forgot =>
                           Place(j) \in DOMAIN Stamps /\ Stamps[Place(j)] = orders[j].now
    BY DEF IInv, StampedOrders, Stamps
  <2>1. /\ orders[i].serial \in Nat /\ orders[j].serial \in Nat /\ i \in Nat /\ j \in Nat
        /\ orders[j].forgot \in Nat
    BY OrderEntry
  <2>2. i < j => orders[j].serial - orders[i].serial >= j - i
    BY <2>1 DEF OrderInv
  <2>3. i < j => orders[i].serial < orders[j].serial
    BY <2>1, <2>2
  <2>4. ASSUME orders[j].forgot = forgot
        PROVE  Place(j) \in DOMAIN Stamps /\ Stamps[Place(j)] = orders[j].now
    <3>1. Place(j) = orders[j].serial - orders[j].forgot
      BY <2>4 DEF Place
    <3>2. Place(j) >= 1 /\ Place(j) <= Len(Stamps) /\ Stamps[Place(j)] = orders[j].now
      BY <2>4, <3>1 DEF OrderInv
    <3>3. Place(j) \in Int
      BY <2>1, <3>1
    <3>4. DOMAIN Stamps = 1 .. Len(Stamps) /\ Len(Stamps) \in Nat
      BY DEF TypeOK, Stamps, Mode
    <3> QED BY <3>2, <3>3, <3>4
  <2> QED BY <2>3, <2>4
<1> QED
  BY <1>1, Invariance, PTL

(* The rate limit holds of the reboots themselves: from the start of a     *)
(* round that reboots nodes, max more such rounds need the window, and one *)
(* more for every stamp that a power loss took in between.                 *)
THEOREM RateLimitTheorem == Spec => []RateLimit
<1>1. IInv => RateLimit
  BY DEF IInv
<1> QED
  BY <1>1, Invariance, PTL

(* The workers are rebooted, or out of reach, before the head is.          *)
THEOREM WorkersFirstTheorem == Spec => []WorkersFirst
<1>1. IInv => WorkersFirst
  BY DEF IInv
<1> QED
  BY <1>1, Invariance, PTL

(* No more than BusyMax rounds are excused without an answered probe.      *)
THEOREM MaskBoundedTheorem == Spec => []MaskBounded
<1>1. IInv => MaskBounded
  BY DEF IInv, JudgeInv, MaskBounded, TypeOK
<1> QED
  BY <1>1, Invariance, PTL

(* Rounds never overlap.                                                   *)
THEOREM RoundsExcludeTheorem == Spec => []RoundsExclude
<1>1. IInv => RoundsExclude
  BY DEF IInv, LockInv, RoundsExclude
<1> QED
  BY <1>1, Invariance, PTL

(* While the ALARM file is there no node is rebooted.                      *)
THEOREM AlarmStopsTheorem == Spec => AlarmStops
<1> DEFINE A == alarm["real"] /\ alarm'["real"] => hit' \subseteq hit /\ orders' = orders
<1>1. IInv /\ [Next]_vars => [A]_vars
  <2> SUFFICES ASSUME IInv, [Next]_vars, alarm["real"]
               PROVE  hit' \subseteq hit /\ orders' = orders
    OBVIOUS
  <2>1. ASSUME NEW p \in Proc PROVE ~At(p, "send")
    BY DEF IInv, LockInv, SendInv, At
  <2>2. ASSUME NEW p \in Proc, Stamp(p) PROVE hit' = {} /\ orders' = orders
    BY <2>2 DEF Stamp
  <2>3. UNCHANGED hist \/ HeadReset \/ \E p \in Proc : Stamp(p)
    BY <2>1, OrderMoves DEF SelfReboot, SendPeer
  <2>4. ASSUME HeadReset PROVE hit' = hit /\ orders' = orders
    BY <2>4 DEF HeadReset
  <2> QED BY <2>2, <2>3, <2>4 DEF hist
<1> QED
  BY <1>1, Invariance, PTL DEF Spec, AlarmStops

(* The right to reboot is only taken after FailNeeded failing rounds with  *)
(* no other verdict in between.                                            *)
THEOREM ConsecutiveFailuresTheorem == Spec => ConsecutiveFailures
<1> DEFINE A == Len(reboots'["real"]) > Len(reboots["real"]) => streak["real"] >= FailNeeded
<1>1. IInv /\ [Next]_vars => [A]_vars
  <2> SUFFICES ASSUME IInv, [Next]_vars, Len(Stamps') > Len(Stamps)
               PROVE  streak["real"] >= FailNeeded
    BY DEF Stamps
  <2>0. Len(Stamps) \in Nat /\ TypeOK /\ DiskInv
    BY DEF IInv, TypeOK, Stamps, Mode
  <2>2. ASSUME HeadReset PROVE FALSE
    BY <2>0, <2>2, StampsLeft
  <2>1. PICK p \in Proc : Stamp(p)
    BY <2>0, <2>2, StampMoves
  <2> QED BY <2>1 DEF Stamp, IInv, JudgeInv, ModeOf
<1> QED
  BY <1>1, Invariance, PTL DEF Spec, ConsecutiveFailures

-----------------------------------------------------------------------------
(* The script implements the reboot limiter. *)

LEMMA AlarmMoves ==
  ASSUME TypeOK, [Next]_vars
  PROVE  \/ alarm'["real"] = alarm["real"]
         \/ \E p \in Proc : ~At(p, "idle") /\ ModeOf(p) = "real" /\ RaiseAlarm(p)
         \/ ClearAlarm("real")
         \/ HeadReset
<1> DEFINE Same == alarm'["real"] = alarm["real"]
<1>0. alarm \in [Mode -> BOOLEAN] /\ "real" \in Mode /\ \A p \in Proc : ModeOf(p) \in Mode
  BY DEF TypeOK, Mode, Job, ModeOf
<1>1. ASSUME NEW m \in Modes, WriteBack(m) \/ \E p \in Proc : Begin(p, m) PROVE Same
  BY <1>1 DEF WriteBack, Begin, files
<1>2. ASSUME NEW p \in Proc, \/ Passes(p) \/ UnitInactive(p) \/ ProbeOk(p) \/ ProbeBusy(p)
                             \/ ProbeBusyTooLong(p) \/ CountFailure(p) \/ LimitPassed(p)
      PROVE  Same
  BY <1>2 DEF Passes, UnitInactive, ProbeOk, ProbeBusy, ProbeBusyTooLong, CountFailure,
              LimitPassed, files
<1>3. ASSUME NEW p \in Proc, SelfReboot(p) \/ Kill(p) \/ DryAct(p) \/ Stamp(p)
                             \/ \E q \in Peers : PeerAnswers(p, q) \/ SendPeer(p, q)
      PROVE  Same
  BY <1>3 DEF SelfReboot, Kill, DryAct, Stamp, PeerAnswers, SendPeer, HeadRestarts, files
<1>4. ASSUME Still \/ Tick PROVE Same
  BY <1>4 DEF Still, Tick, files
<1>5. ASSUME NEW m \in Mode, ClearAlarm(m) PROVE Same \/ ClearAlarm("real")
  BY <1>0, <1>5 DEF ClearAlarm, Set
<1>6. ASSUME NEW p \in Proc, RaiseAlarm(p) PROVE Same \/ ModeOf(p) = "real"
  BY <1>0, <1>6 DEF RaiseAlarm, Set
<1>7. ASSUME NEW p \in Proc, LimitExceeded(p) \/ \E q \in Peers : PeerSilent(p, q)
      PROVE  RaiseAlarm(p) /\ ~At(p, "idle")
  BY <1>7 DEF LimitExceeded, PeerSilent, At
<1> QED
  BY <1>1, <1>2, <1>3, <1>4, <1>5, <1>6, <1>7, StepCases

(* Every stamp is a grant that the limiter allows, every ALARM a stop, and *)
(* only a person resumes; a power loss is the limiter's own.               *)
THEOREM Refinement == Spec => LimiterSpec
<1>1. Init => Limiter!Init
  BY DEF Init, Limiter!Init, Mode
<1>2. IInv /\ IInv' /\ [Next]_vars => [Limiter!Next]_(Limiter!vars)
  <2> SUFFICES ASSUME IInv, IInv', [Next]_vars
               PROVE  Limiter!Next \/ UNCHANGED <<Stamps, alarm["real"]>>
    BY DEF Limiter!vars, Stamps
  <2>1. ASSUME NEW p \in Proc, Stamp(p) PROVE Limiter!Grant
    <3>1. /\ Stamps' = Append(Stamps, job[p].now) /\ UNCHANGED alarm
          /\ ~At(p, "idle") /\ ModeOf(p) = "real"
      BY <2>1 DEF Stamp, Set, Stamps, IInv, TypeOK, Mode, At
    <3>2. ~alarm["real"]
      BY <3>1 DEF IInv, LockInv
    <3>3. Limiter!Spaced(Stamps', W1, Max1) /\ Limiter!Spaced(Stamps', W2, Max2)
      BY DEF IInv, StampInv
    <3>4. Stamps \in Seq(Nat) /\ job[p].now \in Nat
      BY DEF IInv, TypeOK, Stamps, Mode, Job
    <3>5. Len(Stamps') = Len(Stamps) + 1 /\ Stamps'[Len(Stamps')] = job[p].now
      BY <3>1, <3>4, AppendFacts
    <3> QED BY <3>1, <3>2, <3>3, <3>5 DEF Limiter!Grant, Stamps
  <2>2. ASSUME NEW p \in Proc, ~At(p, "idle"), ModeOf(p) = "real", RaiseAlarm(p)
        PROVE  Limiter!Stop
    <3>1. ~alarm["real"]
      BY <2>2 DEF IInv, LockInv
    <3> QED BY <2>2, <3>1 DEF RaiseAlarm, Set, Limiter!Stop, IInv, TypeOK, Mode
  <2>3. ASSUME ClearAlarm("real") PROVE Limiter!Resume
    BY <2>3 DEF ClearAlarm, Set, Limiter!Resume, IInv, TypeOK, Mode
  <2>4. ASSUME HeadReset PROVE Limiter!Forget
    <3>1. \E n \in 0 .. Len(Stamps) : Stamps' = SubSeq(Stamps, 1, n)
      BY <2>4, StampsLeft DEF IInv
    <3>2. alarm'["real"] \in BOOLEAN
      BY DEF IInv, TypeOK, Mode
    <3> QED BY <3>1, <3>2 DEF Limiter!Forget, Stamps
  <2> QED
    BY <2>1, <2>2, <2>3, <2>4, AlarmMoves, StampMoves DEF IInv, Limiter!Next
<1> QED
  BY <1>1, <1>2, Invariance, PTL DEF Spec, LimiterSpec, Limiter!Spec

====

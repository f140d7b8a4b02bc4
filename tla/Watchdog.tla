---- MODULE Watchdog ----
(***************************************************************************)
(* The engine watchdog of the tp3-main track, ops/watchdog/watchdog.sh: a  *)
(* script that a one-minute timer (and, at any moment, a person) runs on   *)
(* the head node.  A round probes the engine, counts failing rounds in a   *)
(* file, and reboots the workers and then the head.  Its state is a set of *)
(* files that outlives a round, a killed round and a reboot of the head,   *)
(* but not a loss of power while the writes to it are not on the disk; a   *)
(* dry run keeps its own copy of each.                                     *)
(*                                                                         *)
(* The engine, its systemd unit, the ssh links, the person at the keyboard *)
(* and the clock are the environment: they may act between any two steps   *)
(* of a round, and a command without a time limit may not return.          *)
(***************************************************************************)
EXTENDS Integers, Sequences, FiniteSets

CONSTANTS
  Proc,         \* the invocations that may overlap: the timer's, a person's
  Timer,        \* those of them that the systemd unit starts
  Peers,        \* the worker nodes
  Rank0,        \* the node the script runs on, the head
  Free,         \* the lock file when nobody holds it
  Modes,        \* the modes the script is invoked in, of {"real", "dry"}
  FailNeeded,   \* WATCHDOG_FAIL_NEEDED
  BootGrace,    \* WATCHDOG_BOOT_GRACE_S
  ContGrace,    \* WATCHDOG_CONT_GRACE_S
  W1, Max1,     \* WATCHDOG_W1, WATCHDOG_MAX1
  W2, Max2,     \* WATCHDOG_W2, WATCHDOG_MAX2
  BusyMax,      \* WATCHDOG_BUSY_MAX
  Exemption,    \* WATCHDOG_EXEMPTION
  Stallable,    \* the commands without a time limit that may hang
  MaxTime,      \* bound on the clock
  MaxFaults     \* bound on killed rounds and on reboots from outside

ASSUME NodesAssumption ==
  /\ Rank0 \notin Peers
  /\ Free \notin Proc
  /\ Timer \subseteq Proc
  /\ Stallable \subseteq {"systemctl", "docker", "ssh"}
  /\ Modes \subseteq {"real", "dry"}

ASSUME KnobsAssumption ==
  /\ FailNeeded \in Nat \ {0}
  /\ BusyMax \in Nat
  /\ {BootGrace, ContGrace, MaxTime, MaxFaults} \subseteq Nat
  /\ W1 \in Nat /\ W2 \in Nat
  /\ Max1 \in Nat \ {0} /\ Max2 \in Nat \ {0}
  /\ Exemption \in BOOLEAN

VARIABLES
  (* files under $STATE, one of each per mode (the suffix .dry), and PAUSE *)
  fails, busy, reboots, alarm, pause, lock,
  disk,         \* what a power loss leaves of the first four
  (* the invocations in progress *)
  job,
  (* the environment *)
  clock, uptime, unit, age, engine, reachable, stalled, faults,
  (* history: what has been done, for the properties *)
  forgot,       \* stamps that power losses have taken from the reboots file
  orders,       \* the rounds that rebooted a node: NOW, time of the first order,
                \* number of the stamp, and forgot at that time
  hit, lost,    \* nodes rebooted, and peers whose ssh failed, in the last action
  streak,       \* failing rounds since a round that was not; after a power
                \* loss, what the file says
  exempt        \* rounds excused as busy since a probe was answered or
                \* the head restarted

files   == <<fails, busy, reboots, alarm>>
world   == <<unit, age, engine>>
outside == <<disk, pause, clock, uptime, world, reachable, stalled, faults>>
hist    == <<forgot, orders, hit, lost>>
tally   == <<streak, exempt>>
vars == <<fails, busy, reboots, alarm, pause, lock, disk, job, clock, uptime, unit,
          age, engine, reachable, stalled, faults, forgot, orders, hit, lost, streak, exempt>>

Mode  == {"real", "dry"}
Nodes == Peers \union {Rank0}
PCs   == {"idle", "unit", "container", "health", "probe", "count", "limit", "peers", "send"}
Idle  == [pc |-> "idle", now |-> 0, mode |-> "real", left |-> {}]

-----------------------------------------------------------------------------
(* Helpers of a round.  An operator whose comment says Mutant is the next  *)
(* definition with a bug; no action uses it.                               *)

At(p, step) == job[p].pc = step
ModeOf(p)   == job[p].mode

(* The round of p goes on to step, with the peers still to be visited.     *)
Goto(p, step, peers) ==
  /\ job' = [job EXCEPT ![p] = [pc   |-> step, now  |-> job[p].now,
                                mode |-> job[p].mode, left |-> peers]]
  /\ UNCHANGED lock

(* exit 0: the descriptor of the lock file is closed with the process.     *)
Exit(p) ==
  /\ job' = [job EXCEPT ![p] = Idle]
  /\ lock' = Free

(* echo v > file                                                           *)
Set(f, m, v) == f' = [f EXCEPT ![m] = v]

(* $(( $(cat file || echo 0) + 1 ))                                        *)
OneMore(f, m) == f[m] + 1

(* Mutant: flock is not there. *)
NoFlock == TRUE

(* flock -n 9. *)
Flock == lock = Free

(* awk '$1 > n-w': the stamps of s inside the window of w that ends at n.  *)
Recent(s, n, w) == {i \in DOMAIN s : s[i] > n - w}

(* Mutant: one reboot too many fits the window. *)
OneTooMany(s, n, w, max) == Cardinality(Recent(s, n, w)) <= max

Within(s, n, w, max) == Cardinality(Recent(s, n, w)) < max

WithinLimit(s, n) == Within(s, n, W1, Max1) /\ Within(s, n, W2, Max2)

(* c comes back.                                                           *)
Answers(c) == c \notin stalled

(* What the files of mode m hold.                                          *)
Contents(m) ==
  [fails |-> fails[m], busy |-> busy[m], alarm |-> alarm[m], stamps |-> Len(reboots[m])]

(* docker ps lists the container and it started less than ContGrace ago.   *)
Young == engine # "exited" /\ age < ContGrace

(* Mutant: the ALARM file is not looked at. *)
GatedNoAlarm(m) == pause \/ uptime < BootGrace

(* The first gates of a round.  A person's PAUSE or ALARM file is looked   *)
(* at here and nowhere else.                                               *)
Gated(m) == pause \/ alarm[m] \/ uptime < BootGrace

-----------------------------------------------------------------------------
Init ==
  /\ fails = [m \in Mode |-> 0]
  /\ busy = [m \in Mode |-> 0]
  /\ reboots = [m \in Mode |-> <<>>]
  /\ alarm = [m \in Mode |-> FALSE]
  /\ pause = FALSE
  /\ lock = Free
  /\ disk = [m \in Mode |-> [fails |-> 0, busy |-> 0, alarm |-> FALSE, stamps |-> 0]]
  /\ job = [p \in Proc |-> Idle]
  /\ clock = 0
  /\ uptime = 0
  /\ unit = "activating"
  /\ age = 0
  /\ engine = "exited"
  /\ reachable = Peers
  /\ stalled = {}
  /\ faults = 0
  /\ forgot = 0
  /\ orders = <<>>
  /\ hit = {}
  /\ lost = {}
  /\ streak = [m \in Mode |-> 0]
  /\ exempt = [m \in Mode |-> 0]

-----------------------------------------------------------------------------
(* A round of the script. *)

(* NOW is read, once, the lock is taken and no gate holds the round back.  *)
(* (A round that one does hold back ends without a trace: a stuttering     *)
(* step.)  The timer's invocation is never a dry run.                      *)
Begin(p, m) ==
  /\ At(p, "idle") /\ Flock /\ ~Gated(m)
  /\ p \in Timer => m = "real"
  /\ lock' = p
  /\ job' = [job EXCEPT ![p] = [pc |-> "unit", now |-> clock,
                                mode |-> m, left |-> {}]]
  /\ UNCHANGED <<files, outside, hist, tally>>

(* systemctl is-active: the unit is inactive, so there is no engine to     *)
(* watch, and both counters are reset.                                     *)
UnitInactive(p) ==
  LET m == ModeOf(p) IN
  /\ At(p, "unit") /\ Answers("systemctl")
  /\ unit = "inactive"
  /\ Set(fails, m, 0) /\ Set(busy, m, 0)
  /\ Set(streak, m, 0) /\ Set(exempt, m, 0)
  /\ Exit(p)
  /\ UNCHANGED <<reboots, alarm, outside, hist>>

UnitStarting(p) ==
  /\ At(p, "unit") /\ Answers("systemctl")
  /\ unit = "activating"
  /\ Exit(p)
  /\ UNCHANGED <<files, outside, hist, tally>>

UnitWatched(p) ==
  /\ At(p, "unit") /\ Answers("systemctl")
  /\ unit \in {"active", "failed"}
  /\ Goto(p, "container", {})
  /\ UNCHANGED <<files, outside, hist, tally>>

(* docker inspect and docker ps.                                           *)
ContainerYoung(p) ==
  /\ At(p, "container") /\ Answers("docker")
  /\ Young
  /\ Exit(p)
  /\ UNCHANGED <<files, outside, hist, tally>>

ContainerOld(p) ==
  /\ At(p, "container") /\ Answers("docker")
  /\ ~Young
  /\ Goto(p, "health", {})
  /\ UNCHANGED <<files, outside, hist, tally>>

(* GET /health, at most 5 s.                                               *)
Health(p) ==
  /\ At(p, "health")
  /\ Goto(p, IF engine \in {"exited", "down"} THEN "count" ELSE "probe", {})
  /\ UNCHANGED <<files, outside, hist, tally>>

(* Mutant: the failures of earlier rounds stay. *)
GoodRoundKeepsFails(p) ==
  /\ Set(streak, ModeOf(p), 0)
  /\ Exit(p)
  /\ UNCHANGED <<fails, reboots, alarm, outside, hist>>

(* The round ends ok or busy.                                              *)
GoodRound(p) ==
  /\ Set(fails, ModeOf(p), 0)
  /\ Set(streak, ModeOf(p), 0)
  /\ Exit(p)
  /\ UNCHANGED <<reboots, alarm, outside, hist>>

(* The completion request came back with choices.                          *)
ProbeOk(p) ==
  /\ At(p, "probe") /\ engine = "ok"
  /\ Set(busy, ModeOf(p), 0)
  /\ Set(exempt, ModeOf(p), 0)
  /\ GoodRound(p)

(* The probe did not return, but the token counters advanced meanwhile.    *)
BusyRound(p) == At(p, "probe") /\ engine = "busy" /\ Exemption

(* Mutant: the busy counter is never stored. *)
BusyStuck(m) == busy[m]

(* The busy counter grows with every busy round; from BusyMax on its       *)
(* values are alike and the model keeps the first.                         *)
BusyCount(m) == IF busy[m] < BusyMax THEN OneMore(busy, m) ELSE BusyMax

(* The exemption is not used up: the round counts as good.                 *)
ProbeBusy(p) ==
  LET m == ModeOf(p) IN
  /\ BusyRound(p)
  /\ BusyCount(m) < BusyMax
  /\ Set(busy, m, BusyCount(m))
  /\ Set(exempt, m, IF exempt[m] > BusyMax THEN exempt[m] ELSE exempt[m] + 1)
  /\ GoodRound(p)

(* It is: the round is a failure.                                          *)
ProbeBusyTooLong(p) ==
  LET m == ModeOf(p) IN
  /\ BusyRound(p)
  /\ BusyCount(m) >= BusyMax
  /\ Set(busy, m, BusyCount(m))
  /\ Goto(p, "count", {})
  /\ UNCHANGED <<fails, reboots, alarm, outside, hist, tally>>

(* No answer, or a bad one, and the counters are frozen or unreadable (or  *)
(* the exemption is switched off).  The busy counter is left alone.        *)
ProbeFrozen(p) ==
  /\ At(p, "probe") /\ engine # "ok" /\ ~BusyRound(p)
  /\ Goto(p, "count", {})
  /\ UNCHANGED <<files, outside, hist, tally>>

(* fails + 1; from FailNeeded on its values are alike, as with busy.        *)
FailCount(m) == IF fails[m] < FailNeeded THEN OneMore(fails, m) ELSE FailNeeded

(* Under FAIL_NEEDED the round ends waiting.                               *)
CountFailure(p) ==
  LET m == ModeOf(p) IN
  /\ At(p, "count")
  /\ Set(fails, m, FailCount(m))
  /\ Set(streak, m, IF streak[m] < FailNeeded THEN streak[m] + 1 ELSE streak[m])
  /\ IF FailCount(m) < FailNeeded THEN Exit(p) ELSE Goto(p, "limit", {})
  /\ UNCHANGED <<busy, reboots, alarm, outside, hist, exempt>>

(* The round ends in the ALARM file; only a person deletes it.             *)
RaiseAlarm(p) ==
  /\ Set(alarm, ModeOf(p), TRUE)
  /\ Set(fails, ModeOf(p), 0)
  /\ Set(streak, ModeOf(p), 0)
  /\ Exit(p)
  /\ UNCHANGED <<busy, reboots, outside, hist, exempt>>

LimitExceeded(p) ==
  /\ At(p, "limit")
  /\ ~WithinLimit(reboots[ModeOf(p)], job[p].now)
  /\ RaiseAlarm(p)

LimitPassed(p) ==
  /\ At(p, "limit")
  /\ WithinLimit(reboots[ModeOf(p)], job[p].now)
  /\ Goto(p, "peers", Peers)
  /\ UNCHANGED <<files, outside, hist, tally>>

(* ssh peer true, one peer after the other.                                *)
PeerAnswers(p, q) ==
  /\ At(p, "peers") /\ Answers("ssh")
  /\ q \in job[p].left \intersect reachable
  /\ Goto(p, "peers", job[p].left \ {q})
  /\ UNCHANGED <<files, outside, hist, tally>>

PeerSilent(p, q) ==
  /\ At(p, "peers") /\ Answers("ssh")
  /\ q \in job[p].left \ reachable
  /\ RaiseAlarm(p)

(* Mutant: a real round stamps the file of the dry run. *)
StampsDry(p) == "dry"

(* The suffix of F_REST. *)
StampsFile(p) == ModeOf(p)

(* All peers answered.  The stamp is written and fails reset before        *)
(* anything is rebooted.                                                   *)
TakeStamp(p) ==
  /\ At(p, "peers") /\ job[p].left = {}
  /\ Set(reboots, StampsFile(p), Append(reboots[StampsFile(p)], job[p].now))
  /\ Set(fails, ModeOf(p), 0)
  /\ Set(streak, ModeOf(p), 0)
  /\ UNCHANGED <<busy, alarm, outside, forgot, orders, exempt>>

(* The dry run only leaves its stamp.                                      *)
DryAct(p) ==
  /\ TakeStamp(p) /\ ModeOf(p) = "dry"
  /\ Exit(p)
  /\ UNCHANGED <<hit, lost>>

(* The real one goes on to the evidence, which only takes time, and to the *)
(* reboots.                                                                *)
Stamp(p) ==
  /\ TakeStamp(p) /\ ModeOf(p) = "real"
  /\ Goto(p, "send", Peers)
  /\ hit' = {} /\ lost' = {}

(* History of the first reboot order of a round.                           *)
Ordered(p) ==
  orders' = IF hit = {}
              THEN Append(orders, [now |-> job[p].now, at |-> clock, forgot |-> forgot,
                                   serial |-> Len(reboots["real"]) + forgot])
              ELSE orders

(* ssh peer systemctl reboot, to every peer in parallel.  The exit status  *)
(* is ignored: an order that is lost is not noticed.                       *)
SendPeer(p, q) ==
  /\ At(p, "send")
  /\ q \in job[p].left
  /\ Goto(p, "send", job[p].left \ {q})
  /\ IF q \in reachable
       THEN /\ hit' = hit \union {q}
            /\ reachable' = reachable \ {q}
            /\ Ordered(p)
            /\ UNCHANGED lost
       ELSE /\ lost' = lost \union {q}
            /\ UNCHANGED <<hit, reachable, orders>>
  /\ UNCHANGED <<files, disk, pause, clock, uptime, world, stalled, faults, forgot, tally>>

(* The head restarts: no process survives; the unit is enabled and the     *)
(* container is not restarted by docker.                                   *)
HeadRestarts ==
  /\ job' = [p \in Proc |-> Idle]
  /\ lock' = Free
  /\ uptime' = 0
  /\ unit' = "activating"
  /\ age' = 0
  /\ engine' = "exited"
  /\ exempt' = [m \in Mode |-> 0]
  /\ UNCHANGED <<pause, clock>>

(* Mutant: the script does not wait for its background jobs. *)
NoWait(p) == TRUE

(* wait: every order has been sent or has failed.                          *)
AllSent(p) == job[p].left = {}

(* Then this node: systemctl reboot, which writes every file to the disk.  *)
SelfReboot(p) ==
  /\ At(p, "send") /\ AllSent(p) /\ Answers("systemctl")
  /\ Ordered(p)
  /\ hit' = hit \union {Rank0}
  /\ HeadRestarts
  /\ disk' = [m \in Mode |-> Contents(m)]
  /\ UNCHANGED <<files, lost, reachable, stalled, faults, forgot, streak>>

Round(p) ==
  \/ UnitInactive(p) \/ UnitStarting(p) \/ UnitWatched(p)
  \/ ContainerYoung(p) \/ ContainerOld(p)
  \/ Health(p)
  \/ ProbeOk(p) \/ ProbeBusy(p) \/ ProbeBusyTooLong(p) \/ ProbeFrozen(p)
  \/ CountFailure(p)
  \/ LimitExceeded(p) \/ LimitPassed(p)
  \/ \E q \in Peers : PeerAnswers(p, q) \/ PeerSilent(p, q)
  \/ DryAct(p) \/ Stamp(p)
  \/ \E q \in Peers : SendPeer(p, q)
  \/ SelfReboot(p)

-----------------------------------------------------------------------------
(* The environment. *)

(* The command that the round of p has come to does not return.            *)
Hangs(p) ==
  \/ At(p, "unit") /\ ~Answers("systemctl")
  \/ At(p, "container") /\ ~Answers("docker")
  \/ At(p, "peers") /\ job[p].left # {} /\ ~Answers("ssh")
  \/ At(p, "send") /\ AllSent(p) /\ ~Answers("systemctl")

(* The unit's TimeoutStartSec ends the timer's round; a person's has none. *)
TimedOut(p) ==
  /\ p \in Timer /\ Hangs(p)
  /\ Exit(p)
  /\ UNCHANGED <<files, outside, hist, tally>>

(* The round is killed (TimeoutStartSec in another step, a person's ^C, a  *)
(* sudo that is refused at the very end).                                  *)
Kill(p) ==
  /\ ~At(p, "idle")
  /\ faults < MaxFaults
  /\ faults' = faults + 1
  /\ Exit(p)
  /\ UNCHANGED <<files, disk, pause, clock, uptime, world, reachable, stalled, hist, tally>>

(* The kernel writes a file of mode m to the disk, or only that it was     *)
(* emptied to be written anew, and an empty counter reads as 0.  (After    *)
(* the last fault of the bound it does not matter any more.)               *)
WriteBack(m) ==
  /\ faults < MaxFaults
  /\ \/ \E n \in {0, fails[m]} : disk' = [disk EXCEPT ![m].fails = n]
     \/ \E n \in {0, busy[m]} : disk' = [disk EXCEPT ![m].busy = n]
     \/ disk' = [disk EXCEPT ![m].alarm = alarm[m]]
     \/ disk' = [disk EXCEPT ![m].stamps = Len(reboots[m])]
  /\ UNCHANGED <<files, lock, job, pause, clock, uptime, world, reachable, stalled,
                 faults, hist, tally>>

(* The head loses power, and with it every write that was not on the disk; *)
(* or a person reboots it when all of them were.                           *)
HeadReset ==
  /\ faults < MaxFaults
  /\ faults' = faults + 1
  /\ HeadRestarts
  /\ fails' = [m \in Mode |-> disk[m].fails]
  /\ busy' = [m \in Mode |-> disk[m].busy]
  /\ alarm' = [m \in Mode |-> disk[m].alarm]
  /\ reboots' = [m \in Mode |-> SubSeq(reboots[m], 1, disk[m].stamps)]
  /\ forgot' = forgot + Len(reboots["real"]) - disk["real"].stamps
  /\ streak' = fails'
  /\ UNCHANGED <<disk, reachable, stalled, orders, hit, lost>>

Saturate(n, max) == IF n < max THEN n + 1 ELSE n

Tick ==
  /\ clock < MaxTime
  /\ clock' = clock + 1
  /\ uptime' = Saturate(uptime, BootGrace)
  /\ age' = Saturate(age, ContGrace)
  /\ UNCHANGED <<files, disk, pause, lock, job, unit, engine, reachable, stalled, faults,
                 hist, tally>>

quiet == <<files, disk, lock, job, clock, uptime, faults, hist, tally>>

(* harem-exl3: a oneshot unit that stays active after the container has    *)
(* been started; the container may exit under an active unit.              *)
UnitStarts ==
  /\ unit \in {"inactive", "failed"}
  /\ unit' = "activating"
  /\ UNCHANGED <<age, engine, reachable, stalled, pause, quiet>>

UnitUp ==
  /\ unit = "activating"
  /\ unit' = "active" /\ age' = 0 /\ engine' = "down"
  /\ UNCHANGED <<reachable, stalled, pause, quiet>>

UnitFails ==
  /\ unit = "activating"
  /\ unit' = "failed" /\ engine' = "exited"
  /\ UNCHANGED <<age, reachable, stalled, pause, quiet>>

UnitStops ==
  /\ unit = "active"
  /\ unit' = "inactive" /\ engine' = "exited"
  /\ UNCHANGED <<age, reachable, stalled, pause, quiet>>

EngineChanges ==
  /\ unit = "active" /\ engine # "exited"
  /\ engine' \in {"exited", "down", "hung", "busy", "ok"} \ {engine}
  /\ UNCHANGED <<unit, age, reachable, stalled, pause, quiet>>

LinkChanges ==
  /\ \E q \in Peers : reachable' \in {reachable \ {q}, reachable \union {q}}
  /\ UNCHANGED <<world, stalled, pause, quiet>>

(* A command begins to hang, or is itself again.                           *)
StallChanges ==
  /\ \E c \in Stallable : stalled' \in {stalled \union {c}, stalled \ {c}}
  /\ UNCHANGED <<world, reachable, pause, quiet>>

TogglePause ==
  /\ pause' = ~pause
  /\ UNCHANGED <<world, reachable, stalled, quiet>>

ClearAlarm(m) ==
  /\ alarm[m]
  /\ Set(alarm, m, FALSE)
  /\ UNCHANGED <<fails, busy, reboots, lock, job, outside, hist, tally>>

Environment ==
  \/ \E p \in Proc : TimedOut(p) \/ Kill(p)
  \/ \E m \in Modes : WriteBack(m)
  \/ HeadReset \/ Tick
  \/ UnitStarts \/ UnitUp \/ UnitFails \/ UnitStops
  \/ EngineChanges \/ LinkChanges \/ StallChanges
  \/ TogglePause
  \/ \E m \in Mode : ClearAlarm(m)

Next ==
  \/ \E p \in Proc, m \in Modes : Begin(p, m)
  \/ \E p \in Proc : Round(p)
  \/ Environment

Spec == Init /\ [][Next]_vars

(* The timer fires every minute; a round whose command returns goes on,    *)
(* and the unit ends the timer's round when its command does not.          *)
Fairness ==
  /\ WF_vars(\E p \in Timer : Begin(p, "real"))
  /\ \A p \in Proc : WF_vars(Round(p))
  /\ \A p \in Timer : WF_vars(TimedOut(p))

FairSpec == Spec /\ Fairness
-----------------------------------------------------------------------------
(* Properties. *)

Job == [pc : PCs, now : Nat, mode : Mode, left : SUBSET Peers]
Kept == [fails : Nat, busy : Nat, alarm : BOOLEAN, stamps : Nat]
Order == [now : Nat, at : Nat, serial : Nat, forgot : Nat]

(* Every variable, the files and the rounds in progress, holds a value of  *)
(* its kind.                                                               *)
TypeOK ==
  /\ fails \in [Mode -> Nat]
  /\ busy \in [Mode -> Nat]
  /\ reboots \in [Mode -> Seq(Nat)]
  /\ alarm \in [Mode -> BOOLEAN]
  /\ pause \in BOOLEAN
  /\ lock \in Proc \union {Free}
  /\ disk \in [Mode -> Kept]
  /\ job \in [Proc -> Job]
  /\ clock \in Nat /\ uptime \in Nat /\ age \in Nat /\ faults \in Nat
  /\ unit \in {"inactive", "activating", "active", "failed"}
  /\ engine \in {"exited", "down", "hung", "busy", "ok"}
  /\ reachable \subseteq Peers /\ stalled \subseteq Stallable
  /\ forgot \in Nat
  /\ orders \in Seq(Order)
  /\ hit \subseteq Nodes
  /\ lost \subseteq Peers
  /\ streak \in [Mode -> Nat]
  /\ exempt \in [Mode -> Nat]

(* The place of the stamp of order k in the reboots file.                  *)
Place(k) == orders[k].serial - forgot

(* Every round that rebooted a node wrote a stamp of its own, and finds it  *)
(* in the reboots file however often rounds were killed and the head        *)
(* rebooted ("the stamp is written BEFORE the reboot"), unless a loss of    *)
(* power has taken stamps since.                                           *)
StampedOrders ==
  \A i, j \in DOMAIN orders :
    /\ i < j => orders[i].serial < orders[j].serial
    /\ orders[j].forgot = forgot =>
         Place(j) \in DOMAIN reboots["real"] /\ reboots["real"][Place(j)] = orders[j].now

(* The rate limit in terms of what happens to the machines: from the start *)
(* of a round that reboots nodes, max more such rounds take the window.    *)
(* A stamp that a power loss has taken in between does not count.          *)
OrdersSpaced(w, max) ==
  \A i, j \in DOMAIN orders :
    i < j /\ j - i >= max + (orders[j].forgot - orders[i].forgot)
      => orders[j].at - orders[i].now >= w

RateLimit == OrdersSpaced(W1, Max1) /\ OrdersSpaced(W2, Max2)

(* The head is rebooted last: by then every worker has been rebooted by    *)
(* the same round, or its ssh has failed.                                  *)
WorkersFirst == Rank0 \in hit => hit \union lost = Nodes

(* "nothing acts until the file is deleted by a person": while ALARM is    *)
(* there no node is rebooted, also by a round that overlaps.               *)
AlarmStops ==
  [][alarm["real"] /\ alarm'["real"] => hit' \subseteq hit /\ orders' = orders]_vars

(* "3 CONSECUTIVE failures -> action": the right to reboot is only taken   *)
(* after FailNeeded judged rounds that all failed.                         *)
ConsecutiveFailures ==
  [][Len(reboots'["real"]) > Len(reboots["real"]) => streak["real"] >= FailNeeded]_vars

(* "so a hang cannot be masked forever": without an answered probe no more *)
(* than BusyMax rounds are excused, in a row or not.                       *)
MaskBounded == \A m \in Mode : exempt[m] <= BusyMax

(* A round in progress owns the lock file, so two never overlap.           *)
RoundsExclude == \A p \in Proc : ~At(p, "idle") => lock = p

Limiter == INSTANCE RebootLimiter WITH log <- reboots["real"], stopped <- alarm["real"]

(* What the script promises, in the words of RebootLimiter: the stamps are *)
(* grants, the ALARM file is the stop.                                     *)
LimiterSpec == Limiter!Spec

(* The parts of the inductive invariant, by topic.                         *)
Stamps == reboots["real"]

LockInv ==
  \A p \in Proc : ~At(p, "idle") => lock = p /\ ~alarm[ModeOf(p)]

JudgeInv ==
  /\ \A m \in Mode : fails[m] <= streak[m] /\ exempt[m] <= busy[m] /\ busy[m] <= BusyMax
  /\ \A p \in Proc : At(p, "limit") \/ At(p, "peers") => streak[ModeOf(p)] >= FailNeeded

TimeInv ==
  /\ \A i \in DOMAIN Stamps : Stamps[i] <= clock
  /\ \A k \in DOMAIN orders : orders[k].now <= clock
  /\ \A p \in Proc : ~At(p, "idle") =>
       /\ job[p].now <= clock
       /\ \A i \in DOMAIN Stamps : Stamps[i] <= job[p].now
       /\ \A k \in DOMAIN orders : orders[k].now <= job[p].now

StampInv ==
  /\ \A i, j \in DOMAIN Stamps : i <= j => Stamps[i] <= Stamps[j]
  /\ Limiter!Spaced(Stamps, W1, Max1)
  /\ Limiter!Spaced(Stamps, W2, Max2)
  /\ \A p \in Proc : At(p, "peers") /\ ModeOf(p) = "real" => WithinLimit(Stamps, job[p].now)

SendInv ==
  \A p \in Proc : At(p, "send") =>
    /\ ModeOf(p) = "real"
    /\ Len(Stamps) > 0 /\ Stamps[Len(Stamps)] = job[p].now
    /\ Rank0 \notin hit
    /\ Peers \subseteq hit \union lost \union job[p].left
    /\ hit = {} => \A k \in DOMAIN orders : orders[k].serial < Len(Stamps) + forgot

(* place: where the file had the stamp of order k at the time of the order. *)
OrderInv ==
  /\ \A k \in DOMAIN orders :
       LET place == orders[k].serial - orders[k].forgot IN
       /\ place >= 1 /\ orders[k].forgot <= forgot
       /\ orders[k].serial <= Len(Stamps) + forgot
       /\ place <= Len(Stamps) => orders[k].now <= Stamps[place]
       /\ orders[k].forgot = forgot => place <= Len(Stamps) /\ Stamps[place] = orders[k].now
  /\ \A i, j \in DOMAIN orders : i <= j =>
       /\ orders[j].serial - orders[i].serial >= j - i
       /\ orders[i].forgot <= orders[j].forgot

(* A power loss leaves stamps that were there, and a busy count that was.   *)
DiskInv ==
  \A m \in Mode : disk[m].stamps <= Len(reboots[m]) /\ disk[m].busy <= BusyMax

(* The inductive invariant behind the properties above: it ties the lock,  *)
(* the counters, the stamps and the orders to the rounds in progress.      *)
IInv == TypeOK /\ LockInv /\ JudgeInv /\ TimeInv /\ StampInv /\ SendInv
        /\ OrderInv /\ DiskInv /\ WorkersFirst /\ RateLimit

(* The engine does not answer and no gate holds the watchdog back.         *)
EngineHangs ==
  /\ engine # "ok" /\ unit \in {"active", "failed"}
  /\ ~pause /\ uptime >= BootGrace /\ ~Young

(* Nor does a command of the script hang, or a person run it.              *)
Stuck == EngineHangs /\ stalled = {} /\ \A p \in Proc \ Timer : At(p, "idle")

(* A persistent hang or outage does not go unnoticed: with the unit up, no *)
(* pause, the grace periods over, commands that return and no person's     *)
(* round in the way, whatever rounds were lost before, the watchdog reboots *)
(* (which ends the condition) or raises the alarm.                         *)
HangIsHandled == Stuck ~> (alarm["real"] \/ ~Stuck)

-----------------------------------------------------------------------------
(* Statements of the documentation that the code does not keep. *)

(* "reboot all three, or none".                                            *)
AllOrNone == Rank0 \in hit => Peers \subseteq hit

(* "It reboots the WHOLE cluster, in the safe order, when the engine is    *)
(* down or hung".                                                          *)
HangMeansReboot == EngineHangs ~> (alarm["real"] \/ ~EngineHangs)
====

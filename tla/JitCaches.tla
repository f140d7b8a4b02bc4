---- MODULE JitCaches ----
(***************************************************************************)
(* The caches of compiled kernels of the nodes: the gate by which the head *)
(* starts only if they agree (preflight-tp3-main.sh, section 4), and the   *)
(* script that makes them agree (jit-cache-sync.sh).  A kernel is a file   *)
(* of one directory with a size.  The units start by themselves, the       *)
(* script is run by a person with the engine stopped, and each ssh or      *)
(* rsync may fail.  That the ranks meet when all are up, and compile only  *)
(* afterwards, is the engine's (external).                                 *)
(***************************************************************************)
EXTENDS Naturals, Sequences

CONSTANTS
  NODES,        \* the nodes in the order of the script, the head first
  DIRS,         \* the directories in the order of the script
  Launched,     \* those that the launcher makes
  DirOf,        \* the directory of each kernel
  KernelSizes,
  NoFile,
  NoAnswer,     \* what a failed ssh leaves of a listing
  GateTries,    \* the rounds of the gate
  MaxCompiles, MaxSyncs, MaxFailures  \* bounds

Rank == {NODES[i] : i \in 1 .. Len(NODES)}
HeadRank == NODES[1]
Kernel == DOMAIN DirOf

ASSUME JitNames ==
  /\ NODES \in Seq(Rank) /\ Len(NODES) > 0
  /\ DIRS \in Seq({DIRS[d] : d \in 1 .. Len(DIRS)}) /\ Len(DIRS) > 0
  /\ \A i, j \in 1 .. Len(NODES) : NODES[i] = NODES[j] => i = j
  /\ \A k \in Kernel : \E d \in 1 .. Len(DIRS) : DIRS[d] = DirOf[k]
  /\ NoFile \notin KernelSizes /\ NoAnswer \notin [Kernel -> KernelSizes \union {NoFile}]

VARIABLES
  cache,        \* the kernels of each node
  made,         \* the directories that each node has
  unit,         \* of each node: down, up (waiting for the others), or serving
  gate,         \* the head's gate: the round, and the listings so far
  sync,         \* the script: its step, node, directory, STAGE and listings
  report,       \* what it said last
  nCompiles, nSyncs, nFailures

jitVars == <<cache, made, unit, gate, sync, report, nCompiles, nSyncs, nFailures>>

NoKernels == [k \in Kernel |-> NoFile]
NoSync == [step |-> "none", node |-> 1, dir |-> 1, stage |-> NoKernels, lists |-> <<>>]
NoGate == [try |-> 0, lists |-> <<>>]

JitInit ==
  /\ cache = [n \in Rank |-> NoKernels] /\ made = [n \in Rank |-> {}]
  /\ unit = [n \in Rank |-> "down"]
  /\ gate = NoGate /\ sync = NoSync /\ report = "none"
  /\ nCompiles = 0 /\ nSyncs = 0 /\ nFailures = 0

Fails == nFailures < MaxFailures /\ nFailures' = nFailures + 1
Works == UNCHANGED nFailures

-----------------------------------------------------------------------------
(* The units and the engine. *)

(* The launcher of a node makes its directories and runs the container.    *)
LaunchRank(n) ==
  /\ unit' = [unit EXCEPT ![n] = "up"]
  /\ made' = [made EXCEPT ![n] = @ \union Launched]

StartWorker(n) ==
  /\ n # HeadRank /\ unit[n] = "down"
  /\ LaunchRank(n)
  /\ UNCHANGED <<cache, gate, sync, report, nCompiles, nSyncs, nFailures>>

GateBegins ==
  /\ unit[HeadRank] = "down" /\ gate.try = 0
  /\ gate' = [try |-> 1, lists |-> <<>>]
  /\ UNCHANGED <<cache, made, unit, sync, report, nCompiles, nSyncs, nFailures>>

(* man of the head and of its peers, one after the other; the head's is    *)
(* not by ssh.  A directory that is missing is an empty listing.           *)
GateLists ==
  LET n == NODES[Len(gate.lists) + 1] IN
  /\ gate.try > 0 /\ Len(gate.lists) < Len(NODES)
  /\ \/ gate' = [gate EXCEPT !.lists = Append(@, cache[n])] /\ Works
     \/ n # HeadRank /\ Fails /\ gate' = [gate EXCEPT !.lists = Append(@, NoAnswer)]
  /\ UNCHANGED <<cache, made, unit, sync, report, nCompiles, nSyncs>>

Answered == \A i \in 1 .. Len(gate.lists) : gate.lists[i] # NoAnswer
(* Mutant: the names are compared and not the sizes.                       *)
AgreeOnNames(lists) ==
  \A i \in 1 .. Len(lists), k \in Kernel : lists[i][k] = NoFile <=> lists[1][k] = NoFile

Agree(lists) == \A i \in 1 .. Len(lists) : lists[i] = lists[1]

GateDecides ==
  /\ gate.try > 0 /\ Len(gate.lists) = Len(NODES)
  /\ IF ~Answered /\ gate.try < GateTries
     THEN gate' = [try |-> gate.try + 1, lists |-> <<>>] /\ UNCHANGED <<unit, made>>
     ELSE /\ gate' = NoGate
          /\ IF Answered /\ Agree(gate.lists) THEN LaunchRank(HeadRank) ELSE UNCHANGED <<unit, made>>
  /\ UNCHANGED <<cache, sync, report, nCompiles, nSyncs, nFailures>>

(* The ranks meet, and the engine (external) may make the directories that *)
(* the launcher does not.                                                  *)
Rendezvous ==
  /\ \A n \in Rank : unit[n] = "up"
  /\ unit' = [n \in Rank |-> "serving"]
  /\ \E ds \in {{}, {DIRS[d] : d \in 1 .. Len(DIRS)}} : made' = [n \in Rank |-> made[n] \union ds]
  /\ UNCHANGED <<cache, gate, sync, report, nCompiles, nSyncs, nFailures>>

(* "The engine must be STOPPED while you sync": ranks that come up during  *)
(* a run of the script get no request before it ends.                      *)
Compile(n, k, size) ==
  /\ unit[n] = "serving" /\ cache[n][k] = NoFile /\ nCompiles < MaxCompiles
  /\ sync.step = "none"
  /\ cache' = [cache EXCEPT ![n][k] = size]
  /\ made' = [made EXCEPT ![n] = @ \union {DirOf[k]}]
  /\ nCompiles' = nCompiles + 1
  /\ report' = "none"
  /\ UNCHANGED <<unit, gate, sync, nSyncs, nFailures>>

StopAll ==
  /\ \E n \in Rank : unit[n] # "down"
  /\ unit' = [n \in Rank |-> "down"]
  /\ UNCHANGED <<cache, made, gate, sync, report, nCompiles, nSyncs, nFailures>>

-----------------------------------------------------------------------------
(* jit-cache-sync.sh. *)

(* Its two modes.                                                          *)
SyncBegins(mode) ==
  /\ sync.step = "none" /\ nSyncs < MaxSyncs
  /\ \A n \in Rank : unit[n] = "down"
  /\ sync' = [NoSync EXCEPT !.step = IF mode = "sync" THEN "read" ELSE "check"]
  /\ nSyncs' = nSyncs + 1 /\ report' = "none"
  /\ UNCHANGED <<cache, made, unit, gate, nCompiles, nFailures>>

(* The order of the two loops: every directory of a node, then the next    *)
(* node, then the next step.                                               *)
NextPlace(after) ==
  IF sync.dir < Len(DIRS) THEN [sync EXCEPT !.dir = @ + 1]
  ELSE IF sync.node < Len(NODES) THEN [sync EXCEPT !.node = @ + 1, !.dir = 1]
  ELSE [sync EXCEPT !.step = after, !.node = 1, !.dir = 1]

Refuse == sync' = NoSync /\ report' = "refused"

(* Mutant: what cannot be read is passed over.                             *)
SyncReadsOn ==
  LET n == NODES[sync.node]
      d == DIRS[sync.dir]
      taken == [k \in Kernel |-> IF DirOf[k] = d /\ sync.stage[k] = NoFile
                                 THEN cache[n][k] ELSE sync.stage[k]]
  IN /\ sync.step = "read"
     /\ \/ Works /\ sync' = [NextPlace("write") EXCEPT !.stage = taken]
        \/ Fails /\ sync' = NextPlace("write")
     /\ UNCHANGED <<report, cache, made, unit, gate, nCompiles, nSyncs>>

(* --ignore-existing: the stage takes the kernels that it lacks.           *)
SyncReads ==
  LET n == NODES[sync.node]
      d == DIRS[sync.dir]
      taken == [k \in Kernel |-> IF DirOf[k] = d /\ sync.stage[k] = NoFile
                                 THEN cache[n][k] ELSE sync.stage[k]]
  IN /\ sync.step = "read"
     /\ \/ /\ d \in made[n] /\ Works
           /\ sync' = [NextPlace("write") EXCEPT !.stage = taken]
           /\ UNCHANGED report
        \/ d \notin made[n] /\ Works /\ Refuse
        \/ Fails /\ Refuse
     /\ UNCHANGED <<cache, made, unit, gate, nCompiles, nSyncs>>

(* mkdir, and rsync --delete; one that fails may have written some files.  *)
SyncWrites ==
  LET n == NODES[sync.node]
      d == DIRS[sync.dir]
      here == {k \in Kernel : DirOf[k] = d}
      Written(done) == [k \in Kernel |-> IF k \in done THEN sync.stage[k] ELSE cache[n][k]]
  IN /\ sync.step = "write"
     /\ \/ /\ Works
           /\ made' = [made EXCEPT ![n] = @ \union {d}]
           /\ cache' = [cache EXCEPT ![n] = Written(here)]
           /\ sync' = NextPlace("check") /\ UNCHANGED report
        \/ /\ Fails /\ Refuse
           /\ made' \in {made, [made EXCEPT ![n] = @ \union {d}]}
           /\ \E done \in SUBSET here : cache' = [cache EXCEPT ![n] = Written(done)]
     /\ UNCHANGED <<unit, gate, nCompiles, nSyncs>>

(* check: the listings, where a failed ssh leaves an empty file.           *)
SyncLists ==
  LET n == NODES[Len(sync.lists) + 1] IN
  /\ sync.step = "check" /\ Len(sync.lists) < Len(NODES)
  /\ \/ sync' = [sync EXCEPT !.lists = Append(@, cache[n])] /\ Works
     \/ sync' = [sync EXCEPT !.lists = Append(@, NoKernels)] /\ Fails
  /\ UNCHANGED <<cache, made, unit, gate, report, nCompiles, nSyncs>>

(* Mutant: a node that has listed nothing is left out of the comparison.   *)
ReportsAnswered ==
  /\ sync.step = "check" /\ Len(sync.lists) = Len(NODES)
  /\ report' = IF \E i, j \in 1 .. Len(NODES) : sync.lists[i] # sync.lists[j] /\ NoKernels \notin {sync.lists[i], sync.lists[j]}
               THEN "not identical"
               ELSE IF sync.lists[1] = NoKernels THEN "identical, 0 files" ELSE "identical"
  /\ sync' = NoSync
  /\ UNCHANGED <<cache, made, unit, gate, nCompiles, nSyncs, nFailures>>

SyncReports ==
  /\ sync.step = "check" /\ Len(sync.lists) = Len(NODES)
  /\ report' = IF ~Agree(sync.lists) THEN "not identical"
               ELSE IF sync.lists[1] = NoKernels THEN "identical, 0 files" ELSE "identical"
  /\ sync' = NoSync
  /\ UNCHANGED <<cache, made, unit, gate, nCompiles, nSyncs, nFailures>>

(* The script is stopped.                                                  *)
SyncKilled ==
  /\ sync.step # "none" /\ Fails
  /\ sync' = NoSync
  /\ UNCHANGED <<cache, made, unit, gate, report, nCompiles, nSyncs>>

JitNext ==
  \/ \E n \in Rank : StartWorker(n)
  \/ GateBegins \/ GateLists \/ GateDecides \/ Rendezvous \/ StopAll
  \/ \E n \in Rank, k \in Kernel, s \in KernelSizes : Compile(n, k, s)
  \/ \E mode \in {"sync", "check"} : SyncBegins(mode)
  \/ SyncReads \/ SyncWrites \/ SyncLists \/ SyncReports \/ SyncKilled

JitSpec == JitInit /\ [][JitNext]_jitVars

-----------------------------------------------------------------------------
(* Properties. *)

(* "Equal caches mean equal timing": ranks that meet have equal caches,    *)
(* though the gate reads them one after the other and a run of the script, *)
(* begun while the engine was stopped, may still be at work.               *)
MeetEqual ==
  [][Rendezvous => \A m, n \in Rank : cache[m] = cache[n]]_jitVars

(* "the union has everything": --delete never takes a kernel from a node,  *)
(* wherever the script fails or is stopped, and the head keeps its own.    *)
KernelsKept ==
  [][\A n \in Rank, k \in Kernel :
       cache[n][k] # NoFile =>
         cache'[n][k] # NoFile /\ (n = HeadRank => cache'[n][k] = cache[n][k])]_jitVars

(* "JIT-CACHES IDENTICAL" with a number of files is so until a rank        *)
(* compiles, even when some listings failed.                               *)
IdenticalIsTrue ==
  report = "identical" => \A m, n \in Rank : cache[m] = cache[n]
====

---- MODULE DiskProofs ----
(***************************************************************************)
(* Proofs about what the nodes hold on their disks: the kernel caches, the *)
(* target sidecar and the fast-load sidecar.                               *)
(***************************************************************************)
EXTENDS JitCaches, Sidecar, Fastload, DataLemmas

-----------------------------------------------------------------------------
(***************************************************************************)
(* Proofs about the kernel caches for any number of nodes, directories and *)
(* kernels, and any number of compilations, runs of the script, failures   *)
(* and rounds of the gate.  The one idea: a run of the script gives every  *)
(* node the value of the first node, in the order of the script, that has  *)
(* the kernel, and that value stays the first whatever has been written.   *)
(***************************************************************************)
Sized == KernelSizes \union {NoFile}
KernelListing == [Kernel -> Sized]
Has(i, k) == cache[NODES[i]][k] # NoFile

JitTypeOK ==
  /\ cache \in [Rank -> KernelListing]
  /\ unit \in [Rank -> {"down", "up", "serving"}]
  /\ gate \in [try : Nat, lists : Seq(KernelListing \union {NoAnswer})]
  /\ Len(gate.lists) <= Len(NODES)
  /\ sync \in [step : {"none", "read", "write", "check"}, node : 1 .. Len(NODES),
               dir : 1 .. Len(DIRS), stage : KernelListing, lists : Seq(KernelListing)]
  /\ Len(sync.lists) <= Len(NODES)

(* v is what the first node that has kernel k has, NoFile if none has it.  *)
IsFirst(k, v) ==
  \/ v = NoFile /\ \A i \in 1 .. Len(NODES) : ~Has(i, k)
  \/ v # NoFile /\ \E i \in 1 .. Len(NODES) :
       cache[NODES[i]][k] = v /\ \A j \in 1 .. i - 1 : ~Has(j, k)

AllEqual == \A m, n \in Rank : cache[m] = cache[n]

(* The script has read kernel k of node i.                                 *)
WasRead(i, k) ==
  i < sync.node \/ (i = sync.node /\ \E d \in 1 .. sync.dir - 1 : DIRS[d] = DirOf[k])

StageInv ==
  /\ sync.step = "read" =>
       \A k \in Kernel :
         \/ sync.stage[k] = NoFile
            /\ \A i \in 1 .. Len(NODES) : WasRead(i, k) => ~Has(i, k)
         \/ sync.stage[k] # NoFile
            /\ \E i \in 1 .. Len(NODES) : /\ cache[NODES[i]][k] = sync.stage[k]
                                          /\ \A j \in 1 .. i - 1 : ~Has(j, k)
  /\ sync.step = "write" => \A k \in Kernel : IsFirst(k, sync.stage[k])
  /\ sync.step \in {"read", "write"} => sync.lists = <<>> /\ report # "identical"
  /\ sync.step = "check" =>
       \A i \in 1 .. Len(sync.lists) : sync.lists[i] \in {cache[NODES[i]], NoKernels}

(* What a listing of the gate says of the caches as they are now.          *)
GateInv ==
  gate.try > 0 =>
    /\ unit[HeadRank] = "down"
    /\ \A i \in 1 .. Len(gate.lists), k \in Kernel :
         gate.lists[i] # NoAnswer =>
           \/ cache[NODES[i]][k] = gate.lists[i][k]
           \/ IsFirst(k, cache[NODES[i]][k])
    /\ \A k \in Kernel :
         Len(gate.lists) > 0 /\ gate.lists[1] # NoAnswer /\ gate.lists[1][k] # NoFile
           => cache[HeadRank][k] = gate.lists[1][k]
    /\ \A k \in Kernel :
         (\E i \in 1 .. Len(NODES) : Has(i, k)) =>
           \E i \in 1 .. Len(NODES) :
             /\ Has(i, k)
             /\ i <= Len(gate.lists) /\ gate.lists[i] # NoAnswer => gate.lists[i][k] # NoFile

UnitInv ==
  /\ \A n \in Rank : unit[n] = "serving" => unit[HeadRank] = "serving"
  /\ unit[HeadRank] = "up" => AllEqual

JitInv ==
  /\ JitTypeOK /\ StageInv /\ GateInv /\ UnitInv /\ IdenticalIsTrue

-----------------------------------------------------------------------------
(* Facts about the first value. *)

LEMMA Nodes ==
  /\ Len(NODES) \in Nat \ {0}
  /\ \A i \in 1 .. Len(NODES) : NODES[i] \in Rank
  /\ HeadRank \in Rank
  /\ \A n \in Rank : \E i \in 1 .. Len(NODES) : n = NODES[i]
BY JitNames DEF JitNames, Rank, HeadRank

LEMMA FirstIsUnique ==
  ASSUME NEW k \in Kernel, NEW v, NEW w, IsFirst(k, v), IsFirst(k, w)
  PROVE  v = w
BY Nodes DEF IsFirst, Has

LEMMA FirstExists ==
  ASSUME NEW k \in Kernel, NEW i \in 1 .. Len(NODES), Has(i, k)
  PROVE  \E j \in 1 .. Len(NODES) : Has(j, k) /\ IsFirst(k, cache[NODES[j]][k])
<1> DEFINE S == {j \in 1 .. Len(NODES) : Has(j, k)}
<1>1. PICK j \in S : \A m \in S : j <= m
  <2>1. S \subseteq Nat /\ S # {}
    BY Nodes
  <2> HIDE DEF S
  <2> QED BY <2>1, Least
<1>2. \A m \in 1 .. j - 1 : ~Has(m, k)
  BY <1>1, Nodes
<1> QED BY <1>1, <1>2 DEF IsFirst, Has

LEMMA HeadIsFirst ==
  ASSUME NEW k \in Kernel, cache[HeadRank][k] # NoFile
  PROVE  IsFirst(k, cache[HeadRank][k])
BY Nodes DEF IsFirst, Has, HeadRank

LEMMA EqualIsFirst ==
  ASSUME AllEqual, NEW k \in Kernel, NEW n \in Rank
  PROVE  IsFirst(k, cache[n][k])
BY Nodes DEF AllEqual, IsFirst, Has

(* What a write of the script does to a cache.                             *)
Written(n, done) ==
  /\ n \in Rank /\ done \subseteq Kernel
  /\ cache' = [cache EXCEPT ![n] = [k \in Kernel |-> IF k \in done THEN sync.stage[k] ELSE cache[n][k]]]

LEMMA WriteKeeps ==
  ASSUME JitTypeOK, \A k \in Kernel : IsFirst(k, sync.stage[k]),
         NEW n, NEW done, Written(n, done), NEW k \in Kernel
  PROVE  /\ \A m \in Rank : cache'[m][k] \in {cache[m][k], sync.stage[k]}
         /\ \A m \in Rank : cache[m][k] # NoFile => cache'[m][k] # NoFile
         /\ cache[HeadRank][k] # NoFile => cache'[HeadRank][k] = cache[HeadRank][k]
         /\ \A v : IsFirst(k, v) => IsFirst(k, v)'
         /\ AllEqual => cache'[n][k] = cache[n][k]
<1> USE DEF Written
<1>1. \A m \in Rank : cache'[m][k] \in {cache[m][k], sync.stage[k]}
  BY DEF JitTypeOK
<1>2. \A m \in Rank : cache[m][k] # NoFile => sync.stage[k] # NoFile
  BY Nodes DEF IsFirst, Has
<1>3. \A m \in Rank : cache[m][k] # NoFile => cache'[m][k] # NoFile
  BY <1>1, <1>2
<1>4. cache[HeadRank][k] # NoFile => cache'[HeadRank][k] = cache[HeadRank][k]
  BY <1>1, HeadIsFirst, FirstIsUnique, Nodes
<1>5. ASSUME NEW v, IsFirst(k, v) PROVE IsFirst(k, v)'
  <2>1. v = sync.stage[k]
    BY <1>5, FirstIsUnique
  <2>2. CASE v = NoFile
    BY <2>1, <2>2, <1>1, <1>5, Nodes DEF IsFirst, Has
  <2>3. CASE v # NoFile
    <3>1. PICK i \in 1 .. Len(NODES) :
            cache[NODES[i]][k] = v /\ \A j \in 1 .. i - 1 : ~Has(j, k)
      BY <1>5, <2>3 DEF IsFirst
    <3>2. cache'[NODES[i]][k] = v
      BY <3>1, <2>1, <1>1, Nodes
    <3> DEFINE S == {j \in 1 .. Len(NODES) : Has(j, k)'}
    <3>3. PICK j \in S : \A m \in S : j <= m
      <4>1. S \subseteq Nat /\ i \in S
        BY <3>2, <2>3, Nodes DEF Has
      <4> HIDE DEF S
      <4> QED BY <4>1, Least
    <3>4. j <= i
      BY <3>2, <3>3, <2>3 DEF Has
    <3>5. cache'[NODES[j]][k] = v
      <4>1. CASE j = i
        BY <4>1, <3>2
      <4>2. CASE j < i
        <5>1. ~Has(j, k) /\ Has(j, k)'
          BY <4>2, <3>1, <3>3, Nodes
        <5> QED BY <5>1, <1>1, <2>1, Nodes DEF Has
      <4> QED BY <3>4, <4>1, <4>2, Nodes
    <3>6. \A m \in 1 .. j - 1 : ~Has(m, k)'
      BY <3>3, Nodes
    <3> QED BY <3>5, <3>6, <2>3 DEF IsFirst
  <2> QED BY <2>2, <2>3
<1>6. ASSUME AllEqual PROVE cache'[n][k] = cache[n][k]
  BY <1>6, <1>1, EqualIsFirst, FirstIsUnique
<1> QED BY <1>1, <1>3, <1>4, <1>5, <1>6

-----------------------------------------------------------------------------
(* Types. *)

LEMMA Dirs ==
  /\ Len(DIRS) \in Nat \ {0}
  /\ \A k \in Kernel : \E d \in 1 .. Len(DIRS) : DIRS[d] = DirOf[k]
BY JitNames DEF JitNames

LEMMA Emptiness == NoKernels \in KernelListing
BY DEF NoKernels, KernelListing, Sized

SyncRecord ==
  [step : {"none", "read", "write", "check"}, node : 1 .. Len(NODES),
   dir : 1 .. Len(DIRS), stage : KernelListing, lists : Seq(KernelListing)]

LEMMA NoSyncType == NoSync \in SyncRecord
BY Nodes, Dirs, Emptiness DEF NoSync, SyncRecord

LEMMA NextPlaceType ==
  ASSUME sync \in SyncRecord, NEW after \in {"write", "check"}
  PROVE  /\ NextPlace(after) \in SyncRecord
         /\ NextPlace(after).stage = sync.stage /\ NextPlace(after).lists = sync.lists
         /\ NextPlace(after).step \in {sync.step, after}
<1>1. CASE sync.dir < Len(DIRS)
  <2>1. NextPlace(after) = [sync EXCEPT !.dir = sync.dir + 1]
    BY <1>1 DEF NextPlace
  <2> QED BY <1>1, <2>1, Dirs DEF SyncRecord
<1>2. CASE ~(sync.dir < Len(DIRS)) /\ sync.node < Len(NODES)
  <2>1. NextPlace(after) = [sync EXCEPT !.node = sync.node + 1, !.dir = 1]
    BY <1>2 DEF NextPlace
  <2>2. sync.node + 1 \in 1 .. Len(NODES) /\ 1 \in 1 .. Len(DIRS)
    BY <1>2, Dirs, Nodes DEF SyncRecord
  <2> QED BY <2>1, <2>2 DEF SyncRecord
<1>3. CASE ~(sync.dir < Len(DIRS)) /\ ~(sync.node < Len(NODES))
  <2>1. NextPlace(after) = [sync EXCEPT !.step = after, !.node = 1, !.dir = 1]
    BY <1>3 DEF NextPlace
  <2>2. 1 \in 1 .. Len(NODES) /\ 1 \in 1 .. Len(DIRS)
    BY Dirs, Nodes
  <2> QED BY <2>1, <2>2 DEF SyncRecord
<1> QED BY <1>1, <1>2, <1>3

(* The files that a read takes.                                            *)
LEMMA TakenType ==
  ASSUME JitTypeOK, NEW n \in Rank, NEW d
  PROVE  [k \in Kernel |-> IF DirOf[k] = d /\ sync.stage[k] = NoFile
                           THEN cache[n][k] ELSE sync.stage[k]] \in KernelListing
BY DEF JitTypeOK, KernelListing, Sized

LEMMA WrittenType ==
  ASSUME JitTypeOK, NEW n, NEW done, Written(n, done)
  PROVE  cache' \in [Rank -> KernelListing]
<1>1. [k \in Kernel |-> IF k \in done THEN sync.stage[k] ELSE cache[n][k]] \in KernelListing
  BY DEF JitTypeOK, KernelListing, Sized, Written
<1> QED BY <1>1 DEF Written, JitTypeOK

LEMMA WritesWrite ==
  ASSUME JitTypeOK, SyncWrites
  PROVE  \E done : Written(NODES[sync.node], done)
<1>1. NODES[sync.node] \in Rank
  BY Nodes DEF JitTypeOK
<1> QED BY <1>1 DEF SyncWrites, Written

LEMMA CacheCases ==
  ASSUME [JitNext]_jitVars
  PROVE  \/ UNCHANGED cache
         \/ SyncWrites
         \/ \E n \in Rank, k \in Kernel, size \in KernelSizes : Compile(n, k, size)
BY DEF JitNext, jitVars, StartWorker, GateBegins, GateLists, GateDecides, Rendezvous,
       StopAll, SyncBegins, SyncReads, SyncLists, SyncReports, SyncKilled

LEMMA CacheType ==
  ASSUME JitTypeOK, [JitNext]_jitVars
  PROVE  cache' \in [Rank -> KernelListing]
<1>1. CASE UNCHANGED cache
  BY <1>1 DEF JitTypeOK
<1>2. CASE SyncWrites
  BY <1>2, WritesWrite, WrittenType
<1>3. ASSUME NEW n \in Rank, NEW k \in Kernel, NEW size \in KernelSizes, Compile(n, k, size)
      PROVE  cache' \in [Rank -> KernelListing]
  <2>1. [cache[n] EXCEPT ![k] = size] \in KernelListing
    BY DEF JitTypeOK, KernelListing, Sized
  <2>2. cache' = [cache EXCEPT ![n] = [cache[n] EXCEPT ![k] = size]]
    BY <1>3 DEF Compile
  <2> QED BY <2>1, <2>2 DEF JitTypeOK
<1> QED BY <1>1, <1>2, <1>3, CacheCases

LEMMA JitTypeStep ==
  ASSUME JitTypeOK, [JitNext]_jitVars
  PROVE  JitTypeOK'
<1> USE DEF JitTypeOK
<1>1. cache' \in [Rank -> KernelListing]
  BY CacheType
<1>2. unit' \in [Rank -> {"down", "up", "serving"}]
  <2>1. \/ UNCHANGED unit
        \/ \E n \in Rank : LaunchRank(n)
        \/ \E u \in {"down", "serving"} : unit' = [n \in Rank |-> u]
    BY Nodes DEF JitNext, jitVars, StartWorker, GateBegins, GateLists, GateDecides,
       Rendezvous, Compile, StopAll, SyncBegins, SyncReads, SyncWrites, SyncLists, SyncReports, SyncKilled
  <2> QED BY <2>1 DEF LaunchRank
<1>3. /\ gate' \in [try : Nat, lists : Seq(KernelListing \union {NoAnswer})]
      /\ Len(gate'.lists) <= Len(NODES)
  <2>1. CASE UNCHANGED gate
    BY <2>1
  <2>2. CASE GateBegins
    BY <2>2, Nodes DEF GateBegins
  <2>3. CASE GateLists
    <3>1. NODES[Len(gate.lists) + 1] \in Rank
      BY <2>3, Nodes DEF GateLists
    <3>2. PICK l \in KernelListing \union {NoAnswer} : gate' = [gate EXCEPT !.lists = Append(@, l)]
      BY <2>3, <3>1 DEF GateLists
    <3>3. /\ Append(gate.lists, l) \in Seq(KernelListing \union {NoAnswer})
          /\ Len(Append(gate.lists, l)) = Len(gate.lists) + 1
      BY AppendProperties
    <3>4. Len(gate.lists) < Len(NODES)
      BY <2>3 DEF GateLists
    <3>5. gate' \in [try : Nat, lists : Seq(KernelListing \union {NoAnswer})]
      BY <3>2, <3>3
    <3>6. Len(gate'.lists) = Len(gate.lists) + 1
      BY <3>2, <3>3
    <3> QED BY <3>4, <3>5, <3>6, Nodes
  <2>4. CASE GateDecides
    <3>1. \E t \in Nat : gate' = [try |-> t, lists |-> <<>>]
      BY <2>4 DEF GateDecides, NoGate
    <3> QED BY <3>1, Nodes
  <2> QED
    BY <2>1, <2>2, <2>3, <2>4 DEF JitNext, jitVars, StartWorker,
       Rendezvous, Compile, StopAll, SyncBegins, SyncReads, SyncWrites, SyncLists, SyncReports, SyncKilled
<1>4. sync' \in SyncRecord /\ Len(sync'.lists) <= Len(NODES)
  <2>1. CASE UNCHANGED sync
    BY <2>1 DEF SyncRecord
  <2>2. CASE sync' = NoSync
    BY <2>2, NoSyncType, Nodes DEF NoSync
  <2>3. ASSUME NEW how, SyncBegins(how) PROVE sync' \in SyncRecord /\ Len(sync'.lists) <= Len(NODES)
    <3>1. \E step \in {"read", "check"} : sync' = [NoSync EXCEPT !.step = step]
      BY <2>3 DEF SyncBegins
    <3>2. NoSync.lists = <<>>
      BY DEF NoSync
    <3>3. sync' \in SyncRecord
      BY <3>1, NoSyncType DEF SyncRecord
    <3>4. sync'.lists = <<>>
      BY <3>1, <3>2, NoSyncType DEF SyncRecord
    <3> QED BY <3>3, <3>4, Nodes
  <2>4. CASE SyncReads
    <3>1. NODES[sync.node] \in Rank
      BY Nodes
    <3> DEFINE taken == [k \in Kernel |-> IF DirOf[k] = DIRS[sync.dir] /\ sync.stage[k] = NoFile
                                          THEN cache[NODES[sync.node]][k] ELSE sync.stage[k]]
    <3>2. taken \in KernelListing
      BY <3>1, TakenType
    <3>3. sync' = NoSync \/ sync' = [NextPlace("write") EXCEPT !.stage = taken]
      BY <2>4 DEF SyncReads, Refuse
    <3> HIDE DEF taken
    <3>4. NextPlace("write") \in SyncRecord /\ NextPlace("write").lists = sync.lists
      BY NextPlaceType DEF SyncRecord
    <3> QED BY <3>2, <3>3, <3>4, <2>2 DEF SyncRecord
  <2>5. CASE SyncWrites
    <3>1. sync' = NoSync \/ sync' = NextPlace("check")
      BY <2>5 DEF SyncWrites, Refuse
    <3>2. NextPlace("check") \in SyncRecord /\ NextPlace("check").lists = sync.lists
      BY NextPlaceType DEF SyncRecord
    <3> QED BY <3>1, <3>2, <2>2
  <2>6. CASE SyncLists
    <3>1. NODES[Len(sync.lists) + 1] \in Rank
      BY <2>6, Nodes DEF SyncLists
    <3>2. PICK l \in KernelListing : sync' = [sync EXCEPT !.lists = Append(@, l)]
      BY <2>6, <3>1, Emptiness DEF SyncLists
    <3>3. /\ Append(sync.lists, l) \in Seq(KernelListing)
          /\ Len(Append(sync.lists, l)) = Len(sync.lists) + 1
      BY AppendProperties
    <3>4. Len(sync.lists) < Len(NODES)
      BY <2>6 DEF SyncLists
    <3>5. sync' \in SyncRecord
      BY <3>2, <3>3 DEF SyncRecord
    <3>6. Len(sync'.lists) = Len(sync.lists) + 1
      BY <3>2, <3>3
    <3> QED BY <3>4, <3>5, <3>6, Nodes
  <2> QED
    BY <2>1, <2>2, <2>3, <2>4, <2>5, <2>6 DEF JitNext, jitVars, StartWorker, GateBegins, GateLists,
       GateDecides, Rendezvous, Compile, StopAll, SyncReports, SyncKilled
<1> QED BY <1>1, <1>2, <1>3, <1>4 DEF SyncRecord

-----------------------------------------------------------------------------
(* The script. *)

LEMMA JitInvInit == JitInit => JitInv
<1> SUFFICES ASSUME JitInit PROVE JitInv
  OBVIOUS
<1> USE DEF JitInit, NoSync, NoGate
<1>1. JitTypeOK
  <2>1. sync \in SyncRecord /\ Len(sync.lists) = 0
    <3>1. sync.lists = <<>>
      OBVIOUS
    <3> QED BY <3>1, NoSyncType
  <2>2. gate \in [try : Nat, lists : Seq(KernelListing \union {NoAnswer})] /\ Len(gate.lists) = 0
    OBVIOUS
  <2> QED BY <2>1, <2>2, Emptiness, Nodes DEF JitTypeOK, SyncRecord
<1>2. StageInv /\ GateInv
  BY DEF StageInv, GateInv
<1>3. UnitInv /\ IdenticalIsTrue
  BY Nodes DEF UnitInv, IdenticalIsTrue
<1> QED BY <1>1, <1>2, <1>3 DEF JitInv

(* What a write, whole or cut short, writes.                               *)
LEMMA WriteIs ==
  ASSUME JitTypeOK, StageInv, SyncWrites
  PROVE  /\ \A k \in Kernel : IsFirst(k, sync.stage[k])
         /\ \E done : Written(NODES[sync.node], done)
BY WritesWrite DEF StageInv, SyncWrites

LEMMA ReadStep ==
  ASSUME JitTypeOK, StageInv, SyncReads
  PROVE  StageInv'
<1>1. CASE sync' = NoSync
  BY <1>1 DEF StageInv, NoSync
<1>2. CASE sync' # NoSync
  <2> DEFINE n == NODES[sync.node]
             d == DIRS[sync.dir]
             taken == [k \in Kernel |-> IF DirOf[k] = d /\ sync.stage[k] = NoFile
                                        THEN cache[n][k] ELSE sync.stage[k]]
  <2>1. /\ sync.step = "read" /\ UNCHANGED <<cache, report>>
        /\ sync' = [NextPlace("write") EXCEPT !.stage = taken]
    BY <1>2 DEF SyncReads, Refuse
  <2>2. sync \in SyncRecord
    BY DEF JitTypeOK, SyncRecord
  <2>3. taken \in KernelListing /\ n \in Rank
    <3>1. n \in Rank
      BY <2>2, Nodes DEF SyncRecord
    <3> QED BY <3>1, TakenType
  <2>4. /\ NextPlace("write") \in SyncRecord /\ NextPlace("write").lists = <<>>
        /\ NextPlace("write").step \in {"read", "write"}
    BY <2>1, <2>2, NextPlaceType DEF StageInv
  <2>5. /\ sync'.stage = taken /\ sync'.lists = <<>> /\ sync'.step \in {"read", "write"}
        /\ sync'.step = NextPlace("write").step /\ sync'.node = NextPlace("write").node
        /\ sync'.dir = NextPlace("write").dir
    <3> HIDE DEF taken
    <3> QED BY <2>1, <2>3, <2>4 DEF SyncRecord
  <2>6. ASSUME NEW k \in Kernel
        PROVE  \/ taken[k] = NoFile
                  /\ \A i \in 1 .. Len(NODES) :
                       WasRead(i, k) \/ (i = sync.node /\ DirOf[k] = d) => ~Has(i, k)
               \/ taken[k] # NoFile
                  /\ \E i \in 1 .. Len(NODES) : /\ cache[NODES[i]][k] = taken[k]
                                                /\ \A j \in 1 .. i - 1 : ~Has(j, k)
    <3>1. CASE sync.stage[k] # NoFile
      BY <3>1, <2>1 DEF StageInv
    <3>2. CASE sync.stage[k] = NoFile
      <4>1. \A i \in 1 .. Len(NODES) : WasRead(i, k) => ~Has(i, k)
        BY <3>2, <2>1 DEF StageInv
      <4>2. CASE DirOf[k] # d
        BY <4>1, <4>2, <3>2
      <4>3. CASE DirOf[k] = d
        <5>1. taken[k] = cache[n][k]
          BY <4>3, <3>2
        <5>2. \A j \in 1 .. sync.node - 1 : ~Has(j, k)
          BY <4>1, <2>2, Nodes DEF WasRead, SyncRecord
        <5>3. sync.node \in 1 .. Len(NODES)
          BY <2>2 DEF SyncRecord
        <5> QED BY <4>1, <5>1, <5>2, <5>3 DEF Has
      <4> QED BY <4>2, <4>3
    <3> QED BY <3>1, <3>2
  <2>7. CASE sync'.step = "read"
    <3>1. ASSUME NEW i \in 1 .. Len(NODES), NEW k \in Kernel, WasRead(i, k)'
          PROVE  WasRead(i, k) \/ (i = sync.node /\ DirOf[k] = d)
      <4>1. CASE sync.dir < Len(DIRS)
        <5>1. sync'.node = sync.node /\ sync'.dir = sync.dir + 1
          BY <4>1, <2>2, <2>5 DEF NextPlace, SyncRecord
        <5>2. i < sync.node \/ (i = sync.node /\ \E e \in 1 .. sync.dir : DIRS[e] = DirOf[k])
          BY <3>1, <5>1, <2>2, Dirs DEF WasRead, SyncRecord
        <5> QED BY <5>2, <2>2, Dirs DEF WasRead, SyncRecord
      <4>2. CASE ~(sync.dir < Len(DIRS)) /\ sync.node < Len(NODES)
        <5>1. sync'.node = sync.node + 1 /\ sync'.dir = 1
          BY <4>2, <2>2, <2>5 DEF NextPlace, SyncRecord
        <5>2. i < sync.node \/ i = sync.node
          BY <3>1, <5>1, <2>2, Nodes DEF WasRead, SyncRecord
        <5>3. sync.dir = Len(DIRS)
          BY <4>2, <2>2, Dirs DEF SyncRecord
        <5>4. PICK e \in 1 .. Len(DIRS) : DIRS[e] = DirOf[k]
          BY Dirs
        <5>5. e \in 1 .. sync.dir - 1 \/ e = sync.dir
          BY <5>3, Dirs
        <5> QED BY <5>2, <5>4, <5>5 DEF WasRead
      <4>3. CASE ~(sync.dir < Len(DIRS)) /\ ~(sync.node < Len(NODES))
        BY <4>3, <2>2, <2>5, <2>7 DEF NextPlace, SyncRecord
      <4> QED BY <4>1, <4>2, <4>3
    <3>2. \A i \in 1 .. Len(NODES), k \in Kernel : Has(i, k)' <=> Has(i, k)
      BY <2>1 DEF Has
    <3> HIDE DEF taken
    <3>3. ASSUME NEW k \in Kernel
          PROVE  \/ sync'.stage[k] = NoFile
                    /\ \A i \in 1 .. Len(NODES) : WasRead(i, k)' => ~Has(i, k)'
                 \/ sync'.stage[k] # NoFile
                    /\ \E i \in 1 .. Len(NODES) : /\ cache'[NODES[i]][k] = sync'.stage[k]
                                                  /\ \A j \in 1 .. i - 1 : ~Has(j, k)'
      BY <2>1, <2>5, <2>6, <3>1, <3>2 DEF Has
    <3> QED BY <3>3, <2>1, <2>5, <2>7 DEF StageInv
  <2>8. CASE sync'.step = "write"
    <3>1. sync.dir = Len(DIRS) /\ sync.node = Len(NODES)
      BY <2>1, <2>2, <2>5, <2>8, Dirs, Nodes DEF NextPlace, SyncRecord
    <3>2. ASSUME NEW i \in 1 .. Len(NODES), NEW k \in Kernel
          PROVE  WasRead(i, k) \/ (i = sync.node /\ DirOf[k] = d)
      <4>1. PICK e \in 1 .. Len(DIRS) : DIRS[e] = DirOf[k]
        BY Dirs
      <4>2. e \in 1 .. sync.dir - 1 \/ e = sync.dir
        BY <3>1, Dirs
      <4>3. i < sync.node \/ i = sync.node
        BY <3>1, Nodes
      <4> QED BY <4>1, <4>2, <4>3 DEF WasRead
    <3> HIDE DEF taken
    <3>3. \A k \in Kernel : IsFirst(k, taken[k])
      BY <2>6, <3>2 DEF IsFirst
    <3>4. \A k \in Kernel : \A v : IsFirst(k, v)' <=> IsFirst(k, v)
      BY <2>1 DEF IsFirst, Has
    <3> QED BY <3>3, <3>4, <2>1, <2>5, <2>8 DEF StageInv
  <2> QED BY <2>5, <2>7, <2>8
<1> QED BY <1>1, <1>2

LEMMA StageStep ==
  ASSUME JitTypeOK, StageInv, [JitNext]_jitVars
  PROVE  StageInv'
<1>1. CASE UNCHANGED <<sync, cache, report>>
  BY <1>1 DEF StageInv, WasRead, IsFirst, Has
<1>2. ASSUME NEW n \in Rank, NEW k \in Kernel, NEW size \in KernelSizes, Compile(n, k, size)
      PROVE  StageInv'
  BY <1>2 DEF Compile, StageInv
<1>3. CASE sync' = NoSync
  BY <1>3 DEF StageInv, NoSync
<1>4. ASSUME NEW how, SyncBegins(how) PROVE StageInv'
  <2>1. PICK step \in {"read", "check"} : sync' = [NoSync EXCEPT !.step = step]
    BY <1>4 DEF SyncBegins
  <2>2. /\ sync'.step = step /\ sync'.stage = NoKernels /\ sync'.lists = <<>>
        /\ sync'.node = 1 /\ sync'.dir = 1 /\ report' = "none"
    BY <1>4, <2>1 DEF NoSync, SyncBegins
  <2>3. \A k \in Kernel : NoKernels[k] = NoFile
    BY DEF NoKernels
  <2>4. \A i \in 1 .. Len(NODES), k \in Kernel : ~WasRead(i, k)'
    BY <2>2, Nodes DEF WasRead
  <2> QED BY <2>2, <2>3, <2>4 DEF StageInv
<1>5. CASE SyncReads
  BY <1>5, ReadStep
<1>6. CASE SyncWrites /\ sync' # NoSync
  <2>1. sync.step = "write" /\ sync' = NextPlace("check") /\ UNCHANGED report
    BY <1>6 DEF SyncWrites, Refuse
  <2>2. /\ sync'.stage = sync.stage /\ sync'.lists = <<>>
        /\ sync'.step \in {"write", "check"}
    BY <2>1, NextPlaceType DEF JitTypeOK, SyncRecord, StageInv
  <2>3. \A k \in Kernel : IsFirst(k, sync.stage[k])'
    <3>1. PICK done : Written(NODES[sync.node], done)
      BY <1>6, WriteIs
    <3>2. ASSUME NEW k \in Kernel PROVE IsFirst(k, sync.stage[k])'
      <4>1. \A v : IsFirst(k, v) => IsFirst(k, v)'
        BY <3>1, <1>6, WriteIs, WriteKeeps
      <4>2. IsFirst(k, sync.stage[k])
        BY <1>6, WriteIs
      <4> QED BY <2>2, <4>1, <4>2 DEF IsFirst, Has
    <3> QED BY <3>2
  <2> QED BY <2>1, <2>2, <2>3 DEF StageInv
<1>7. CASE SyncLists
  <2>1. PICK l \in {cache[NODES[Len(sync.lists) + 1]], NoKernels} :
          sync' = [sync EXCEPT !.lists = Append(@, l)]
    BY <1>7 DEF SyncLists
  <2>2. sync.step = "check" /\ UNCHANGED <<cache, report>>
    BY <1>7 DEF SyncLists
  <2>3. sync'.step = "check" /\ sync'.lists = Append(sync.lists, l)
    BY <2>1, <2>2 DEF JitTypeOK
  <2>4. \A i \in 1 .. Len(sync'.lists) : sync'.lists[i] \in {cache[NODES[i]], NoKernels}
    BY <2>1, <2>2, <2>3 DEF StageInv, JitTypeOK
  <2> QED BY <2>2, <2>3, <2>4 DEF StageInv
<1> QED
  BY <1>1, <1>2, <1>3, <1>4, <1>5, <1>6, <1>7
     DEF JitNext, jitVars, StartWorker, GateBegins, GateLists, GateDecides, Rendezvous,
         StopAll, SyncReports, SyncKilled

LEMMA IdenticalStep ==
  ASSUME JitTypeOK, StageInv, IdenticalIsTrue, [JitNext]_jitVars
  PROVE  IdenticalIsTrue'
<1> SUFFICES ASSUME report' = "identical" PROVE \A m, n \in Rank : cache'[m] = cache'[n]
  BY DEF IdenticalIsTrue
<1>1. CASE UNCHANGED <<cache, report>>
  BY <1>1 DEF IdenticalIsTrue
<1>2. CASE SyncReports
  <2>1. /\ Len(sync.lists) = Len(NODES) /\ Agree(sync.lists) /\ sync.lists[1] # NoKernels
        /\ sync.step = "check" /\ UNCHANGED cache
    BY <1>2 DEF SyncReports
  <2>2. \A i \in 1 .. Len(NODES) : cache[NODES[i]] = sync.lists[1]
    BY <2>1 DEF Agree, StageInv
  <2> QED BY <2>1, <2>2, Nodes
<1>3. CASE SyncWrites
  BY <1>3 DEF SyncWrites, Refuse, StageInv
<1> QED
  BY <1>1, <1>2, <1>3 DEF JitNext, jitVars, StartWorker, GateBegins, GateLists, GateDecides,
     Rendezvous, Compile, StopAll, SyncBegins, SyncReads, Refuse, SyncLists, SyncKilled

-----------------------------------------------------------------------------
(* The gate and the units. *)

LEMMA NobodyServes ==
  ASSUME JitTypeOK, UnitInv, GateInv, gate.try > 0
  PROVE  unit[HeadRank] = "down" /\ \A n \in Rank : unit[n] # "serving"
BY DEF UnitInv, GateInv

(* A gate whose listings stand keeps what they say.                        *)
LEMMA GateStands ==
  ASSUME JitTypeOK, StageInv, GateInv, UnitInv, [JitNext]_jitVars, UNCHANGED gate
  PROVE  GateInv'
<1> SUFFICES ASSUME gate.try > 0 PROVE GateInv'
  BY DEF GateInv
<1>1. unit'[HeadRank] = "down"
  <2>1. unit[HeadRank] = "down"
    BY NobodyServes
  <2>2. ASSUME NEW n \in Rank, StartWorker(n) PROVE unit'[HeadRank] = "down"
    BY <2>1, <2>2, Nodes DEF StartWorker, LaunchRank, JitTypeOK
  <2>3. CASE GateDecides
    <3>1. gate' = gate /\ gate.try \in Nat
      BY DEF JitTypeOK
    <3>2. gate'.try = gate.try + 1 \/ gate'.try = 0
      BY <2>3 DEF GateDecides, NoGate
    <3> QED BY <3>1, <3>2
  <2>4. CASE Rendezvous
    BY <2>1, <2>4, Nodes DEF Rendezvous
  <2>5. CASE StopAll
    BY <2>5, Nodes DEF StopAll
  <2>6. CASE UNCHANGED unit
    BY <2>1, <2>6
  <2> QED
    BY <2>2, <2>3, <2>4, <2>5, <2>6 DEF JitNext, jitVars, GateBegins, GateLists,
       Compile, SyncBegins, SyncReads, SyncWrites, SyncLists, SyncReports, SyncKilled
<1>2. CASE UNCHANGED cache
  BY <1>1, <1>2 DEF GateInv, IsFirst, Has
<1>3. CASE SyncWrites
  <2>1. PICK done : Written(NODES[sync.node], done)
    BY <1>3, WriteIs
  <2>2. \A k \in Kernel :
          /\ \A m \in Rank : cache'[m][k] \in {cache[m][k], sync.stage[k]}
          /\ \A m \in Rank : cache[m][k] # NoFile => cache'[m][k] # NoFile
          /\ cache[HeadRank][k] # NoFile => cache'[HeadRank][k] = cache[HeadRank][k]
          /\ \A v : IsFirst(k, v) => IsFirst(k, v)'
    BY <1>3, <2>1, WriteIs, WriteKeeps
  <2>3. ASSUME NEW i \in 1 .. Len(gate.lists), NEW k \in Kernel, gate.lists[i] # NoAnswer
        PROVE  \/ cache'[NODES[i]][k] = gate.lists[i][k]
               \/ IsFirst(k, cache[NODES[i]][k])'
    <3>1. NODES[i] \in Rank
      BY Nodes DEF JitTypeOK
    <3>2. CASE cache'[NODES[i]][k] = cache[NODES[i]][k] /\ cache[NODES[i]][k] = gate.lists[i][k]
      BY <3>2
    <3>3. CASE IsFirst(k, cache'[NODES[i]][k])
      <4>1. \A v : IsFirst(k, v) => IsFirst(k, v)'
        BY <2>2
      <4> QED BY <3>3, <4>1 DEF IsFirst, Has
    <3>4. IsFirst(k, sync.stage[k])
      BY <1>3, WriteIs
    <3>5. cache[NODES[i]][k] = gate.lists[i][k] \/ IsFirst(k, cache[NODES[i]][k])
      BY <2>3 DEF GateInv
    <3>6. cache'[NODES[i]][k] = cache[NODES[i]][k] \/ cache'[NODES[i]][k] = sync.stage[k]
      BY <2>2, <3>1
    <3> QED BY <3>2, <3>3, <3>4, <3>5, <3>6
  <2>4. ASSUME NEW k \in Kernel, Len(gate.lists) > 0, gate.lists[1] # NoAnswer,
               gate.lists[1][k] # NoFile
        PROVE  cache'[HeadRank][k] = gate.lists[1][k]
    BY <2>2, <2>4 DEF GateInv
  <2>5. ASSUME NEW k \in Kernel, NEW i \in 1 .. Len(NODES), Has(i, k)'
        PROVE  \E j \in 1 .. Len(NODES) :
                 /\ cache'[NODES[j]][k] # NoFile
                 /\ j <= Len(gate.lists) /\ gate.lists[j] # NoAnswer => gate.lists[j][k] # NoFile
    <3>1. \E j \in 1 .. Len(NODES) : Has(j, k)
      <4>1. CASE cache'[NODES[i]][k] = cache[NODES[i]][k]
        BY <4>1, <2>5 DEF Has
      <4>2. CASE cache'[NODES[i]][k] = sync.stage[k]
        BY <4>2, <2>5, <1>3, WriteIs DEF Has, IsFirst
      <4> QED BY <2>2, <4>1, <4>2, Nodes
    <3>2. PICK j \in 1 .. Len(NODES) :
             /\ Has(j, k)
             /\ j <= Len(gate.lists) /\ gate.lists[j] # NoAnswer => gate.lists[j][k] # NoFile
      BY <3>1 DEF GateInv
    <3> QED BY <2>2, <3>2, Nodes DEF Has
  <2>6. \A k \in Kernel :
          (\E i \in 1 .. Len(NODES) : Has(i, k)') =>
            \E j \in 1 .. Len(NODES) :
              /\ Has(j, k)'
              /\ j <= Len(gate.lists) /\ gate.lists[j] # NoAnswer => gate.lists[j][k] # NoFile
    BY <2>5 DEF Has
  <2> QED BY <1>1, <2>3, <2>4, <2>6 DEF GateInv
<1>4. ASSUME NEW n \in Rank, NEW k \in Kernel, NEW size \in KernelSizes, Compile(n, k, size)
      PROVE  FALSE
  BY <1>4, NobodyServes DEF Compile
<1> QED BY <1>2, <1>3, <1>4, CacheCases

LEMMA GateStep ==
  ASSUME JitTypeOK, StageInv, GateInv, UnitInv, [JitNext]_jitVars
  PROVE  GateInv'
<1>1. CASE UNCHANGED gate
  BY <1>1, GateStands
<1>2. CASE gate'.lists = <<>> /\ UNCHANGED cache /\ (gate'.try > 0 => unit'[HeadRank] = "down")
  <2>1. Len(gate'.lists) = 0
    BY <1>2
  <2> QED BY <1>2, <2>1, Nodes DEF GateInv, Has
<1>3. CASE GateBegins
  BY <1>2, <1>3 DEF GateBegins
<1>4. CASE GateDecides
  BY <1>2, <1>4, NobodyServes DEF GateDecides, NoGate
<1>5. CASE GateLists
  <2> DEFINE at == Len(gate.lists) + 1
  <2>1. PICK l \in {cache[NODES[at]], NoAnswer} : gate' = [gate EXCEPT !.lists = Append(@, l)]
    BY <1>5 DEF GateLists
  <2>2. gate.try > 0 /\ gate'.try = gate.try /\ UNCHANGED <<cache, unit>> /\ at \in 1 .. Len(NODES)
    BY <1>5, <2>1, Nodes DEF GateLists, JitTypeOK
  <2>3. /\ Len(gate'.lists) = at /\ gate'.lists[at] = l
        /\ \A i \in 1 .. Len(gate.lists) : gate'.lists[i] = gate.lists[i]
    BY <2>1 DEF JitTypeOK
  <2>4. \A i \in 1 .. Len(gate'.lists) : i = at \/ i \in 1 .. Len(gate.lists)
    BY <2>3 DEF JitTypeOK
  <2>5. \A k \in Kernel : \A v : IsFirst(k, v)' <=> IsFirst(k, v)
    BY <2>2 DEF IsFirst, Has
  <2>6. ASSUME NEW i \in 1 .. Len(gate'.lists), NEW k \in Kernel, gate'.lists[i] # NoAnswer
        PROVE  cache[NODES[i]][k] = gate'.lists[i][k] \/ IsFirst(k, cache[NODES[i]][k])
    <3>1. CASE i = at
      BY <3>1, <2>3, <2>6
    <3>2. CASE i \in 1 .. Len(gate.lists)
      BY <3>2, <2>2, <2>3, <2>6 DEF GateInv
    <3> QED BY <3>1, <3>2, <2>4
  <2>7. ASSUME NEW k \in Kernel, gate'.lists[1] # NoAnswer, gate'.lists[1][k] # NoFile
        PROVE  cache[HeadRank][k] = gate'.lists[1][k]
    <3>1. CASE Len(gate.lists) = 0
      BY <3>1, <2>3, <2>7 DEF HeadRank
    <3>2. CASE Len(gate.lists) > 0
      BY <3>2, <2>2, <2>3, <2>7 DEF GateInv, JitTypeOK
    <3> QED BY <3>1, <3>2 DEF JitTypeOK
  <2>8. ASSUME NEW k \in Kernel, NEW i \in 1 .. Len(NODES), Has(i, k)
        PROVE  \E j \in 1 .. Len(NODES) :
                 /\ Has(j, k)
                 /\ j <= Len(gate'.lists) /\ gate'.lists[j] # NoAnswer => gate'.lists[j][k] # NoFile
    <3>1. PICK j \in 1 .. Len(NODES) :
             /\ Has(j, k)
             /\ j <= Len(gate.lists) /\ gate.lists[j] # NoAnswer => gate.lists[j][k] # NoFile
      BY <2>2, <2>8 DEF GateInv
    <3>2. CASE j = at
      BY <3>1, <3>2, <2>3 DEF Has
    <3>3. CASE j # at
      BY <3>1, <3>3, <2>3, <2>4
    <3> QED BY <3>2, <3>3
  <2> QED BY <2>2, <2>5, <2>6, <2>7, <2>8, NobodyServes DEF GateInv, Has, IsFirst
<1> QED
  BY <1>1, <1>3, <1>4, <1>5 DEF JitNext, jitVars, StartWorker, Rendezvous, Compile, StopAll,
     SyncBegins, SyncReads, SyncWrites, SyncLists, SyncReports, SyncKilled

(* Equal listings, though taken one after the other, mean equal caches now.*)
LEMMA GateIsRight ==
  ASSUME JitTypeOK, GateInv, gate.try > 0, Len(gate.lists) = Len(NODES),
         Answered, Agree(gate.lists)
  PROVE  AllEqual
<1> DEFINE L == gate.lists[1]
<1>1. \A i \in 1 .. Len(NODES) : gate.lists[i] = L /\ gate.lists[i] # NoAnswer
  BY DEF Agree, Answered
<1>2. 1 \in 1 .. Len(NODES) /\ Len(gate.lists) > 0 /\ L # NoAnswer
  BY <1>1, Nodes
<1>3. ASSUME NEW k \in Kernel, L[k] # NoFile, NEW n \in Rank
      PROVE  cache[n][k] = L[k]
  <2>1. cache[HeadRank][k] = L[k]
    BY <1>2, <1>3 DEF GateInv
  <2>2. IsFirst(k, L[k])
    BY <1>3, <2>1, HeadIsFirst
  <2>3. PICK i \in 1 .. Len(NODES) : n = NODES[i]
    BY Nodes
  <2>4. cache[n][k] = L[k] \/ IsFirst(k, cache[n][k])
    BY <1>1, <2>3 DEF GateInv
  <2> QED BY <2>2, <2>4, FirstIsUnique
<1>4. ASSUME NEW k \in Kernel, L[k] = NoFile, NEW n \in Rank
      PROVE  cache[n][k] = NoFile
  <2>1. PICK i \in 1 .. Len(NODES) : n = NODES[i]
    BY Nodes
  <2>2. ASSUME Has(i, k) PROVE FALSE
    <3>1. PICK j \in 1 .. Len(NODES) :
             j <= Len(gate.lists) /\ gate.lists[j] # NoAnswer => gate.lists[j][k] # NoFile
      BY <2>2 DEF GateInv
    <3> QED BY <3>1, <1>1, <1>4, Nodes
  <2> QED BY <2>1, <2>2 DEF Has
<1>5. ASSUME NEW m \in Rank, NEW n \in Rank PROVE cache[m] = cache[n]
  <2>1. cache[m] \in KernelListing /\ cache[n] \in KernelListing
    BY DEF JitTypeOK
  <2>2. \A k \in Kernel : cache[m][k] = cache[n][k]
    BY <1>3, <1>4
  <2> QED BY <2>1, <2>2 DEF KernelListing
<1> QED BY <1>5 DEF AllEqual

LEMMA UnitStep ==
  ASSUME JitTypeOK, StageInv, GateInv, UnitInv, [JitNext]_jitVars
  PROVE  UnitInv'
<1>1. CASE UNCHANGED <<unit, cache>>
  BY <1>1 DEF UnitInv, AllEqual
<1>2. ASSUME NEW n \in Rank, StartWorker(n) PROVE UnitInv'
  BY <1>2, Nodes DEF StartWorker, LaunchRank, UnitInv, AllEqual, JitTypeOK
<1>3. CASE GateDecides /\ unit' # unit
  <2>1. /\ gate.try > 0 /\ Len(gate.lists) = Len(NODES) /\ Answered /\ Agree(gate.lists)
        /\ LaunchRank(HeadRank) /\ UNCHANGED cache
    BY <1>3 DEF GateDecides
  <2>2. AllEqual
    BY <2>1, GateIsRight
  <2> QED BY <2>1, <2>2, NobodyServes, Nodes DEF LaunchRank, UnitInv, AllEqual, JitTypeOK
<1>4. CASE Rendezvous \/ StopAll
  BY <1>4, Nodes DEF Rendezvous, StopAll, UnitInv
<1>5. ASSUME NEW n \in Rank, NEW k \in Kernel, NEW size \in KernelSizes, Compile(n, k, size)
      PROVE  UnitInv'
  BY <1>5 DEF Compile, UnitInv
<1>6. CASE SyncWrites
  <2>1. PICK done : Written(NODES[sync.node], done)
    BY <1>6, WriteIs
  <2>2. ASSUME AllEqual PROVE cache' = cache
    <3>1. \A k \in Kernel : cache'[NODES[sync.node]][k] = cache[NODES[sync.node]][k]
      BY <1>6, <2>1, <2>2, WriteIs, WriteKeeps
    <3>2. \A m \in Rank \ {NODES[sync.node]} : cache'[m] = cache[m]
      BY <2>1 DEF Written, JitTypeOK
    <3>3. cache \in [Rank -> KernelListing] /\ cache' \in [Rank -> KernelListing]
      BY <2>1, WrittenType DEF JitTypeOK
    <3>4. \A m \in Rank : cache'[m] = cache[m]
      BY <3>1, <3>2, <3>3 DEF KernelListing
    <3> QED BY <3>3, <3>4
  <2> QED BY <1>6, <2>2 DEF SyncWrites, UnitInv, AllEqual
<1> QED
  BY <1>1, <1>2, <1>3, <1>4, <1>5, <1>6
     DEF JitNext, jitVars, GateBegins, GateLists, GateDecides, SyncBegins, SyncReads, SyncLists,
         SyncReports, SyncKilled

-----------------------------------------------------------------------------
(* Theorems. *)

(* The invariant on which the script, the gate and the ranks rest.         *)
THEOREM JitInvariance == JitSpec => []JitInv
<1>1. JitInv /\ [JitNext]_jitVars => JitInv'
  BY JitTypeStep, StageStep, GateStep, UnitStep, IdenticalStep DEF JitInv
<1> QED BY JitInvInit, <1>1, PTL DEF JitSpec

(* "JIT-CACHES IDENTICAL" with a number of files is true until a rank      *)
(* compiles, whichever listings failed (check of jit-cache-sync.sh).       *)
THEOREM IdenticalTheorem == JitSpec => []IdenticalIsTrue
BY JitInvariance, PTL DEF JitInv

(* Ranks that meet have equal caches, although the gate of the preflight   *)
(* reads them one after the other while a run of the script may be writing.*)
THEOREM MeetEqualTheorem == JitSpec => MeetEqual
<1>1. JitInv /\ [JitNext]_jitVars =>
        [Rendezvous => \A m, n \in Rank : cache[m] = cache[n]]_jitVars
  BY Nodes DEF JitInv, UnitInv, AllEqual, Rendezvous
<1> QED BY JitInvariance, <1>1, PTL DEF JitSpec, MeetEqual

(* No step takes a kernel from a node, and the head keeps its own, wherever*)
(* runs of the script fail or are stopped.                                 *)
THEOREM KernelsKeptTheorem == JitSpec => KernelsKept
<1> DEFINE KeptIn ==
      \A n \in Rank, k \in Kernel :
        cache[n][k] # NoFile =>
          cache'[n][k] # NoFile /\ (n = HeadRank => cache'[n][k] = cache[n][k])
<1>1. ASSUME JitInv, [JitNext]_jitVars PROVE KeptIn
  <2>1. CASE UNCHANGED cache
    BY <2>1
  <2>2. CASE SyncWrites
    BY <1>1, <2>2, WriteIs, WriteKeeps DEF JitInv
  <2>3. ASSUME NEW n \in Rank, NEW k \in Kernel, NEW size \in KernelSizes, Compile(n, k, size)
        PROVE  KeptIn
    BY <1>1, <2>3 DEF Compile, JitInv, JitTypeOK, KernelListing
  <2> QED BY <1>1, <2>1, <2>2, <2>3, CacheCases
<1>2. JitInv /\ [JitNext]_jitVars => [KeptIn]_jitVars
  BY <1>1
<1> QED BY JitInvariance, <1>2, PTL DEF JitSpec, KernelsKept

-----------------------------------------------------------------------------
(***************************************************************************)
(* Proofs about the target sidecar for any tensors, shards and split       *)
(* files, and any number of builds that are killed anywhere.  A temporary  *)
(* directory is never taken up again, so that what is in it is given by    *)
(* the step of the build that is writing it; and only a whole one takes    *)
(* the name of the target.                                                 *)
(***************************************************************************)
IsDir(d) ==
  d = [splits |-> d.splits, linked |-> d.linked, config |-> d.config, index |-> d.index, qcfg |-> d.qcfg]

SplitSound(d) == IsDir(d) /\ d.splits \subseteq SUBSET Parts
Split(d) == SplitSound(d) /\ UNION d.splits = Parts
Linked(d) == Split(d) /\ d.linked = ShardFiles
Configured(d) == Linked(d) /\ d.config = TRUE

IndexFor(src, splits, n) ==
  [wm |-> [t \in TargetTensors |->
             IF t \in KeptTensors THEN src.wm[t] ELSE CHOOSE f \in splits : t \in f],
   dropped |-> Dropped, tool |-> n]
Indexed(src, n, d) == Configured(d) /\ d.index = IndexFor(src, d.splits, n)
WholeDir(src, d) == d.qcfg = TRUE /\ \E n \in Nat : Indexed(src, n, d)
(* With the tool that the build has looked for, or one installed since.    *)
IndexedSince(d) == \E n \in Nat : ran <= n /\ n <= tool /\ Indexed(source, n, d)

(* The steps in which a build writes, with what it has written.            *)
Building == buildStep \in {"split", "link", "config", "index", "qcfg", "rmdir", "replace"}

TempInv ==
  /\ tool \in Nat /\ ran \in Nat /\ ran <= tool
  /\ buildStep = "split" => SplitSound(temp)
  /\ buildStep = "link" => Split(temp)
  /\ buildStep = "config" => Linked(temp)
  /\ buildStep = "index" => Configured(temp)
  /\ buildStep = "qcfg" => IndexedSince(temp)
  /\ buildStep \in {"rmdir", "replace"} => IndexedSince(temp) /\ temp.qcfg = TRUE

TargetInv ==
  /\ target \notin {NoDir, EmptyDir, Foreign} => WholeDir(source, target)
  /\ Building => target \in {NoDir, EmptyDir, Foreign}
  /\ buildStep = "verify" => WholeDir(source, target) /\ ran <= target.index.tool

Sources == [wm : [KeptTensors \union Dropped -> ShardFiles], stray : SUBSET ShardFiles]

SidecarInv == source \in Sources /\ TempInv /\ TargetInv

-----------------------------------------------------------------------------
(* The invariant. *)

LEMMA SidecarStarts ==
  ASSUME SidecarInit
  PROVE  SidecarInv
BY DEF SidecarInit, SidecarInv, Sources, TempInv, TargetInv, Building

LEMMA EmptyIsSound ==
  /\ SplitSound(EmptyDir) /\ EmptyDir.index = NoDir /\ EmptyDir.config = FALSE
  /\ Foreign.index = NoDir
BY DEF SplitSound, IsDir, EmptyDir, Foreign

(* A directory of five fields, one of which is set.                        *)
LEMMA FieldSet ==
  ASSUME NEW d, IsDir(d), NEW x
  PROVE  /\ [d EXCEPT !.splits = x] = [splits |-> x, linked |-> d.linked, config |-> d.config, index |-> d.index, qcfg |-> d.qcfg]
         /\ [d EXCEPT !.linked = x] = [splits |-> d.splits, linked |-> x, config |-> d.config, index |-> d.index, qcfg |-> d.qcfg]
         /\ [d EXCEPT !.config = x] = [splits |-> d.splits, linked |-> d.linked, config |-> x, index |-> d.index, qcfg |-> d.qcfg]
         /\ [d EXCEPT !.index = x] = [splits |-> d.splits, linked |-> d.linked, config |-> d.config, index |-> x, qcfg |-> d.qcfg]
         /\ [d EXCEPT !.qcfg = x] = [splits |-> d.splits, linked |-> d.linked, config |-> d.config, index |-> d.index, qcfg |-> x]
<1>1. d = [splits |-> d.splits, linked |-> d.linked, config |-> d.config, index |-> d.index, qcfg |-> d.qcfg]
  BY DEF IsDir
<1>2. PICK a, b, c, e, g : d = [splits |-> a, linked |-> b, config |-> c, index |-> e, qcfg |-> g]
  BY <1>1
<1> QED BY ONLY <1>2

(* What is whole is neither absent nor empty nor a person's.               *)
LEMMA WholeIsThere ==
  ASSUME NEW src \in Sources, NEW d, WholeDir(src, d)
  PROVE  d \notin {NoDir, EmptyDir, Foreign}
<1>1. PICK n \in Nat : Indexed(src, n, d)
  BY DEF WholeDir
<1>2. /\ IsDir(d) /\ d.splits \subseteq SUBSET Parts /\ UNION d.splits = Parts
      /\ d.linked = ShardFiles /\ d.config = TRUE /\ d.qcfg = TRUE /\ d.index = IndexFor(src, d.splits, n)
  BY <1>1 DEF WholeDir, Indexed, Configured, Linked, Split, SplitSound
<1> DEFINE wm == [t \in TargetTensors |->
                    IF t \in KeptTensors THEN src.wm[t] ELSE CHOOSE f \in d.splits : t \in f]
<1>3. ASSUME NEW t \in TargetTensors PROVE wm[t] \in ShardFiles \union SUBSET Parts
  <2>1. CASE t \in KeptTensors
    BY <2>1 DEF Sources
  <2>2. CASE t \notin KeptTensors
    <3>1. \E f \in d.splits : t \in f
      BY <1>2, <2>2 DEF TargetTensors
    <3>2. (CHOOSE f \in d.splits : t \in f) \in d.splits
      BY <3>1
    <3> QED BY <1>2, <2>2, <3>2
  <2> QED BY <2>1, <2>2
<1>4. wm \in [TargetTensors -> ShardFiles \union SUBSET Parts]
  BY <1>3
<1>5. d.index = [wm |-> wm, dropped |-> Dropped, tool |-> n]
  BY <1>2 DEF IndexFor
<1> HIDE DEF wm
<1>6. d.index \in [wm : [TargetTensors -> ShardFiles \union SUBSET Parts], dropped : {Dropped}, tool : Nat]
  BY <1>4, <1>5
<1>7. d \in [splits : SUBSET SUBSET Parts, linked : SUBSET ShardFiles, config : BOOLEAN,
             index : [wm : [TargetTensors -> ShardFiles \union SUBSET Parts],
                      dropped : {Dropped}, tool : Nat], qcfg : BOOLEAN]
  BY <1>2, <1>6 DEF IsDir
<1>8. d # NoDir
  BY <1>7, NoDirectory
<1>9. EmptyDir.qcfg = FALSE /\ Foreign.qcfg = FALSE
  BY DEF EmptyDir, Foreign
<1> QED BY <1>2, <1>8, <1>9

LEMMA BeginStep ==
  ASSUME SidecarInv, BuildBegins
  PROVE  SidecarInv'
<1>1. UNCHANGED <<source, target, tool>> /\ buildStep = "none" /\ ran' = tool /\ tool \in Nat
  BY DEF BuildBegins, SidecarInv, TempInv
<1>2. CASE Ours
  <2>1. buildStep' = "verify" /\ UNCHANGED temp
    BY <1>2 DEF BuildBegins
  <2>2. target \notin {NoDir, EmptyDir, Foreign} /\ target.index.tool = tool
    BY <1>2, EmptyIsSound DEF Ours
  <2> QED BY <1>1, <2>1, <2>2 DEF SidecarInv, TempInv, TargetInv, Building
<1>3. CASE ~Ours /\ (target \notin {NoDir, EmptyDir} \/ temp # NoDir)
  <2>1. UNCHANGED <<buildStep, temp>>
    BY <1>3 DEF BuildBegins
  <2> QED BY <1>1, <2>1 DEF SidecarInv, TempInv, TargetInv, Building
<1>4. CASE ~Ours /\ target \in {NoDir, EmptyDir} /\ temp = NoDir
  <2>1. buildStep' = "split" /\ temp' = EmptyDir
    BY <1>4 DEF BuildBegins
  <2> QED BY <1>1, <1>4, <2>1, EmptyIsSound DEF SidecarInv, TempInv, TargetInv, Building
<1> QED BY <1>2, <1>3, <1>4

LEMMA SplitStep ==
  ASSUME SidecarInv, WritesSplit
  PROVE  SidecarInv'
<1>1. UNCHANGED <<source, target, tool, ran>> /\ buildStep = "split" /\ SplitSound(temp) /\ target \in {NoDir, EmptyDir, Foreign}
  BY DEF WritesSplit, SidecarInv, TempInv, TargetInv, Building
<1>2. CASE Parts \ UNION temp.splits = {}
  <2>1. buildStep' = "link" /\ UNCHANGED temp
    BY <1>2 DEF WritesSplit
  <2>2. UNION temp.splits = Parts
    BY <1>1, <1>2 DEF SplitSound
  <2> QED BY <1>1, <2>1, <2>2 DEF SidecarInv, TempInv, TargetInv, Building, Split
<1>3. CASE Parts \ UNION temp.splits # {}
  <2>1. buildStep' = "split"
    BY <1>1, <1>3 DEF WritesSplit
  <2>2. PICK f \in SUBSET Parts : temp' = [temp EXCEPT !.splits = temp.splits \union {f}]
    BY <1>3 DEF WritesSplit
  <2>3. SplitSound(temp')
    BY <1>1, <2>2, FieldSet DEF SplitSound, IsDir
  <2> QED BY <1>1, <2>1, <2>3 DEF SidecarInv, TempInv, TargetInv, Building
<1> QED BY <1>2, <1>3

LEMMA LinkStep ==
  ASSUME SidecarInv, LinksShards
  PROVE  SidecarInv'
<1>1. UNCHANGED <<source, target, tool, ran>> /\ Split(temp) /\ target \in {NoDir, EmptyDir, Foreign}
  BY DEF LinksShards, SidecarInv, TempInv, TargetInv, Building
<1>2. PICK s : temp' = [temp EXCEPT !.linked = temp.linked \union {s}]
  BY DEF LinksShards
<1>3. Split(temp')
  BY <1>1, <1>2, FieldSet DEF Split, SplitSound, IsDir
<1>4. buildStep' = (IF temp'.linked = ShardFiles THEN "config" ELSE "link")
  BY DEF LinksShards
<1> QED BY <1>1, <1>3, <1>4 DEF SidecarInv, TempInv, TargetInv, Building, Linked

LEMMA ConfigStep ==
  ASSUME SidecarInv, WritesConfig
  PROVE  SidecarInv'
<1>1. UNCHANGED <<source, target, tool, ran>> /\ Linked(temp) /\ target \in {NoDir, EmptyDir, Foreign}
  BY DEF WritesConfig, SidecarInv, TempInv, TargetInv, Building
<1>2. temp' = [temp EXCEPT !.config = TRUE] /\ buildStep' = "index"
  BY DEF WritesConfig
<1>3. Configured(temp')
  BY <1>1, <1>2, FieldSet DEF Configured, Linked, Split, SplitSound, IsDir
<1> QED BY <1>1, <1>2, <1>3 DEF SidecarInv, TempInv, TargetInv, Building

LEMMA IndexStep ==
  ASSUME SidecarInv, WritesIndex
  PROVE  SidecarInv'
<1>1. UNCHANGED <<source, target, tool, ran>> /\ Configured(temp) /\ target \in {NoDir, EmptyDir, Foreign}
  BY DEF WritesIndex, SidecarInv, TempInv, TargetInv, Building
<1>2. PICK x : x = IndexFor(source, temp.splits, tool)
  OBVIOUS
<1>3. temp' = [temp EXCEPT !.index = x] /\ buildStep' = "qcfg"
  BY <1>2 DEF WritesIndex, IndexFor
<1>4. Configured(temp') /\ temp'.index = x /\ temp'.splits = temp.splits
  BY <1>1, <1>3, FieldSet DEF Configured, Linked, Split, SplitSound, IsDir
<1>5. Indexed(source', tool', temp') /\ tool \in Nat /\ ran <= tool
  BY <1>1, <1>2, <1>4 DEF Indexed, SidecarInv, TempInv
<1>6. IndexedSince(temp)'
  BY <1>1, <1>5 DEF IndexedSince
<1> QED BY <1>1, <1>3, <1>6 DEF SidecarInv, TempInv, TargetInv, Building

LEMMA QcfgStep ==
  ASSUME SidecarInv, WritesQcfg
  PROVE  SidecarInv'
<1>1. UNCHANGED <<source, target, tool, ran>> /\ target \in {NoDir, EmptyDir, Foreign}
  BY DEF WritesQcfg, SidecarInv, TempInv, TargetInv, Building
<1>2. temp' = [temp EXCEPT !.qcfg = TRUE] /\ buildStep' = "rmdir"
  BY DEF WritesQcfg
<1>3. PICK n \in Nat : ran <= n /\ n <= tool /\ Indexed(source, n, temp)
  BY DEF WritesQcfg, SidecarInv, TempInv, IndexedSince
<1>4. /\ Configured(temp') /\ temp'.index = temp.index /\ temp'.splits = temp.splits
      /\ temp'.qcfg = TRUE
  BY <1>2, <1>3, FieldSet DEF Indexed, Configured, Linked, Split, SplitSound, IsDir
<1>5. Indexed(source', n, temp')
  BY <1>1, <1>3, <1>4 DEF Indexed
<1>6. IndexedSince(temp)'
  BY <1>1, <1>3, <1>5 DEF IndexedSince
<1> QED BY <1>1, <1>2, <1>4, <1>6 DEF SidecarInv, TempInv, TargetInv, Building

LEMMA RenameStep ==
  ASSUME SidecarInv, RemovesEmpty \/ Replaces
  PROVE  SidecarInv'
<1>1. /\ UNCHANGED <<source, tool, ran>> /\ IndexedSince(temp) /\ temp.qcfg = TRUE
      /\ target \in {NoDir, EmptyDir, Foreign}
  BY DEF RemovesEmpty, Replaces, Ends, SidecarInv, TempInv, TargetInv, Building
<1>2. CASE buildStep' = "none" /\ UNCHANGED target
  BY <1>1, <1>2 DEF SidecarInv, TempInv, TargetInv, Building
<1>3. CASE target' = NoDir /\ buildStep' = "replace" /\ UNCHANGED temp
  <2>1. IndexedSince(temp)'
    BY <1>1, <1>3 DEF IndexedSince
  <2> QED BY <1>1, <1>3, <2>1 DEF SidecarInv, TempInv, TargetInv, Building
<1>4. CASE target' = temp /\ buildStep' = "verify"
  <2>1. PICK n \in Nat : ran <= n /\ Indexed(source, n, temp)
    BY <1>1 DEF IndexedSince
  <2>2. WholeDir(source, temp)
    BY <1>1, <2>1 DEF WholeDir
  <2>3. temp.index.tool = n
    BY <2>1 DEF Indexed, IndexFor
  <2> QED BY <1>1, <1>4, <2>1, <2>2, <2>3 DEF SidecarInv, TempInv, TargetInv, Building
<1>5. \/ buildStep' = "none" /\ UNCHANGED target
      \/ target' = NoDir /\ buildStep' = "replace" /\ UNCHANGED temp
      \/ target' = temp /\ buildStep' = "verify"
  BY DEF RemovesEmpty, Replaces, Ends
<1> QED BY <1>2, <1>3, <1>4, <1>5

LEMMA IdleStep ==
  ASSUME SidecarInv, Verifies \/ BuildKilled \/ TidiesUp
  PROVE  SidecarInv'
<1>1. buildStep' = "none" /\ UNCHANGED <<source, tool, ran>> /\ (target' = target \/ target' = NoDir)
  BY DEF Verifies, BuildKilled, TidiesUp, Ends
<1> QED BY <1>1 DEF SidecarInv, TempInv, TargetInv, Building

(* A person at work next to a build.                                       *)
LEMMA PersonStep ==
  ASSUME SidecarInv, FillsTarget \/ InstallsTool
  PROVE  SidecarInv'
<1>1. UNCHANGED <<source, temp, buildStep, ran>>
  BY DEF FillsTarget, InstallsTool
<1>2. CASE FillsTarget
  <2>1. target \in {NoDir, EmptyDir} /\ target' \in {EmptyDir, Foreign} /\ UNCHANGED tool
    BY <1>2 DEF FillsTarget
  <2>2. buildStep # "verify"
    BY <2>1, WholeIsThere DEF SidecarInv, TargetInv
  <2>3. IndexedSince(temp)' <=> IndexedSince(temp)
    BY <1>1, <2>1 DEF IndexedSince
  <2> QED BY <1>1, <2>1, <2>2, <2>3 DEF SidecarInv, TempInv, TargetInv, Building
<1>3. CASE InstallsTool
  <2>1. tool = 1 /\ tool' = 2 /\ UNCHANGED target
    BY <1>3 DEF InstallsTool
  <2>2. IndexedSince(temp) => IndexedSince(temp)'
    BY <1>1, <2>1 DEF IndexedSince
  <2> QED BY <1>1, <2>1, <2>2 DEF SidecarInv, TempInv, TargetInv, Building
<1> QED BY <1>2, <1>3

LEMMA SidecarKeeps == SidecarInv /\ [SidecarNext]_sidecarVars => SidecarInv'
<1> SUFFICES ASSUME SidecarInv, [SidecarNext]_sidecarVars PROVE SidecarInv'
  OBVIOUS
<1>1. CASE SidecarNext
  BY <1>1, BeginStep, SplitStep, LinkStep, ConfigStep, IndexStep, QcfgStep, RenameStep, IdleStep, PersonStep
     DEF SidecarNext
<1>2. CASE UNCHANGED sidecarVars
  BY <1>2 DEF sidecarVars, SidecarInv, TempInv, TargetInv, Building, IndexedSince
<1> QED BY <1>1, <1>2

THEOREM SidecarInvariance == SidecarSpec => []SidecarInv
<1>1. SidecarInit => SidecarInv
  BY SidecarStarts
<1> QED BY <1>1, SidecarKeeps, PTL DEF SidecarSpec

-----------------------------------------------------------------------------
(* The theorems. *)

LEMMA StepNeverOverwrites ==
  ASSUME SidecarInv, [SidecarNext]_sidecarVars
  PROVE  [/\ target \notin {NoDir, EmptyDir} => target' \in {target, NoDir} /\ (target' = NoDir => buildStep = "none")
          /\ buildStep # "none" /\ buildStep' = "none" /\ exitCode' = 0 => ran <= target.index.tool
         ]_sidecarVars
<1> SUFFICES ASSUME SidecarNext
             PROVE  /\ target \notin {NoDir, EmptyDir} => target' \in {target, NoDir} /\ (target' = NoDir => buildStep = "none")
                    /\ buildStep # "none" /\ buildStep' = "none" /\ exitCode' = 0 => ran <= target.index.tool
  OBVIOUS
<1>1. CASE BuildBegins \/ WritesSplit \/ LinksShards \/ WritesConfig \/ WritesIndex \/ WritesQcfg
  <2>1. target' = target /\ (buildStep # "none" => buildStep' # "none")
    BY <1>1 DEF BuildBegins, WritesSplit, LinksShards, WritesConfig, WritesIndex, WritesQcfg
  <2> QED BY <2>1
<1>2. CASE RemovesEmpty \/ Replaces
  <2>1. \/ target \in {NoDir, EmptyDir} /\ buildStep' # "none"
        \/ target' = target /\ exitCode' = 1
    BY <1>2 DEF RemovesEmpty, Replaces, Ends
  <2> QED BY <2>1
<1>3. CASE Verifies
  BY <1>3 DEF Verifies, Ends, SidecarInv, TargetInv
<1>4. CASE BuildKilled
  BY <1>4 DEF BuildKilled, Ends
<1>5. CASE TidiesUp \/ FillsTarget \/ InstallsTool
  BY <1>5 DEF TidiesUp, FillsTarget, InstallsTool
<1> QED BY <1>1, <1>2, <1>3, <1>4, <1>5 DEF SidecarNext

(* Whatever builds are started and killed, and whatever a person puts at   *)
(* the target and installs while they work, a directory with anything in   *)
(* it stays as it is until a person removes it, and no build passes off    *)
(* the sidecar of an older tool as its own (hedef_kur).                    *)
THEOREM NeverOverwrittenTheorem == SidecarSpec => NeverOverwritten
BY SidecarInvariance, StepNeverOverwrites, PTL DEF SidecarSpec, NeverOverwritten

(* What a boot from a whole sidecar meets, as sets of tensors.             *)
Used(src) == {src.wm[t] : t \in KeptTensors}

LEMMA FilesOfWhole ==
  ASSUME NEW src \in Sources, NEW d, WholeDir(src, d)
  PROVE  /\ Files(d) \subseteq d.linked \union d.splits
         /\ Used(src) \subseteq Files(d) /\ Files(d) \ Used(src) \subseteq SUBSET Parts
         /\ Parts \subseteq UNION (Files(d) \ Used(src))
         /\ DOMAIN d.index.wm = TargetTensors /\ d.index.dropped = Dropped
<1>1. PICK n \in Nat : d.index = IndexFor(src, d.splits, n)
  BY DEF WholeDir, Indexed
<1>2. d.splits \subseteq SUBSET Parts /\ UNION d.splits = Parts /\ d.linked = ShardFiles
  BY DEF WholeDir, Indexed, Configured, Linked, Split, SplitSound
<1>3. DOMAIN d.index.wm = TargetTensors /\ d.index.dropped = Dropped
  BY <1>1 DEF IndexFor
<1>4. ASSUME NEW t \in KeptTensors PROVE d.index.wm[t] = src.wm[t] /\ src.wm[t] \in ShardFiles
  BY <1>1 DEF IndexFor, TargetTensors, Sources
<1>5. ASSUME NEW t \in Parts PROVE d.index.wm[t] \in d.splits /\ t \in d.index.wm[t]
  <2>1. t \notin KeptTensors /\ t \in TargetTensors
    BY SidecarTensors DEF TargetTensors
  <2>2. d.index.wm[t] = CHOOSE f \in d.splits : t \in f
    BY <1>1, <2>1 DEF IndexFor
  <2>3. \E f \in d.splits : t \in f
    BY <1>2
  <2> QED BY <2>2, <2>3
<1>6. Files(d) = Used(src) \union {d.index.wm[t] : t \in Parts}
  BY <1>3, <1>4 DEF Files, Used, TargetTensors
<1>7. Used(src) \subseteq ShardFiles
  BY <1>4 DEF Used
<1>8. Parts \subseteq UNION (Files(d) \ Used(src))
  <2>1. ASSUME NEW t \in Parts PROVE t \in UNION (Files(d) \ Used(src))
    <3>1. d.index.wm[t] \in SUBSET Parts
      BY <1>2, <1>5
    <3>2. d.index.wm[t] \notin Used(src)
      BY <1>7, <3>1, SidecarTensors
    <3> QED BY <1>5, <1>6, <3>2
  <2> QED BY <2>1
<1> QED BY <1>2, <1>3, <1>5, <1>6, <1>7, <1>8

LEMMA IteratedIs ==
  ASSUME source \in Sources, WholeDir(source, target)
  PROVE  Iterated = Parts \union {t \in KeptTensors \union Dropped : source.wm[t] \in Used(source)}
                      \union (IF \E s \in source.stray : s \in Used(source) THEN {Stray} ELSE {})
<1> DEFINE kept == {t \in KeptTensors \union Dropped : source.wm[t] \in Used(source)}
           lost == IF \E s \in source.stray : s \in Used(source) THEN {Stray} ELSE {}
           parts == Files(target) \ Used(source)
<1>1. /\ Used(source) \subseteq Files(target) /\ parts \subseteq SUBSET Parts
      /\ Parts \subseteq UNION parts
  BY FilesOfWhole
<1>2. Used(source) \subseteq ShardFiles
  BY DEF Used, Sources
<1>3. \A f \in parts : TensorsOf(f) = f
  BY <1>1, SidecarTensors DEF TensorsOf
<1>4. \A s \in Used(source) : TensorsOf(s) = ShardTensors(s)
  BY <1>2 DEF TensorsOf
<1>5. UNION {TensorsOf(f) : f \in parts} = Parts
  BY <1>1, <1>3
<1>6. UNION {TensorsOf(s) : s \in Used(source)} = kept \union lost
  BY <1>4 DEF ShardTensors
<1>7. Files(target) = parts \union Used(source)
  BY <1>1
<1> HIDE DEF parts, kept, lost
<1>8. Iterated = (UNION {TensorsOf(f) : f \in parts}) \union (UNION {TensorsOf(s) : s \in Used(source)})
  BY <1>7 DEF Iterated
<1>9. Iterated = Parts \union kept \union lost
  BY <1>5, <1>6, <1>8
<1> QED BY <1>9 DEF kept, lost

(* A part of a finite set has as many elements only if it is all of it.    *)
LEMMA SameCount ==
  ASSUME NEW S, NEW T, T \subseteq S, IsFiniteSet(S)
  PROVE  Cardinality(T) = Cardinality(S) <=> T = S
BY FS_Subset

LEMMA WholeBoots ==
  ASSUME SidecarInv
  PROVE  BootsWhole
<1> SUFFICES ASSUME PreflightPasses PROVE
      /\ target.qcfg /\ Files(target) \subseteq target.linked \union target.splits
      /\ ~FilterRaises => Yielded = TargetTensors
      /\ FilterRaises <=>
           \/ \E s \in source.stray : \E t \in KeptTensors : source.wm[t] = s
           \/ \E e \in Dropped : \A t \in KeptTensors : source.wm[t] # source.wm[e]
  BY DEF BootsWhole
<1>1. WholeDir(source, target) /\ source \in Sources
  BY EmptyIsSound DEF PreflightPasses, SidecarInv, TargetInv
<1>2. /\ Files(target) \subseteq target.linked \union target.splits
      /\ DOMAIN target.index.wm = TargetTensors /\ target.index.dropped = Dropped
  BY <1>1, FilesOfWhole
<1>3. target.qcfg
  BY <1>1 DEF WholeDir
<1> DEFINE strays == \E s \in source.stray : s \in Used(source)
<1>4. Iterated = Parts \union {t \in KeptTensors \union Dropped : source.wm[t] \in Used(source)}
                   \union (IF strays THEN {Stray} ELSE {})
  BY <1>1, IteratedIs
<1>5. \A t \in KeptTensors : source.wm[t] \in Used(source)
  BY DEF Used
<1>6. Iterated \cap TargetTensors = TargetTensors
  BY <1>4, <1>5 DEF TargetTensors
<1>7. (\E t \in Iterated : t \notin TargetTensors \union Dropped) <=> strays
  BY <1>4, SidecarTensors DEF TargetTensors
<1>8. Iterated \cap Dropped = {e \in Dropped : source.wm[e] \in Used(source)}
  BY <1>4, SidecarTensors DEF TargetTensors
<1>9. (Cardinality(Iterated \cap Dropped) # Cardinality(Dropped))
        <=> \E e \in Dropped : source.wm[e] \notin Used(source)
  <2>1. Cardinality(Iterated \cap Dropped) = Cardinality(Dropped) <=> Iterated \cap Dropped = Dropped
    BY SameCount, SidecarTensors
  <2> QED BY <2>1, <1>8
<1>10. FilterRaises <=> strays \/ \E e \in Dropped : source.wm[e] \notin Used(source)
  BY <1>2, <1>7, <1>9 DEF FilterRaises
<1>11. Yielded = TargetTensors
  BY <1>2, <1>6 DEF Yielded
<1>12. strays <=> \E s \in source.stray : \E t \in KeptTensors : source.wm[t] = s
  BY DEF Used
<1>13. \A e : source.wm[e] \notin Used(source) <=> \A t \in KeptTensors : source.wm[t] # source.wm[e]
  BY DEF Used
<1> QED BY <1>2, <1>3, <1>10, <1>11, <1>12, <1>13

(* "the index is AUTHORITATIVE": a boot that preflight lets through finds  *)
(* a whole sidecar, and loads what the target needs or is refused for a    *)
(* tensor of the checkpoint that the filter names.                         *)
THEOREM BootsWholeTheorem == SidecarSpec => []BootsWhole
BY SidecarInvariance, WholeBoots, PTL

-----------------------------------------------------------------------------
(***************************************************************************)
(* Proofs about the fast-load sidecar for any number of models and shards, *)
(* any sample and any number of boots.  What the disk holds is proved      *)
(* first, and holds even when builds change under a booting rank; what a   *)
(* restore relies on is proved for a node where they do not.               *)
(***************************************************************************)
USE FastloadAssumption

LEMMA Manifests == NoManifest \in Manifest /\ TornManifest \in Manifest
<1>1. NoManifest \in Manifest
  BY DEF NoManifest, Manifest
<1>2. TornManifest = [file |-> "torn", id |-> None, of |-> [t \in Tags |-> None], ledger |-> {}]
  BY DEF TornManifest, NoManifest
<1> QED BY <1>1, <1>2 DEF Manifest

(* What a dump lists.                                                      *)
LEMMA ListingType ==
  ASSUME TypeOK
  PROVE  /\ Parsed \in Manifest
         /\ mem[tag][1] \in Builds => Listing \in Manifest
<1>1. Parsed \in Manifest
  BY Manifests DEF Parsed, TypeOK
<1>2. ASSUME mem[tag][1] \in Builds
      PROVE  [Parsed.of EXCEPT ![tag] = mem[tag][1]] \in [Tags -> Builds \union {None}]
  BY <1>1, <1>2 DEF Manifest
<1>3. Parsed.ledger \union {tag} \in SUBSET Tags
  BY <1>1 DEF Manifest, TypeOK
<1> QED BY <1>1, <1>2, <1>3 DEF Listing, Identity, Manifest, TypeOK

LEMMA TypeInit == Init => TypeOK
<1> SUFFICES ASSUME Init PROVE TypeOK
  OBVIOUS
<1>1. man \in Manifest /\ shard \in [Tags -> [Shards -> Builds \union {None, Torn, Rot}]]
  BY Manifests DEF Init, Empty, Manifest
<1>2. mem \in [Tags -> [Shards -> Builds \union {None, Rot}]] /\ tag \in Tags /\ part \in Shards
  <2>1. mem = Empty /\ tag = 1 /\ part = 1
    BY DEF Init
  <2>2. Empty \in [Tags -> [Shards -> Builds \union {None, Rot}]]
    BY DEF Empty
  <2> QED BY <2>1, <2>2 DEF Tags, Shards
<1>3. build \in Builds /\ code \in Builds /\ durable = man /\ over = {} /\ boots = 0 /\ rots = 0
  BY DEF Init
<1>4. pc = "off" /\ mode = "load" /\ container = "none" /\ again = FALSE
  BY DEF Init
<1>5. pc \in PCs /\ again \in BOOLEAN
  BY <1>4 DEF PCs
<1>6. boots \in 0..MaxBoots /\ rots \in 0..MaxRot
  BY <1>3
<1> QED BY <1>1, <1>2, <1>3, <1>4, <1>5, <1>6 DEF TypeOK

LEMMA TypeStep ==
  ASSUME TypeOK, Dumping, [Next]_vars
  PROVE  TypeOK'
<1> USE DEF TypeOK, Tags, Shards
<1>1. ASSUME NEW m \in {"dump", "load"}, Launch(m) PROVE TypeOK'
  <2>1. boots' \in 0..MaxBoots /\ mode' = m /\ UNCHANGED <<build, shard, man, durable, over, part, mem, rots>>
    BY <1>1 DEF Launch, disk
  <2>2. pc' \in PCs /\ tag' \in Tags /\ code' \in Builds /\ container' \in {"none", "dump", "load"}
    BY <1>1 DEF Launch, PCs, Booting
  <2>3. again' \in BOOLEAN
    BY <1>1 DEF Launch
  <2> QED BY <2>1, <2>2, <2>3
<1>16. CASE StartAgain
  <2>1. mode' \in {"dump", "load"} /\ tag' \in Tags /\ code' \in Builds /\ boots' \in 0..MaxBoots
    BY <1>16 DEF StartAgain
  <2>2. pc' \in PCs
    BY <1>16 DEF StartAgain, PCs, Booting
  <2>3. again' = TRUE /\ UNCHANGED <<build, shard, man, durable, over, container, part, mem, rots>>
    BY <1>16 DEF StartAgain, disk
  <2> QED BY <2>1, <2>2, <2>3
<1>2. CASE LoadCheckpoint
  BY <1>2 DEF LoadCheckpoint, disk, PCs, Booting, DumpPCs
<1>3. CASE SaveBegins
  BY <1>3 DEF SaveBegins, PCs, Booting, DumpPCs
<1>4. CASE SaveEnds
  <2>1. mem[tag][part] \in Builds \union {None, Torn, Rot}
    OBVIOUS
  <2> QED BY <1>4, <2>1 DEF SaveEnds, PCs, Booting, DumpPCs
<1>5. CASE WriteManifest
  <2>1. mem[tag][1] = code
    BY <1>5 DEF Dumping, DumpPCs, WriteManifest
  <2>2. Listing \in Manifest
    BY <2>1, ListingType
  <2>3. man' \in Manifest /\ over' \subseteq Tags
    BY <1>5, <2>2 DEF WriteManifest
  <2>4. tag' \in Tags /\ pc' \in PCs
    BY <1>5 DEF WriteManifest, NextModel, PCs, Booting
  <2>5. UNCHANGED <<build, shard, durable, mode, container, again, code, part, mem, boots, rots>>
    BY <1>5 DEF WriteManifest
  <2> QED BY <2>3, <2>4, <2>5
<1>6. CASE Restore
  BY <1>6 DEF Restore, disk, PCs, Booting, RestorePCs
<1>7. CASE ReadShard
  <2>1. CASE Readable(shard[tag][part])
    <3>1. shard[tag][part] \in Builds \union {None, Rot}
      BY <2>1 DEF Readable
    <3> DEFINE row == [mem[tag] EXCEPT ![part] = shard[tag][part]]
    <3>2. row \in [Shards -> Builds \union {None, Rot}]
      BY <3>1
    <3>3. mem' = [mem EXCEPT ![tag] = row]
      BY <1>7, <2>1 DEF ReadShard
    <3> HIDE DEF row
    <3>4. mem' \in [Tags -> [Shards -> Builds \union {None, Rot}]]
      BY <3>2, <3>3
    <3> QED BY <1>7, <2>1, <3>4 DEF ReadShard, disk, PCs, Booting, RestorePCs
  <2>2. CASE ~Readable(shard[tag][part])
    BY <1>7, <2>2 DEF ReadShard, disk, PCs, Booting, RestorePCs
  <2> QED BY <2>1, <2>2
<1>8. CASE Verify
  BY <1>8 DEF Verify, NextModel, disk, PCs, Booting, RestorePCs
<1>9. CASE Stop
  BY <1>9 DEF Stop, Off, Empty, disk, PCs
<1>10. CASE PowerLoss
  BY <1>10, Manifests DEF PowerLoss, Off, Empty, PCs
<1>11. CASE WriteBack
  BY <1>11 DEF WriteBack, boot
<1>12. CASE NewDirectory
  BY <1>12 DEF NewDirectory, boot, Empty, NoManifest, Manifest
<1>13. CASE Install
  BY <1>13 DEF Install, boot, disk
<1>14. CASE Decay
  BY <1>14 DEF Decay, boot
<1>15. CASE UNCHANGED vars
  BY <1>15 DEF vars, boot, disk
<1> QED
  BY <1>1, <1>2, <1>3, <1>4, <1>5, <1>6, <1>7, <1>8, <1>9, <1>10, <1>11, <1>12, <1>13, <1>14, <1>15, <1>16
     DEF Next, Load

(***************************************************************************)
(* What the disk holds.                                                    *)
(***************************************************************************)

(* The steps that write to the directory.                                  *)
LEMMA DiskCases ==
  ASSUME [Next]_vars
  PROVE  \/ UNCHANGED disk
         \/ SaveBegins \/ SaveEnds \/ WriteManifest
         \/ PowerLoss \/ WriteBack \/ NewDirectory \/ Decay
BY DEF Next, Load, vars, Launch, StartAgain, LoadCheckpoint, Restore, ReadShard, Verify, Stop, Install

LEMMA DiskInit == Init => DiskInv
<1> SUFFICES ASSUME Init PROVE DiskInv
  OBVIOUS
<1>1. TypeOK
  BY TypeInit
<1>2. Whole(man) /\ Blank(man) /\ durable = man
  BY DEF Init, Whole, OnDisk, Blank, Good, NoManifest, Tags, Shards
<1>3. DurableBehind /\ Dumping
  BY <1>2 DEF Init, DurableBehind, Dumping, DumpPCs, RestorePCs
<1> QED BY <1>1, <1>2, <1>3 DEF DiskInv, Whole, Blank, Good

(* While a dump saves a model, neither manifest lists it, or it is being   *)
(* written over.                                                           *)
LEMMA Unlisted ==
  ASSUME DiskInv, pc \in DumpPCs
  PROVE  /\ mode = "dump" /\ tag \in Tags
         /\ \A k \in Shards : mem[tag][k] = code
         /\ pc \in {"saving", "manifest"} =>
              {man.of[tag], durable.of[tag]} = {None} \/ tag \in over
         /\ pc = "save" /\ ~again => {man.of[tag], durable.of[tag]} = {None}
<1>1. mode = "dump" /\ tag \in 1..N /\ tag \in tag..N
  BY DEF DiskInv, Dumping, TypeOK, Tags
<1>2. \A k \in Shards : mem[tag][k] = code
  BY <1>1 DEF DiskInv, Dumping
<1>3. ~again => man.of[tag] = None /\ durable.of[tag] = None
  BY <1>1 DEF DiskInv, Dumping
<1>4. again /\ pc \in {"saving", "manifest"} =>
        {man.of[tag], durable.of[tag]} = {None} \/ tag \in over
  BY <1>1 DEF DiskInv, Dumping
<1> QED BY <1>1, <1>2, <1>3, <1>4 DEF DiskInv, TypeOK, Tags

LEMMA WholeStep ==
  ASSUME DiskInv, [Next]_vars
  PROVE  Whole(man)' /\ Whole(durable)'
<1> USE DEF DiskInv, Whole, OnDisk, Good
<1>1. CASE UNCHANGED disk
  BY <1>1 DEF disk
<1>2. CASE SaveBegins \/ SaveEnds
  <2>1. pc \in DumpPCs /\ UNCHANGED <<man, durable>>
    BY <1>2 DEF SaveBegins, SaveEnds, DumpPCs
  <2>2. \A t \in Tags : t # tag => shard'[t] = shard[t]
    BY <1>2 DEF SaveBegins, SaveEnds, TypeOK
  <2>3. over \subseteq over' /\ ({man.of[tag], durable.of[tag]} = {None} \/ tag \in over')
    BY <1>2, <2>1, Unlisted DEF SaveBegins, SaveEnds
  <2> QED BY <2>1, <2>2, <2>3
<1>3. CASE WriteManifest
  <2>1. pc = "manifest" /\ UNCHANGED <<shard, durable>> /\ tag \in Tags
    BY <1>3 DEF WriteManifest, TypeOK
  <2>2. \A k \in Shards : shard[tag][k] \in {code, Rot}
    BY <2>1 DEF Dumping, DumpPCs
  <2>3. mem[tag][1] = code /\ Parsed \in Manifest
    BY <2>1, Unlisted, ListingType DEF DumpPCs, Shards
  <2>4. CASE man' = man /\ over' = over
    BY <2>1, <2>4
  <2>5. CASE man' = Listing /\ over' = IF durable.of[tag] \in {None, code} THEN over \ {tag} ELSE over
    <3>1. \A t \in Tags : man'.of[t] = IF t = tag THEN code ELSE Parsed.of[t]
      BY <2>3, <2>5 DEF Listing, Manifest
    <3>2. \A t \in Tags : Parsed.of[t] # None => Good(man) /\ Parsed.of[t] = man.of[t]
      BY DEF Parsed, NoManifest
    <3>3. \A t \in Tags : t # tag => (t \in over' <=> t \in over)
      BY <2>5
    <3>4. Whole(man)'
      BY <2>1, <2>2, <3>1, <3>2, <3>3
    <3>5. tag \notin over' => tag \notin over \/ durable.of[tag] \in {None, code}
      BY <2>5
    <3>6. Whole(durable)'
      BY <2>1, <2>2, <3>3, <3>5
    <3> QED BY <3>4, <3>6
  <2> QED BY <1>3, <2>4, <2>5 DEF WriteManifest
<1>4. CASE PowerLoss
  <2>1. TornManifest.file = "torn"
    BY DEF TornManifest, NoManifest
  <2> QED BY <1>4, <2>1 DEF PowerLoss
<1>5. CASE WriteBack
  BY <1>5 DEF WriteBack
<1>6. CASE NewDirectory
  BY <1>6 DEF NewDirectory, NoManifest
<1>7. CASE Decay
  <2>1. UNCHANGED <<man, durable, over>>
    BY <1>7 DEF Decay
  <2>2. \A t \in Tags, k \in Shards : shard'[t][k] \in {shard[t][k], Rot}
    BY <1>7 DEF Decay, TypeOK
  <2> QED BY <2>1, <2>2
<1> QED BY <1>1, <1>2, <1>3, <1>4, <1>5, <1>6, <1>7, DiskCases

LEMMA BlankStep ==
  ASSUME DiskInv, [Next]_vars
  PROVE  Blank(man)' /\ Blank(durable)' /\ DurableBehind'
<1> USE DEF DiskInv, Blank, Good, DurableBehind
<1>1. CASE UNCHANGED disk
  BY <1>1 DEF disk
<1>2. CASE SaveBegins \/ SaveEnds \/ Decay
  BY <1>2 DEF SaveBegins, SaveEnds, Decay
<1>3. CASE WriteManifest
  BY <1>3 DEF WriteManifest, Listing
<1>4. CASE PowerLoss
  <2>1. TornManifest.file = "torn" /\ \A t \in Tags : TornManifest.of[t] = None
    BY DEF TornManifest, NoManifest
  <2> QED BY <1>4, <2>1 DEF PowerLoss
<1>5. CASE WriteBack
  BY <1>5 DEF WriteBack
<1>6. CASE NewDirectory
  BY <1>6 DEF NewDirectory, NoManifest
<1> QED BY <1>1, <1>2, <1>3, <1>4, <1>5, <1>6, DiskCases

(* Where a dump is, and what it has written, as one formula.               *)
LEMMA DumpingStep ==
  ASSUME DiskInv, [Next]_vars
  PROVE  Dumping'
<1> USE DEF DiskInv, Dumping, DumpPCs, RestorePCs
<1>0. tag \in 1..N /\ part \in 1..K /\ tag \in Nat /\ part \in Nat
  BY DEF TypeOK, Tags, Shards
<1>1. ASSUME NEW m \in {"dump", "load"}, Launch(m) PROVE Dumping'
  <2>1. CASE m = "dump" /\ MayStart(m)
    <3>1. man.file = "none" /\ durable.file = "none"
      BY <2>1 DEF MayStart, DurableBehind, TypeOK, Manifest
    <3>2. \A t \in Tags : man.of[t] = None /\ durable.of[t] = None
      BY <3>1 DEF Blank, Good
    <3> QED BY <1>1, <2>1, <3>1, <3>2 DEF Launch, disk, Tags
  <2> QED BY <1>1, <2>1 DEF Launch
<1>15. CASE StartAgain
  BY <1>15 DEF StartAgain
<1>2. CASE LoadCheckpoint
  <2>1. \A t \in 1..(tag - 1) : mem'[t] = mem[t]
    BY <1>0, <1>2 DEF LoadCheckpoint, TypeOK, Tags
  <2>2. \A k \in Shards : mem'[tag][k] = code
    BY <1>0, <1>2 DEF LoadCheckpoint, TypeOK, Tags
  <2>3. /\ pc = "model" /\ mode = "dump" /\ pc' = "save" /\ part' = 1
        /\ UNCHANGED <<disk, mode, again, code, tag>>
    BY <1>2 DEF LoadCheckpoint
  <2> QED BY <1>0, <2>1, <2>2, <2>3 DEF disk, Good, Shards
<1>3. CASE SaveBegins
  <2>1. \A k \in 1..(part - 1) : shard'[tag][k] = shard[tag][k]
    BY <1>0, <1>3 DEF SaveBegins, TypeOK, Tags, Shards
  <2>2. \A t \in 1..(tag - 1) : shard'[t] = shard[t]
    BY <1>0, <1>3 DEF SaveBegins, TypeOK, Tags
  <2>3. again => {man.of[tag], durable.of[tag]} = {None} \/ tag \in over'
    BY <1>3 DEF SaveBegins
  <2>4. /\ pc = "save" /\ pc' = "saving"
        /\ UNCHANGED <<man, durable, mode, again, code, tag, part, mem>>
    BY <1>3 DEF SaveBegins
  <2> QED BY <1>0, <2>1, <2>2, <2>3, <2>4 DEF Good, Shards
<1>4. CASE SaveEnds
  <2>1. \A k \in Shards : shard'[tag][k] = IF k = part THEN mem[tag][part] ELSE shard[tag][k]
    BY <1>0, <1>4 DEF SaveEnds, TypeOK, Tags, Shards
  <2>2. mem[tag][part] = code
    BY <1>0, <1>4 DEF SaveEnds, Shards
  <2>3. \A k \in 1..part : shard'[tag][k] \in {code, Rot}
    BY <1>0, <1>4, <2>1, <2>2 DEF SaveEnds, Shards
  <2>4. \A t \in 1..(tag - 1) : shard'[t] = shard[t]
    BY <1>0, <1>4 DEF SaveEnds, TypeOK, Tags
  <2>5. /\ pc = "saving" /\ UNCHANGED <<man, durable, over, mode, again, code, tag, mem>>
        /\ \/ part = K /\ pc' = "manifest"
           \/ part # K /\ pc' = "save" /\ part' = part + 1
    BY <1>4 DEF SaveEnds
  <2>6. \A k \in Shards : mem[tag][k] = code
    BY <2>5
  <2>7. part = K => Shards = 1..part
    BY DEF Shards
  <2>8. part' = part + 1 => 1..(part' - 1) = 1..part
    BY <1>0
  <2> QED BY <1>0, <2>3, <2>4, <2>5, <2>6, <2>7, <2>8 DEF Good, Shards
<1>5. CASE WriteManifest
  <2>1. CASE pc' = "model"
    <3>1. /\ man' = Listing /\ tag' = tag + 1
          /\ UNCHANGED <<shard, durable, mode, again, code, mem>>
      BY <1>5, <2>1 DEF WriteManifest, NextModel
    <3>2. mem[tag][1] = code /\ Parsed \in Manifest
      BY <1>5, Unlisted, ListingType DEF WriteManifest, Shards
    <3>3. /\ Good(man')
          /\ \A t \in Tags : man'.of[t] = IF t = tag THEN code ELSE Parsed.of[t]
          /\ man'.ledger = Parsed.ledger \union {tag}
      BY <3>1, <3>2 DEF Listing, Manifest, Good
    <3>4. \A t \in 1..(tag - 1) : Parsed = man /\ man.of[t] = code /\ t \in man.ledger
      BY <1>5 DEF WriteManifest, Parsed, Good
    <3>5. ~again => \A t \in tag..N : Parsed.of[t] = None
      BY <1>0, <1>5 DEF WriteManifest, Parsed, NoManifest, Tags
    <3>6. \A t \in 1..tag, k \in Shards : mem[t][k] = code /\ shard[t][k] \in {code, Rot}
      BY <1>0, <1>5 DEF WriteManifest
    <3>7. \A t \in 1..(tag' - 1) : /\ man'.of[t] = code /\ t \in man'.ledger
                                   /\ \A k \in Shards : mem[t][k] = code /\ shard[t][k] \in {code, Rot}
      <4> SUFFICES ASSUME NEW t \in 1..(tag' - 1)
                   PROVE  man'.of[t] = code /\ t \in man'.ledger
        BY <1>0, <3>1, <3>6
      <4>1. CASE t = tag
        BY <1>0, <3>3, <4>1 DEF Tags
      <4>2. CASE t # tag
        <5>1. t \in 1..(tag - 1) /\ t \in Tags
          BY <1>0, <3>1, <4>2 DEF Tags
        <5> QED BY <3>3, <3>4, <4>2, <5>1
      <4> QED BY <4>1, <4>2
    <3>8. ~again => \A t \in (tag')..N : man'.of[t] = None /\ durable.of[t] = None
      BY <1>0, <1>5, <3>1, <3>3, <3>5 DEF WriteManifest, Tags
    <3> HIDE DEF DiskInv
    <3> QED BY <2>1, <3>1, <3>3, <3>7, <3>8 DEF Good, Shards
  <2>2. CASE pc' # "model"
    BY <1>5, <2>2 DEF WriteManifest, NextModel
  <2> QED BY <2>1, <2>2
<1>6. CASE Restore
  BY <1>6 DEF Restore
<1>7. CASE ReadShard
  BY <1>7 DEF ReadShard
<1>8. CASE Verify
  BY <1>8 DEF Verify, NextModel
<1>9. CASE Stop \/ PowerLoss
  BY <1>9 DEF Stop, PowerLoss, Off
<1>10. CASE WriteBack
  BY <1>10 DEF WriteBack, boot, Good, Shards
<1>11. CASE NewDirectory
  BY <1>11 DEF NewDirectory, boot, Booting
<1>12. CASE Install
  BY <1>12 DEF Install, boot, disk, Good, Shards
<1>13. CASE Decay
  <2>1. \A t \in Tags, k \in Shards : shard'[t][k] \in {shard[t][k], Rot}
    BY <1>13 DEF Decay, TypeOK
  <2>2. UNCHANGED <<man, durable, over, boot>>
    BY <1>13 DEF Decay
  <2>3. \A t \in 1..tag, k \in Shards : shard[t][k] \in {code, Rot} => shard'[t][k] \in {code, Rot}
    BY <1>0, <2>1 DEF Tags
  <2>4. (1..(tag - 1)) \subseteq 1..tag /\ tag \in 1..tag /\ (1..(part - 1)) \subseteq Shards
    BY <1>0 DEF Shards
  <2> HIDE DEF DiskInv
  <2>5. Dumping
    BY DEF DiskInv
  <2> QED BY <2>2, <2>3, <2>4, <2>5 DEF boot, Good, Shards
<1>14. CASE UNCHANGED vars
  BY <1>14 DEF vars, boot, disk, Good, Shards
<1> QED
  BY <1>1, <1>2, <1>3, <1>4, <1>5, <1>6, <1>7, <1>8, <1>9, <1>10, <1>11, <1>12, <1>13, <1>14, <1>15
     DEF Next, Load

(* What the disk holds, at every moment and even when builds change under  *)
(* a booting rank.                                                         *)
THEOREM DiskInvariance == Spec => []DiskInv
<1>1. DiskInv /\ [Next]_vars => DiskInv'
  <2> SUFFICES ASSUME DiskInv, [Next]_vars PROVE DiskInv'
    OBVIOUS
  <2>1. TypeOK'
    BY TypeStep DEF DiskInv
  <2> QED BY <2>1, WholeStep, BlankStep, DumpingStep DEF DiskInv
<1> QED BY <1>1, DiskInit, PTL DEF Spec

(* A manifest that can be parsed lists only models whose shard files are   *)
(* there in full, or are being written over by a container that was        *)
(* started again, whatever crashes, power losses and edits came between.   *)
THEOREM ManifestListsWholeShards == Spec => []SidecarWhole
<1>1. DiskInv => SidecarWhole
  BY DEF DiskInv, SidecarWhole
<1> QED BY <1>1, DiskInvariance, PTL

(***************************************************************************)
(* A node whose build does not change under a booting rank.                *)
(***************************************************************************)

LEMMA Inductive0 == Init => IInv
<1> SUFFICES ASSUME Init PROVE IInv
  OBVIOUS
<1>1. Uniform(man) /\ durable = man
  BY DEF Init, Uniform, Good, NoManifest, Tags
<1>2. Restoring /\ Steady
  BY DEF Init, Restoring, Steady, Booting, DumpPCs, RestorePCs
<1> QED BY <1>1, <1>2, DiskInit DEF IInv, Uniform, Good

LEMMA SteadyBuild ==
  ASSUME ~Edits, IInv, [Next]_vars
  PROVE  pc' \in Booting => build' = code'
<1> USE DEF IInv, Steady, Booting, DumpPCs, RestorePCs
<1>1. ASSUME NEW m \in {"dump", "load"}, Launch(m) \/ StartAgain PROVE pc' \in Booting => build' = code'
  BY <1>1 DEF Launch, StartAgain
<1>2. CASE LoadCheckpoint \/ SaveBegins \/ SaveEnds \/ Restore \/ ReadShard
  BY <1>2 DEF LoadCheckpoint, SaveBegins, SaveEnds, Restore, ReadShard
<1>3. CASE WriteManifest \/ Verify
  BY <1>3 DEF WriteManifest, Verify
<1>4. CASE Stop \/ PowerLoss
  BY <1>4 DEF Stop, PowerLoss, Off
<1>5. CASE WriteBack \/ NewDirectory \/ Install \/ Decay \/ UNCHANGED vars
  BY <1>5 DEF WriteBack, NewDirectory, Install, Decay, boot, vars
<1> QED BY <1>1, <1>2, <1>3, <1>4, <1>5 DEF Next, Load

LEMMA UniformStep ==
  ASSUME ~Edits, IInv, [Next]_vars
  PROVE  Uniform(man)' /\ Uniform(durable)'
<1> USE DEF IInv, Uniform, Good
<1>1. CASE UNCHANGED disk
  BY <1>1 DEF disk
<1>2. CASE SaveBegins \/ SaveEnds \/ Decay
  BY <1>2 DEF SaveBegins, SaveEnds, Decay
<1>3. CASE WriteManifest
  <2>1. /\ mem[tag][1] = code /\ build = code /\ code \in Builds
        /\ Parsed \in Manifest
    BY <1>3, Unlisted, ListingType
       DEF WriteManifest, DumpPCs, Shards, Steady, Booting, DiskInv, TypeOK
  <2>2. CASE man' = Listing /\ Parsed.id \in {None, build}
    <3>1. /\ man'.id = build
          /\ \A t \in Tags : man'.of[t] = IF t = tag THEN code ELSE Parsed.of[t]
      BY <2>1, <2>2 DEF Listing, Identity, Manifest
    <3>2. \A t \in Tags : Parsed.of[t] \in {None, build}
      BY <2>1, <2>2 DEF Parsed, NoManifest
    <3> QED BY <1>3, <2>1, <3>1, <3>2 DEF WriteManifest
  <2>3. CASE man' = man
    BY <1>3, <2>3 DEF WriteManifest
  <2> QED BY <1>3, <2>2, <2>3 DEF WriteManifest, Identity
<1>4. CASE PowerLoss
  <2>1. TornManifest.file = "torn"
    BY DEF TornManifest, NoManifest
  <2> QED BY <1>4, <2>1 DEF PowerLoss
<1>5. CASE WriteBack
  BY <1>5 DEF WriteBack
<1>6. CASE NewDirectory
  BY <1>6 DEF NewDirectory, NoManifest
<1> QED BY <1>1, <1>2, <1>3, <1>4, <1>5, <1>6, DiskCases

(* The models a rank holds when it has dumped, or verified, the last one.  *)
LEMMA AllVerified ==
  ASSUME IInv, Verify \/ WriteManifest, pc' = "serving"
  PROVE  \A t \in Tags : Verified(t)
<1> USE DEF IInv, DiskInv, Verified, Kept
<1>0. tag = N /\ tag \in Nat
  BY DEF Verify, WriteManifest, NextModel, TypeOK, Tags
<1>1. CASE Verify
  <2>1. /\ pc = "verify" /\ mode = "load" /\ man.of[tag] = code
        /\ \A k \in Shards : Kept(tag, k)
        /\ \A t \in 1..(tag - 1) : Verified(t)
    BY <1>1 DEF Verify, Restoring, RestorePCs, Dumping
  <2>2. \A k \in Sample : mem[tag][k] = code
    BY <1>1, <2>1 DEF Verify, Matches
  <2>3. Verified(tag)
    BY <2>1, <2>2
  <2>4. \A t \in Tags : t = tag \/ t \in 1..(tag - 1)
    BY <1>0 DEF Tags
  <2> HIDE DEF Verified
  <2> QED BY <2>1, <2>3, <2>4
<1>2. CASE WriteManifest
  <2>1. \A t \in 1..tag, k \in Shards : mem[t][k] = code
    BY <1>0, <1>2 DEF WriteManifest, Dumping, DumpPCs
  <2> QED BY <1>0, <2>1 DEF Tags
<1> QED BY <1>1, <1>2

LEMMA ServingStep ==
  ASSUME IInv, [Next]_vars
  PROVE  (pc = "serving" => \A t \in Tags, k \in Sample : mem[t][k] = code)'
<1> USE DEF IInv, Steady
<1>1. ASSUME NEW m \in {"dump", "load"}, Launch(m) \/ StartAgain PROVE pc' # "serving"
  BY <1>1 DEF Launch, StartAgain
<1>2. CASE LoadCheckpoint \/ SaveBegins \/ SaveEnds \/ Restore \/ ReadShard
  BY <1>2 DEF LoadCheckpoint, SaveBegins, SaveEnds, Restore, ReadShard
<1>3. CASE WriteManifest \/ Verify
  <2>1. UNCHANGED <<mem, code>> /\ Sample \subseteq Shards
    BY <1>3 DEF WriteManifest, Verify, Shards
  <2> QED BY <1>3, <2>1, AllVerified DEF Verified
<1>4. CASE Stop \/ PowerLoss
  BY <1>4 DEF Stop, PowerLoss, Off
<1>5. CASE WriteBack \/ NewDirectory \/ Install \/ Decay \/ UNCHANGED vars
  BY <1>5 DEF WriteBack, NewDirectory, Install, Decay, boot, vars
<1> QED BY <1>1, <1>2, <1>3, <1>4, <1>5 DEF Next, Load

LEMMA RestoringStep ==
  ASSUME ~Edits, IInv, [Next]_vars
  PROVE  Restoring'
<1> USE DEF IInv, DiskInv, Restoring, RestorePCs
<1>0. tag \in 1..N /\ part \in 1..K /\ tag \in Nat /\ part \in Nat
  BY DEF TypeOK, Tags, Shards
<1>1. ASSUME NEW m \in {"dump", "load"}, Launch(m) PROVE Restoring'
  BY <1>1 DEF Launch
<1>11. CASE StartAgain
  BY <1>11 DEF StartAgain
<1>2. CASE LoadCheckpoint \/ SaveBegins \/ SaveEnds
  BY <1>2 DEF LoadCheckpoint, SaveBegins, SaveEnds
<1>3. CASE WriteManifest
  BY <1>3 DEF WriteManifest, NextModel, Dumping, DumpPCs
<1>4. CASE Restore
  <2>1. UNCHANGED <<man, shard, over, mem, tag, code>> /\ mode' = "load" /\ part' = 1
    BY <1>4 DEF Restore, disk
  <2>2. ASSUME pc' = "read" PROVE Good(man) /\ man.of[tag] = code
    <3>1. Good(man) /\ man.id = build /\ man.of[tag] # None
      BY <1>4, <2>2 DEF Restore, Restorable, SameBuild, Identity, Good
    <3>2. build = code
      BY <1>4 DEF Restore, Steady, Booting
    <3> QED BY <1>0, <3>1, <3>2 DEF Uniform, Tags
  <2>3. pc' \in {"read", "refused"} /\ pc = "model" /\ mode = "load"
    BY <1>4 DEF Restore
  <2> QED BY <2>1, <2>2, <2>3 DEF Verified, Kept, Good
<1>5. CASE ReadShard
  <2>1. CASE pc' = "refused"
    BY <2>1
  <2>2. CASE pc' # "refused"
    <3>1. /\ pc = "read" /\ mode' = mode
          /\ Readable(shard[tag][part])
          /\ mem' = [mem EXCEPT ![tag][part] = shard[tag][part]]
          /\ UNCHANGED <<man, shard, over, code, tag>>
      BY <1>5, <2>2 DEF ReadShard, disk
    <3>2. CASE mode = "dump"
      BY <3>1, <3>2
    <3>3. CASE mode = "load"
      <4>1. Good(man) /\ man.of[tag] = code /\ code # None
        BY <3>1, <3>3 DEF TypeOK
      <4>2. tag \in over \/ shard[tag][part] \in {code, Rot}
        BY <1>0, <4>1 DEF Whole, OnDisk, Tags, Shards
      <4>3. /\ \A t \in 1..(tag - 1) : mem'[t] = mem[t]
            /\ \A k \in Shards : mem'[tag][k] = IF k = part THEN shard[tag][part] ELSE mem[tag][k]
        BY <1>0, <3>1 DEF TypeOK, Tags, Shards
      <4>4. \A t \in 1..(tag - 1) : Verified(t)'
        BY <3>1, <3>3, <4>3 DEF Verified, Kept
      <4>5. \A k \in 1..part : Kept(tag, k)' /\ Copied(k)'
        <5> SUFFICES ASSUME NEW k \in 1..part PROVE Kept(tag, k)' /\ Copied(k)'
          OBVIOUS
        <5>1. k \in Shards
          BY <1>0 DEF Shards
        <5>2. CASE k = part
          BY <3>1, <4>2, <4>3, <5>1, <5>2 DEF Kept, Copied
        <5>3. CASE k # part
          <6>1. k \in 1..(part - 1)
            BY <1>0, <5>3
          <6> QED BY <3>1, <3>3, <4>3, <5>1, <5>3, <6>1 DEF Kept, Copied
        <5> QED BY <5>2, <5>3
      <4>6. CASE part = K
        <5>1. pc' = "verify" /\ Shards = 1..part
          BY <1>5, <3>1, <4>6 DEF ReadShard, Shards
        <5>2. tag' = tag
          BY <3>1
        <5> QED BY <3>1, <4>1, <4>4, <4>5, <5>1, <5>2 DEF Good, Kept, Copied, Verified, Shards
      <4>7. CASE part # K
        <5>1. pc' = "read" /\ 1..(part' - 1) = 1..part
          BY <1>0, <1>5, <3>1, <4>7 DEF ReadShard
        <5>2. tag' = tag
          BY <3>1
        <5> QED BY <3>1, <4>1, <4>4, <4>5, <5>1, <5>2 DEF Good, Kept, Copied, Verified, Shards
      <4> QED BY <4>6, <4>7
    <3> QED BY <3>2, <3>3 DEF TypeOK
  <2> QED BY <2>1, <2>2
<1>6. CASE Verify
  <2>1. CASE pc' = "model"
    <3>1. /\ pc = "verify" /\ tag' = tag + 1 /\ Matches
          /\ UNCHANGED <<mem, code, man, mode, over>>
      BY <1>6, <2>1 DEF Verify, NextModel, disk
    <3>2. CASE mode = "load"
      <4>1. Verified(tag)
        BY <3>1, <3>2 DEF Matches, Verified
      <4>2. \A t \in 1..(tag' - 1) : t = tag \/ t \in 1..(tag - 1)
        BY <1>0, <3>1
      <4>3. \A t \in 1..(tag' - 1) : Verified(t)
        BY <3>1, <3>2, <4>1, <4>2
      <4> QED BY <2>1, <3>1, <4>3 DEF Verified, Kept
    <3>3. CASE mode = "dump"
      BY <3>1, <3>3
    <3> QED BY <3>2, <3>3 DEF TypeOK
  <2>2. CASE pc' # "model"
    BY <1>6, <2>2 DEF Verify, NextModel
  <2> QED BY <2>1, <2>2
<1>7. CASE Stop \/ PowerLoss
  BY <1>7 DEF Stop, PowerLoss, Off
<1>8. CASE NewDirectory
  BY <1>8 DEF NewDirectory, boot, Booting
<1>9. CASE WriteBack \/ Install \/ UNCHANGED vars
  <2>1. UNCHANGED <<boot, shard, man, over>>
    BY <1>9 DEF WriteBack, Install, vars, disk, boot
  <2> QED BY <2>1 DEF boot, Good, Verified, Kept, Copied, Shards
<1>10. CASE Decay
  <2>1. \A t \in Tags, k \in Shards : shard'[t][k] \in {shard[t][k], Rot}
    BY <1>10 DEF Decay, TypeOK
  <2>2. UNCHANGED <<boot, man, over>>
    BY <1>10 DEF Decay
  <2>3. \A k \in Shards : Copied(k) => Copied(k)'
    BY <1>0, <2>1, <2>2 DEF Copied, boot, Tags
  <2>4. \A k \in 1..(part - 1) : k \in Shards
    BY <1>0 DEF Shards
  <2> QED BY <2>2, <2>3, <2>4 DEF boot, Good, Verified, Kept, Shards
<1> QED BY <1>1, <1>2, <1>3, <1>4, <1>5, <1>6, <1>7, <1>8, <1>9, <1>10, <1>11 DEF Next, Load

LEMMA Inductive ==
  ASSUME ~Edits, IInv, [Next]_vars
  PROVE  IInv'
<1>1. DiskInv'
  <2>1. TypeOK'
    BY TypeStep DEF IInv, DiskInv
  <2> QED BY <2>1, WholeStep, BlankStep, DumpingStep DEF IInv, DiskInv
<1> QED BY <1>1, UniformStep, RestoringStep, SteadyBuild, ServingStep DEF IInv, Steady

(* What a boot relies on: one manifest is of one build, a restore that is  *)
(* past its checks finds the tensors of the code it runs where no dump has *)
(* written over them, and a rank that serves holds them in the sample.     *)
THEOREM Invariance ==
  ASSUME ~Edits
  PROVE  Spec => []IInv
<1>1. IInv /\ [Next]_vars => IInv'
  BY Inductive
<1> QED BY <1>1, Inductive0, PTL DEF Spec

(* While no build changes under a booting rank, a manifest names the build *)
(* its tensors came from.                                                  *)
THEOREM OneBuild ==
  ASSUME ~Edits
  PROVE  Spec => []NoDrift
<1>1. IInv => NoDrift
  BY DEF IInv, Uniform, NoDrift
<1> QED BY <1>1, Invariance, PTL

(***************************************************************************)
(* The promises of the checks, and the abstract loader.                    *)
(***************************************************************************)

LEMMA RefusalIsTrue ==
  ASSUME IInv, [Next]_vars, pc # "refused", pc' = "refused", mode' = "load", Healthy
  PROVE  FALSE
<1> USE DEF IInv, DiskInv, Healthy, Good
<1>0. tag \in Tags /\ part \in Shards /\ Sample \subseteq Shards /\ build \in Builds /\ None \notin Builds
  BY DEF TypeOK, Shards
<1>1. ASSUME NEW m \in {"dump", "load"}, Launch(m) PROVE FALSE
  BY <1>1 DEF Launch, MayStart
<1>9. CASE StartAgain
  BY <1>9 DEF StartAgain
<1>2. CASE LoadCheckpoint \/ SaveBegins \/ SaveEnds
  BY <1>2 DEF LoadCheckpoint, SaveBegins, SaveEnds
<1>3. CASE WriteManifest
  BY <1>3 DEF WriteManifest, Dumping, DumpPCs
<1>4. CASE Restore
  BY <1>0, <1>4 DEF Restore, Restorable, SameBuild, Identity, Ledgered
<1>5. CASE ReadShard
  BY <1>0, <1>5 DEF ReadShard, Readable
<1>6. CASE Verify
  <2>1. mode = "load" /\ pc = "verify" /\ build = code
    BY <1>6 DEF Verify, Steady, Booting, RestorePCs
  <2>2. \A k \in Shards : Copied(k)
    BY <2>1 DEF Restoring, RestorePCs
  <2>3. \A k \in Shards : mem[tag][k] = code
    BY <1>0, <2>1, <2>2 DEF Copied
  <2>4. Matches
    BY <1>0, <2>1, <2>3 DEF Matches
  <2> QED BY <1>6, <2>4 DEF Verify, NextModel
<1>7. CASE Stop \/ PowerLoss
  BY <1>7 DEF Stop, PowerLoss, Off
<1>8. CASE WriteBack \/ NewDirectory \/ Install \/ Decay \/ UNCHANGED vars
  BY <1>8 DEF WriteBack, NewDirectory, Install, Decay, boot, vars
<1> QED BY <1>1, <1>2, <1>3, <1>4, <1>5, <1>6, <1>7, <1>8, <1>9 DEF Next, Load

(* A healthy sidecar of the build of the node is never refused, at none of *)
(* the checks a boot in load mode goes through.                            *)
THEOREM HealthyIsAccepted ==
  ASSUME ~Edits
  PROVE  Spec => NoFalseRefusal
<1>1. IInv /\ [Next]_vars => [pc # "refused" /\ pc' = "refused" /\ mode' = "load" => ~Healthy]_vars
  BY RefusalIsTrue
<1> QED BY <1>1, Invariance, PTL DEF Spec, NoFalseRefusal

LEMMA DumpIsComplete ==
  ASSUME ~Edits, IInv, [Next]_vars, pc # "serving", pc' = "serving", mode = "dump"
  PROVE  /\ Good(man') /\ man'.id = build /\ man'.ledger = Tags
         /\ \A t \in Tags : man'.of[t] = build /\ \A k \in Shards : shard'[t][k] \in {build, Rot}
<1> USE DEF IInv, DiskInv, Good
<1>1. WriteManifest
  BY DEF Next, Load, Launch, StartAgain, LoadCheckpoint, SaveBegins, SaveEnds, Restore, ReadShard, Verify,
         Stop, PowerLoss, Off, WriteBack, NewDirectory, Install, Decay, vars, boot,
         Dumping, RestorePCs
<1>2. pc = "manifest" /\ tag = N /\ man' = Listing /\ Parsed.id \in {None, build} /\ UNCHANGED shard
  BY <1>1 DEF WriteManifest, NextModel, Identity
<1>3. mem[tag][1] = code /\ build = code /\ build \in Builds /\ Parsed \in Manifest
  BY SMTT(30), <1>2, Unlisted, ListingType DEF DumpPCs, Shards, Steady, Booting, TypeOK
<1>4. /\ man'.file = "whole" /\ man'.id = build
      /\ \A t \in Tags : man'.of[t] = IF t = tag THEN code ELSE Parsed.of[t]
      /\ man'.ledger = Parsed.ledger \union {tag}
  BY <1>2, <1>3 DEF Listing, Identity, Manifest
<1>5. /\ \A t \in 1..(tag - 1) : Parsed = man /\ man.of[t] = code /\ t \in man.ledger
      /\ \A t \in 1..tag, k \in Shards : shard[t][k] \in {code, Rot}
  <2>1. tag \in Nat
    BY DEF TypeOK, Tags
  <2> QED BY <1>2, <2>1 DEF Dumping, DumpPCs, Parsed
<1>6. \A t \in Tags : t = tag \/ t \in 1..(tag - 1)
  BY <1>2 DEF Tags
<1>7. man'.ledger = Tags
  <2>1. Parsed.ledger \subseteq Tags /\ tag \in Tags
    BY <1>3 DEF Manifest, TypeOK
  <2> QED BY <1>4, <1>5, <1>6, <2>1
<1>8. \A t \in Tags : man'.of[t] = build
  BY <1>3, <1>4, <1>5, <1>6
<1>9. \A t \in Tags, k \in Shards : shard'[t][k] \in {build, Rot}
  BY <1>2, <1>3, <1>5 DEF Tags
<1> QED BY <1>4, <1>7, <1>8, <1>9

(* A dump that gets as far as serving leaves everything a later boot in    *)
(* load mode asks for.                                                     *)
THEOREM DumpSuffices ==
  ASSUME ~Edits
  PROVE  Spec => DumpLeavesSidecar
<1>1. IInv /\ [Next]_vars =>
        [pc # "serving" /\ pc' = "serving" /\ mode = "dump" =>
           /\ Good(man') /\ man'.id = build /\ man'.ledger = Tags
           /\ \A t \in Tags : man'.of[t] = build /\ \A k \in Shards : shard'[t][k] \in {build, Rot}]_vars
  BY DumpIsComplete
<1> QED BY <1>1, Invariance, PTL DEF Spec, DumpLeavesSidecar

LEMMA LoaderInit == Init => Loader!Init
BY DEF Init, Loader!Init, Loader!Nothing, Phase, Held, Booting, DumpPCs, RestorePCs, Tags

LEMMA LoaderStep ==
  ASSUME ~Edits, IInv, [Next]_vars
  PROVE  [Loader!Next]_(Loader!vars)
<1> USE DEF IInv, Loader!Next, Loader!vars, Phase, Held, Booting, DumpPCs, RestorePCs
<1>1. ASSUME NEW m \in {"dump", "load"}, Launch(m) PROVE [Loader!Next]_(Loader!vars)
  BY <1>1 DEF Launch, disk, Loader!Start, Loader!Refuse
<1>8. CASE StartAgain
  BY <1>8 DEF StartAgain, disk, Loader!Start
<1>2. CASE LoadCheckpoint \/ SaveBegins \/ SaveEnds
  <2>1. /\ pc \in Booting /\ pc' \in Booting /\ pc # "serving" /\ pc' # "serving"
        /\ UNCHANGED <<build, code>>
    BY <1>2 DEF LoadCheckpoint, SaveBegins, SaveEnds
  <2>2. over' \subseteq 1..N
    BY TypeStep DEF DiskInv, TypeOK, Tags
  <2> QED BY <2>1, <2>2 DEF Loader!Store
<1>3. CASE Restore \/ ReadShard
  BY <1>3 DEF Restore, ReadShard, disk, Loader!Refuse
<1>4. CASE WriteManifest \/ Verify
  <2>1. UNCHANGED <<build, code, mem>> /\ pc \in Booting /\ over' \subseteq over
    BY <1>4 DEF WriteManifest, Verify, disk
  <2>2. CASE pc' = "serving"
    <3>1. \A t \in Tags : Verified(t)
      BY <1>4, <2>2, AllVerified
    <3>2. Loader!Faithful(mem, code)
      BY <3>1 DEF Loader!Faithful, Verified, Kept, Tags
    <3>3. Held' = mem
      BY <2>1, <2>2
    <3>4. Loader!Faithful(Held', code)
      BY <3>2, <3>3
    <3> QED BY <2>1, <2>2, <3>4 DEF Loader!Serve
  <2>3. CASE pc' = "refused"
    <3>1. UNCHANGED over
      BY <1>4, <2>3 DEF WriteManifest, Verify, NextModel, disk
    <3> QED BY <2>1, <2>3, <3>1 DEF Loader!Refuse
  <2>4. CASE pc' = "model"
    <3>1. over' \subseteq 1..N
      BY TypeStep DEF DiskInv, TypeOK, Tags
    <3> QED BY <2>1, <2>4, <3>1 DEF Loader!Store
  <2> QED BY <1>4, <2>2, <2>3, <2>4 DEF WriteManifest, Verify, NextModel
<1>5. CASE Stop \/ PowerLoss
  <2>1. pc' = "off" /\ UNCHANGED <<build, code, over>>
    BY <1>5 DEF Stop, PowerLoss, Off, disk
  <2> QED BY <2>1 DEF Loader!Stop, Loader!Nothing, Tags
<1>6. CASE WriteBack \/ Decay \/ UNCHANGED vars
  BY <1>6 DEF WriteBack, Decay, boot, disk, vars
<1>9. CASE NewDirectory
  <2>1. pc \notin Booting /\ over' = {} /\ UNCHANGED <<build, pc, code, mem>>
    BY <1>9 DEF NewDirectory
  <2>2. pc # "booting"
    BY DEF DiskInv, TypeOK, PCs
  <2> QED BY <2>1, <2>2 DEF Loader!NewPlace
<1>7. CASE Install
  <2>1. pc \notin Booting /\ build' \in Builds /\ UNCHANGED <<pc, code, mem, over>>
    BY <1>7 DEF Install, boot, disk
  <2>2. pc # "booting"
    BY DEF DiskInv, TypeOK, PCs
  <2> QED BY <2>1, <2>2 DEF Loader!Install
<1> QED BY <1>1, <1>2, <1>3, <1>4, <1>5, <1>6, <1>7, <1>8, <1>9 DEF Next, Load

(* A boot with the sidecar implements the abstract loader: it serves what  *)
(* a load from the checkpoint gives under the code it started with, save   *)
(* for what the abstract loader excepts, or it refuses.                    *)
THEOREM Refinement ==
  ASSUME ~Edits
  PROVE  Spec => LoaderSpec
<1>1. IInv /\ [Next]_vars => [Loader!Next]_(Loader!vars)
  BY LoaderStep
<1> QED BY <1>1, LoaderInit, Invariance, PTL DEF Spec, LoaderSpec, Loader!Spec

====

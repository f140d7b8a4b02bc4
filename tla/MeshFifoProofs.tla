---- MODULE MeshFifoProofs ----
(***************************************************************************)
(* Proofs about the one-sided path for a ring of any depth, any number of  *)
(* outstanding requests and messages of any size.  IInv is inductive; the  *)
(* properties follow from it, and with it every step is a step of the      *)
(* paired channel.  The choice of links comes first and the flush of GPU   *)
(* memory last; they share no state with the one-sided path.               *)
(***************************************************************************)
EXTENDS MeshFifo, MeshFlush, LinkSelection, DataLemmas

-----------------------------------------------------------------------------
(* The choice of links.  What the walk has found after a turn starts with  *)
(* the first link that it met and has each NIC once; the turns are in the  *)
(* order of the old search.  As for the loads of two links, a channel of   *)
(* one is set against the channel of the other in the turn of the usable   *)
(* links before it; only in the first turn of a round of the devices has a *)
(* channel none.                                                           *)

Links == [addr : 1 .. fabric.addrs, nic : 1 .. NumNics]

FabricOK ==
  /\ NumNics \in 1 .. MESH_MAX_NICS /\ NumNics \in Nat /\ MESH_MAX_NICS \in Nat
  /\ fabric.addrs \in Nat \ {0} /\ fabric.cap \in Nat
  /\ \A i \in 1 .. NumNics :
       fabric.nics[i].fast \in BOOLEAN /\ fabric.nics[i].reach \subseteq 1 .. fabric.addrs

LinkInv ==
  /\ FabricOK
  /\ picks \in Seq(Links)
  /\ picks # <<>> => Cands # <<>>
  /\ \A c \in 1 .. Len(picks) : picks[c] = Cands[Pick((c - 1) % NumNics)]

LEMMA LinkStart == LinkInit => FabricOK /\ picks = <<>>
<1> SUFFICES ASSUME LinkInit PROVE FabricOK /\ picks = <<>>
  OBVIOUS
<1>1. PICK n \in 1 .. MESH_MAX_NICS, m \in 1 .. MaxAddrs :
        fabric \in [nics : [1 .. n -> [fast : BOOLEAN, reach : SUBSET (1 .. m)]],
                    addrs : {m}, cap : Caps]
  BY DEF LinkInit
<1>2. n \in Nat /\ m \in Nat \ {0} /\ MESH_MAX_NICS \in Nat
  BY LinkSizes
<1>3. fabric.addrs = m /\ fabric.cap \in Nat
  BY <1>1, LinkSizes
<1>4. fabric.nics \in [1 .. n -> [fast : BOOLEAN, reach : SUBSET (1 .. m)]]
  BY <1>1
<1>5. NumNics = n
  BY <1>2, <1>4, LenIs DEF NumNics
<1> QED BY <1>2, <1>3, <1>4, <1>5 DEF FabricOK, LinkInit

(* The turns go through the links in the order of the addresses, and for   *)
(* each address in the order of the NICs.                                  *)
TurnOf(l) == NumNics * (l.addr - 1) + l.nic
Before(l, k) == l.addr < k.addr \/ (l.addr = k.addr /\ l.nic <= k.nic)

LEMMA TurnsAre ==
  ASSUME FabricOK
  PROVE  /\ Len(Turns) \in Nat /\ Turns \in [1 .. Len(Turns) -> Links]
         /\ \A t \in 1 .. Len(Turns) : TurnOf(Turns[t]) = t
         /\ \A l \in Links : TurnOf(l) \in 1 .. Len(Turns) /\ Turns[TurnOf(l)] = l
<1>1. PICK a \in Nat \ {0}, n \in Nat \ {0} : a = fabric.addrs /\ n = NumNics
  BY DEF FabricOK
<1>2. PICK T \in Nat : T = a * n
  OBVIOUS
<1>3. Turns = [t \in 1 .. T |-> [addr |-> ((t - 1) \div n) + 1, nic |-> ((t - 1) % n) + 1]]
  BY <1>1, <1>2 DEF Turns
<1>4. ASSUME NEW t \in 1 .. T
      PROVE  Turns[t] \in Links /\ TurnOf(Turns[t]) = t
  <2>1. PICK q \in Nat, r \in 0 .. n - 1 : t - 1 = n * q + r /\ (t - 1) \div n = q /\ (t - 1) % n = r
    <3>1. t - 1 \in Nat
      OBVIOUS
    <3> QED BY <3>1, Quotient
  <2>2. Turns[t] = [addr |-> q + 1, nic |-> r + 1]
    BY <1>3, <2>1
  <2>3. q < a
    <3>1. ASSUME a <= q PROVE FALSE
      <4>1. n * a <= n * q /\ n * q \in Nat
        BY <3>1, Times
      <4> QED BY <1>2, <2>1, <4>1
    <3> QED BY <3>1
  <2>4. (q + 1) - 1 = q /\ n * q \in Nat
    OBVIOUS
  <2> QED BY <1>1, <2>1, <2>2, <2>3, <2>4 DEF Links, TurnOf
<1>5. Turns \in [1 .. T -> Links]
  BY <1>3, <1>4
<1>6. Len(Turns) = T
  BY <1>5, LenIs
<1>7. ASSUME NEW l \in Links
      PROVE  TurnOf(l) \in 1 .. T /\ Turns[TurnOf(l)] = l
  <2>1. PICK q \in 0 .. a - 1, r \in 0 .. n - 1 : l = [addr |-> q + 1, nic |-> r + 1]
    <3>1. l.addr - 1 \in 0 .. a - 1 /\ l.nic - 1 \in 0 .. n - 1
          /\ l = [addr |-> (l.addr - 1) + 1, nic |-> (l.nic - 1) + 1]
      BY <1>1 DEF Links
    <3> QED BY <3>1
  <2>2. PICK u \in Nat : u = n * q + r /\ u \div n = q /\ u % n = r
    <3>1. n * q + r \in Nat
      OBVIOUS
    <3> QED BY <3>1, DividedOnce
  <2>3. u + 1 = TurnOf(l)
    <3>1. l.addr - 1 = q /\ l.nic = r + 1
      BY <2>1
    <3>2. TurnOf(l) = n * q + (r + 1)
      BY <1>1, <3>1 DEF TurnOf
    <3>3. n * q \in Nat
      OBVIOUS
    <3> QED BY <2>2, <3>2, <3>3
  <2>4. u + 1 <= T
    <3>1. n * (q + 1) <= n * a
      BY Times
    <3>2. n * (q + 1) = n * q + n /\ n * a = a * n
      OBVIOUS
    <3> QED BY <1>2, <2>2, <3>1, <3>2
  <2>5. (u + 1) - 1 = u /\ u + 1 \in 1 .. T
    BY <2>4
  <2> QED BY <1>3, <2>1, <2>2, <2>3, <2>5
<1> QED BY <1>4, <1>5, <1>6, <1>7

LEMMA TurnsInOrder ==
  ASSUME FabricOK, NEW l \in Links, NEW k \in Links
  PROVE  TurnOf(l) <= TurnOf(k) <=> Before(l, k)
<1>1. PICK n \in Nat \ {0} : n = NumNics
  BY DEF FabricOK
<1>2. PICK p \in Nat, q \in Nat, r \in 1 .. n, s \in 1 .. n :
        l.addr = p + 1 /\ l.nic = r /\ k.addr = q + 1 /\ k.nic = s
  <2>1. l.addr - 1 \in Nat /\ k.addr - 1 \in Nat /\ l.addr = (l.addr - 1) + 1 /\ k.addr = (k.addr - 1) + 1
    BY DEF Links, FabricOK
  <2> QED BY <1>1, <2>1 DEF Links
<1>3. TurnOf(l) = n * p + r /\ TurnOf(k) = n * q + s /\ n * p \in Nat /\ n * q \in Nat
  <2>1. (p + 1) - 1 = p /\ (q + 1) - 1 = q
    OBVIOUS
  <2> QED BY <1>1, <1>2, <2>1 DEF TurnOf
<1>4. ASSUME p < q PROVE n * p + r <= n * q + s
  <2>1. n * (p + 1) <= n * q /\ n * (p + 1) = n * p + n
    BY <1>4, Times
  <2> QED BY <1>3, <2>1
<1>5. ASSUME q < p PROVE ~(n * p + r <= n * q + s)
  <2>1. n * (q + 1) <= n * p /\ n * (q + 1) = n * q + n
    BY <1>5, Times
  <2> QED BY <1>3, <2>1
<1>6. CASE p < q
  BY <1>2, <1>3, <1>4, <1>6 DEF Before
<1>7. CASE q < p
  BY <1>2, <1>3, <1>5, <1>7 DEF Before
<1>8. CASE p = q
  BY <1>2, <1>3, <1>8 DEF Before
<1> QED BY <1>6, <1>7, <1>8

(* What the walk has found after t turns.                                  *)
Match(l, pass) == (pass = 0 => fabric.nics[l.nic].fast) /\ l.addr \in fabric.nics[l.nic].reach
Grown(found, t, pass) ==
  IF /\ Len(found) < MESH_MAX_NICS
     /\ (pass = 0 => fabric.nics[Turns[t].nic].fast) /\ Turns[t].addr \in fabric.nics[Turns[t].nic].reach
     /\ ~Known(found, Turns[t].nic)
  THEN Append(found, Turns[t]) ELSE found

Leads(found, t, pass) ==
  \/ found = <<>> /\ \A u \in 1 .. t : ~Match(Turns[u], pass)
  \/ found # <<>> /\ \E v \in 1 .. t :
       /\ Match(Turns[v], pass) /\ found[1] = Turns[v]
       /\ \A u \in 1 .. t : Match(Turns[u], pass) => v <= u

Gathered(found, t, pass) ==
  /\ found \in Seq(Links)
  /\ \A k \in 1 .. Len(found) : Match(found[k], pass)
  /\ \A j, k \in 1 .. Len(found) : found[j].nic = found[k].nic => j = k
  /\ \A u \in 1 .. t : Match(Turns[u], pass) => Known(found, Turns[u].nic)
  /\ Leads(found, t, pass)

(* The table of links has room for every NIC.                              *)
LEMMA RoomLeft ==
  ASSUME FabricOK, NEW nic \in 1 .. NumNics, NEW found \in Seq(Links), ~Known(found, nic),
         \A j, k \in 1 .. Len(found) : found[j].nic = found[k].nic => j = k
  PROVE  Len(found) < MESH_MAX_NICS
<1> DEFINE S == 1 .. Len(found)
           T == (1 .. NumNics) \ {nic}
           nics == [k \in S |-> found[k].nic]
<1>1. PICK n \in Nat : n = NumNics /\ n <= MESH_MAX_NICS /\ MESH_MAX_NICS \in Nat
  BY DEF FabricOK
<1>2. IsFiniteSet(T) /\ Cardinality(T) = n - 1
  <2>1. IsFiniteSet(1 .. n) /\ Cardinality(1 .. n) = n
    <3>1. n >= 1
      BY <1>1
    <3> QED BY <3>1, FS_Interval
  <2>2. T = (1 .. n) \ {nic} /\ nic \in 1 .. n
    BY <1>1
  <2> QED BY <2>1, <2>2, FS_RemoveElement
<1>3. Cardinality(S) = Len(found) /\ Len(found) \in Nat
  <2>1. PICK m \in Nat : m = Len(found)
    OBVIOUS
  <2>2. Cardinality(1 .. m) = m
    BY FS_Interval
  <2> QED BY <2>1, <2>2
<1>4. nics \in Injection(S, T)
  <2>1. \A k \in S : found[k] \in Links /\ found[k].nic # nic
    BY DEF Known
  <2>2. nics \in [S -> T]
    BY <2>1 DEF Links
  <2>3. \A j, k \in S : nics[j] = nics[k] => j = k
    OBVIOUS
  <2> HIDE DEF nics, S, T
  <2> QED BY <2>2, <2>3 DEF Injection, IsInjective
<1>5. Cardinality(S) <= Cardinality(T)
  <2> HIDE DEF nics, S, T
  <2> QED BY <1>2, <1>4, FS_Injection
<1> HIDE DEF S, T
<1> QED BY <1>1, <1>2, <1>3, <1>5

LEMMA GatheredGrows ==
  ASSUME FabricOK, NEW pass, NEW t \in 1 .. Len(Turns), NEW found, Gathered(found, t - 1, pass)
  PROVE  Gathered(Grown(found, t, pass), t, pass)
<1> DEFINE l == Turns[t]
           next == Grown(found, t, pass)
<1>1. l \in Links /\ t \in Nat /\ t - 1 \in Nat /\ 1 .. t = (1 .. t - 1) \union {t} /\ t \notin 1 .. t - 1
  BY TurnsAre
<1>2. found \in Seq(Links) /\ Len(found) \in Nat
  BY DEF Gathered
<1>3. CASE /\ Match(l, pass) /\ Len(found) < MESH_MAX_NICS /\ ~Known(found, l.nic)
  <2>1. next = Append(found, l)
    BY <1>3 DEF Grown, Match
  <2>2. /\ next \in Seq(Links) /\ Len(next) = Len(found) + 1
        /\ next[Len(found) + 1] = l /\ \A k \in 1 .. Len(found) : next[k] = found[k]
    <3> HIDE DEF next, l
    <3> QED BY <1>1, <1>2, <2>1, AppendProperties
  <2>3. \A k \in 1 .. Len(next) : k \in 1 .. Len(found) \/ k = Len(found) + 1
    BY <1>2, <2>2
  <2>4. \A k \in 1 .. Len(next) : Match(next[k], pass)
    <3> HIDE DEF next, l
    <3> QED BY <1>3, <2>2, <2>3 DEF Gathered
  <2>5. \A j, k \in 1 .. Len(next) : next[j].nic = next[k].nic => j = k
    <3> HIDE DEF next, l
    <3>1. \A k \in 1 .. Len(found) : next[k].nic # l.nic
      BY <1>3, <2>2 DEF Known
    <3> QED BY <2>2, <2>3, <3>1 DEF Gathered
  <2>6. Leads(next, t, pass)
    <3>1. next # <<>>
      <4> HIDE DEF next, l
      <4> QED BY <1>2, <2>2
    <3>2. CASE found = <<>>
      <4>1. next[1] = l /\ \A u \in 1 .. t - 1 : ~Match(Turns[u], pass)
        <5> HIDE DEF next
        <5>1. Len(found) + 1 = 1
          BY <3>2
        <5> QED BY <2>2, <3>2, <5>1 DEF Gathered, Leads
      <4>2. t \in 1 .. t /\ \A u \in 1 .. t : Match(Turns[u], pass) => t <= u
        BY <1>1, <4>1
      <4> HIDE DEF next
      <4> QED BY <1>3, <3>1, <4>1, <4>2 DEF Leads
    <3>3. CASE found # <<>>
      <4>1. PICK v \in 1 .. t - 1 : /\ Match(Turns[v], pass) /\ found[1] = Turns[v]
                                    /\ \A u \in 1 .. t - 1 : Match(Turns[u], pass) => v <= u
        BY <3>3 DEF Gathered, Leads
      <4>2. next[1] = Turns[v]
        <5>1. 1 \in 1 .. Len(found)
          BY <1>2, <3>3
        <5> HIDE DEF next, l
        <5> QED BY <2>2, <4>1, <5>1
      <4>3. v \in 1 .. t /\ \A u \in 1 .. t : Match(Turns[u], pass) => v <= u
        <5>1. v \in 1 .. t /\ v <= t
          BY <1>1
        <5> QED BY <1>1, <4>1, <5>1
      <4> HIDE DEF next, l
      <4> QED BY <3>1, <4>1, <4>2, <4>3 DEF Leads
    <3> QED BY <3>2, <3>3
  <2>7. \A u \in 1 .. t : Match(Turns[u], pass) => Known(next, Turns[u].nic)
    <3> SUFFICES ASSUME NEW u \in 1 .. t, Match(Turns[u], pass)
                 PROVE  \E k \in 1 .. Len(next) : next[k].nic = Turns[u].nic
      BY DEF Known
    <3>1. CASE u = t
      <4>1. Len(found) + 1 \in 1 .. Len(next) /\ next[Len(found) + 1] = Turns[u]
        <5> HIDE DEF next
        <5> QED BY <1>2, <2>2, <3>1
      <4> HIDE DEF next
      <4> QED BY <4>1
    <3>2. CASE u # t
      <4>1. PICK k \in 1 .. Len(found) : found[k].nic = Turns[u].nic
        BY <1>1, <3>2 DEF Gathered, Known
      <4>2. k \in 1 .. Len(next) /\ next[k] = found[k]
        <5> HIDE DEF next
        <5> QED BY <1>2, <2>2
      <4> HIDE DEF next
      <4> QED BY <4>1, <4>2
    <3> QED BY <3>1, <3>2
  <2>8. Gathered(next, t, pass)
    <3> HIDE DEF next
    <3> QED BY <2>2, <2>4, <2>5, <2>6, <2>7 DEF Gathered
  <2> QED BY <2>8
<1>4. CASE ~(/\ Match(l, pass) /\ Len(found) < MESH_MAX_NICS /\ ~Known(found, l.nic))
  <2>1. next = found
    BY <1>4 DEF Grown, Match
  <2>2. Leads(found, t, pass)
    <3>1. CASE found = <<>>
      <4>1. ~Known(found, l.nic) /\ Len(found) < MESH_MAX_NICS
        BY <3>1 DEF Known, FabricOK
      <4>2. ~Match(Turns[t], pass)
        BY <1>4, <4>1
      <4> QED BY <1>1, <3>1, <4>2 DEF Gathered, Leads
    <3>2. CASE found # <<>>
      <4>1. PICK v \in 1 .. t - 1 : /\ Match(Turns[v], pass) /\ found[1] = Turns[v]
                                    /\ \A u \in 1 .. t - 1 : Match(Turns[u], pass) => v <= u
        BY <3>2 DEF Gathered, Leads
      <4>2. v \in 1 .. t /\ v <= t
        BY <1>1
      <4>3. \A u \in 1 .. t : Match(Turns[u], pass) => v <= u
        BY <1>1, <4>1, <4>2
      <4> QED BY <3>2, <4>1, <4>2, <4>3 DEF Leads
    <3> QED BY <3>1, <3>2
  <2>3. \A u \in 1 .. t : Match(Turns[u], pass) => Known(found, Turns[u].nic)
    <3>1. ASSUME Match(l, pass), ~Known(found, l.nic) PROVE FALSE
      <4>1. l.nic \in 1 .. NumNics
        BY <1>1 DEF Links
      <4>2. Len(found) < MESH_MAX_NICS
        <5> HIDE DEF l
        <5>1. \A j, k \in 1 .. Len(found) : found[j].nic = found[k].nic => j = k
          BY DEF Gathered
        <5> QED BY <1>2, <3>1, <4>1, <5>1, RoomLeft
      <4> QED BY <1>4, <3>1, <4>2
    <3> QED BY <1>1, <3>1 DEF Gathered
  <2>4. Gathered(next, t, pass)
    <3> HIDE DEF next
    <3> QED BY <2>1, <2>2, <2>3 DEF Gathered
  <2> QED BY <2>4
<1> QED BY <1>3, <1>4

Gatherer(f, pass) ==
  f = [t \in 0 .. Len(Turns) |-> IF t = 0 THEN <<>> ELSE Grown(f[t - 1], t, pass)]

LEMMA GathererIs ==
  ASSUME FabricOK, NEW pass
  PROVE  \E f : Gatherer(f, pass) /\ Collect(pass) = f[Len(Turns)]
<1> DEFINE n == Len(Turns)
           step == [p \in Seq(Links) \X (1 .. n) |-> Grown(p[1], p[2], pass)]
<1>1. n \in Nat /\ n \in Int /\ 0 <= n /\ 0 + 1 = 1
  BY TurnsAre
<1>2. Steps(step, 0, n, Seq(Links))
  <2>1. ASSUME NEW x \in Seq(Links), NEW i \in 1 .. n PROVE Grown(x, i, pass) \in Seq(Links)
    <3>1. Turns[i] \in Links
      BY TurnsAre
    <3>2. Append(x, Turns[i]) \in Seq(Links)
      BY <3>1, AppendProperties
    <3> QED BY <3>2 DEF Grown
  <2> QED BY <1>1, <2>1 DEF Steps
<1>3. PICK g : Recurs(g, 0, n, Seq(Links), <<>>, step)
  <2>1. <<>> \in Seq(Links)
    OBVIOUS
  <2>2. 0 \in Int
    OBVIOUS
  <2> HIDE DEF n, step
  <2> QED BY <1>1, <1>2, <2>1, <2>2, Recursion
<1>4. Gatherer(g, pass)
  <2>1. ASSUME NEW t \in 0 .. n PROVE g[t] = IF t = 0 THEN <<>> ELSE Grown(g[t - 1], t, pass)
    <3>1. CASE t = 0
      BY <3>1, <1>3 DEF Recurs
    <3>2. CASE t # 0
      <4>1. t \in 1 .. n /\ t - 1 \in 0 .. n
        BY <1>1, <3>2
      <4>2. g[t] = step[<<g[t - 1], t>>] /\ g[t - 1] \in Seq(Links)
        <5> HIDE DEF n, step
        <5> QED BY <1>1, <1>3, <4>1 DEF Recurs
      <4> QED BY <3>2, <4>1, <4>2
    <3> QED BY <3>1, <3>2
  <2>2. g \in [0 .. n -> Seq(Links)]
    BY <1>3 DEF Recurs
  <2> QED BY <2>1, <2>2 DEF Gatherer
<1> DEFINE f == CHOOSE f : Gatherer(f, pass)
<1>5. Gatherer(f, pass)
  BY <1>4
<1>6. Collect(pass) = f[n]
  BY DEF Collect, Gatherer, Grown
<1> QED BY <1>5, <1>6

LEMMA CollectIs ==
  ASSUME FabricOK, NEW pass
  PROVE  Gathered(Collect(pass), Len(Turns), pass)
<1> DEFINE n == Len(Turns)
<1>1. PICK f : Gatherer(f, pass) /\ Collect(pass) = f[n]
  BY GathererIs
<1>2. n \in Nat /\ n \in Int
  BY TurnsAre
<1>3. f[0] = <<>> /\ \A t \in 1 .. n : f[t] = Grown(f[t - 1], t, pass)
  <2>1. \A t \in 0 .. n : f[t] = IF t = 0 THEN <<>> ELSE Grown(f[t - 1], t, pass)
    BY <1>1 DEF Gatherer
  <2>2. 0 \in 0 .. n /\ \A t \in 1 .. n : t \in 0 .. n /\ t # 0
    BY <1>2
  <2> QED BY <2>1, <2>2
<1> DEFINE S == {t \in 0 .. n : Gathered(f[t], t, pass)}
<1>4. 0 \in S
  <2>1. <<>> \in Seq(Links) /\ Len(<<>>) = 0 /\ 0 \in 0 .. n
    BY <1>2
  <2>2. \A k \in 1 .. Len(<<>>) : FALSE
    OBVIOUS
  <2>3. \A u \in 1 .. 0 : FALSE
    OBVIOUS
  <2>4. Gathered(<<>>, 0, pass)
    BY <2>1, <2>2, <2>3 DEF Gathered, Leads
  <2> QED BY <1>3, <2>1, <2>4
<1>5. ASSUME NEW t \in 0 .. n - 1, t \in S PROVE t + 1 \in S
  <2>1. t + 1 \in 1 .. n /\ t + 1 \in 0 .. n /\ (t + 1) - 1 = t
    BY <1>2
  <2>2. Gathered(f[t], (t + 1) - 1, pass) /\ f[t + 1] = Grown(f[t], t + 1, pass)
    BY <1>3, <1>5, <2>1
  <2>3. Gathered(Grown(f[t], t + 1, pass), t + 1, pass)
    BY <2>1, <2>2, GatheredGrows
  <2> QED BY <2>1, <2>2, <2>3
<1>6. n \in S
  <2>1. 0 .. n \subseteq S
    <3> HIDE DEF S, n
    <3> QED BY <1>2, <1>4, <1>5, Upward
  <2>2. n \in 0 .. n
    BY <1>2
  <2> QED BY <2>1, <2>2
<1> QED BY <1>1, <1>6

(* The pass that counts: the first, unless no fast NIC has a link.         *)
LEMMA CandsAre ==
  ASSUME FabricOK
  PROVE  \E pass \in {0, 1} :
           /\ Gathered(Cands, Len(Turns), pass)
           /\ pass = 0 => Cands # <<>>
           /\ pass = 1 => \A t \in 1 .. Len(Turns) : ~Match(Turns[t], 0)
<1>1. Gathered(Collect(0), Len(Turns), 0) /\ Gathered(Collect(1), Len(Turns), 1)
  BY CollectIs
<1>2. CASE Collect(0) # <<>>
  BY <1>1, <1>2 DEF Cands
<1>3. CASE Collect(0) = <<>>
  <2>1. Cands = Collect(1)
    BY <1>3 DEF Cands
  <2>2. \A t \in 1 .. Len(Turns) : ~Match(Turns[t], 0)
    BY <1>1, <1>3 DEF Gathered, Leads
  <2> QED BY <1>1, <2>1, <2>2
<1> QED BY <1>2, <1>3

(* The links that the search was for.                                      *)
Best(pass) == {l \in Links : Match(l, pass)}

LEMMA SearchedIs ==
  ASSUME FabricOK, NEW pass \in {0, 1}, pass = 0 => Best(0) # {}, pass = 1 => Best(0) = {}
  PROVE  Searched = Best(pass)
<1> DEFINE links == [addr : 1 .. fabric.addrs, nic : 1 .. NumNics]
           live == {l \in links : l.addr \in fabric.nics[l.nic].reach}
           fast == {l \in live : fabric.nics[l.nic].fast}
<1>1. live = Best(1) /\ fast = Best(0)
  BY DEF Best, Match, Links
<1>2. Searched = IF fast # {} THEN fast ELSE live
  BY DEF Searched
<1> QED BY <1>1, <1>2

(* The pass that counts has seen every turn.                               *)
LEMMA CandsFrom ==
  ASSUME FabricOK
  PROVE  \E pass \in {0, 1} : Gathered(Cands, Len(Turns), pass) /\ Searched = Best(pass)
<1>1. PICK pass \in {0, 1} :
        /\ Gathered(Cands, Len(Turns), pass)
        /\ pass = 0 => Cands # <<>>
        /\ pass = 1 => \A t \in 1 .. Len(Turns) : ~Match(Turns[t], 0)
  BY CandsAre
<1>2. ASSUME pass = 0 PROVE Best(0) # {}
  <2>1. PICK v \in 1 .. Len(Turns) : Match(Turns[v], 0)
    BY <1>1, <1>2 DEF Gathered, Leads
  <2> QED BY <2>1, TurnsAre DEF Best
<1>3. ASSUME pass = 1 PROVE Best(0) = {}
  BY <1>1, <1>3, TurnsAre DEF Best
<1> QED BY <1>1, <1>2, <1>3, SearchedIs

LEMMA FirstLink ==
  ASSUME FabricOK
  PROVE  IF Cands = <<>> THEN FirstMatch = {} ELSE FirstMatch = {Cands[1]}
<1>1. PICK pass \in {0, 1} : Gathered(Cands, Len(Turns), pass) /\ Searched = Best(pass)
  BY CandsFrom
<1>2. ASSUME NEW l \in Best(pass)
      PROVE  TurnOf(l) \in 1 .. Len(Turns) /\ Turns[TurnOf(l)] = l /\ Match(Turns[TurnOf(l)], pass)
  BY TurnsAre DEF Best
<1>3. FirstMatch = {l \in Best(pass) : \A k \in Best(pass) : Before(l, k)}
  BY <1>1 DEF FirstMatch, Before
<1>4. CASE Cands = <<>>
  <2>1. \A u \in 1 .. Len(Turns) : ~Match(Turns[u], pass)
    BY <1>1, <1>4 DEF Gathered, Leads
  <2>2. Best(pass) = {}
    BY <1>2, <2>1
  <2> QED BY <1>3, <1>4, <2>2
<1>5. CASE Cands # <<>>
  <2>1. PICK v \in 1 .. Len(Turns) :
          /\ Match(Turns[v], pass) /\ Cands[1] = Turns[v]
          /\ \A u \in 1 .. Len(Turns) : Match(Turns[u], pass) => v <= u
    BY <1>1, <1>5 DEF Gathered, Leads
  <2>2. PICK first : first = Turns[v]
    OBVIOUS
  <2>3. first \in Best(pass) /\ first \in Links /\ TurnOf(first) = v
    BY <2>1, <2>2, TurnsAre DEF Best
  <2>4. \A k \in Best(pass) : k \in Links
    BY DEF Best
  <2>5. \A k \in Best(pass) : Before(first, k)
    <3> TAKE k \in Best(pass)
    <3>1. TurnOf(first) <= TurnOf(k)
      BY <1>2, <2>1, <2>3
    <3> QED BY <2>3, <2>4, <3>1, TurnsInOrder
  <2>6. ASSUME NEW l \in Best(pass), \A k \in Best(pass) : Before(l, k)
        PROVE  l = first
    <3>1. TurnOf(l) <= v
      BY <2>3, <2>4, <2>6, TurnsInOrder
    <3>2. v <= TurnOf(l) /\ TurnOf(l) \in 1 .. Len(Turns) /\ Turns[TurnOf(l)] = l
      BY <1>2, <2>1
    <3>3. TurnOf(l) = v
      BY <3>1, <3>2, TurnsAre
    <3> QED BY <2>2, <3>2, <3>3
  <2>7. FirstMatch = {first}
    BY <1>3, <2>3, <2>5, <2>6
  <2> QED BY <1>5, <2>1, <2>2, <2>7
<1> QED BY <1>4, <1>5

LEMMA EachOnce ==
  ASSUME FabricOK
  PROVE  /\ Cands \in Seq(Links)
         /\ \A j, k \in 1 .. Len(Cands) : Cands[j].nic = Cands[k].nic => j = k
         /\ \A k \in 1 .. Len(Cands) : Cands[k] \in Searched
         /\ \A l \in Searched : \E k \in 1 .. Len(Cands) : Cands[k].nic = l.nic
<1>1. PICK pass \in {0, 1} : Gathered(Cands, Len(Turns), pass) /\ Searched = Best(pass)
  BY CandsFrom
<1>2. Cands \in Seq(Links) /\ \A k \in 1 .. Len(Cands) : Cands[k] \in Links
  BY <1>1 DEF Gathered
<1>3. \A k \in 1 .. Len(Cands) : Cands[k] \in Best(pass)
  BY <1>1, <1>2 DEF Gathered, Best
<1>4. ASSUME NEW l \in Best(pass)
      PROVE  \E k \in 1 .. Len(Cands) : Cands[k].nic = l.nic
  <2>1. TurnOf(l) \in 1 .. Len(Turns) /\ Turns[TurnOf(l)] = l /\ Match(l, pass)
    BY TurnsAre DEF Best
  <2>2. Known(Cands, l.nic)
    BY <1>1, <2>1 DEF Gathered
  <2> QED BY <2>2 DEF Known
<1> QED BY <1>1, <1>2, <1>3, <1>4 DEF Gathered

(* How the channels are shared out.                                        *)
LEMMA Shifted ==
  ASSUME NEW A, IsFiniteSet(A), A \subseteq Int, NEW L, L \subseteq A,
         NEW B, IsFiniteSet(B), NEW d \in Int, \A c \in A \ L : c - d \in B
  PROVE  Cardinality(A) <= Cardinality(B) + Cardinality(L)
<1> DEFINE shift == [c \in A \ L |-> c - d]
<1>1. IsFiniteSet(A \ L) /\ IsFiniteSet(L)
  BY FS_Subset, FS_Difference
<1>2. shift \in Injection(A \ L, B)
  <2>1. shift \in [A \ L -> B]
    OBVIOUS
  <2>2. \A c, e \in A \ L : shift[c] = shift[e] => c = e
    OBVIOUS
  <2> HIDE DEF shift
  <2> QED BY <2>1, <2>2 DEF Injection, IsInjective
<1>3. Cardinality(A \ L) <= Cardinality(B)
  <2> HIDE DEF shift
  <2> QED BY <1>2, FS_Injection DEF ExistsInjection
<1>4. Cardinality(A) = Cardinality(A \ L) + Cardinality(L)
  <2>1. A = (A \ L) \union L /\ (A \ L) \intersect L = {}
    OBVIOUS
  <2>2. Cardinality((A \ L) \union L) = Cardinality(A \ L) + Cardinality(L) - Cardinality((A \ L) \intersect L)
    BY <1>1, FS_Union
  <2>3. Cardinality((A \ L) \intersect L) = 0
    BY <2>1, FS_EmptySet
  <2>4. Cardinality(A \ L) \in Nat /\ Cardinality(L) \in Nat
    BY <1>1, FS_CardinalityType
  <2>5. Cardinality(A) = Cardinality((A \ L) \union L)
    BY <2>1, Zenon
  <2> QED BY <2>2, <2>3, <2>4, <2>5
<1>5. Cardinality(A \ L) \in Nat /\ Cardinality(L) \in Nat /\ Cardinality(B) \in Nat
  BY <1>1, FS_CardinalityType
<1> QED BY <1>3, <1>4, <1>5

\* The channels of link j, of p channels and n devices in turn.
Load(p, n, u, j) == {c \in 1 .. p : (((c - 1) % n) % u) + 1 = j}

\* Channel c stands in place u * q + i of round r.
Placed(c, n, u, r, q, i) ==
  /\ c - 1 = n * r + (u * q + i) /\ u * q + i < n /\ u * q \in Nat /\ n * r \in Nat
  /\ (c - 1) \div n = r
Stands(c, p, n, u, j) ==
  \E r \in Nat, q \in Nat, i \in 0 .. u - 1 :
    Placed(c, n, u, r, q, i) /\ (c \in Load(p, n, u, j) <=> i = j - 1)

LEMMA LoadIs ==
  ASSUME NEW p \in Nat, NEW n \in Nat \ {0}, NEW u \in Nat \ {0}, NEW j \in 1 .. u, NEW c \in 1 .. p
  PROVE  Stands(c, p, n, u, j)
<1>1. PICK r \in Nat, y \in 0 .. n - 1 : c - 1 = n * r + y /\ (c - 1) \div n = r /\ (c - 1) % n = y
  <2>1. c - 1 \in Nat
    OBVIOUS
  <2> QED BY <2>1, Quotient
<1>2. PICK q \in Nat, i \in 0 .. u - 1 : y = u * q + i /\ y % u = i
  <2>1. y \in Nat
    OBVIOUS
  <2> QED BY <2>1, Quotient
<1>3. c \in Load(p, n, u, j) <=> i = j - 1
  <2>1. c \in Load(p, n, u, j) <=> i + 1 = j
    BY <1>1, <1>2 DEF Load
  <2> QED BY <2>1
<1>4. u * q \in Nat /\ n * r \in Nat
  OBVIOUS
<1>5. Placed(c, n, u, r, q, i)
  BY <1>1, <1>2, <1>4 DEF Placed
<1> QED BY <1>3, <1>5 DEF Stands

LEMMA LoadHas ==
  ASSUME NEW p \in Nat, NEW n \in Nat \ {0}, NEW u \in Nat \ {0}, NEW j \in 1 .. u, NEW c \in 1 .. p,
         NEW r \in Nat, NEW q \in Nat, c - 1 = n * r + (u * q + (j - 1)), u * q + (j - 1) < n
  PROVE  c \in Load(p, n, u, j)
<1>1. PICK y \in 0 .. n - 1, i \in 0 .. u - 1 : y = u * q + i /\ i = j - 1
  <2>1. u * q \in Nat /\ j - 1 \in 0 .. u - 1
    OBVIOUS
  <2> QED BY <2>1
<1>2. (n * r + y) % n = y
  BY DividedOnce
<1>3. y % u = i
  BY <1>1, DividedOnce
<1>4. c - 1 = n * r + y
  BY <1>1
<1>5. ((c - 1) % n) % u = i /\ i + 1 = j
  BY <1>1, <1>2, <1>3, <1>4
<1> QED BY <1>5 DEF Load

LEMMA LoadsDiffer ==
  ASSUME NEW p \in Nat, NEW n \in Nat \ {0}, NEW u \in Nat \ {0}, NEW j \in 1 .. u, NEW k \in 1 .. u
  PROVE  Cardinality(Load(p, n, u, j)) <= Cardinality(Load(p, n, u, k)) + ((p + n - 1) \div n)
<1> DEFINE A == Load(p, n, u, j)
           B == Load(p, n, u, k)
           L == {c \in A : c - 1 = n * ((c - 1) \div n) + (j - 1)}
           d == u + (j - k)
<1>1. IsFiniteSet(A) /\ IsFiniteSet(B) /\ A \subseteq 1 .. p /\ IsFiniteSet(L) /\ d \in Int
  <2>1. A \subseteq 1 .. p /\ B \subseteq 1 .. p /\ L \subseteq A /\ d \in Int
    BY DEF Load
  <2>2. IsFiniteSet(1 .. p)
    BY FS_Interval
  <2> HIDE DEF A, B, L, d
  <2> QED BY <2>1, <2>2, FS_Subset
<1>2. ASSUME NEW c \in A \ L PROVE c - d \in B
  <2>1. PICK r \in Nat, q \in Nat, i \in 0 .. u - 1 :
           Placed(c, n, u, r, q, i) /\ i = j - 1
    <3>1. c \in 1 .. p /\ c \in Load(p, n, u, j)
      BY <1>1
    <3> HIDE DEF A, B, L, d
    <3>2. Stands(c, p, n, u, j)
      BY <3>1, LoadIs
    <3> QED BY <3>1, <3>2 DEF Stands
  <2>2. q # 0
    <3>1. ASSUME q = 0 PROVE FALSE
      <4>1. u * q = 0
        BY <3>1
      <4>2. c - 1 = n * ((c - 1) \div n) + (j - 1)
        BY <2>1, <4>1 DEF Placed
      <4> QED BY <4>2
    <3> QED BY <3>1
  <2>3. PICK o \in Nat : q = o + 1 /\ u * q = u * o + u /\ u * o \in Nat
    <3>1. q - 1 \in Nat /\ q = (q - 1) + 1
      BY <2>2
    <3> QED BY <3>1
  <2>4. PICK e : e = c - d
    OBVIOUS
  <2>5. c \in Int /\ 1 <= c /\ c <= p
    BY <1>1
  <2>6. e - 1 = n * r + (u * o + (k - 1)) /\ u * o + (k - 1) < n /\ e \in 1 .. p
    BY <2>1, <2>3, <2>4, <2>5 DEF Placed
  <2>7. e \in Load(p, n, u, k)
    BY <2>6, LoadHas
  <2> QED BY <2>4, <2>7
<1>3. Cardinality(A) <= Cardinality(B) + Cardinality(L)
  <2>1. L \subseteq A /\ A \subseteq Int
    BY <1>1
  <2> HIDE DEF A, B, L, d
  <2> QED BY <1>1, <1>2, <2>1, Shifted
<1>4. PICK s \in Nat, z \in 0 .. n - 1 : s = (p + n - 1) \div n /\ p + n - 1 = n * s + z
  <2>1. p + n - 1 \in Nat
    OBVIOUS
  <2> QED BY <2>1, Quotient
<1>5. Cardinality(L) <= s
  <2> DEFINE round == [c \in L |-> (c - 1) \div n]
  <2>1. ASSUME NEW c \in L PROVE (c - 1) \div n \in 0 .. s - 1
    <3>1. PICK r \in Nat, q \in Nat, i \in 0 .. u - 1 : Placed(c, n, u, r, q, i)
      BY <1>1, LoadIs DEF Stands
    <3>2. c <= p /\ c \in Int
      BY <1>1
    <3>3. ASSUME s <= r PROVE FALSE
      <4>1. n * s <= n * r /\ n * s \in Nat
        BY <3>3, Times
      <4> QED BY <1>4, <3>1, <3>2, <4>1 DEF Placed
    <3> QED BY <3>1, <3>3 DEF Placed
  <2>2. round \in Injection(L, 0 .. s - 1)
    <3>1. round \in [L -> 0 .. s - 1]
      BY <2>1
    <3>2. ASSUME NEW c \in L, NEW e \in L, round[c] = round[e] PROVE c = e
      <4>1. PICK r : r = (c - 1) \div n /\ r = (e - 1) \div n
        BY <3>2
      <4>2. c - 1 = n * r + (j - 1) /\ e - 1 = n * r + (j - 1)
        BY <4>1
      <4>3. c - 1 = e - 1 /\ c \in Int /\ e \in Int
        BY <1>1, <4>2
      <4> QED BY <4>3
    <3> HIDE DEF round
    <3> QED BY <3>1, <3>2 DEF Injection, IsInjective
  <2>3. IsFiniteSet(0 .. s - 1) /\ Cardinality(0 .. s - 1) = s
    <3>1. 0 \in Int /\ s - 1 \in Int
      OBVIOUS
    <3>2. /\ IsFiniteSet(0 .. s - 1)
          /\ Cardinality(0 .. s - 1) = IF 0 > s - 1 THEN 0 ELSE (s - 1) - 0 + 1
      BY <3>1, FS_Interval
    <3> QED BY <3>2
  <2> DEFINE T == 0 .. s - 1
  <2>4. IsFiniteSet(T) /\ Cardinality(T) = s /\ round \in Injection(L, T)
    BY <2>2, <2>3
  <2> HIDE DEF round, L, T
  <2> QED BY <2>4, FS_Injection
<1>6. Cardinality(B) \in Nat /\ Cardinality(L) \in Nat /\ Cardinality(A) \in Nat
  BY <1>1, FS_CardinalityType
<1> HIDE DEF A, B, L
<1>7. Cardinality(A) <= Cardinality(B) + s
  BY <1>3, <1>5, <1>6
<1> QED BY <1>4, <1>7 DEF A, B

(* If u divides n, the devices make no difference.                         *)
Divides(u, n) == n % u = 0

LEMMA RoundsMatter ==
  ASSUME NEW p \in Nat \ {0}, NEW n \in Nat \ {0}, NEW u \in Nat \ {0}, Divides(u, n), NEW j \in 1 .. u
  PROVE  Load(p, n, u, j) = Load(p, p, u, j)
<1>1. PICK w \in Nat : n = u * w
  <2>1. PICK w \in Nat : n = u * w + 0
    BY Quotient DEF Divides
  <2> QED BY <2>1
<1>2. ASSUME NEW c \in 1 .. p PROVE ((c - 1) % n) % u = ((c - 1) % p) % u
  <2>1. PICK r \in Nat, y \in 0 .. n - 1 : c - 1 = n * r + y /\ (c - 1) % n = y
    <3>1. c - 1 \in Nat
      OBVIOUS
    <3> QED BY <3>1, Quotient
  <2>2. PICK q \in Nat, i \in 0 .. u - 1 : y = u * q + i /\ y % u = i
    <3>1. y \in Nat
      OBVIOUS
    <3> QED BY <3>1, Quotient
  <2>3. PICK x \in Nat : x = w * r + q
    <3>1. w * r \in Nat
      OBVIOUS
    <3> QED BY <3>1
  <2>4. c - 1 = u * x + i
    <3>1. n * r = u * (w * r) /\ u * x = u * (w * r) + u * q
      BY <1>1, <2>3
    <3> QED BY <2>1, <2>2, <3>1
  <2>5. (u * x + i) % u = i
    BY DividedOnce
  <2>6. (c - 1) % p = c - 1
    <3>1. PICK b \in 0 .. p - 1 : b = c - 1
      OBVIOUS
    <3>2. (p * 0 + b) % p = b /\ p * 0 = 0 /\ 0 + b = b
      BY DividedOnce
    <3> QED BY <3>1, <3>2
  <2> QED BY <2>1, <2>2, <2>4, <2>5, <2>6
<1> QED BY <1>2 DEF Load

LEMMA LoadsEven ==
  ASSUME NEW p \in Nat, NEW n \in Nat \ {0}, NEW u \in Nat \ {0}, Divides(u, n), NEW j \in 1 .. u, NEW k \in 1 .. u
  PROVE  Cardinality(Load(p, n, u, j)) <= Cardinality(Load(p, n, u, k)) + 1
<1>1. CASE p = 0
  <2>1. Load(p, n, u, j) = {} /\ Load(p, n, u, k) = {}
    BY <1>1 DEF Load
  <2>2. Cardinality({}) = 0
    BY FS_EmptySet
  <2> QED BY <2>1, <2>2
<1>2. CASE p # 0
  <2>1. p \in Nat \ {0}
    BY <1>2
  <2>2. Load(p, n, u, j) = Load(p, p, u, j) /\ Load(p, n, u, k) = Load(p, p, u, k)
    BY <2>1, RoundsMatter
  <2>3. Cardinality(Load(p, p, u, j)) <= Cardinality(Load(p, p, u, k)) + ((p + p - 1) \div p)
    BY <2>1, LoadsDiffer
  <2>4. (p + p - 1) \div p = 1
    <3>1. p - 1 \in 0 .. p - 1 /\ p * 1 + (p - 1) = p + p - 1
      BY <2>1
    <3>2. (p * 1 + (p - 1)) \div p = 1
      BY <2>1, <3>1, DividedOnce
    <3> QED BY <3>1, <3>2
  <2> QED BY <2>2, <2>3, <2>4
<1> QED BY <1>1, <1>2

LEMMA UsableIs ==
  ASSUME FabricOK, Cands # <<>>
  PROVE  Usable \in 1 .. Len(Cands) /\ Usable \in Nat \ {0} /\ Len(Cands) \in Nat \ {0}
<1>1. Cands \in Seq(Links)
  BY EachOnce
<1>2. PICK cands \in Seq(Links) : cands = Cands /\ cands # <<>>
  BY <1>1
<1>3. Len(cands) \in Nat \ {0}
  BY <1>2
<1> QED BY <1>2, <1>3 DEF Usable, FabricOK

LEMMA PickIs ==
  ASSUME NEW x \in Nat, Usable \in Nat \ {0}
  PROVE  Pick(x) \in 1 .. Usable /\ Pick(x) = (x % Usable) + 1
<1>1. PICK u \in Nat \ {0} : u = Usable
  OBVIOUS
<1>2. x % u \in 0 .. u - 1
  BY Divided
<1>3. (x % u) + 1 \in 1 .. u
  BY <1>2
<1> QED BY <1>1, <1>3 DEF Pick

LEMMA LoadsAre ==
  ASSUME LinkInv, NEW j \in 1 .. Usable, Cands # <<>>
  PROVE  ChannelsOn(Cands[j]) = Cardinality(Load(Len(picks), NumNics, Usable, j))
<1>1. PICK u \in Nat \ {0}, n \in Nat \ {0}, p \in Nat : u = Usable /\ n = NumNics /\ p = Len(picks)
  <2>1. picks \in Seq(Links) /\ FabricOK
    BY DEF LinkInv
  <2>2. Usable \in Nat \ {0}
    BY <2>1, UsableIs
  <2>3. NumNics \in Nat \ {0} /\ Len(picks) \in Nat
    BY <2>1 DEF FabricOK
  <2> QED BY <2>2, <2>3
<1>2. ASSUME NEW c \in 1 .. p
      PROVE  picks[c] = Cands[j] <=> (((c - 1) % n) % u) + 1 = j
  <2>1. PICK x \in Nat : x = (c - 1) % n
    <3>1. c - 1 \in Nat
      OBVIOUS
    <3> QED BY <3>1, Remainder
  <2>2. picks[c] = Cands[Pick(x)]
    BY <1>1, <2>1 DEF LinkInv
  <2>3. Pick(x) \in 1 .. Usable /\ Pick(x) = (x % u) + 1
    BY <1>1, PickIs
  <2>4. Pick(x) \in 1 .. Len(Cands) /\ j \in 1 .. Len(Cands)
    BY <2>3, UsableIs DEF LinkInv
  <2>5. Cands[Pick(x)] = Cands[j] <=> Pick(x) = j
    BY <2>4, EachOnce DEF LinkInv
  <2> QED BY <2>1, <2>2, <2>3, <2>5
<1>3. {c \in 1 .. p : picks[c] = Cands[j]} = Load(p, n, u, j)
  BY <1>2 DEF Load
<1> QED BY <1>1, <1>3 DEF ChannelsOn

LEMMA LinksAreSpread ==
  ASSUME LinkInv
  PROVE  LinksSpread
<1>1. FabricOK
  BY DEF LinkInv
<1>2. ASSUME NEW c \in 1 .. Len(picks)
      PROVE  \E k \in 1 .. Usable : picks[c] = Cands[k]
  <2>1. Cands # <<>>
    <3>1. picks # <<>>
      OBVIOUS
    <3> QED BY <3>1 DEF LinkInv
  <2>2. PICK x \in Nat : x = (c - 1) % NumNics
    <3>1. c - 1 \in Nat /\ NumNics \in Nat \ {0}
      BY <1>1 DEF FabricOK
    <3> QED BY <3>1, Remainder
  <2>3. Pick(x) \in 1 .. Usable
    BY <1>1, <2>1, UsableIs, PickIs
  <2>4. picks[c] = Cands[Pick(x)]
    BY <2>2 DEF LinkInv
  <2> QED BY <2>3, <2>4
<1>3. ASSUME NEW j \in 1 .. Usable, NEW k \in 1 .. Usable
      PROVE  ChannelsOn(Cands[j]) <= ChannelsOn(Cands[k]) +
               (IF NumNics % Usable = 0 THEN 1 ELSE (Len(picks) + NumNics - 1) \div NumNics)
  <2>1. Cands # <<>>
    <3>1. ASSUME Cands = <<>> PROVE FALSE
      <4>1. Len(Cands) = 0
        BY <3>1
      <4>2. Usable = 0
        BY <1>1, <4>1 DEF Usable, FabricOK
      <4> QED BY <4>2
    <3> QED BY <3>1
  <2>2. PICK u \in Nat \ {0}, n \in Nat \ {0}, p \in Nat : u = Usable /\ n = NumNics /\ p = Len(picks)
    <3>1. picks \in Seq(Links)
      BY DEF LinkInv
    <3>2. Usable \in Nat \ {0}
      BY <1>1, <2>1, UsableIs
    <3>3. NumNics \in Nat \ {0} /\ Len(picks) \in Nat
      BY <1>1, <3>1 DEF FabricOK
    <3> QED BY <3>2, <3>3
  <2>3. /\ ChannelsOn(Cands[j]) = Cardinality(Load(p, n, u, j))
        /\ ChannelsOn(Cands[k]) = Cardinality(Load(p, n, u, k))
    BY <2>1, <2>2, LoadsAre
  <2>4. Cardinality(Load(p, n, u, j)) <= Cardinality(Load(p, n, u, k)) + ((p + n - 1) \div n)
    BY <2>2, LoadsDiffer
  <2>5. n % u = 0 => Cardinality(Load(p, n, u, j)) <= Cardinality(Load(p, n, u, k)) + 1
    BY <2>2, LoadsEven DEF Divides
  <2> QED BY <2>2, <2>3, <2>4, <2>5
<1> QED BY <1>1, <1>2, <1>3, FirstLink, EachOnce DEF LinksSpread

LEMMA LinkStep ==
  ASSUME LinkInv, [LinkNext]_linkVars
  PROVE  LinkInv'
<1>1. fabric' = fabric
  BY DEF LinkNext, ConnectChannel, linkVars
<1>2. FabricOK' /\ Links' = Links /\ NumNics' = NumNics
  BY <1>1 DEF LinkInv, FabricOK, Links, NumNics
<1>3. Cands' = Cands
  BY <1>1 DEF Cands, Collect, Turns, NumNics, Known
<1>4. Usable' = Usable
  BY <1>1, <1>3 DEF Usable
<1>5. \A x : Pick(x)' = Pick(x)
  BY <1>4 DEF Pick
<1>6. CASE ConnectChannel
  <2> DEFINE n == Len(picks)
             link == Cands[Pick(n % NumNics)]
  <2>1. n \in Nat /\ picks' = Append(picks, link)
    BY <1>6 DEF ConnectChannel, LinkInv
  <2>2. link \in Links /\ Cands # <<>>
    <3>1. Cands # <<>> /\ FabricOK
      BY <1>6 DEF ConnectChannel, LinkInv
    <3>2. PICK x \in Nat : x = n % NumNics
      <4>1. NumNics \in Nat \ {0}
        BY <3>1 DEF FabricOK
      <4> QED BY <2>1, <4>1, Remainder
    <3>3. Pick(x) \in 1 .. Len(Cands)
      <4>1. Usable \in 1 .. Len(Cands) /\ Usable \in Nat \ {0} /\ Len(Cands) \in Nat \ {0}
        BY <3>1, UsableIs
      <4>2. Pick(x) \in 1 .. Usable
        BY <4>1, PickIs
      <4> QED BY <4>1, <4>2
    <3>4. Cands \in Seq(Links)
      BY <3>1, EachOnce
    <3> QED BY <3>1, <3>2, <3>3, <3>4
  <2>3. picks \in Seq(Links)
    BY DEF LinkInv
  <2> HIDE DEF link
  <2>4. /\ picks' \in Seq(Links) /\ Len(picks') = n + 1
        /\ picks'[n + 1] = link /\ \A c \in 1 .. n : picks'[c] = picks[c]
    BY <2>1, <2>2, <2>3, AppendProperties
  <2>5. ASSUME NEW c \in 1 .. Len(picks')
        PROVE  picks'[c] = Cands[Pick((c - 1) % NumNics)]
    <3>1. CASE c = n + 1
      <4>1. c - 1 = n
        BY <2>1, <3>1
      <4> QED BY <2>4, <3>1, <4>1 DEF link
    <3>2. CASE c # n + 1
      <4>1. c \in 1 .. n
        BY <2>1, <2>4, <3>2
      <4> QED BY <2>3, <2>4, <4>1 DEF LinkInv
    <3> QED BY <3>1, <3>2
  <2> QED BY <1>2, <1>3, <1>5, <2>2, <2>4, <2>5 DEF LinkInv
<1>7. CASE UNCHANGED linkVars
  BY <1>2, <1>3, <1>5, <1>7 DEF LinkInv, linkVars
<1> QED BY <1>6, <1>7 DEF LinkNext

(* The links of a peer are its NICs, one each, the link of the old search  *)
(* first, and the channels are spread over them as evenly as the devices   *)
(* allow: for any NICs and addresses, and any number of channels.          *)
THEOREM LinksTheorem == LinkSpec => []LinksSpread
<1>1. LinkInit => LinkInv
  <2> SUFFICES ASSUME LinkInit PROVE LinkInv
    OBVIOUS
  <2>1. FabricOK /\ picks = <<>>
    BY LinkStart
  <2> QED BY <2>1 DEF LinkInv
<1>2. LinkInv /\ [LinkNext]_linkVars => LinkInv'
  BY LinkStep
<1>3. LinkInv => LinksSpread
  BY LinksAreSpread
<1> QED BY <1>1, <1>2, <1>3, PTL DEF LinkSpec

-----------------------------------------------------------------------------
(* The one-sided path. *)

USE RingAssumption, SwitchAssumption
USE DEF sender, receiver, slots, writes, Fault

SendRec == [size : Nat, st : {"parked", "posted", "done", "failed"}]
RecvRec == [size : Nat, st : {"armed", "filled", "done", "failed"}, len : Nat]

-----------------------------------------------------------------------------
(* Slots of the ring. *)

LEMMA DivMod ==
  ASSUME NEW n \in Nat
  PROVE  /\ n \div Depth \in Nat
         /\ n % Depth \in 0 .. Depth - 1
         /\ n = Depth * (n \div Depth) + (n % Depth)
  OBVIOUS

LEMMA NextMultiple ==
  ASSUME NEW q \in Int, NEW r \in Int, q < r
  PROVE  Depth * r >= Depth * q + Depth
<1>1. PICK n \in Nat : r = q + 1 + n
  <2> r - q - 1 \in Nat
    OBVIOUS
  <2> WITNESS r - q - 1 \in Nat
  <2> QED OBVIOUS
<1>2. Depth * n >= 0
  OBVIOUS
<1>3. Depth * r = Depth * q + Depth + Depth * n
  BY <1>1
<1> QED BY <1>2, <1>3

(* Two numbers of one slot are equal or at least a ring apart.             *)
LEMMA SameSlot ==
  ASSUME NEW m \in Nat, NEW n \in Nat, m <= n, n - m < Depth, Idx(m) = Idx(n)
  PROVE  m = n
<1> DEFINE q == m \div Depth
           r == n \div Depth
<1>1. /\ q \in Nat /\ m = Depth * q + (m % Depth)
      /\ r \in Nat /\ n = Depth * r + (n % Depth)
      /\ m % Depth \in 0 .. Depth - 1 /\ n % Depth = m % Depth
  BY DivMod DEF Idx
<1> HIDE DEF q, r
<1>2. ~(q < r) /\ ~(r < q)
  BY <1>1, NextMultiple
<1> QED BY <1>1, <1>2

LEMMA IdxInRing ==
  ASSUME NEW n \in Nat
  PROVE  Idx(n) \in 0 .. Depth - 1
  BY DivMod DEF Idx

-----------------------------------------------------------------------------
(* What a step does to the calls. *)

LEMMA Replaced ==
  ASSUME NEW S, NEW s \in Seq(S), NEW i \in 1 .. Len(s), NEW e \in S,
         NEW t, t = [s EXCEPT ![i] = e]
  PROVE  /\ t \in Seq(S)
         /\ Len(t) = Len(s)
         /\ t[i] = e
         /\ \A j \in 1 .. Len(s) : j # i => t[j] = s[j]
  BY ExceptSeq

LEMMA SendUpdate ==
  ASSUME send \in Seq(SendRec), NEW i \in 1 .. Len(send),
         NEW x \in {"parked", "posted", "done", "failed"},
         send' = [send EXCEPT ![i].st = x]
  PROVE  /\ send' \in Seq(SendRec)
         /\ Len(send') = Len(send)
         /\ \A j \in 1 .. Len(send) : send'[j].size = send[j].size
<1>1. send[i] \in SendRec
  BY ElementOfSeq
<1>2. PICK e \in SendRec : e = [send[i] EXCEPT !.st = x] /\ e.size = send[i].size
  BY SMTT(30), <1>1 DEF SendRec
<1>3. send' = [send EXCEPT ![i] = e]
  BY <1>2
<1> QED BY <1>2, <1>3, Replaced

(* The calls already made keep their sizes.                                *)
SendKept ==
  /\ send' \in Seq(SendRec)
  /\ Len(send') = Len(send)
  /\ \A i \in 1 .. Len(send) : send'[i].size = send[i].size

(* The send at the front of the queue is the next to consume a slot.       *)
LEMMA FrontSend ==
  ASSUME IInv, draining, pend # <<>>
  PROVE  Head(pend) = tail + 1 /\ tail + 1 \in 1 .. Len(send) /\ ~serr
<1>1. pend \in Seq(Nat) /\ tail \in Nat /\ send \in Seq(SendRec)
  BY DEF IInv, TypeOK, SendRec
<1>2. Len(pend) \in Nat \ {0} /\ DOMAIN pend = 1 .. Len(pend) /\ Head(pend) = pend[1]
  BY <1>1, EmptySeq, LenProperties
<1>3. ~serr /\ Len(pend) = Len(send) - tail /\ pend[1] = tail + 1
  BY <1>2 DEF IInv, QueueInv
<1> QED BY <1>1, <1>2, <1>3, LenProperties

LEMMA SendStep ==
  ASSUME IInv, [Next]_vars
  PROVE  /\ send' \in Seq(SendRec)
         /\ Len(send') >= Len(send)
         /\ \A i \in 1 .. Len(send) : send'[i].size = send[i].size
         /\ SendKept \/ \E size \in Sizes : Isend(size)
<1>0. send \in Seq(SendRec)
  BY DEF IInv, TypeOK, SendRec
<1>1. DOMAIN send = 1 .. Len(send) /\ (call > 0 => call \in 1 .. Len(send))
  BY <1>0, LenProperties DEF IInv, QueueInv
<1>2. ASSUME UNCHANGED send PROVE SendKept
  BY <1>0, <1>2 DEF SendKept
<1>3. ASSUME NEW size \in Sizes, Isend(size)
      PROVE  /\ send' \in Seq(SendRec) /\ Len(send') = Len(send) + 1
             /\ \A i \in 1 .. Len(send) : send'[i].size = send[i].size
  <2>1. [size |-> size, st |-> "parked"] \in SendRec
    BY DEF SendRec
  <2>2. send' = Append(send, [size |-> size, st |-> "parked"])
    BY <1>3 DEF Isend
  <2> QED BY <1>0, <2>1, <2>2, AppendProperties
<1>4. ASSUME DrainPost PROVE SendKept
  <2>1. pend # <<>> /\ draining /\ send' = [send EXCEPT ![Head(pend)].st = "posted"]
    BY <1>4 DEF DrainPost
  <2>2. Head(pend) \in 1 .. Len(send)
    BY <2>1, FrontSend
  <2>3. SendKept
    BY <1>0, <2>1, <2>2, SendUpdate, Zenon DEF SendKept
  <2> QED BY <2>3
<1>5. ASSUME Done PROVE SendKept
  <2>1. call \in 1 .. Len(send) /\ send' = [send EXCEPT ![call].st = "done"]
    BY <1>1, <1>5 DEF Done
  <2>2. SendKept
    BY <1>0, <2>1, SendUpdate, Zenon DEF SendKept
  <2> QED BY <2>2
<1>6. ASSUME FailRequest, call > 0
      PROVE  SendKept
  BY <1>0, <1>1, <1>6, SendUpdate DEF FailRequest, SendKept
<1>7. ASSUME Failed PROVE SendKept
  BY <1>7, <1>6 DEF Failed, SendKept
<1>8. ASSUME TimesOut PROVE SendKept
  BY <1>8, <1>2, <1>6 DEF TimesOut, SendKept
<1>9. SendKept \/ \E size \in Sizes : Isend(size)
  BY <1>4, <1>5, <1>7, <1>8, <1>2
  DEF Next, vars, Nic, Calls, Arm, ArmFails, Publish, PublishFails, TestRecv,
      TestRecvFails, Land, Arrive, Break, Test, DrainEnds,
      DrainFails, Pending
<1> QED BY <1>0, <1>3, <1>9, LenProperties DEF SendKept

RecvKept ==
  /\ recv' \in Seq(RecvRec)
  /\ Len(recv') = Len(recv)
  /\ \A k \in 1 .. Len(recv) : recv'[k].size = recv[k].size

(* Request k gets a new state, or a length, and keeps its size.            *)
RecvUpdated(k, x, n) ==
  /\ recv' \in Seq(RecvRec)
  /\ Len(recv') = Len(recv)
  /\ recv'[k].size = recv[k].size /\ recv'[k].st = x /\ recv'[k].len = n
  /\ \A j \in 1 .. Len(recv) : j # k => recv'[j] = recv[j]

LEMMA RecvFields ==
  ASSUME NEW r \in RecvRec, NEW x \in {"armed", "filled", "done", "failed"}
  PROVE  \E e \in RecvRec : /\ e = [r EXCEPT !.st = x]
                            /\ e.size = r.size /\ e.st = x /\ e.len = r.len
<1> DEFINE e == [r EXCEPT !.st = x]
<1>1. e \in RecvRec
  BY DEF RecvRec
<1>2. e.size = r.size /\ e.st = x /\ e.len = r.len
  BY DEF RecvRec
<1> QED BY <1>1, <1>2, Zenon

LEMMA RecvTested ==
  ASSUME recv \in Seq(RecvRec), NEW k \in 1 .. Len(recv),
         NEW x \in {"armed", "filled", "done", "failed"},
         recv' = [recv EXCEPT ![k].st = x]
  PROVE  RecvUpdated(k, x, recv[k].len)
<1>1. recv[k] \in RecvRec
  BY ElementOfSeq
<1>2. PICK e \in RecvRec : /\ e = [recv[k] EXCEPT !.st = x]
                           /\ e.size = recv[k].size /\ e.st = x /\ e.len = recv[k].len
  BY <1>1, RecvFields
<1>3. recv' = [recv EXCEPT ![k] = e]
  BY <1>2, LenProperties
<1> QED BY <1>2, <1>3, Replaced DEF RecvUpdated

LEMMA RecvFilledFields ==
  ASSUME NEW r \in RecvRec, NEW n \in Nat
  PROVE  \E e \in RecvRec : /\ e = [[r EXCEPT !.st = "filled"] EXCEPT !.len = n]
                            /\ e.size = r.size /\ e.st = "filled" /\ e.len = n
<1> DEFINE e == [[r EXCEPT !.st = "filled"] EXCEPT !.len = n]
<1>1. e \in RecvRec
  BY DEF RecvRec
<1>2. e.size = r.size /\ e.st = "filled" /\ e.len = n
  BY DEF RecvRec
<1> QED BY <1>1, <1>2, Zenon

LEMMA RecvFilled ==
  ASSUME recv \in Seq(RecvRec), NEW k \in 1 .. Len(recv), NEW n \in Nat,
         recv' = [recv EXCEPT ![k].st = "filled", ![k].len = n]
  PROVE  RecvUpdated(k, "filled", n)
<1>1. recv[k] \in RecvRec
  BY ElementOfSeq
<1>2. PICK e \in RecvRec : /\ e = [[recv[k] EXCEPT !.st = "filled"] EXCEPT !.len = n]
                           /\ e.size = recv[k].size /\ e.st = "filled" /\ e.len = n
  BY <1>1, RecvFilledFields
<1>3. recv' = [recv EXCEPT ![k] = e]
  BY <1>2, LenProperties
<1> QED BY SMTT(30), <1>2, <1>3, Replaced DEF RecvUpdated

(* A write on its way is the next one, and the connection is not broken.   *)
LEMMA FrontWrite ==
  ASSUME IInv, wire # <<>>
  PROVE  /\ ~broken
         /\ Head(wire) \in Write /\ Head(wire).send = taken + 1
         /\ Ascending => Head(wire).recv = taken + 1
         /\ taken + 1 \in 1 .. Len(send) /\ taken + 1 \in 1 .. Len(recv)
         /\ taken + Len(wire) = tail
<1>1. /\ wire \in Seq(Write) /\ tail \in Nat /\ head \in Nat /\ send \in Seq(SendRec)
      /\ recv \in Seq(RecvRec) /\ into \in Seq(Write)
  BY DEF IInv, TypeOK, SendRec, RecvRec
<1>2. Len(wire) \in Nat \ {0} /\ DOMAIN wire = 1 .. Len(wire) /\ Head(wire) = wire[1]
  BY <1>1, EmptySeq, LenProperties
<1>3. taken \in Nat /\ Len(send) \in Nat /\ Len(recv) \in Nat
  BY <1>1, LenProperties DEF taken
<1>4. ~broken /\ taken + Len(wire) = tail
      /\ wire[1].send = taken + 1 /\ (Ascending => wire[1].recv = taken + 1)
  BY <1>2 DEF IInv, WireInv
<1>5. tail <= Len(send) /\ tail <= head /\ head <= Len(recv)
  BY DEF IInv, CounterInv
<1>6. wire[1] \in Write
  BY <1>1, <1>2, ElementOfSeq
<1> QED BY <1>1, <1>2, <1>3, <1>4, <1>5, <1>6

LEMMA ArriveRecv ==
  ASSUME IInv, Arrive
  PROVE  RecvUpdated(taken + 1, "filled", send[taken + 1].size)
<1>1. recv \in Seq(RecvRec) /\ send \in Seq(SendRec)
  BY DEF IInv, TypeOK, SendRec, RecvRec
<1>2. wire # <<>> /\ recv' = [recv EXCEPT ![taken + 1].st = "filled",
                          ![taken + 1].len = send[Head(wire).send].size]
  BY DEF Arrive
<1>3. Head(wire).send = taken + 1 /\ taken + 1 \in 1 .. Len(send) /\ taken + 1 \in 1 .. Len(recv)
  BY <1>2, FrontWrite
<1>4. send[taken + 1] \in SendRec
  BY <1>1, <1>3, ElementOfSeq
<1>5. send[taken + 1].size \in Nat
  BY <1>4 DEF SendRec
<1> QED BY <1>1, <1>2, <1>3, <1>5, RecvFilled, Zenon

-----------------------------------------------------------------------------
(* Which actions can disturb a group of variables. *)

LEMMA RecvMoves ==
  ASSUME [Next]_vars
  PROVE  \/ UNCHANGED <<recv, into>> /\ (rerr => rerr')
         \/ \E size \in Sizes : Arm(size)
         \/ \E k \in DOMAIN recv : TestRecv(k) \/ TestRecvFails(k)
         \/ Arrive
  BY DEF Next, vars, Nic, Calls, Isend, ArmFails, Publish, PublishFails, Land,
         Break, Test, DrainPost, DrainEnds, DrainFails, Pending, Done,
         FailRequest, Failed, TimesOut

LEMMA CounterMoves ==
  ASSUME [Next]_vars
  PROVE  \/ UNCHANGED <<tail, head, into>>
         \/ Publish \/ Arrive \/ DrainPost
  BY DEF Next, vars, Nic, Calls, Arm, Isend, ArmFails, PublishFails, TestRecv, TestRecvFails,
         Land, Break, Test, DrainEnds, DrainFails, Pending, Done,
         FailRequest, Failed, TimesOut

LEMMA QueueMoves ==
  ASSUME [Next]_vars
  PROVE  \/ UNCHANGED <<serr, draining, call, pend, tail>> /\ UNCHANGED send
         \/ \E size \in Sizes : Isend(size)
         \/ \E i \in DOMAIN send : Test(i)
         \/ DrainPost \/ DrainEnds \/ DrainFails \/ Pending \/ Done \/ Failed \/ TimesOut
  BY DEF Next, vars, Nic, Calls, Arm, ArmFails, Publish, PublishFails, TestRecv,
         TestRecvFails, Land, Arrive, Break

LEMMA WireMoves ==
  ASSUME [Next]_vars
  PROVE  \/ UNCHANGED <<broken, wire, pub, into, tail>>
         \/ Publish \/ (\E part \in SlotParts : Land(part)) \/ Arrive \/ Break \/ DrainPost
  BY DEF Next, vars, Nic, Calls, Arm, Isend, ArmFails, PublishFails, TestRecv, TestRecvFails,
         Test, DrainEnds, DrainFails, Pending, Done, FailRequest, Failed, TimesOut

LEMMA SlotMoves ==
  ASSUME [Next]_vars
  PROVE  \/ UNCHANGED <<pub, head, half, ring>>
         \/ Publish \/ (\E part \in SlotParts : Land(part)) \/ Break
  BY DEF Next, vars, Nic, Calls, Arm, Isend, ArmFails, PublishFails, TestRecv, TestRecvFails,
         Arrive, Test, DrainPost, DrainEnds, DrainFails, Pending, Done, FailRequest, Failed,
         TimesOut

LEMMA RecvStep ==
  ASSUME IInv, [Next]_vars
  PROVE  /\ recv' \in Seq(RecvRec)
         /\ Len(recv') >= Len(recv)
         /\ \A k \in 1 .. Len(recv) : recv'[k].size = recv[k].size
         /\ RecvKept \/ \E size \in Sizes : Arm(size)
<1>1. recv \in Seq(RecvRec) /\ DOMAIN recv = 1 .. Len(recv)
  BY LenProperties DEF IInv, TypeOK, RecvRec
<1>2. ASSUME UNCHANGED recv PROVE RecvKept
  BY <1>1, <1>2 DEF RecvKept
<1>3. ASSUME NEW k \in DOMAIN recv, TestRecv(k) \/ TestRecvFails(k) PROVE RecvKept
  <2>1. RecvUpdated(k, "done", recv[k].len) \/ RecvUpdated(k, "failed", recv[k].len)
    <3>1. CASE TestRecv(k)
      BY <1>1, <3>1, RecvTested, Zenon DEF TestRecv
    <3>2. CASE TestRecvFails(k)
      BY <1>1, <3>2, RecvTested, Zenon DEF TestRecvFails
    <3> QED BY <1>3, <3>1, <3>2
  <2> QED BY <1>1, <2>1 DEF RecvUpdated, RecvKept
<1>4. ASSUME Arrive PROVE RecvKept
  BY <1>1, <1>4, ArriveRecv DEF RecvUpdated, RecvKept
<1>5. ASSUME NEW size \in Sizes, Arm(size)
      PROVE  /\ recv' \in Seq(RecvRec) /\ Len(recv') = Len(recv) + 1
             /\ \A k \in 1 .. Len(recv) : recv'[k].size = recv[k].size
  <2>1. [size |-> size, st |-> "armed", len |-> 0] \in RecvRec
    BY DEF RecvRec
  <2>2. recv' = Append(recv, [size |-> size, st |-> "armed", len |-> 0])
    BY <1>5 DEF Arm
  <2> QED BY <1>1, <2>1, <2>2, AppendProperties
<1>6. RecvKept \/ \E size \in Sizes : Arm(size)
  BY <1>2, <1>3, <1>4, RecvMoves
<1> QED BY <1>1, <1>5, <1>6, LenProperties DEF RecvKept

-----------------------------------------------------------------------------
(* The counters. *)

LEMMA Numbers ==
  ASSUME IInv
  PROVE  /\ taken \in Nat /\ tail \in Nat /\ head \in Nat
         /\ Len(send) \in Nat /\ Len(recv) \in Nat /\ Len(pend) \in Nat
         /\ Len(wire) \in Nat /\ Len(pub) \in Nat
         /\ DOMAIN send = 1 .. Len(send) /\ DOMAIN recv = 1 .. Len(recv)
         /\ DOMAIN pend = 1 .. Len(pend) /\ DOMAIN wire = 1 .. Len(wire)
         /\ DOMAIN pub = 1 .. Len(pub) /\ DOMAIN into = 1 .. taken
         /\ send \in Seq(SendRec) /\ recv \in Seq(RecvRec)
         /\ pend \in Seq(Nat) /\ pub \in Seq(Nat)
         /\ wire \in Seq(Write) /\ into \in Seq(Write)
<1>1. /\ send \in Seq(SendRec) /\ recv \in Seq(RecvRec)
      /\ pend \in Seq(Nat) /\ pub \in Seq(Nat)
      /\ wire \in Seq(Write) /\ into \in Seq(Write)
      /\ tail \in Nat /\ head \in Nat
  BY DEF IInv, TypeOK, SendRec, RecvRec
<1> QED BY <1>1, LenProperties DEF taken

(* Every receive that no immediate has consumed is outstanding.            *)
LEMMA Unconsumed ==
  ASSUME IInv, ~rerr, Room(OpenRecvs)
  PROVE  Len(recv) + 1 <= taken + MaxReq
<1> DEFINE U == taken + 1 .. Len(recv)
<1>1. U \subseteq OpenRecvs
  <2> SUFFICES ASSUME NEW k \in U PROVE k \in OpenRecvs
    OBVIOUS
  <2>1. k \in DOMAIN recv /\ ~(k <= taken) /\ recv[k] \in RecvRec
    BY Numbers, ElementOfSeq
  <2>2. recv[k].st = "armed"
    BY <2>1 DEF IInv, RecvInv, RecvRec
  <2> QED BY <2>1, <2>2 DEF OpenRecvs
<1>2. IsFiniteSet(OpenRecvs)
  <2>1. OpenRecvs \subseteq 1 .. Len(recv)
    BY Numbers DEF OpenRecvs
  <2>2. 1 \in Int /\ Len(recv) \in Int
    BY Numbers
  <2>3. IsFiniteSet(1 .. Len(recv))
    BY <2>2, FS_Interval, Zenon
  <2> QED BY <2>1, <2>3, FS_Subset
<1>3. Cardinality(U) <= Cardinality(OpenRecvs)
  BY <1>1, <1>2, FS_Subset
<1>4. Cardinality(OpenRecvs) \in Nat /\ Cardinality(OpenRecvs) < MaxReq
  BY <1>2, FS_CardinalityType DEF Room
<1>5. taken \in Nat /\ Len(recv) \in Nat
  BY Numbers
<1>6. Cardinality(U) = IF taken + 1 > Len(recv) THEN 0 ELSE Len(recv) - (taken + 1) + 1
  <2>1. taken + 1 \in Int /\ Len(recv) \in Int
    BY <1>5
  <2> QED BY <2>1, FS_Interval, Zenon
<1> HIDE DEF U
<1> QED BY <1>3, <1>4, <1>5, <1>6

(* A part of the slot of the next send has been published, and is of that  *)
(* send or of an earlier lap.                                              *)
LEMMA SlotOfTail ==
  ASSUME IInv, NEW part \in SlotParts
  PROVE  LET n == ring[Idx(tail)][part] IN
         n \in Nat /\ n <= head /\ n <= tail + 1
<1> DEFINE n == ring[Idx(tail)][part]
<1>1. Idx(tail) \in 0 .. Depth - 1 /\ tail \in Nat /\ head \in Nat /\ taken \in Nat /\ Len(pub) \in Nat /\ Len(recv) \in Nat
  BY Numbers, IdxInRing
<1>2. n \in Nat
  BY <1>1 DEF IInv, TypeOK, Slot
<1>3. /\ n <= landed + (IF part \in half THEN 1 ELSE 0)
      /\ n > 0 => Idx(n - 1) = Idx(tail)
  BY <1>1 DEF IInv, SlotInv
<1>4. half # {} => Len(pub) > 0
  <2>1. pub \in Seq(Nat)
    BY DEF IInv, TypeOK
  <2>2. half # {} => pub # <<>>
    BY DEF IInv, SlotInv
  <2> QED BY <2>1, <2>2, EmptySeq
<1> HIDE DEF n
<1>5. n <= head
  BY SMTT(30), <1>1, <1>2, <1>3, <1>4 DEF landed
<1>6. head <= tail + Depth
  BY <1>1 DEF IInv, CounterInv
<1>7. n > tail => n = tail + 1
  <2> SUFFICES ASSUME n > tail PROVE tail = n - 1
    BY <1>1, <1>2
  <2> n - 1 \in Nat /\ tail <= n - 1 /\ n - 1 - tail < Depth
    BY SMTT(30), <1>1, <1>2, <1>5, <1>6
  <2> QED BY SMTT(30), <1>1, <1>2, <1>3, SameSlot
<1>8. n <= tail + 1
  BY <1>1, <1>2, <1>7
<1> QED BY <1>2, <1>5, <1>8 DEF n

LEMMA PartsAre ==
  /\ "body" \in SlotParts /\ "head" \in SlotParts /\ "stamp" \in SlotParts
  /\ "body" \in Lower("stamp")
  BY DEF SlotParts, Lower

(* The slot of a send that is ready has been published, and holds the      *)
(* address of the receive of the same number if slots land in order.       *)
LEMMA ReadySlot ==
  ASSUME IInv, Ready
  PROVE  /\ NextSlot["body"] \in Nat /\ tail + 1 <= head
         /\ Ascending => NextSlot["body"] = tail + 1
<1>1. tail \in Nat /\ Idx(tail) \in 0 .. Depth - 1
  BY Numbers, IdxInRing
<1>2. /\ NextSlot["stamp"] = tail + 1 /\ tail + 1 <= head
      /\ NextSlot["body"] \in Nat /\ NextSlot["body"] <= tail + 1
  BY SlotOfTail, PartsAre DEF Ready, NextSlot
<1>3. Ascending => NextSlot["stamp"] <= NextSlot["body"]
  BY <1>1, PartsAre DEF IInv, SlotInv, NextSlot
<1> QED BY <1>1, <1>2, <1>3

LEMMA CounterStep ==
  ASSUME IInv, [Next]_vars
  PROVE  CounterInv'
<1>1. /\ taken <= tail /\ tail <= head /\ tail <= Len(send)
      /\ head <= Len(recv) /\ Len(recv) <= head + 1 /\ Len(recv) <= taken + MaxReq
  BY DEF IInv, CounterInv
<1>2. Len(send') \in Nat /\ Len(recv') \in Nat /\ Len(send') >= Len(send)
  BY SendStep, RecvStep, LenProperties
<1>3. CASE UNCHANGED <<tail, head, into>>
  <2>1. CASE RecvKept
    BY <1>1, <1>2, <1>3, <2>1, Numbers DEF CounterInv, RecvKept, taken
  <2>2. ASSUME NEW size \in Sizes, Arm(size) PROVE CounterInv'
    <3>1. Len(recv') = Len(recv) + 1 /\ Len(recv) = head /\ ~rerr /\ Room(OpenRecvs)
      <4>1. [size |-> size, st |-> "armed", len |-> 0] \in RecvRec
        BY DEF RecvRec
      <4> QED BY <2>2, <4>1, Numbers, AppendProperties DEF Arm
    <3>2. Len(recv) + 1 <= taken + MaxReq
      BY <3>1, Unconsumed
    <3> QED BY SMTT(30), <1>1, <1>2, <1>3, <3>1, <3>2, Numbers DEF CounterInv, taken
  <2> QED BY <2>1, <2>2, RecvStep
<1>4. CASE Publish
  BY <1>1, <1>2, <1>4, Numbers DEF Publish, CounterInv, taken
<1>5. CASE Arrive
  <2>1. wire # <<>> /\ taken < Len(recv) /\ into' = Append(into, Head(wire))
        /\ UNCHANGED <<tail, head>>
    BY <1>5 DEF Arrive
  <2>2. taken + Len(wire) = tail /\ Len(wire) > 0
    BY <2>1, FrontWrite, Numbers, EmptySeq
  <2>3. taken' = taken + 1
    BY <2>1, Numbers DEF taken
  <2>4. RecvKept
    BY <1>5, ArriveRecv, Numbers DEF RecvUpdated, RecvKept
  <2> QED BY SMTT(30), <1>1, <1>2, <2>1, <2>2, <2>3, <2>4, Numbers DEF CounterInv, RecvKept
<1>6. CASE DrainPost
  <2>1. /\ draining /\ pend # <<>> /\ Ready /\ tail' = tail + 1
        /\ UNCHANGED <<recv, head, into>>
    BY <1>6 DEF DrainPost, NextTail
  <2>2. tail + 1 <= head /\ tail + 1 <= Len(send)
    BY <2>1, ReadySlot, FrontSend, Numbers
  <2> QED BY SMTT(30), <1>1, <1>2, <2>1, <2>2, Numbers DEF CounterInv, taken
<1> QED BY <1>3, <1>4, <1>5, <1>6, CounterMoves

-----------------------------------------------------------------------------
(* The queue of sends that wait. *)

(* A step that leaves the queue alone, or an error that ends its use.      *)
LEMMA QueueKept ==
  ASSUME IInv, SendKept, UNCHANGED <<pend, tail>>, serr => serr', ~serr => ~serr',
         draining' => call' # 0, call' > 0 => call' \in DOMAIN send,
         serr' => ~draining' /\ call' = 0
  PROVE  QueueInv'
<1>1. DOMAIN send' = DOMAIN send /\ Len(send') = Len(send)
  BY Numbers, LenProperties DEF SendKept
<1>2. ~serr => /\ Len(pend) = Len(send) - tail
               /\ \A j \in DOMAIN pend : pend[j] = tail + j
  BY DEF IInv, QueueInv
<1> QED BY <1>1, <1>2 DEF QueueInv

LEMMA QueueStep ==
  ASSUME IInv, [Next]_vars
  PROVE  QueueInv'
<1>1. /\ serr => ~draining /\ call = 0
      /\ draining => call # 0
      /\ call > 0 => call \in DOMAIN send
      /\ ~serr => /\ Len(pend) = Len(send) - tail
                  /\ \A j \in DOMAIN pend : pend[j] = tail + j
  BY DEF IInv, QueueInv
<1>2. CASE UNCHANGED <<serr, draining, call, pend, tail, send>>
  <2>1. SendKept
    BY <1>2, Numbers DEF SendKept
  <2> QED BY <1>1, <1>2, <2>1, QueueKept
<1>3. ASSUME NEW size \in Sizes, Isend(size) PROVE QueueInv'
  <2>1. /\ ~serr /\ UNCHANGED <<tail, serr>> /\ call' = -1
        /\ send' = Append(send, [size |-> size, st |-> "parked"])
        /\ pend' = Append(pend, Len(send) + 1)
    BY <1>3 DEF Isend, Park
  <2>2. [size |-> size, st |-> "parked"] \in SendRec
    BY DEF SendRec
  <2>3. Len(send') = Len(send) + 1
    BY <2>1, <2>2, Numbers, AppendProperties
  <2>4. /\ pend' \in Seq(Nat) /\ Len(pend') = Len(pend) + 1
        /\ \A j \in 1 .. Len(pend) : pend'[j] = pend[j]
        /\ pend'[Len(pend) + 1] = Len(send) + 1
    BY <2>1, Numbers, AppendProperties
  <2>5. DOMAIN pend' = 1 .. Len(pend) + 1
    BY <2>4, LenProperties
  <2>6. \A j \in DOMAIN pend' : pend'[j] = tail + j
    BY SMTT(30), <1>1, <2>1, <2>4, <2>5, Numbers
  <2> QED BY SMTT(30), <1>1, <2>1, <2>3, <2>4, <2>6, Numbers DEF QueueInv
<1>4. ASSUME NEW i \in DOMAIN send, Test(i) PROVE QueueInv'
  <2>1. ~serr /\ call' = i /\ UNCHANGED <<send, pend, tail, serr>> /\ i > 0
    BY <1>4, Numbers DEF Test
  <2>2. SendKept
    BY <2>1, Numbers DEF SendKept
  <2> QED BY <1>1, <2>1, <2>2, QueueKept, Numbers
<1>5. CASE DrainPost
  <2>1. /\ draining /\ pend # <<>> /\ tail' = tail + 1 /\ pend' = Tail(pend)
        /\ UNCHANGED <<call, draining, serr>>
    BY <1>5 DEF DrainPost, NextTail
  <2>2. /\ pend' \in Seq(Nat) /\ Len(pend') = Len(pend) - 1
        /\ \A j \in 1 .. Len(pend') : pend'[j] = pend[j + 1]
    BY <2>1, Numbers, HeadTailProperties
  <2>3. DOMAIN pend' = 1 .. Len(pend') /\ Len(pend') \in Nat
    BY <2>2, LenProperties
  <2>4. ~serr /\ ~serr' /\ call' # 0 /\ (call' > 0 => call \in DOMAIN send)
    BY <1>1, <2>1
  <2>5. tail \in Nat /\ Len(pend) \in Nat /\ Len(send) \in Nat /\ DOMAIN pend = 1 .. Len(pend)
    BY Numbers
  <2>6. \A j \in DOMAIN pend' : pend'[j] = tail' + j
    <3> SUFFICES ASSUME NEW j \in 1 .. Len(pend') PROVE pend'[j] = tail' + j
      BY <2>3
    <3>1. j + 1 \in DOMAIN pend /\ pend'[j] = pend[j + 1]
      BY <2>2, <2>3, <2>5
    <3>2. pend[j + 1] = tail + (j + 1)
      BY <1>1, <2>4, <3>1
    <3> QED BY <2>1, <2>5, <3>1, <3>2
  <2>7. SendKept
    <3>1. ~ \E size \in Sizes : Isend(size)
      BY <2>1, <1>1 DEF Isend
    <3> QED BY <3>1, SendStep
  <2>8. DOMAIN send' = DOMAIN send /\ Len(send') = Len(send)
    BY <2>7, Numbers, LenProperties DEF SendKept
  <2>9. Len(pend') = Len(send') - tail'
    BY <1>1, <2>1, <2>2, <2>4, <2>8, <2>5
  <2> QED BY <2>1, <2>4, <2>8, <2>6, <2>9 DEF QueueInv
<1>6. CASE DrainEnds \/ DrainFails \/ Pending
  <2>1. UNCHANGED <<send, pend, tail, serr>> /\ ~draining'
        /\ (UNCHANGED call \/ call' = 0) /\ (serr => call' = 0)
    BY <1>1, <1>6 DEF DrainEnds, DrainFails, Pending, Drained
  <2>2. SendKept
    BY <2>1, Numbers DEF SendKept
  <2> QED BY <1>1, <2>1, <2>2, QueueKept
<1>7. CASE Done
  <2>1. UNCHANGED <<pend, tail, serr>> /\ ~draining' /\ call' = 0 /\ call # 0
    BY <1>7 DEF Done, Drained
  <2>2. SendKept
    <3>1. ~ \E size \in Sizes : Isend(size)
      BY <2>1 DEF Isend
    <3> QED BY <3>1, SendStep
  <2> QED BY <1>1, <2>1, <2>2, QueueKept
<1>8. ASSUME FailRequest, Drained PROVE QueueInv'
  BY <1>8 DEF FailRequest, Drained, QueueInv
<1>9. CASE Failed
  BY <1>8, <1>9 DEF Failed
<1>10. CASE TimesOut
  <2>1. CASE Fatal
    BY <1>8, <1>10, <2>1 DEF TimesOut
  <2>2. CASE ~Fatal
    <3>1. UNCHANGED <<send, pend, tail, serr, draining>> /\ ~draining /\ call' = 0
      BY <1>10, <2>2 DEF TimesOut, Drained
    <3>2. SendKept
      BY <3>1, Numbers DEF SendKept
    <3> QED BY <1>1, <3>1, <3>2, QueueKept
  <2> QED BY <2>1, <2>2
<1> QED BY <1>2, <1>3, <1>4, <1>5, <1>6, <1>7, <1>9, <1>10, QueueMoves

-----------------------------------------------------------------------------
(* The writes on their way. *)

LEMMA Flying ==
  ASSUME IInv
  PROVE  /\ taken + Len(wire) <= tail
         /\ Ascending => \A k \in 1 .. taken + Len(wire) : send[k].size <= recv[k].size
<1>1. taken <= tail
  BY DEF IInv, CounterInv
<1>2. broken => wire = <<>>
  BY DEF IInv, WireInv
<1>3. ~broken => taken + Len(wire) = tail
  BY DEF IInv, WireInv
<1>4. broken => taken + Len(wire) <= tail
  <2>1. broken => Len(wire) = 0
    BY <1>2
  <2> QED BY <1>1, <2>1, Numbers
<1>5. Ascending => \A k \in 1 .. taken + Len(wire) : send[k].size <= recv[k].size
  BY DEF IInv, WireInv
<1> QED BY <1>3, <1>4, <1>5, Numbers

(* A write that fitted its buffer still does.                              *)
LEMMA StillFits ==
  ASSUME IInv, [Next]_vars, Ascending, NEW k \in 1 .. taken + Len(wire)
  PROVE  send'[k].size <= recv'[k].size
<1>1. k \in 1 .. Len(send) /\ k \in 1 .. Len(recv)
  BY SMTT(30), Flying, Numbers DEF IInv, CounterInv
<1> QED BY <1>1, Flying, SendStep, RecvStep

(* What WireInv says of a write: of which send it is, and where it goes.    *)
WriteOK(w, n) == w.send = n /\ (Ascending => w.recv = n)

LEMMA Writes ==
  ASSUME IInv
  PROVE  /\ broken => wire = <<>> /\ pub = <<>>
         /\ ~broken => taken + Len(wire) = tail
         /\ \A j \in DOMAIN wire : WriteOK(wire[j], taken + j)
         /\ \A k \in DOMAIN into : WriteOK(into[k], k)
  BY DEF IInv, WireInv, WriteOK

LEMMA WireStep ==
  ASSUME IInv, [Next]_vars
  PROVE  WireInv'
<1>1. /\ broken => wire = <<>> /\ pub = <<>>
      /\ ~broken => taken + Len(wire) = tail
      /\ \A j \in DOMAIN wire : WriteOK(wire[j], taken + j)
      /\ \A k \in DOMAIN into : WriteOK(into[k], k)
  BY Writes
<1>2. CASE UNCHANGED <<broken, wire, into, tail>> /\ (broken => pub' = pub)
  <2>1. taken' = taken
    BY <1>2 DEF taken
  <2>2. Ascending => \A k \in 1 .. taken' + Len(wire') : send'[k].size <= recv'[k].size
    BY <1>2, <2>1, StillFits
  <2> QED BY <1>1, <1>2, <2>1, <2>2 DEF WireInv, WriteOK
<1>3. ASSUME NEW part \in SlotParts, Publish \/ Land(part)
      PROVE  UNCHANGED <<broken, wire, into, tail>> /\ (broken => pub' = pub)
  BY <1>1, <1>3 DEF Publish, Land
<1>4. CASE Break
  <2>1. broken' /\ wire' = <<>> /\ pub' = <<>> /\ UNCHANGED into
    BY <1>4 DEF Break
  <2>2. taken' = taken /\ Len(wire') = 0 /\ DOMAIN wire' = {}
    BY <2>1 DEF taken
  <2>3. ASSUME Ascending
        PROVE  \A k \in 1 .. taken' + Len(wire') : send'[k].size <= recv'[k].size
    <3> SUFFICES ASSUME NEW k \in 1 .. taken PROVE send'[k].size <= recv'[k].size
      BY <2>2, Numbers
    <3> k \in 1 .. taken + Len(wire)
      BY Numbers
    <3> QED BY <2>3, StillFits
  <2> QED BY <1>1, <2>1, <2>2, <2>3 DEF WireInv, WriteOK
<1>5. CASE Arrive
  <2>1. /\ wire # <<>> /\ into' = Append(into, Head(wire)) /\ wire' = Tail(wire)
        /\ UNCHANGED <<broken, tail>>
    BY <1>5 DEF Arrive
  <2>2. /\ ~broken /\ ~broken' /\ taken \in Nat /\ WriteOK(Head(wire), taken + 1)
        /\ Head(wire) \in Write
    BY <2>1, FrontWrite, Numbers DEF WriteOK
  <2>3. /\ wire' \in Seq(Write) /\ Len(wire') = Len(wire) - 1
        /\ \A j \in 1 .. Len(wire') : wire'[j] = wire[j + 1]
    BY <2>1, Numbers, HeadTailProperties
  <2>4. /\ into' \in Seq(Write) /\ Len(into') = Len(into) + 1
        /\ \A k \in 1 .. Len(into) : into'[k] = into[k]
        /\ into'[Len(into) + 1] = Head(wire)
    BY <2>1, <2>2, Numbers, AppendProperties
  <2>5. DOMAIN wire' = 1 .. Len(wire') /\ DOMAIN into' = 1 .. taken + 1 /\ taken' = taken + 1
        /\ Len(wire') \in Nat
    BY <2>3, <2>4, LenProperties DEF taken
  <2>6. ASSUME NEW j \in DOMAIN wire' PROVE WriteOK(wire'[j], taken' + j)
    <3>1. j + 1 \in DOMAIN wire /\ j \in 1 .. Len(wire') /\ j \in Nat
      BY SMTT(30), <2>3, <2>5, Numbers
    <3>2. wire'[j] = wire[j + 1] /\ WriteOK(wire[j + 1], taken + (j + 1))
      BY <1>1, <2>3, <3>1
    <3>3. taken + (j + 1) = taken' + j
      BY <2>2, <2>5, <3>1
    <3> QED BY <3>2, <3>3
  <2>7. ASSUME NEW k \in DOMAIN into' PROVE WriteOK(into'[k], k)
    <3>1. CASE k = taken + 1
      BY <2>2, <2>4, <3>1 DEF taken
    <3>2. CASE k # taken + 1
      <4>1. k \in 1 .. taken
        BY <2>2, <2>5, <3>2
      <4> QED BY <1>1, <2>4, <4>1, Numbers DEF taken
    <3> QED BY <3>1, <3>2
  <2>8. taken' + Len(wire') = taken + Len(wire)
    BY <2>2, <2>3, <2>5, Numbers
  <2>9. Ascending => \A k \in 1 .. taken' + Len(wire') : send'[k].size <= recv'[k].size
    BY <2>8, StillFits
  <2> QED BY <1>1, <2>1, <2>2, <2>6, <2>7, <2>8, <2>9 DEF WireInv, WriteOK
<1>6. CASE DrainPost
  <2> DEFINE w == [send |-> Head(pend), recv |-> NextSlot["body"]]
  <2>1. /\ draining /\ pend # <<>> /\ Ready /\ tail' = tail + 1
        /\ Fits(Head(pend), NextSlot["body"])
        /\ wire' = IF broken THEN wire ELSE Append(wire, w)
        /\ UNCHANGED <<broken, pub, into, recv>>
    BY <1>6 DEF DrainPost, NextTail
  <2>2. WriteOK(w, tail + 1) /\ tail \in Nat /\ taken' = taken /\ taken \in Nat
    BY <2>1, FrontSend, ReadySlot, Numbers DEF WriteOK, taken
  <2>3. w \in Write
    BY <2>1, FrontSend, ReadySlot, Numbers DEF Write
  <2> HIDE DEF w
  <2>4. CASE broken
    <3>1. UNCHANGED <<broken, wire, into, pub>>
      BY <2>1, <2>4
    <3>2. Ascending => \A k \in 1 .. taken' + Len(wire') : send'[k].size <= recv'[k].size
      BY <2>2, <3>1, StillFits
    <3> QED BY <1>1, <2>2, <2>4, <3>1, <3>2 DEF WireInv, WriteOK
  <2>5. CASE ~broken
    <3>1. wire' = Append(wire, w) /\ ~broken' /\ taken + Len(wire) = tail
      BY <1>1, <2>1, <2>5
    <3>2. /\ wire' \in Seq(Write) /\ Len(wire') = Len(wire) + 1
          /\ \A j \in 1 .. Len(wire) : wire'[j] = wire[j]
          /\ wire'[Len(wire) + 1] = w
      BY <2>3, <3>1, Numbers, AppendProperties
    <3>3. DOMAIN wire' = 1 .. Len(wire) + 1 /\ Len(wire) \in Nat
      BY <3>2, LenProperties, Numbers
    <3>4. ASSUME NEW j \in DOMAIN wire' PROVE WriteOK(wire'[j], taken' + j)
      <4>1. CASE j = Len(wire) + 1
        <5>1. taken' + j = tail + 1
          BY <2>2, <3>1, <3>3, <4>1
        <5> QED BY <2>2, <3>2, <4>1, <5>1
      <4>2. CASE j # Len(wire) + 1
        <5>1. j \in 1 .. Len(wire)
          BY <3>3, <4>2
        <5> QED BY <1>1, <2>2, <3>2, <5>1, Numbers
      <4> QED BY <4>1, <4>2
    <3>5. taken' + Len(wire') = tail + 1
      BY <2>2, <3>1, <3>2, <3>3
    <3>6. Ascending => send[tail + 1].size <= recv[tail + 1].size
      BY <2>1, <2>2, FrontSend, ReadySlot DEF Fits
    <3>7. tail + 1 \in 1 .. Len(send) /\ tail + 1 \in 1 .. Len(recv)
      BY SMTT(30), <2>1, FrontSend, ReadySlot, Numbers DEF IInv, CounterInv
    <3>8. ASSUME Ascending, NEW k \in 1 .. taken' + Len(wire') PROVE send'[k].size <= recv'[k].size
      <4>1. CASE k = tail + 1
        BY <3>6, <3>7, <3>8, <4>1, SendStep, RecvStep
      <4>2. CASE k # tail + 1
        <5>1. k \in 1 .. taken + Len(wire)
          BY <2>2, <3>1, <3>5, <4>2
        <5> QED BY <3>8, <5>1, StillFits
      <4> QED BY <4>1, <4>2
    <3>9. \A k \in DOMAIN into' : WriteOK(into'[k], k)
      BY <1>1, <2>1
    <3> QED BY <2>1, <3>1, <3>4, <3>5, <3>8, <3>9 DEF WireInv, WriteOK
  <2> QED BY <2>4, <2>5
<1> QED BY <1>2, <1>3, <1>4, <1>5, <1>6, PartsAre, WireMoves

-----------------------------------------------------------------------------
(* The receives. *)

LEMMA RecvInvStep ==
  ASSUME IInv, [Next]_vars
  PROVE  RecvInv'
<1>1. \A k \in 1 .. Len(recv) :
        /\ recv[k].st \in {"filled", "done"} => k <= taken
        /\ recv[k].st = "failed" => rerr
        /\ k <= taken => recv[k].len = send[k].size
  BY Numbers DEF IInv, RecvInv
<1>2. taken \in Nat /\ taken <= Len(send) /\ taken <= Len(recv)
  BY Numbers DEF IInv, CounterInv
<1>3. \A k \in 1 .. taken : send'[k].size = send[k].size
  BY <1>2, SendStep, Numbers
<1>4. DOMAIN recv' = 1 .. Len(recv') /\ Len(recv') \in Nat
  BY RecvStep, LenProperties
<1>5. CASE UNCHANGED <<recv, into>> /\ (rerr => rerr')
  BY <1>1, <1>2, <1>3, <1>4, <1>5 DEF RecvInv, taken
<1>6. ASSUME NEW size \in Sizes, Arm(size) PROVE RecvInv'
  <2> DEFINE r == [size |-> size, st |-> "armed", len |-> 0]
  <2>1. recv' = Append(recv, r) /\ UNCHANGED <<into, rerr>>
    BY <1>6 DEF Arm
  <2>2. r \in RecvRec /\ r.st = "armed"
    BY DEF RecvRec
  <2> HIDE DEF r
  <2>3. /\ Len(recv') = Len(recv) + 1 /\ recv'[Len(recv) + 1] = r
        /\ \A k \in 1 .. Len(recv) : recv'[k] = recv[k]
    BY <2>1, <2>2, Numbers, AppendProperties
  <2>4. taken' = taken
    BY <2>1 DEF taken
  <2>5. ASSUME NEW k \in 1 .. Len(recv')
        PROVE  /\ recv'[k].st \in {"filled", "done"} => k <= taken'
               /\ recv'[k].st = "failed" => rerr'
               /\ k <= taken' => recv'[k].len = send'[k].size
    <3>1. CASE k = Len(recv) + 1
      BY SMTT(30), <1>2, <2>2, <2>3, <2>4, <3>1, Numbers
    <3>2. CASE k # Len(recv) + 1
      <4>0. Len(recv) \in Nat /\ Len(recv') = Len(recv) + 1
        BY <2>3, Numbers
      <4>1. k \in 1 .. Len(recv)
        BY <3>2, <4>0
      <4>2. recv'[k] = recv[k] /\ taken' = taken /\ rerr' = rerr
        BY <2>1, <2>3, <2>4, <4>1
      <4>3. k <= taken => k \in 1 .. taken
        BY <1>2, <4>1
      <4> QED BY <1>1, <1>3, <4>1, <4>2, <4>3
    <3> QED BY <3>1, <3>2
  <2> QED BY <1>4, <2>5 DEF RecvInv
<1>7. ASSUME NEW k \in DOMAIN recv, TestRecv(k) PROVE RecvInv'
  <2>1. recv' = [recv EXCEPT ![k].st = "done"] /\ recv[k].st = "filled" /\ UNCHANGED <<into, rerr>>
    BY <1>7 DEF TestRecv
  <2>2. RecvUpdated(k, "done", recv[k].len)
    BY <2>1, RecvTested, Numbers, Zenon
  <2>3. taken' = taken
    BY <2>1 DEF taken
  <2> QED BY SMTT(30), <1>1, <1>2, <1>3, <1>4, <2>1, <2>2, <2>3, Numbers DEF RecvInv, RecvUpdated
<1>8. ASSUME NEW k \in DOMAIN recv, TestRecvFails(k) PROVE RecvInv'
  <2>1. recv' = [recv EXCEPT ![k].st = "failed"] /\ UNCHANGED into /\ rerr'
    BY <1>8 DEF TestRecvFails
  <2>2. RecvUpdated(k, "failed", recv[k].len)
    BY <2>1, RecvTested, Numbers, Zenon
  <2>3. taken' = taken
    BY <2>1 DEF taken
  <2> QED BY SMTT(30), <1>1, <1>2, <1>3, <1>4, <2>1, <2>2, <2>3, Numbers DEF RecvInv, RecvUpdated
<1>9. CASE Arrive
  <2>1. UNCHANGED <<send, rerr>> /\ into' = Append(into, Head(wire)) /\ wire # <<>>
    BY <1>9 DEF Arrive
  <2>2. RecvUpdated(taken + 1, "filled", send[taken + 1].size)
    BY <1>9, ArriveRecv
  <2>3. taken' = taken + 1
    BY <2>1, Numbers DEF taken
  <2>4. taken + 1 \in 1 .. Len(recv)
    BY <2>1, FrontWrite
  <2>5. ASSUME NEW k \in 1 .. Len(recv')
        PROVE  /\ recv'[k].st \in {"filled", "done"} => k <= taken'
               /\ recv'[k].st = "failed" => rerr'
               /\ k <= taken' => recv'[k].len = send'[k].size
    <3>1. CASE k = taken + 1
      BY <1>2, <2>1, <2>2, <2>3, <3>1 DEF RecvUpdated
    <3>2. CASE k # taken + 1
      <4>1. k \in 1 .. Len(recv) /\ recv'[k] = recv[k]
        BY <2>2, <3>2 DEF RecvUpdated
      <4> QED BY <1>1, <1>2, <2>1, <2>3, <3>2, <4>1
    <3> QED BY <3>1, <3>2
  <2> QED BY <1>4, <2>5 DEF RecvInv
<1> QED BY <1>5, <1>6, <1>7, <1>8, <1>9, RecvMoves

-----------------------------------------------------------------------------
(* The slots. *)

(* What SlotInv says of slot x when l slots have landed and the parts h of *)
(* the next one have.                                                      *)
SlotOK(s, x, l, h) ==
  \A part \in SlotParts :
    /\ s[part] <= l + (IF part \in h THEN 1 ELSE 0)
    /\ s[part] > 0 => Idx(s[part] - 1) = x
    /\ Ascending => \A other \in Lower(part) : s[part] <= s[other]

LEMMA Slots ==
  ASSUME IInv
  PROVE  /\ half \subseteq SlotParts /\ (half # {} => pub # <<>> /\ half # SlotParts)
         /\ landed \in Nat
         /\ \A part \in half : ring[Idx(landed)][part] = landed + 1
         /\ \A x \in 0 .. Depth - 1 :
              /\ ring[x] \in Slot /\ \A part \in SlotParts : ring[x][part] \in Nat
              /\ SlotOK(ring[x], x, landed, half)
<1>1. /\ half \subseteq SlotParts /\ (half # {} => pub # <<>> /\ half # SlotParts)
      /\ \A part \in half : ring[Idx(landed)][part] = landed + 1
  BY DEF IInv, TypeOK, SlotInv
<1>2. \A x \in 0 .. Depth - 1 :
        /\ ring[x] \in Slot /\ \A part \in SlotParts : ring[x][part] \in Nat
        /\ SlotOK(ring[x], x, landed, half)
  BY DEF IInv, TypeOK, SlotInv, SlotOK, Slot
<1>3. landed \in Int /\ 0 \in 0 .. Depth - 1
  BY Numbers DEF landed
<1>4. landed \in Nat
  <2>1. PICK part \in SlotParts : part \notin half
    <3>1. half # SlotParts
      BY <1>1, PartsAre
    <3> QED BY <1>1, <3>1
  <2>2. ring[0][part] \in Nat /\ ring[0][part] <= landed
    BY <1>2, <1>3, <2>1 DEF SlotOK
  <2> QED BY <1>3, <2>2
<1> QED BY <1>1, <1>2, <1>4

LEMMA FrontSlot ==
  ASSUME IInv, pub # <<>>
  PROVE  /\ Head(pub) = landed + 1 /\ Target = Idx(landed)
         /\ Idx(landed) \in 0 .. Depth - 1
         /\ Len(Tail(pub)) = Len(pub) - 1 /\ Tail(pub) \in Seq(Nat)
         /\ \A j \in 1 .. Len(pub) - 1 : Tail(pub)[j] = landed + 1 + j
<1>1. Len(pub) \in Nat \ {0} /\ Head(pub) = pub[1]
  BY Numbers, EmptySeq
<1>2. \A j \in 1 .. Len(pub) : pub[j] = landed + j
  BY Numbers DEF IInv, SlotInv
<1>3. landed \in Nat /\ Idx(landed) \in 0 .. Depth - 1
  BY Slots, IdxInRing
<1>4. Head(pub) = landed + 1
  BY <1>1, <1>2
<1>5. Len(Tail(pub)) = Len(pub) - 1 /\ Tail(pub) \in Seq(Nat)
      /\ \A j \in 1 .. Len(pub) - 1 : Tail(pub)[j] = pub[j + 1]
  BY Numbers, HeadTailProperties
<1>6. \A j \in 1 .. Len(pub) - 1 : Tail(pub)[j] = landed + 1 + j
  BY <1>1, <1>2, <1>3, <1>5
<1>7. Target = Idx(landed)
  BY <1>3, <1>4 DEF Target
<1> QED BY <1>3, <1>4, <1>5, <1>6, <1>7

LEMMA PartLanded ==
  ASSUME IInv, NEW part \in SlotParts, Land(part)
  PROVE  \A x \in 0 .. Depth - 1, p \in SlotParts :
           ring'[x][p] = IF x = Idx(landed) /\ p = part THEN landed + 1 ELSE ring[x][p]
<1>1. ring \in [0 .. Depth - 1 -> [SlotParts -> Nat]]
  BY DEF IInv, TypeOK, Slot
<1>2. ring' = [ring EXCEPT ![Idx(landed)][part] = landed + 1] /\ Idx(landed) \in 0 .. Depth - 1
  BY FrontSlot DEF Land
<1> QED BY <1>1, <1>2

(* With the part that has landed the slots are as they should be.          *)
LEMMA LandSlots ==
  ASSUME IInv, NEW part \in SlotParts, Land(part), NEW x \in 0 .. Depth - 1
  PROVE  SlotOK(ring'[x], x, landed, half \union {part})
<1>1. \A p \in SlotParts :
        ring'[x][p] = IF x = Idx(landed) /\ p = part THEN landed + 1 ELSE ring[x][p]
  BY PartLanded
<1>2. /\ landed \in Nat
      /\ \A p \in half : ring[Idx(landed)][p] = landed + 1
      /\ \A p \in SlotParts :
           /\ ring[x][p] \in Nat
           /\ ring[x][p] <= landed + (IF p \in half THEN 1 ELSE 0)
           /\ ring[x][p] > 0 => Idx(ring[x][p] - 1) = x
           /\ Ascending => \A other \in Lower(p) : ring[x][p] <= ring[x][other]
  BY Slots DEF SlotOK
<1>3. Ascending => Lower(part) \subseteq half
  BY DEF Land
<1>4. \A p \in SlotParts : Lower(p) \subseteq SlotParts /\ p \notin Lower(p)
  BY DEF SlotParts, Lower
<1>5. ASSUME NEW p \in SlotParts
      PROVE  /\ ring'[x][p] <= landed + (IF p \in half \union {part} THEN 1 ELSE 0)
             /\ ring'[x][p] > 0 => Idx(ring'[x][p] - 1) = x
  <2>1. CASE x = Idx(landed) /\ p = part
    BY <1>1, <1>2, <2>1
  <2>2. CASE ~(x = Idx(landed) /\ p = part)
    <3>1. ring'[x][p] = ring[x][p]
      BY <1>1, <2>2
    <3> QED BY <1>2, <3>1
  <2> QED BY <2>1, <2>2
<1>6. ASSUME Ascending, NEW p \in SlotParts, NEW other \in Lower(p)
      PROVE  ring'[x][p] <= ring'[x][other]
  <2>1. other \in SlotParts /\ other # p /\ ring[x][p] <= ring[x][other]
    BY <1>2, <1>4, <1>6
  <2>2. CASE x = Idx(landed) /\ p = part
    <3>1. other \in half /\ ring'[x][p] = landed + 1 /\ ring'[x][other] = ring[x][other]
      BY <1>1, <1>3, <1>6, <2>1, <2>2
    <3> QED BY <1>2, <2>2, <3>1
  <2>3. CASE x = Idx(landed) /\ other = part
    <3>1. ring'[x][p] = ring[x][p] /\ ring'[x][other] = landed + 1
      BY <1>1, <2>1, <2>3
    <3>2. ring[x][p] <= landed + 1
      BY <1>2
    <3> QED BY <3>1, <3>2
  <2>4. CASE ~(x = Idx(landed) /\ p = part) /\ ~(x = Idx(landed) /\ other = part)
    BY <1>1, <2>1, <2>4
  <2> QED BY <2>2, <2>3, <2>4
<1> QED BY <1>5, <1>6 DEF SlotOK

LEMMA LandStep ==
  ASSUME IInv, NEW part \in SlotParts, Land(part)
  PROVE  SlotInv'
<1>1. /\ pub # <<>> /\ UNCHANGED head
      /\ landed \in Nat /\ Idx(landed) \in 0 .. Depth - 1
      /\ half \subseteq SlotParts
  BY Slots, FrontSlot DEF Land
<1>2. \A x \in 0 .. Depth - 1 : SlotOK(ring'[x], x, landed, half \union {part})
  BY LandSlots
<1>3. CASE half \union {part} = SlotParts
  <2>1. pub' = Tail(pub) /\ half' = {}
    BY <1>3 DEF Land
  <2>2. landed' = landed + 1
    BY <1>1, <2>1, FrontSlot, Numbers DEF landed
  <2>3. DOMAIN pub' = 1 .. Len(pub) - 1
    BY <1>1, <2>1, FrontSlot, LenProperties
  <2>4. \A j \in DOMAIN pub' : pub'[j] = landed' + j
    BY <1>1, <2>1, <2>2, <2>3, FrontSlot
  <2>5. \A x \in 0 .. Depth - 1 : SlotOK(ring'[x], x, landed', half')
    BY <1>1, <1>2, <1>3, <2>1, <2>2 DEF SlotOK
  <2> QED BY <2>1, <2>4, <2>5 DEF SlotInv, SlotOK
<1>4. CASE half \union {part} # SlotParts
  <2>1. UNCHANGED pub /\ half' = half \union {part}
    BY <1>4 DEF Land
  <2>2. landed' = landed
    BY <1>1, <2>1 DEF landed
  <2>3. \A j \in DOMAIN pub' : pub'[j] = landed' + j
    BY <2>1, <2>2 DEF IInv, SlotInv
  <2>4. \A p \in half' : ring'[Idx(landed')][p] = landed' + 1
    BY <1>1, <2>1, <2>2, PartLanded, Slots
  <2>5. \A x \in 0 .. Depth - 1 : SlotOK(ring'[x], x, landed', half')
    BY <1>2, <2>1, <2>2
  <2> QED BY <1>1, <1>4, <2>1, <2>3, <2>4, <2>5 DEF SlotInv, SlotOK
<1> QED BY <1>3, <1>4

LEMMA SlotStep ==
  ASSUME IInv, [Next]_vars
  PROVE  SlotInv'
<1>1. CASE UNCHANGED <<pub, head, half, ring>>
  BY <1>1 DEF IInv, SlotInv, landed
<1>2. CASE Publish
  <2>1. /\ head' = head + 1 /\ UNCHANGED <<ring, half>>
        /\ pub' = IF broken THEN pub ELSE Append(pub, head + 1)
    BY <1>2 DEF Publish
  <2>2. CASE broken
    <3>1. pub = <<>> /\ pub' = <<>> /\ half = {} /\ landed' = landed + 1
      BY <2>1, <2>2, Slots, Numbers DEF IInv, WireInv, landed
    <3>2. \A x \in 0 .. Depth - 1 : SlotOK(ring[x], x, landed + 1, {})
      BY <3>1, Slots DEF SlotOK
    <3> QED BY <2>1, <3>1, <3>2 DEF SlotInv, SlotOK
  <2>3. CASE ~broken
    <3>1. /\ pub' \in Seq(Nat) /\ Len(pub') = Len(pub) + 1 /\ pub' # <<>>
          /\ \A j \in 1 .. Len(pub) : pub'[j] = pub[j]
          /\ pub'[Len(pub) + 1] = head + 1
      BY SMTT(30), <2>1, <2>3, Numbers, AppendProperties
    <3>2. DOMAIN pub' = 1 .. Len(pub) + 1
      BY <3>1, LenProperties
    <3>3. landed' = landed /\ Len(pub) \in Nat /\ head + 1 = landed + (Len(pub) + 1)
      BY SMTT(30), <2>1, <3>1, Numbers DEF landed
    <3>4. \A j \in 1 .. Len(pub) : pub[j] = landed + j
      BY Numbers DEF IInv, SlotInv
    <3>5. \A j \in DOMAIN pub' : pub'[j] = landed + j
      BY <3>1, <3>2, <3>3, <3>4
    <3> QED BY <2>1, <3>1, <3>3, <3>5 DEF IInv, SlotInv
  <2> QED BY <2>2, <2>3
<1>3. CASE Break
  <2>1. pub' = <<>> /\ half' = {} /\ UNCHANGED <<head, ring>>
    BY <1>3 DEF Break
  <2>2. landed' = head /\ DOMAIN pub' = {} /\ landed <= head
        /\ (half # {} => landed + 1 <= head)
    BY SMTT(30), <2>1, Slots, Numbers, EmptySeq DEF landed
  <2>3. ASSUME NEW x \in 0 .. Depth - 1 PROVE SlotOK(ring[x], x, head, {})
    <3>1. /\ \A part \in SlotParts : ring[x][part] \in Nat
          /\ SlotOK(ring[x], x, landed, half) /\ landed \in Nat /\ head \in Nat
      BY Slots, Numbers
    <3> QED BY <2>2, <3>1 DEF SlotOK
  <2> QED BY <2>1, <2>2, <2>3 DEF SlotInv, SlotOK
<1> QED BY <1>1, <1>2, <1>3, LandStep, SlotMoves

-----------------------------------------------------------------------------
(* Types. *)

LEMMA PendType ==
  ASSUME IInv, [Next]_vars
  PROVE  pend' \in Seq(Nat)
<1>1. CASE UNCHANGED pend
  BY <1>1, Numbers
<1>2. ASSUME NEW size \in Sizes, Isend(size) PROVE pend' \in Seq(Nat)
  BY <1>2, Numbers, AppendProperties DEF Isend, Park
<1>3. CASE DrainPost
  BY <1>3, Numbers, HeadTailProperties DEF DrainPost
<1>4. ASSUME NEW p \in DOMAIN pend, pend' = Without(p) PROVE pend' \in Seq(Nat)
  <2>1. Len(pend) - 1 \in Nat
    BY <1>4, Numbers
  <2>2. \A j \in 1 .. Len(pend) - 1 : (IF j < p THEN pend[j] ELSE pend[j + 1]) \in Nat
    BY SMTT(30), <1>4, Numbers, ElementOfSeq
  <2>3. Without(p) \in [1 .. Len(pend) - 1 -> Nat]
    BY <2>2 DEF Without
  <2> QED BY <1>4, <2>1, <2>3
<1>5. CASE Failed \/ TimesOut
  BY <1>1, <1>4, <1>5 DEF Failed, TimesOut, FailRequest
<1> QED
  BY <1>1, <1>2, <1>3, <1>5, QueueMoves DEF Test, DrainEnds, DrainFails, Pending, Done

LEMMA SlotType ==
  ASSUME IInv, [Next]_vars
  PROVE  /\ pub' \in Seq(Nat) /\ head' \in Nat /\ half' \subseteq SlotParts
         /\ ring' \in [0 .. Depth - 1 -> Slot]
<1>1. /\ pub \in Seq(Nat) /\ head \in Nat /\ half \subseteq SlotParts
      /\ ring \in [0 .. Depth - 1 -> Slot]
  BY DEF IInv, TypeOK
<1>2. CASE Publish
  BY <1>1, <1>2, AppendProperties DEF Publish
<1>3. ASSUME NEW part \in SlotParts, Land(part)
      PROVE  /\ pub' \in Seq(Nat) /\ head' \in Nat /\ half' \subseteq SlotParts
             /\ ring' \in [0 .. Depth - 1 -> Slot]
  <2>1. /\ pub # <<>> /\ head' = head /\ ring' = [ring EXCEPT ![Target][part] = Head(pub)]
        /\ pub' \in {pub, Tail(pub)} /\ half' \in {{}, half \union {part}}
    BY <1>3 DEF Land
  <2>2. Target \in 0 .. Depth - 1 /\ Head(pub) \in Nat /\ Tail(pub) \in Seq(Nat)
    BY <1>1, <2>1, FrontSlot, HeadTailProperties
  <2>3. ring' \in [0 .. Depth - 1 -> Slot]
    BY <1>1, <2>1, <2>2 DEF Slot
  <2> QED BY <1>1, <2>1, <2>2, <2>3
<1>4. CASE Break
  BY <1>1, <1>4 DEF Break
<1> QED BY <1>1, <1>2, <1>3, <1>4, SlotMoves

LEMMA WireType ==
  ASSUME IInv, [Next]_vars
  PROVE  wire' \in Seq(Write) /\ into' \in Seq(Write) /\ tail' \in Nat
<1>1. wire \in Seq(Write) /\ into \in Seq(Write) /\ tail \in Nat
  BY DEF IInv, TypeOK
<1>2. CASE UNCHANGED <<wire, into, tail>>
  BY <1>1, <1>2
<1>3. CASE Arrive
  BY <1>1, <1>3, HeadTailProperties, AppendProperties DEF Arrive
<1>4. CASE Break
  BY <1>1, <1>4 DEF Break
<1>5. CASE DrainPost
  <2> DEFINE w == [send |-> Head(pend), recv |-> NextSlot["body"]]
  <2>1. /\ draining /\ pend # <<>> /\ Ready /\ tail' = tail + 1
        /\ (wire' = wire \/ wire' = Append(wire, w))
        /\ UNCHANGED into
    BY <1>5 DEF DrainPost, NextTail
  <2>2. w \in Write
    BY <1>1, <2>1, FrontSend, ReadySlot DEF Write
  <2> HIDE DEF w
  <2> QED BY <1>1, <2>1, <2>2, AppendProperties
<1> QED
  BY <1>2, <1>3, <1>4, <1>5, WireMoves DEF Publish, Land

LEMMA FlagType ==
  ASSUME IInv, [Next]_vars
  PROVE  /\ {sfail, draining, serr, rfail, rerr, broken}' \subseteq BOOLEAN
         /\ faults' \in Nat /\ call' \in Int
<1> DEFINE flags == {sfail, draining, serr, rfail, rerr, broken}
<1>1. flags \subseteq BOOLEAN /\ faults \in Nat /\ call \in Int /\ DOMAIN send \subseteq Int
  BY Numbers DEF IInv, TypeOK
<1>2. flags' \subseteq flags \union BOOLEAN
  <2>1. ASSUME NEW size \in Sizes, Arm(size) \/ Isend(size) PROVE flags' \subseteq flags \union BOOLEAN
    BY <2>1, Zenon DEF Arm, Isend
  <2>2. ASSUME NEW k \in DOMAIN recv, TestRecv(k) \/ TestRecvFails(k)
        PROVE  flags' \subseteq flags \union BOOLEAN
    BY <2>2, Zenon DEF TestRecv, TestRecvFails
  <2>3. ASSUME ArmFails \/ Publish \/ PublishFails \/ Break \/ Arrive
        PROVE  flags' \subseteq flags \union BOOLEAN
    BY <2>3, Zenon DEF ArmFails, Publish, PublishFails, Break, Arrive
  <2>8. ASSUME NEW part \in SlotParts, Land(part)
        PROVE  flags' \subseteq flags \union BOOLEAN
    BY <2>8, Zenon DEF Land
  <2>4. ASSUME NEW i \in DOMAIN send, Test(i) PROVE flags' \subseteq flags \union BOOLEAN
    BY <2>4, Zenon DEF Test, DrainFirst
  <2>5. ASSUME DrainPost \/ DrainEnds \/ DrainFails \/ Pending \/ Done
        PROVE  flags' \subseteq flags \union BOOLEAN
    BY <2>5, Zenon DEF DrainPost, DrainEnds, DrainFails, Pending, Done
  <2>6. ASSUME Failed \/ TimesOut PROVE flags' \subseteq flags \union BOOLEAN
    BY <2>6, Zenon DEF Failed, TimesOut, FailRequest, Drained
  <2>7. ASSUME UNCHANGED vars PROVE flags' \subseteq flags \union BOOLEAN
    BY <2>7, Zenon DEF vars
  <2> QED BY <2>1, <2>2, <2>3, <2>4, <2>5, <2>6, <2>7, <2>8, Zenon DEF Next, Nic, Calls
<1>3. faults' \in {faults, faults + 1}
  BY DEF Next, vars, Nic, Calls, Arm, Isend, ArmFails, Publish, PublishFails, TestRecv,
         TestRecvFails, Land, Arrive, Break, Test, DrainPost,
         DrainEnds, DrainFails, Pending, Done, Failed, FailRequest, TimesOut
<1>4. call' \in {call, 0, -1} \/ call' \in DOMAIN send
  BY QueueMoves DEF Isend, Test, DrainPost, DrainEnds, DrainFails, Pending, Done, Failed,
                    FailRequest, TimesOut
<1> QED BY <1>1, <1>2, <1>3, <1>4

LEMMA TypeStep ==
  ASSUME IInv, [Next]_vars
  PROVE  TypeOK'
  BY SendStep, RecvStep, PendType, SlotType, WireType, FlagType DEF TypeOK, SendRec, RecvRec

LEMMA InitInv == Init => IInv
<1> SUFFICES ASSUME Init PROVE IInv
  OBVIOUS
<1>1. ring = [x \in 0 .. Depth - 1 |-> [part \in SlotParts |-> 0]] /\ ring \in [0 .. Depth - 1 -> Slot]
  BY DEF Init, Slot
<1>2. TypeOK
  BY SMTT(30), <1>1 DEF Init, TypeOK
<1>3. CounterInv /\ QueueInv /\ WireInv /\ RecvInv
  BY DEF Init, CounterInv, QueueInv, WireInv, RecvInv, taken
<1>4. SlotInv
  <2>0. pub = <<>> /\ half = {} /\ head = 0
    BY DEF Init
  <2>3. \A x \in 0 .. Depth - 1 : \A part \in SlotParts : ring[x][part] = 0
    BY <1>1
  <2>1. landed = 0
    <3>1. Len(pub) = 0
      BY <2>0, EmptySeq
    <3>2. head = 0
      BY <2>0
    <3> QED BY <3>1, <3>2 DEF landed
  <2>2. \A part \in SlotParts : Lower(part) \subseteq SlotParts
    BY DEF SlotParts, Lower
  <2> QED BY <2>0, <2>1, <2>2, <2>3 DEF SlotInv
<1> QED BY <1>2, <1>3, <1>4 DEF IInv

(* IInv holds in every state, whatever the depth of the ring, the number   *)
(* of requests, the sizes, and in whatever order the parts of a slot land. *)
THEOREM Invariance == Spec => []IInv
<1>1. IInv /\ [Next]_vars => IInv'
  BY TypeStep, CounterStep, QueueStep, WireStep, RecvInvStep, SlotStep DEF IInv
<1> QED BY <1>1, InitInv, PTL DEF Spec

-----------------------------------------------------------------------------
(* The properties. *)

LEMMA WritesMeetRecvsHolds ==
  ASSUME Ascending PROVE IInv => WritesMeetRecvs
<1> SUFFICES ASSUME IInv, NEW j \in DOMAIN wire
             PROVE  wire[j].recv = taken + j /\ taken + j \in DOMAIN recv
  BY DEF WritesMeetRecvs
<1>1. wire # <<>> /\ j \in 1 .. Len(wire)
  BY Numbers
<1>2. wire[j].recv = taken + j
  BY Writes DEF WriteOK
<1>3. taken + Len(wire) <= head /\ head <= Len(recv)
  BY SMTT(30), Flying, Numbers DEF IInv, CounterInv
<1> QED BY <1>1, <1>2, <1>3, Numbers

(* "an RNR NAK is unreachable": whatever is interleaved and whatever fails, *)
(* a write on its way finds the RECV of the buffer it writes to, if slots   *)
(* land in ascending address order as the code assumes.                    *)
THEOREM RecvsAwaitWrites ==
  ASSUME Ascending PROVE Spec => []WritesMeetRecvs
<1>1. IInv => WritesMeetRecvs
  BY WritesMeetRecvsHolds
<1> QED BY <1>1, Invariance, PTL

LEMMA NeverOverrunHolds == IInv => NeverOverrun
<1> SUFFICES ASSUME IInv PROVE ~(ring[Idx(tail)]["stamp"] > tail + 1)
  BY DEF NeverOverrun, Overrun, NextSlot
<1> QED BY SlotOfTail, PartsAre, Numbers

(* A slot is never overwritten before its send has consumed it, for any    *)
(* depth of at least NCCL_NET_MAX_REQUESTS and in whatever order its parts *)
(* land.                                                                   *)
THEOREM RingNeverOverrun == Spec => []NeverOverrun
  BY Invariance, NeverOverrunHolds, PTL

LEMMA WritesFitHolds ==
  ASSUME Ascending PROVE IInv => WritesFit
<1> SUFFICES ASSUME IInv,
                    NEW w \in {wire[j] : j \in DOMAIN wire} \union {into[j] : j \in DOMAIN into}
             PROVE  w.recv \in DOMAIN recv /\ send[w.send].size <= recv[w.recv].size
  BY DEF WritesFit
<1>1. PICK k \in 1 .. taken + Len(wire) : WriteOK(w, k)
  <2>1. CASE w \in {wire[j] : j \in DOMAIN wire}
    <3>1. PICK j \in 1 .. Len(wire) : WriteOK(w, taken + j)
      BY <2>1, Writes, Numbers
    <3> QED BY <3>1, Numbers
  <2>2. CASE w \in {into[j] : j \in DOMAIN into}
    <3>1. PICK j \in 1 .. taken : WriteOK(w, j)
      BY <2>2, Writes, Numbers
    <3> QED BY <3>1, Numbers
  <2> QED BY <2>1, <2>2
<1>2. taken + Len(wire) <= Len(recv)
  BY SMTT(30), Flying, Numbers DEF IInv, CounterInv
<1> QED BY <1>1, <1>2, Flying, Numbers DEF WriteOK

(* No write is larger than the buffer that it goes to, if slots land in    *)
(* ascending address order: the size compared is the one of the buffer.    *)
THEOREM WritesStayInBuffers ==
  ASSUME Ascending PROVE Spec => []WritesFit
<1>1. IInv => WritesFit
  BY WritesFitHolds
<1> QED BY <1>1, Invariance, PTL

LEMMA PairedHolds ==
  ASSUME Ascending PROVE IInv => Paired
<1> SUFFICES ASSUME IInv PROVE Paired
  OBVIOUS
<1>1. ASSUME NEW k \in DOMAIN into PROVE into[k] = [send |-> k, recv |-> k]
  <2>1. into[k] \in Write /\ WriteOK(into[k], k)
    BY Writes, Numbers, ElementOfSeq DEF taken
  <2> QED BY <2>1 DEF Write, WriteOK
<1>2. \A k \in DOMAIN recv : recv[k].st = "done" => recv[k].len = send[k].size
  BY DEF IInv, RecvInv
<1> QED BY <1>1, <1>2 DEF Paired

(* The i-th receive holds the i-th message and its size, if slots land in  *)
(* ascending address order.                                                *)
THEOREM Pairing ==
  ASSUME Ascending PROVE Spec => []Paired
<1>1. IInv => Paired
  BY PairedHolds
<1> QED BY <1>1, Invariance, PTL

-----------------------------------------------------------------------------
(* The refinement. *)

sent == [i \in 1 .. Len(send) |-> i]
got  == [k \in 1 .. Len(into) |-> IF into[k].recv = k THEN into[k].send ELSE 0]

LEMMA InitMaps == Init => Channel!Init
<1> SUFFICES ASSUME Init PROVE Channel!Init
  OBVIOUS
<1>1. send = <<>> /\ into = <<>> /\ recv = <<>> /\ ~broken
  BY DEF Init
<1>2. broken = FALSE
  BY DEF Init
<1>3. sent = <<>> /\ got = <<>> /\ Len(recv) = 0
  BY <1>1 DEF sent, got
<1> QED BY <1>2, <1>3 DEF Channel!Init, sent, got

(* A step that makes no call, delivers nothing and breaks nothing.         *)
LEMMA StutterMaps ==
  ASSUME Len(send') = Len(send), Len(recv') = Len(recv), UNCHANGED <<into, broken>>
  PROVE  UNCHANGED Channel!vars
  BY DEF Channel!vars

LEMMA IsendMaps ==
  ASSUME IInv, [Next]_vars, NEW size \in Sizes, Isend(size)
  PROVE  Channel!Send
<1>1. Len(send') = Len(send) + 1 /\ UNCHANGED <<recv, into, broken>>
  <2>1. [size |-> size, st |-> "parked"] \in SendRec
    BY DEF SendRec
  <2> QED BY <2>1, Numbers, AppendProperties DEF Isend
<1>2. /\ sent \in Seq(Nat) /\ sent' \in Seq(Nat) /\ Len(sent) = Len(send) /\ Len(sent') = Len(send) + 1
      /\ \A i \in 1 .. Len(send) + 1 : sent'[i] = i
      /\ \A i \in 1 .. Len(send) : sent[i] = i
  BY <1>1, Numbers DEF sent
<1>3. sent' = Append(sent, sent'[Len(sent')])
  <2> DEFINE a == Append(sent, sent'[Len(sent')])
  <2>1. sent'[Len(sent')] = Len(send) + 1 /\ Len(send) + 1 \in Nat
    BY <1>2, Numbers
  <2>2. /\ a \in Seq(Nat) /\ Len(a) = Len(send) + 1
        /\ \A i \in 1 .. Len(send) : a[i] = i
        /\ a[Len(send) + 1] = Len(send) + 1
    BY <1>2, <2>1, AppendProperties
  <2> HIDE DEF a
  <2>3. \A i \in 1 .. Len(sent') : sent'[i] = a[i]
    BY SMTT(30), <1>2, <2>2, Numbers
  <2>4. sent' = a
    BY <1>2, <2>2, <2>3, SeqEqual
  <2> QED BY <2>4 DEF a
<1> QED BY <1>1, <1>2, <1>3 DEF Channel!Send, sent, got

LEMMA SendsOf ==
  ASSUME NEW s \in Seq(Write)
  PROVE  \A k \in 1 .. Len(s) : s[k].send \in Nat
<1> SUFFICES ASSUME NEW k \in 1 .. Len(s) PROVE s[k].send \in Nat
  OBVIOUS
<1>1. s[k] \in Write
  BY ElementOfSeq
<1> QED BY <1>1 DEF Write

LEMMA ArriveMaps ==
  ASSUME Ascending, IInv, [Next]_vars, Arrive
  PROVE  Channel!Deliver
<1>1. /\ wire # <<>> /\ into' = Append(into, Head(wire)) /\ UNCHANGED <<send, broken>>
  BY DEF Arrive
<1>2. /\ ~broken /\ Head(wire).send = taken + 1 /\ Head(wire) \in Write
      /\ taken + 1 <= Len(send) /\ taken + 1 <= Len(recv)
  BY <1>1, FrontWrite, Numbers, HeadTailProperties
<1>3. Len(recv') = Len(recv)
  BY ArriveRecv DEF RecvUpdated
<1>4. /\ into' \in Seq(Write) /\ Len(into') = Len(into) + 1
      /\ \A k \in 1 .. Len(into) : into'[k] = into[k]
      /\ into'[Len(into) + 1] = Head(wire)
  BY <1>1, <1>2, Numbers, AppendProperties
<1>5. Len(into) = taken /\ taken \in Nat
  BY Numbers DEF taken
<1>6. /\ got \in Seq(Nat) /\ Len(got) = taken
      /\ \A k \in 1 .. taken : got[k] = into[k].send
  <2>1. \A k \in 1 .. Len(into) : into[k].send \in Nat /\ into[k].recv = k
    BY <1>5, Numbers, SendsOf, Writes DEF WriteOK
  <2> QED BY <1>5, <2>1 DEF got
<1>7. /\ got' \in Seq(Nat) /\ Len(got') = taken + 1
      /\ \A k \in 1 .. taken + 1 : got'[k] = into'[k].send
  <2>1. \A k \in 1 .. Len(into') : into'[k].send \in Nat
    BY <1>4, SendsOf
  <2>2. \A k \in 1 .. Len(into') : into'[k].recv = k
    <3>1. \A k \in 1 .. taken : into[k].recv = k
      BY Writes, Numbers DEF WriteOK
    <3>2. Head(wire).recv = taken + 1
      BY <1>1, FrontWrite
    <3> QED BY <1>4, <1>5, <3>1, <3>2
  <2> QED BY <1>4, <1>5, <2>1, <2>2 DEF got
<1>8. sent[taken + 1] = taken + 1
  BY <1>2, <1>5 DEF sent
<1>9. got' = Append(got, sent[Len(got) + 1])
  <2> DEFINE a == Append(got, sent[Len(got) + 1])
  <2>1. /\ a \in Seq(Nat) /\ Len(a) = taken + 1
        /\ \A k \in 1 .. taken : a[k] = got[k]
        /\ a[taken + 1] = taken + 1
    BY <1>5, <1>6, <1>8, AppendProperties
  <2> HIDE DEF a
  <2>2. ASSUME NEW k \in 1 .. Len(got') PROVE got'[k] = a[k]
    <3>1. CASE k = taken + 1
      BY <1>2, <1>4, <1>5, <1>7, <2>1, <3>1
    <3>2. CASE k # taken + 1
      <4>1. k \in 1 .. taken
        BY <1>5, <1>7, <3>2
      <4> QED BY <1>4, <1>5, <1>6, <1>7, <2>1, <4>1
    <3> QED BY <3>1, <3>2
  <2>3. got' = a
    BY <1>7, <2>1, <2>2, SeqEqual
  <2> QED BY <2>3 DEF a
<1>10. Len(sent) = Len(send)
  BY Numbers DEF sent
<1> QED
  BY <1>1, <1>2, <1>3, <1>5, <1>6, <1>9, <1>10, Numbers DEF Channel!Deliver, sent, got

LEMMA StepMaps ==
  ASSUME Ascending, IInv, [Next]_vars
  PROVE  [Channel!Next]_Channel!vars
<1>1. ASSUME Len(send') = Len(send), Len(recv') = Len(recv), UNCHANGED <<into, broken>>
      PROVE  UNCHANGED Channel!vars
  BY <1>1, StutterMaps
<1>2. ASSUME NEW size \in Sizes, Isend(size)
      PROVE  Channel!Next
  BY <1>2, IsendMaps DEF Channel!Next
<1>3. ASSUME NEW size \in Sizes, Arm(size)
      PROVE  Channel!Next
  <2>1. [size |-> size, st |-> "armed", len |-> 0] \in RecvRec
    BY DEF RecvRec
  <2>2. Len(recv') = Len(recv) + 1 /\ UNCHANGED <<send, into, broken>>
    BY <1>3, <2>1, Numbers, AppendProperties DEF Arm
  <2> QED BY <2>2 DEF Channel!Next, Channel!Receive
<1>4. CASE Arrive
  BY <1>4, ArriveMaps DEF Channel!Next
<1>5. CASE Break
  <2>1. broken' = TRUE /\ UNCHANGED <<send, recv, into>>
    BY <1>5 DEF Break
  <2> QED BY <2>1 DEF Channel!Next, Channel!Break
<1>6. ASSUME ~ \E size \in Sizes : Isend(size), ~ \E size \in Sizes : Arm(size), ~Arrive, ~Break
      PROVE  UNCHANGED Channel!vars
  <2>1. Len(send') = Len(send) /\ Len(recv') = Len(recv)
    BY <1>6, SendStep, RecvStep DEF SendKept, RecvKept
  <2>2. UNCHANGED <<into, broken>>
    BY <1>6, WireMoves DEF Publish, Land, DrainPost
  <2> QED BY <1>1, <2>1, <2>2
<1> QED BY <1>2, <1>3, <1>4, <1>5, <1>6

(* The one-sided path is a channel that delivers the i-th message to the   *)
(* i-th receive and, once broken, nothing more, if slots land in ascending *)
(* address order.                                                          *)
THEOREM Refinement ==
  ASSUME Ascending PROVE Spec => ChannelSpec
<1>1. IInv /\ [Next]_vars => [Channel!Next]_Channel!vars
  BY StepMaps
<1> QED BY <1>1, InitMaps, Invariance, PTL DEF Spec, ChannelSpec, Channel!Spec

-----------------------------------------------------------------------------
(* The flush of GPU memory.  What a receive has written is hidden from the *)
(* GPU only until a read for it, or for a later receive, is executed; and  *)
(* iflush needs no read only for receives that wrote nothing there.        *)

Receives == [buf : Bufs, size : Nat, state : {"received", "flushing", "read"}]

FlushTypes ==
  /\ arrived \in Seq(Receives)
  /\ reads \in Seq([recv : Nat, state : {"sent", "executed"}])
  /\ unseen \subseteq 1 .. Len(arrived)
  /\ handles \in [Bufs -> {NoHandle} \union [is_managed : BOOLEAN, is_device : BOOLEAN]]

HandlesInv ==
  /\ \A b \in Bufs : handles[b] # NoHandle => handles[b] = HandleOf(b)
  /\ \A r \in 1 .. Len(arrived) : handles[arrived[r].buf] # NoHandle

UnseenInv ==
  \A r \in unseen :
    arrived[r].size # 0 /\ KindOf[arrived[r].buf] # "host"

ReadsInv ==
  \A i \in 1 .. Len(reads) :
    /\ reads[i].recv \in 1 .. Len(arrived)
    /\ reads[i].state = "executed" => \A r \in unseen : reads[i].recv < r

FlushInv == FlushTypes /\ HandlesInv /\ UnseenInv /\ ReadsInv /\ FlushedReads

LEMMA HandleKnowsGpu ==
  ASSUME NEW b \in Bufs, KindOf[b] # "host"
  PROVE  HandleOf(b).is_device \/ HandleOf(b).is_managed
<1>1. KindOf[b] \in {"device", "managed"}
  BY KindsOfMemory
<1> QED BY <1>1 DEF HandleOf, PtrType, NcclType

LEMMA FlushStarts == FlushInit => FlushInv
<1> SUFFICES ASSUME FlushInit PROVE FlushInv
  OBVIOUS
<1>1. arrived = <<>> /\ reads = <<>> /\ unseen = {} /\ handles = [b \in Bufs |-> NoHandle]
  BY DEF FlushInit
<1>2. Len(arrived) = 0 /\ Len(reads) = 0 /\ arrived \in Seq(Receives)
      /\ reads \in Seq([recv : Nat, state : {"sent", "executed"}])
  BY <1>1
<1> QED
  BY <1>1, <1>2 DEF FlushInv, FlushTypes, HandlesInv, UnseenInv, ReadsInv, FlushedReads

LEMMA ReceiveStates == "read" \in {"received", "flushing", "read"} /\ "flushing" \in {"received", "flushing", "read"}
OBVIOUS

(* A receive goes from one state to another.                               *)
LEMMA ArrivedOnward ==
  ASSUME arrived \in Seq(Receives), NEW r \in 1 .. Len(arrived),
         NEW e \in {"received", "flushing", "read"}, arrived' = [arrived EXCEPT ![r].state = e]
  PROVE  /\ arrived' \in Seq(Receives) /\ Len(arrived') = Len(arrived)
         /\ \A i \in 1 .. Len(arrived) :
              /\ arrived'[i].buf = arrived[i].buf /\ arrived'[i].size = arrived[i].size
              /\ arrived'[i].state = IF i = r THEN e ELSE arrived[i].state
<1>1. Len(arrived) \in Nat /\ DOMAIN arrived = 1 .. Len(arrived)
      /\ \A i \in 1 .. Len(arrived) : arrived[i] \in Receives
  BY LenProperties, ElementOfSeq
<1>2. arrived' = [i \in 1 .. Len(arrived) |-> IF i = r THEN [arrived[r] EXCEPT !.state = e] ELSE arrived[i]]
  BY <1>1
<1>3. /\ [arrived[r] EXCEPT !.state = e] \in Receives
      /\ [arrived[r] EXCEPT !.state = e].buf = arrived[r].buf
      /\ [arrived[r] EXCEPT !.state = e].size = arrived[r].size
      /\ [arrived[r] EXCEPT !.state = e].state = e
  BY <1>1 DEF Receives
<1>4. arrived' \in [1 .. Len(arrived) -> Receives]
  BY <1>1, <1>2, <1>3
<1>5. arrived' \in Seq(Receives) /\ Len(arrived') = Len(arrived)
  BY <1>1, <1>4, LenIs
<1> QED BY <1>2, <1>3, <1>5

LEMMA FlushKeeps == FlushInv /\ [FlushNext]_flushVars => FlushInv'
<1> SUFFICES ASSUME FlushInv, [FlushNext]_flushVars PROVE FlushInv'
  OBVIOUS
<1> USE DEF FlushInv
<1>1. /\ arrived \in Seq(Receives) /\ unseen \subseteq 1 .. Len(arrived) /\ Len(arrived) \in Nat
      /\ reads \in Seq([recv : Nat, state : {"sent", "executed"}]) /\ Len(reads) \in Nat
      /\ \A r \in 1 .. Len(arrived) : arrived[r] \in Receives
      /\ \A i \in 1 .. Len(reads) : reads[i] \in [recv : Nat, state : {"sent", "executed"}]
  BY LenProperties, ElementOfSeq DEF FlushTypes
<1>2. CASE UNCHANGED flushVars
  BY <1>2 DEF flushVars, FlushTypes, HandlesInv, UnseenInv, ReadsInv, FlushedReads, HandleOf, PtrType
<1>3. ASSUME NEW b \in Bufs, RegMr(b) PROVE FlushInv'
  <2>1. UNCHANGED <<gdr, arrived, unseen, reads>>
        /\ (handles' = [handles EXCEPT ![b] = HandleOf(b)] \/ handles' = handles)
        /\ handles[b] = NoHandle
    BY <1>3 DEF RegMr
  <2>2. HandleOf(b) \in [is_managed : BOOLEAN, is_device : BOOLEAN] /\ \A c \in Bufs : HandleOf(c)' = HandleOf(c)
    BY <2>1 DEF HandleOf, PtrType
  <2>3. FlushTypes'
    BY <2>1, <2>2 DEF FlushTypes
  <2>4. \A c \in Bufs : handles'[c] = handles[c] \/ (c = b /\ handles'[c] = HandleOf(c))
    BY <2>1 DEF FlushTypes
  <2>5. HandlesInv'
    <3>1. ASSUME NEW c \in Bufs, handles'[c] # NoHandle PROVE handles'[c] = HandleOf(c)'
      BY <3>1, <2>2, <2>4 DEF HandlesInv
    <3>2. ASSUME NEW r \in 1 .. Len(arrived) PROVE handles'[arrived[r].buf] # NoHandle
      <4>1. arrived[r].buf \in Bufs /\ handles[arrived[r].buf] # NoHandle
        BY <1>1 DEF Receives, HandlesInv
      <4>2. arrived[r].buf # b
        BY <4>1, <2>1
      <4> QED BY <4>1, <4>2, <2>4
    <3> QED BY <3>1, <3>2, <2>1 DEF HandlesInv
  <2> QED BY <2>1, <2>3, <2>5 DEF UnseenInv, ReadsInv, FlushedReads
<1>4. ASSUME NEW b \in Bufs, NEW size \in 0 .. 1, Receive(b, size) PROVE FlushInv'
  <2> DEFINE e == [buf |-> b, size |-> size, state |-> "received"]
             n == Len(arrived) + 1
  <2>1. /\ UNCHANGED <<gdr, handles, reads>> /\ handles[b] # NoHandle
        /\ arrived' = Append(arrived, e)
        /\ unseen' = unseen \/ (unseen' = unseen \union {n} /\ size > 0 /\ KindOf[b] # "host")
    BY <1>4 DEF Receive
  <2>2. e \in Receives
    BY DEF Receives
  <2>3. /\ arrived' \in Seq(Receives) /\ Len(arrived') = n
        /\ \A r \in 1 .. Len(arrived) : arrived'[r] = arrived[r]
        /\ arrived'[n] = e
    <3> HIDE DEF e
    <3> QED BY <1>1, <2>1, <2>2
  <2>4. \A r \in 1 .. n : r \in 1 .. Len(arrived) \/ r = n
    BY <1>1
  <2>5. 1 .. Len(arrived) \subseteq 1 .. n /\ n \in 1 .. n /\ \A r \in 1 .. Len(arrived) : r < n
    BY <1>1
  <2>6. e.buf = b /\ e.size = size /\ e.state = "received"
    OBVIOUS
  <2> HIDE DEF e, n
  <2>7. FlushTypes'
    BY <2>1, <2>3, <2>5 DEF FlushTypes
  <2>8. HandlesInv'
    BY <2>1, <2>3, <2>4, <2>6 DEF HandlesInv, HandleOf, PtrType
  <2>9. UnseenInv'
    <3>1. ASSUME NEW r \in unseen' PROVE arrived'[r].size # 0 /\ KindOf[arrived'[r].buf] # "host"
      <4>1. CASE r \in unseen
        BY <4>1, <1>1, <2>3 DEF UnseenInv
      <4>2. CASE r \notin unseen
        <5>1. r = n /\ size > 0 /\ KindOf[b] # "host"
          BY <4>2, <2>1
        <5> QED BY <5>1, <2>3, <2>6
      <4> QED BY <4>1, <4>2
    <3> QED BY <3>1 DEF UnseenInv
  <2>10. ReadsInv'
    <3>1. ASSUME NEW i \in 1 .. Len(reads)
          PROVE  /\ reads[i].recv \in 1 .. n
                 /\ reads[i].state = "executed" => \A r \in unseen' : reads[i].recv < r
      BY <2>1, <2>5 DEF ReadsInv
    <3> QED BY <3>1, <2>1, <2>3 DEF ReadsInv
  <2>11. FlushedReads'
    <3>1. ASSUME gdr.flush_enable, NEW r \in unseen' PROVE arrived'[r].state # "read"
      <4>1. CASE r \in unseen
        BY <4>1, <3>1, <1>1, <2>3 DEF FlushedReads
      <4>2. CASE r \notin unseen
        BY <4>2, <2>1, <2>3, <2>6
      <4> QED BY <4>1, <4>2
    <3> QED BY <3>1, <2>1 DEF FlushedReads
  <2> QED BY <2>7, <2>8, <2>9, <2>10, <2>11
<1>5. CASE Settles
  <2>1. UNCHANGED <<gdr, handles, arrived, reads>> /\ unseen' \subseteq unseen
    BY <1>5 DEF Settles
  <2> QED
    BY <2>1 DEF FlushTypes, HandlesInv, UnseenInv, ReadsInv, FlushedReads, HandleOf, PtrType
<1>6. CASE NicReads
  <2>1. PICK i \in 1 .. Len(reads) :
          /\ reads' = [reads EXCEPT ![i].state = "executed"]
          /\ unseen' = {r \in unseen : r > reads[i].recv}
          /\ UNCHANGED <<gdr, handles, flushPath, commState, arrived>>
    BY <1>6 DEF NicReads
  <2> DEFINE R == [recv : Nat, state : {"sent", "executed"}]
  <2>2. reads' = [j \in 1 .. Len(reads) |-> IF j = i THEN [reads[i] EXCEPT !.state = "executed"] ELSE reads[j]]
    BY <2>1, <1>1, LenProperties
  <2>3. [reads[i] EXCEPT !.state = "executed"] \in R /\ [reads[i] EXCEPT !.state = "executed"].recv = reads[i].recv
    BY <1>1
  <2>4. reads' \in [1 .. Len(reads) -> R]
    BY <2>2, <2>3, <1>1
  <2>5. reads' \in Seq(R) /\ Len(reads') = Len(reads)
    BY <2>4, <1>1, LenIs
  <2>6. unseen' \subseteq unseen
    BY <2>1
  <2>7. ReadsInv'
    <3>1. ASSUME NEW j \in 1 .. Len(reads)
          PROVE  /\ reads'[j].recv \in 1 .. Len(arrived)
                 /\ reads'[j].state = "executed" => \A r \in unseen' : reads'[j].recv < r
      <4>1. CASE j = i
        <5>1. reads'[j].recv = reads[i].recv /\ reads[i].recv \in 1 .. Len(arrived)
          BY <4>1, <2>2, <2>3 DEF ReadsInv
        <5>2. \A r \in unseen' : r \in Nat /\ r > reads[i].recv
          BY <2>1, <1>1
        <5> QED BY <5>1, <5>2, <1>1
      <4>2. CASE j # i
        BY <4>2, <2>2, <2>6 DEF ReadsInv
      <4> QED BY <4>1, <4>2
    <3> QED BY <3>1, <2>1, <2>5 DEF ReadsInv
  <2> QED
    BY <2>1, <2>5, <2>6, <2>7 DEF FlushTypes, HandlesInv, UnseenInv, FlushedReads, HandleOf, PtrType
<1>7. ASSUME NEW r \in 1 .. Len(arrived), IFlush(r) PROVE FlushInv'
  <2>1. UNCHANGED <<gdr, handles, unseen>>
    BY <1>7 DEF IFlush
  <2>2. CASE NoFlushFor(r) /\ arrived' = [arrived EXCEPT ![r].state = "read"] /\ UNCHANGED reads
    <3>1. gdr.flush_enable => r \notin unseen
      <4> SUFFICES ASSUME gdr.flush_enable, r \in unseen PROVE FALSE
        OBVIOUS
      <4>1. arrived[r].size # 0 /\ KindOf[arrived[r].buf] # "host" /\ arrived[r].buf \in Bufs
        BY <1>1 DEF UnseenInv, Receives
      <4>2. handles[arrived[r].buf] = HandleOf(arrived[r].buf)
        BY <4>1 DEF HandlesInv
      <4>3. handles[arrived[r].buf].is_device \/ handles[arrived[r].buf].is_managed
        BY <4>1, <4>2, HandleKnowsGpu
      <4> QED BY <4>1, <4>3, <2>2 DEF NoFlushFor
    <3>2. /\ arrived' \in Seq(Receives) /\ Len(arrived') = Len(arrived)
          /\ \A i \in 1 .. Len(arrived) :
               /\ arrived'[i].buf = arrived[i].buf /\ arrived'[i].size = arrived[i].size
               /\ arrived'[i].state = IF i = r THEN "read" ELSE arrived[i].state
      BY <2>2, <1>1, ReceiveStates, ArrivedOnward
    <3>3. FlushedReads'
      BY <3>1, <3>2, <2>1, <1>1 DEF FlushedReads
    <3> QED
      BY <3>2, <3>3, <2>1, <2>2, <1>1
      DEF FlushTypes, HandlesInv, UnseenInv, ReadsInv, HandleOf, PtrType
  <2>3. CASE UNCHANGED <<arrived, reads>>
    BY <2>1, <2>3 DEF FlushTypes, HandlesInv, UnseenInv, ReadsInv, FlushedReads, HandleOf, PtrType
  <2>4. CASE FlushPosted(r)
    <3> DEFINE e == [recv |-> r, state |-> "sent"]
    <3>1. arrived' = [arrived EXCEPT ![r].state = "flushing"] /\ reads' = Append(reads, e)
      BY <2>4 DEF FlushPosted
    <3>2. /\ arrived' \in Seq(Receives) /\ Len(arrived') = Len(arrived)
          /\ \A i \in 1 .. Len(arrived) :
               /\ arrived'[i].buf = arrived[i].buf /\ arrived'[i].size = arrived[i].size
               /\ arrived'[i].state = IF i = r THEN "flushing" ELSE arrived[i].state
      BY <3>1, <1>1, ReceiveStates, ArrivedOnward
    <3>3. e \in [recv : Nat, state : {"sent", "executed"}] /\ e.recv = r /\ e.state = "sent"
      BY <1>1
    <3> HIDE DEF e
    <3>4. /\ reads' \in Seq([recv : Nat, state : {"sent", "executed"}]) /\ Len(reads') = Len(reads) + 1
          /\ \A i \in 1 .. Len(reads) : reads'[i] = reads[i]
          /\ reads'[Len(reads) + 1] = e
      BY <3>1, <3>3, <1>1
    <3>5. \A i \in 1 .. Len(reads) + 1 : i \in 1 .. Len(reads) \/ i = Len(reads) + 1
      BY <1>1
    <3>6. ReadsInv'
      BY <3>2, <3>3, <3>4, <3>5, <2>1 DEF ReadsInv
    <3>7. FlushedReads'
      BY <3>2, <2>1, <1>1 DEF FlushedReads
    <3> QED
      BY <3>2, <3>4, <3>6, <3>7, <2>1, <1>1 DEF FlushTypes, HandlesInv, UnseenInv, HandleOf, PtrType
  <2> QED BY <1>7, <2>2, <2>3, <2>4 DEF IFlush, SetupFails, PostFails
<1>8. ASSUME NEW r \in 1 .. Len(arrived), TestFlush(r) PROVE FlushInv'
  <2>1. arrived' = [arrived EXCEPT ![r].state = "read"] /\ UNCHANGED <<gdr, handles, unseen, reads>>
    BY <1>8 DEF TestFlush
  <2>2. r \notin unseen
    <3>1. PICK i \in 1 .. Len(reads) : reads[i].recv = r /\ reads[i].state = "executed"
      BY <1>8 DEF TestFlush
    <3>2. \A s \in unseen : r < s
      BY <3>1 DEF ReadsInv
    <3> QED BY <3>2
  <2>3. /\ arrived' \in Seq(Receives) /\ Len(arrived') = Len(arrived)
        /\ \A i \in 1 .. Len(arrived) :
             /\ arrived'[i].buf = arrived[i].buf /\ arrived'[i].size = arrived[i].size
             /\ arrived'[i].state = IF i = r THEN "read" ELSE arrived[i].state
    BY <2>1, <1>1, ReceiveStates, ArrivedOnward
  <2>4. FlushedReads'
    BY <2>1, <2>2, <2>3, <1>1 DEF FlushedReads
  <2> QED
    BY <2>1, <2>3, <2>4, <1>1 DEF FlushTypes, HandlesInv, UnseenInv, ReadsInv, HandleOf, PtrType
<1>9. ASSUME NEW r \in 1 .. Len(arrived), TestFails(r) PROVE FlushInv'
  BY <1>9 DEF TestFails, FlushTypes, HandlesInv, UnseenInv, ReadsInv, FlushedReads, HandleOf, PtrType
<1> QED BY <1>2, <1>3, <1>4, <1>5, <1>6, <1>7, <1>8, <1>9 DEF FlushNext

(* With the flush on, NCCL goes on with no data in GPU memory that the GPU *)
(* may not see: for any buffers, of any kind of memory, registered in any  *)
(* way, with or without the CUDA runtime, whatever fails.                  *)
THEOREM FlushTheorem == FlushSpec => []FlushedReads
<1>1. FlushInv => FlushedReads
  BY DEF FlushInv
<1> QED BY <1>1, FlushStarts, FlushKeeps, PTL DEF FlushSpec
====

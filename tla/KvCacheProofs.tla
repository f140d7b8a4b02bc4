---- MODULE KvCacheProofs ----
(***************************************************************************)
(* Proofs about the KV cache of vllm/v1/core/kv_cache_utils.py: the free   *)
(* list for any number of blocks, and the fitted length of the plan for    *)
(* any layers, memories and page sizes.                                    *)
(***************************************************************************)
EXTENDS FreeBlockQueue, KvPlan, DataLemmas

-----------------------------------------------------------------------------
(* The free list.  Every method that changes it either takes a run of      *)
(* neighbours out of it or puts a run of new blocks between two            *)
(* neighbours; the two lemmas about these carry the invariant and the      *)
(* refinement.                                                             *)


(* Where the list is at place k: the fakes stand at 0 and Len(s) + 1.      *)
Pos(s, k) == At(FakeHead, s, FakeTail, k)

IsLine(s) == numFree \in Nat /\ s \in [1 .. numFree -> Block] /\ Sound(s)

(* The invariant: the types of the links, and a sound order.               *)
LinkTypeOK ==
  /\ nextFree \in [Node -> Node \union {Null}] /\ prevFree \in [Node -> Node \union {Null}]
  /\ numFree \in Nat

QInv == LinkTypeOK /\ QueueInv

-----------------------------------------------------------------------------
(* Facts about places. *)

LEMMA Fakes ==
  /\ FakeHead \notin Block /\ FakeTail \notin Block /\ Null \notin Node
  /\ FakeHead # FakeTail /\ FakeHead \in Node /\ FakeTail \in Node /\ Block \subseteq Node
BY FakesAreNot DEF FakesAreNot, Node

LEMMA Places ==
  ASSUME NEW n \in Nat, NEW s \in [1 .. n -> Block]
  PROVE  /\ Pos(s, 0) = FakeHead /\ Pos(s, n + 1) = FakeTail
         /\ \A k \in 1 .. n : Pos(s, k) = s[k]
         /\ \A k \in 0 .. n + 1 : Pos(s, k) \in Node
BY LenIs, Fakes DEF Pos, At

LEMMA PlacesDiffer ==
  ASSUME NEW n \in Nat, NEW s \in [1 .. n -> Block], Distinct(s),
         NEW k \in 0 .. n + 1, NEW m \in 0 .. n + 1, Pos(s, k) = Pos(s, m)
  PROVE  k = m
<1>1. DOMAIN s = 1 .. n
  OBVIOUS
<1> QED BY <1>1, LenIs, Fakes DEF Pos, At, Distinct

(* The way back, in the places of the way there.                           *)
LEMMA WayBack ==
  ASSUME NEW n \in Nat, NEW s \in [1 .. n -> Block], NEW f
  PROVE  Chain(f, FakeTail, Backwards(s), FakeHead) <=> \A k \in 0 .. n : f[Pos(s, k + 1)] = Pos(s, k)
<1>1. Len(s) = n
  BY LenIs
<1>2. Backwards(s) \in [1 .. n -> Block]
  BY <1>1 DEF Backwards
<1>3. Len(Backwards(s)) = n
  BY <1>2, LenIs
<1>4. \A i \in 0 .. n + 1 : At(FakeTail, Backwards(s), FakeHead, i) = Pos(s, n + 1 - i)
  BY <1>1, <1>3 DEF At, Pos, Backwards
<1>5. Chain(f, FakeTail, Backwards(s), FakeHead) <=> \A i \in 0 .. n : f[Pos(s, n + 1 - i)] = Pos(s, n - i)
  <2>1. \A i \in 0 .. n : i \in 0 .. n + 1 /\ i + 1 \in 0 .. n + 1 /\ n + 1 - (i + 1) = n - i
    OBVIOUS
  <2> QED BY <1>3, <1>4, <2>1 DEF Chain
<1>6. \A k \in 0 .. n : n - k \in 0 .. n /\ n + 1 - (n - k) = k + 1 /\ n - (n - k) = k
                        /\ n + 1 - k = (n - k) + 1
  OBVIOUS
<1> QED BY <1>5, <1>6

(* The line in its places, free of Backwards.                              *)
LEMMA SoundIs ==
  ASSUME NEW n \in Nat, numFree = n, NEW s \in [1 .. n -> Block]
  PROVE  Sound(s) <=>
           /\ \A k \in 0 .. n : nextFree[Pos(s, k)] = Pos(s, k + 1)
           /\ \A k \in 0 .. n : prevFree[Pos(s, k + 1)] = Pos(s, k)
           /\ prevFree[FakeHead] = Null /\ nextFree[FakeTail] = Null
           /\ held = Block \ {s[i] : i \in 1 .. n}
           /\ \A b \in held : nextFree[b] = Null /\ prevFree[b] = Null
           /\ Distinct(s)
<1>1. Len(s) = n
  BY LenIs
<1>2. Chain(nextFree, FakeHead, s, FakeTail) <=> \A k \in 0 .. n : nextFree[Pos(s, k)] = Pos(s, k + 1)
  BY <1>1 DEF Chain, Pos
<1> QED BY <1>1, <1>2, WayBack DEF Sound

LEMMA SoundNext ==
  ASSUME NEW n \in Nat, numFree' = n, NEW s \in [1 .. n -> Block]
  PROVE  Sound(s)' <=>
           /\ \A k \in 0 .. n : nextFree'[Pos(s, k)] = Pos(s, k + 1)
           /\ \A k \in 0 .. n : prevFree'[Pos(s, k + 1)] = Pos(s, k)
           /\ prevFree'[FakeHead] = Null /\ nextFree'[FakeTail] = Null
           /\ held' = Block \ {s[i] : i \in 1 .. n}
           /\ \A b \in held' : nextFree'[b] = Null /\ prevFree'[b] = Null
           /\ Distinct(s)
<1>1. Len(s) = n
  BY LenIs
<1>2. Chain(nextFree', FakeHead, s, FakeTail) <=> \A k \in 0 .. n : nextFree'[Pos(s, k)] = Pos(s, k + 1)
  BY <1>1 DEF Chain, Pos
<1>3. Chain(prevFree', FakeTail, Backwards(s), FakeHead)
        <=> \A k \in 0 .. n : prevFree'[Pos(s, k + 1)] = Pos(s, k)
  BY WayBack
<1> QED BY <1>1, <1>2, <1>3 DEF Sound

(* There is one such line: the one that get_all_free_blocks returns.       *)
LEMMA OneLine ==
  ASSUME NEW s, NEW t, IsLine(s), t \in [1 .. numFree -> Block],
         Chain(nextFree, FakeHead, t, FakeTail)
  PROVE  s = t
<1> DEFINE n == numFree
           D == {i \in 1 .. n : s[i] # t[i]}
<1>1. n \in Nat /\ s \in [1 .. n -> Block] /\ t \in [1 .. n -> Block]
  BY DEF IsLine
<1>2. \A k \in 0 .. n : nextFree[Pos(s, k)] = Pos(s, k + 1)
  BY <1>1, SoundIs DEF IsLine
<1>3. \A k \in 0 .. n : nextFree[Pos(t, k)] = Pos(t, k + 1)
  BY <1>1, LenIs DEF Chain, Pos
<1>4. ASSUME D # {} PROVE FALSE
  <2>1. PICK i \in D : \A j \in D : i <= j
    <3>1. D \subseteq Nat
      BY <1>1
    <3> HIDE DEF D
    <3> QED BY <1>4, <3>1, Least
  <2>2. i \in 1 .. n /\ i - 1 \in 0 .. n /\ (i - 1) + 1 = i
    BY <1>1
  <2>3. Pos(s, i - 1) = Pos(t, i - 1)
    <3>1. CASE i = 1
      BY <3>1, <1>1, Places
    <3>2. CASE i # 1
      <4>1. i - 1 \in 1 .. n /\ i - 1 \notin D
        BY <2>1, <2>2, <3>2, <1>1
      <4> QED BY <4>1, <1>1, Places
    <3> QED BY <3>1, <3>2
  <2>4. Pos(s, i) = Pos(t, i)
    BY <1>2, <1>3, <2>2, <2>3
  <2> QED BY <2>1, <2>2, <2>4, <1>1, Places
<1> QED BY <1>1, <1>4

LEMMA FreeListIs ==
  ASSUME NEW s, IsLine(s)
  PROVE  FreeList = s
<1>1. s \in [1 .. numFree -> Block] /\ Chain(nextFree, FakeHead, s, FakeTail)
  BY DEF IsLine, Sound
<1> QED BY <1>1, OneLine DEF FreeList

-----------------------------------------------------------------------------
(* The two ways in which a method changes the list. *)

LEMMA RelinkedNone ==
  ASSUME NEW f, NEW l, NEW r, NEW gone, NEW x \in Node
  PROVE  /\ Relinked(f, l, <<>>, r, gone)[x] = IF x \in gone THEN Null ELSE IF x = l THEN r ELSE f[x]
         /\ Backwards(<<>>) = <<>>
<1>1. Len(<<>>) = 0
  OBVIOUS
<1>2. At(l, <<>>, r, 1) = r
  BY <1>1 DEF At
<1>3. ~ \E i \in 1 .. Len(<<>>) : <<>>[i] = x
  BY <1>1
<1>4. Backwards(<<>>) = <<>>
  BY <1>1 DEF Backwards
<1> QED BY <1>2, <1>3, <1>4 DEF Relinked

(* The places i + 1 to j leave.                                            *)
Without(s, n, i, j) ==
  [k \in 1 .. n - (j - i) |-> IF k <= i THEN s[k] ELSE s[k + (j - i)]]

LEMMA SpliceOut ==
  ASSUME NEW s, IsLine(s), LinkTypeOK, NEW n, n = numFree, NEW i \in 0 .. n, NEW j \in i .. n,
         Connect(Pos(s, i), <<>>, Pos(s, j + 1), {s[k] : k \in i + 1 .. j}),
         numFree' = n - (j - i),
         held' = held \union {s[k] : k \in i + 1 .. j}
  PROVE  LinkTypeOK' /\ IsLine(Without(s, n, i, j))'
<1> DEFINE m == n - (j - i)
           t == Without(s, n, i, j)
           gone == {s[k] : k \in i + 1 .. j}
           l == Pos(s, i)
           r == Pos(s, j + 1)
<1>1. /\ n \in Nat /\ s \in [1 .. n -> Block] /\ Distinct(s) /\ i \in 0 .. n /\ j \in i .. n
      /\ m \in Nat /\ numFree' = m /\ DOMAIN s = 1 .. n
  BY DEF IsLine, Sound
<1>2. /\ \A k \in 0 .. n : nextFree[Pos(s, k)] = Pos(s, k + 1)
      /\ \A k \in 0 .. n : prevFree[Pos(s, k + 1)] = Pos(s, k)
      /\ prevFree[FakeHead] = Null /\ nextFree[FakeTail] = Null
      /\ held = Block \ {s[k] : k \in 1 .. n}
      /\ \A b \in held : nextFree[b] = Null /\ prevFree[b] = Null
  BY <1>1, SoundIs DEF IsLine
<1>3. t \in [1 .. m -> Block]
  BY <1>1 DEF Without
<1>4. ASSUME NEW k \in 0 .. m + 1
      PROVE  Pos(t, k) = IF k <= i THEN Pos(s, k) ELSE Pos(s, k + (j - i))
  <2>1. CASE k = 0
    BY <2>1, <1>1, <1>3, Places
  <2>2. CASE k = m + 1
    <3>1. k + (j - i) = n + 1 /\ ~(k <= i)
      BY <2>2, <1>1
    <3> QED BY <2>2, <3>1, <1>1, <1>3, Places
  <2>3. CASE k \in 1 .. m
    <3>1. Pos(t, k) = t[k]
      BY <2>3, <1>1, <1>3, Places
    <3>2. CASE k <= i
      <4>1. k \in 1 .. n /\ t[k] = s[k]
        BY <2>3, <3>2, <1>1 DEF Without
      <4> QED BY <3>1, <3>2, <4>1, <1>1, Places
    <3>3. CASE ~(k <= i)
      <4>1. k + (j - i) \in 1 .. n /\ t[k] = s[k + (j - i)]
        BY <2>3, <3>3, <1>1 DEF Without
      <4> QED BY <3>1, <3>3, <4>1, <1>1, Places
    <3> QED BY <3>2, <3>3
  <2> QED BY <2>1, <2>2, <2>3, <1>1
<1>5. l \in Node /\ r \in Node /\ l \notin gone /\ r \notin gone /\ gone \subseteq Block
  <2>1. l \in Node /\ r \in Node
    BY <1>1, Places
  <2>2. ASSUME NEW k \in i + 1 .. j PROVE s[k] # l /\ s[k] # r /\ s[k] \in Block
    <3>1. k \in 1 .. n /\ k # i /\ k # j + 1 /\ k \in 0 .. n + 1 /\ i \in 0 .. n + 1 /\ j + 1 \in 0 .. n + 1
      BY <1>1
    <3>2. Pos(s, k) = s[k]
      BY <3>1, <1>1, Places
    <3> QED BY <3>1, <3>2, <1>1, PlacesDiffer
  <2> QED BY <2>1, <2>2
<1>6. \A x \in Node : /\ nextFree'[x] = IF x \in gone THEN Null ELSE IF x = l THEN r ELSE nextFree[x]
                      /\ prevFree'[x] = IF x \in gone THEN Null ELSE IF x = r THEN l ELSE prevFree[x]
  BY RelinkedNone DEF Connect
<1>7. LinkTypeOK'
  <2>1. DOMAIN nextFree' = Node /\ DOMAIN prevFree' = Node
    BY DEF Connect, Relinked
  <2>2. \A x \in Node : nextFree'[x] \in Node \union {Null} /\ prevFree'[x] \in Node \union {Null}
    BY <1>5, <1>6 DEF LinkTypeOK
  <2>3. nextFree' = [x \in Node |-> nextFree'[x]] /\ prevFree' = [x \in Node |-> prevFree'[x]]
    BY <2>1 DEF Connect, Relinked
  <2> QED BY <2>2, <2>3, <1>1 DEF LinkTypeOK
<1>8. ASSUME NEW k \in 0 .. m
      PROVE  nextFree'[Pos(t, k)] = Pos(t, k + 1) /\ prevFree'[Pos(t, k + 1)] = Pos(t, k)
  <2>1. CASE k < i
    <3>1. Pos(t, k) = Pos(s, k) /\ Pos(t, k + 1) = Pos(s, k + 1)
      BY <1>1, <1>4, <2>1
    <3>2. k \in 0 .. n /\ k + 1 \in 0 .. n + 1 /\ k # i /\ k + 1 # j + 1
      BY <1>1, <2>1
    <3>3. Pos(s, k) # l /\ Pos(s, k + 1) # r
      BY <3>2, <1>1, PlacesDiffer
    <3>4. Pos(s, k) \notin gone /\ Pos(s, k + 1) \notin gone
      <4>1. ASSUME NEW q \in i + 1 .. j PROVE s[q] # Pos(s, k) /\ s[q] # Pos(s, k + 1)
        <5>1. q \in 1 .. n /\ q # k /\ q # k + 1 /\ q \in 0 .. n + 1
          BY <1>1, <2>1
        <5>2. Pos(s, q) = s[q]
          BY <5>1, <1>1, Places
        <5> QED BY <5>1, <5>2, <3>2, <1>1, PlacesDiffer
      <4> QED BY <4>1
    <3>5. Pos(s, k) \in Node /\ Pos(s, k + 1) \in Node
      BY <3>2, <1>1, Places
    <3> QED BY <3>1, <3>2, <3>3, <3>4, <3>5, <1>2, <1>6
  <2>2. CASE k = i
    <3>1. Pos(t, k) = l /\ Pos(t, k + 1) = r
      <4>1. k + 1 + (j - i) = j + 1 /\ ~(k + 1 <= i) /\ k + 1 \in 0 .. m + 1 /\ k \in 0 .. m + 1 /\ k <= i
        BY <1>1, <2>2
      <4> QED BY <4>1, <1>4, <2>2
    <3> QED BY <3>1, <1>5, <1>6
  <2>3. CASE k > i
    <3> DEFINE q == k + (j - i)
    <3>1. Pos(t, k) = Pos(s, q) /\ Pos(t, k + 1) = Pos(s, q + 1)
      <4>1. /\ k + 1 + (j - i) = q + 1 /\ ~(k + 1 <= i) /\ ~(k <= i)
            /\ k + 1 \in 0 .. m + 1 /\ k \in 0 .. m + 1
        BY <1>1, <2>3
      <4> QED BY <4>1, <1>4
    <3>2. q \in 0 .. n /\ q + 1 \in 0 .. n + 1 /\ q # i /\ q # j /\ q + 1 # j + 1 /\ q > j
      BY <1>1, <2>3
    <3>3. Pos(s, q) # l /\ Pos(s, q + 1) # r
      BY <3>2, <1>1, PlacesDiffer
    <3>4. Pos(s, q) \notin gone /\ Pos(s, q + 1) \notin gone
      <4>1. ASSUME NEW p \in i + 1 .. j PROVE s[p] # Pos(s, q) /\ s[p] # Pos(s, q + 1)
        <5>1. p \in 1 .. n /\ p # q /\ p # q + 1 /\ p \in 0 .. n + 1
          BY <1>1, <3>2
        <5>2. Pos(s, p) = s[p]
          BY <5>1, <1>1, Places
        <5> QED BY <5>1, <5>2, <3>2, <1>1, PlacesDiffer
      <4> QED BY <4>1
    <3>5. Pos(s, q) \in Node /\ Pos(s, q + 1) \in Node
      BY <3>2, <1>1, Places
    <3> QED BY <3>1, <3>2, <3>3, <3>4, <3>5, <1>2, <1>6
  <2> QED BY <2>1, <2>2, <2>3, <1>1
<1>9. prevFree'[FakeHead] = Null /\ nextFree'[FakeTail] = Null
  <2>1. FakeHead # r /\ FakeTail # l
    <3>1. Pos(s, 0) = FakeHead /\ Pos(s, n + 1) = FakeTail
      BY <1>1, Places
    <3>2. 0 \in 0 .. n + 1 /\ n + 1 \in 0 .. n + 1 /\ j + 1 \in 0 .. n + 1 /\ i \in 0 .. n + 1
          /\ 0 # j + 1 /\ n + 1 # i
      BY <1>1
    <3> QED BY <3>1, <3>2, <1>1, PlacesDiffer
  <2>2. FakeHead \notin gone /\ FakeTail \notin gone
    BY <1>5, Fakes
  <2> QED BY <2>1, <2>2, <1>2, <1>6, Fakes
<1>10. {t[k] : k \in 1 .. m} = {s[k] : k \in 1 .. n} \ gone
  <2>1. ASSUME NEW k \in 1 .. m PROVE t[k] \in {s[p] : p \in 1 .. n} \ gone
    <3>1. PICK p \in 1 .. n : t[k] = s[p] /\ ~(p \in i + 1 .. j)
      <4>1. CASE k <= i
        BY <4>1, <1>1 DEF Without
      <4>2. CASE ~(k <= i)
        <5>1. k + (j - i) \in 1 .. n /\ ~(k + (j - i) \in i + 1 .. j) /\ t[k] = s[k + (j - i)]
          BY <4>2, <1>1 DEF Without
        <5> QED BY <5>1
      <4> QED BY <4>1, <4>2
    <3>2. \A q \in i + 1 .. j : q \in 1 .. n
      BY <1>1
    <3> QED BY <3>1, <3>2, <1>1 DEF Distinct
  <2>2. ASSUME NEW p \in 1 .. n, s[p] \notin gone PROVE \E k \in 1 .. m : t[k] = s[p]
    <3>1. p <= i \/ p > j
      BY <2>2, <1>1
    <3>2. CASE p <= i
      <4>1. p \in 1 .. m /\ t[p] = s[p]
        BY <3>2, <1>1 DEF Without
      <4> QED BY <4>1
    <3>3. CASE p > j
      <4>1. p - (j - i) \in 1 .. m /\ ~(p - (j - i) <= i) /\ (p - (j - i)) + (j - i) = p
        BY <3>3, <1>1
      <4>2. t[p - (j - i)] = s[p]
        BY <4>1 DEF Without
      <4> QED BY <4>1, <4>2
    <3> QED BY <3>1, <3>2, <3>3
  <2> HIDE DEF t, gone
  <2> QED BY <2>1, <2>2
<1>11. held' = Block \ {t[k] : k \in 1 .. m}
  <2>1. held' = held \union gone
    OBVIOUS
  <2> HIDE DEF gone
  <2> QED BY <2>1, <1>2, <1>5, <1>10
<1>12. \A b \in held' : nextFree'[b] = Null /\ prevFree'[b] = Null
  <2> SUFFICES ASSUME NEW b \in held' PROVE nextFree'[b] = Null /\ prevFree'[b] = Null
    OBVIOUS
  <2>1. CASE b \in gone
    BY <2>1, <1>5, <1>6, Fakes
  <2>2. CASE b \notin gone
    <3>1. b \in held /\ b \in Block
      BY <2>2, <1>2
    <3>2. b # l /\ b # r
      <4>1. \A k \in 0 .. n + 1 : Pos(s, k) \notin held
        <5>1. \A k \in 0 .. n + 1 : k = 0 \/ k = n + 1 \/ k \in 1 .. n
          BY <1>1
        <5> QED BY <5>1, <1>1, <1>2, Places, Fakes
      <4>2. i \in 0 .. n + 1 /\ j + 1 \in 0 .. n + 1
        BY <1>1
      <4> QED BY <4>1, <4>2, <3>1
    <3> QED BY <2>2, <3>1, <3>2, <1>2, <1>6, Fakes
  <2> QED BY <2>1, <2>2
<1>13. Distinct(t)
  <2>1. DOMAIN t = 1 .. m
    BY <1>3
  <2>2. ASSUME NEW p \in 1 .. m, NEW q \in 1 .. m, t[p] = t[q] PROVE p = q
    <3> DEFINE g(k) == IF k <= i THEN k ELSE k + (j - i)
    <3>1. \A k \in 1 .. m : g(k) \in 1 .. n /\ t[k] = s[g(k)]
      BY <1>1 DEF Without
    <3>2. g(p) = g(q)
      <4> HIDE DEF g, t
      <4> QED BY <3>1, <2>2, <1>1 DEF Distinct
    <3> QED BY <3>2, <1>1
  <2> QED BY <2>1, <2>2 DEF Distinct
<1> HIDE DEF t, gone
<1>14. Sound(t)'
  BY <1>1, <1>3, <1>8, <1>9, <1>11, <1>12, <1>13, SoundNext
<1> QED BY <1>1, <1>3, <1>7, <1>14 DEF IsLine, t

(* The blocks bs come in behind place i.                                   *)
With(s, n, i, m, bs) ==
  [k \in 1 .. n + m |-> IF k <= i THEN s[k] ELSE IF k <= i + m THEN bs[k - i] ELSE s[k - m]]

(* The links of g lead from l along bs to r, and elsewhere as those of f.  *)
Joins(g, f, l, bs, m, r) ==
  /\ g[l] = bs[1]
  /\ \A q \in 1 .. m : (q = m => g[bs[q]] = r) /\ (q # m => g[bs[q]] = bs[q + 1])
  /\ \A x \in Node : x # l /\ (\A q \in 1 .. m : bs[q] # x) => g[x] = f[x]

(* The same on the way back.                                               *)
JoinsBack(g, f, l, bs, m, r) ==
  /\ g[r] = bs[m]
  /\ \A q \in 1 .. m : (q = 1 => g[bs[q]] = l) /\ (q # 1 => g[bs[q]] = bs[q - 1])
  /\ \A x \in Node : x # r /\ (\A q \in 1 .. m : bs[q] # x) => g[x] = f[x]

LEMMA RelinkedThere ==
  ASSUME NEW f, NEW l, NEW r, NEW m \in Nat \ {0}, NEW bs \in [1 .. m -> Block], Distinct(bs),
         l \in Node, \A q \in 1 .. m : bs[q] # l
  PROVE  Joins(Relinked(f, l, bs, r, {}), f, l, bs, m, r)
<1>1. Len(bs) = m /\ DOMAIN bs = 1 .. m
  BY LenIs
<1>2. At(l, bs, r, 1) = bs[1]
  BY <1>1 DEF At
<1>3. ASSUME NEW q \in 1 .. m
      PROVE  /\ q = m => Relinked(f, l, bs, r, {})[bs[q]] = r
             /\ q # m => Relinked(f, l, bs, r, {})[bs[q]] = bs[q + 1]
  <2>1. bs[q] \in Node
    BY Fakes
  <2>2. (CHOOSE p \in 1 .. m : bs[p] = bs[q]) = q
    BY <1>1 DEF Distinct
  <2>3. (q = m => At(l, bs, r, q + 1) = r) /\ (q # m => At(l, bs, r, q + 1) = bs[q + 1])
    BY <1>1 DEF At
  <2>4. Relinked(f, l, bs, r, {})[bs[q]] = At(l, bs, r, (CHOOSE p \in 1 .. m : bs[p] = bs[q]) + 1)
    BY <2>1, <1>1 DEF Relinked
  <2> QED BY <2>2, <2>3, <2>4
<1>4. Relinked(f, l, bs, r, {})[l] = bs[1]
  BY <1>2 DEF Relinked
<1>5. ASSUME NEW x \in Node, x # l, \A q \in 1 .. m : bs[q] # x
      PROVE  Relinked(f, l, bs, r, {})[x] = f[x]
  BY <1>1, <1>5 DEF Relinked
<1> QED BY <1>3, <1>4, <1>5 DEF Joins

LEMMA RelinkedBack ==
  ASSUME NEW f, NEW l, NEW r, NEW m \in Nat \ {0}, NEW bs \in [1 .. m -> Block], Distinct(bs),
         r \in Node, \A q \in 1 .. m : bs[q] # r
  PROVE  JoinsBack(Relinked(f, r, Backwards(bs), l, {}), f, l, bs, m, r)
<1> DEFINE bw == Backwards(bs)
<1>1. Len(bs) = m /\ DOMAIN bs = 1 .. m
  BY LenIs
<1>0. bw \in [1 .. m -> Block]
  BY <1>1 DEF Backwards
<1>2. \A q \in 1 .. m : bw[q] = bs[m + 1 - q]
  BY <1>1 DEF Backwards
<1>3. \A q \in 1 .. m : m + 1 - q \in 1 .. m /\ bs[q] = bw[m + 1 - q]
  <2>1. \A q \in 1 .. m : m + 1 - q \in 1 .. m /\ m + 1 - (m + 1 - q) = q
    OBVIOUS
  <2> QED BY <1>2, <2>1
<1>4. Distinct(bw)
  <2>1. DOMAIN bw = 1 .. m
    BY <1>0
  <2>2. ASSUME NEW p \in 1 .. m, NEW q \in 1 .. m, bw[p] = bw[q] PROVE p = q
    <3>1. m + 1 - p = m + 1 - q
      BY <1>1, <1>2, <1>3, <2>2 DEF Distinct
    <3> QED BY <3>1
  <2> HIDE DEF bw
  <2> QED BY <2>1, <2>2 DEF Distinct
<1>5. \A q \in 1 .. m : bw[q] # r
  BY <1>2, <1>3
<1> HIDE DEF bw
<1>6. /\ Relinked(f, r, bw, l, {})[r] = bw[1]
      /\ \A q \in 1 .. m :
           /\ q = m => Relinked(f, r, bw, l, {})[bw[q]] = l
           /\ q # m => Relinked(f, r, bw, l, {})[bw[q]] = bw[q + 1]
      /\ \A x \in Node :
           x # r /\ (\A q \in 1 .. m : bw[q] # x) => Relinked(f, r, bw, l, {})[x] = f[x]
  <2>1. Joins(Relinked(f, r, bw, l, {}), f, r, bw, m, l)
    BY <1>0, <1>4, <1>5, RelinkedThere
  <2> QED BY <2>1 DEF Joins
<1>7. bw[1] = bs[m]
  <2>1. 1 \in 1 .. m /\ m + 1 - 1 = m
    OBVIOUS
  <2> QED BY <1>2, <2>1
<1>8. ASSUME NEW q \in 1 .. m
      PROVE  /\ q = 1 => Relinked(f, r, bw, l, {})[bs[q]] = l
             /\ q # 1 => Relinked(f, r, bw, l, {})[bs[q]] = bs[q - 1]
  <2> DEFINE p == m + 1 - q
  <2>1. p \in 1 .. m /\ bs[q] = bw[p] /\ (p = m <=> q = 1)
    BY <1>3
  <2>2. p # m => p + 1 \in 1 .. m /\ m + 1 - (p + 1) = q - 1
    BY <2>1
  <2> QED BY <1>2, <1>6, <2>1, <2>2
<1>9. ASSUME NEW x \in Node, x # r, \A q \in 1 .. m : bs[q] # x
      PROVE  Relinked(f, r, bw, l, {})[x] = f[x]
  BY <1>2, <1>3, <1>6, <1>9
<1> QED BY <1>6, <1>7, <1>8, <1>9 DEF bw, JoinsBack

LEMMA SpliceIn ==
  ASSUME NEW s, IsLine(s), LinkTypeOK, NEW n, n = numFree, NEW i \in 0 .. n,
         NEW m \in Nat \ {0}, NEW bs \in [1 .. m -> Block], Distinct(bs),
         \A q \in 1 .. m : bs[q] \in held,
         Connect(Pos(s, i), bs, Pos(s, i + 1), {}),
         numFree' = n + m, held' = held \ {bs[q] : q \in 1 .. m}
  PROVE  LinkTypeOK' /\ IsLine(With(s, n, i, m, bs))'
<1> DEFINE t == With(s, n, i, m, bs)
           l == Pos(s, i)
           r == Pos(s, i + 1)
<1>1. /\ n \in Nat /\ s \in [1 .. n -> Block] /\ Distinct(s) /\ i \in 0 .. n
      /\ n + m \in Nat /\ DOMAIN s = 1 .. n /\ DOMAIN bs = 1 .. m
  BY DEF IsLine, Sound
<1>2. /\ \A k \in 0 .. n : nextFree[Pos(s, k)] = Pos(s, k + 1)
      /\ \A k \in 0 .. n : prevFree[Pos(s, k + 1)] = Pos(s, k)
      /\ prevFree[FakeHead] = Null /\ nextFree[FakeTail] = Null
      /\ held = Block \ {s[k] : k \in 1 .. n}
      /\ \A b \in held : nextFree[b] = Null /\ prevFree[b] = Null
  BY <1>1, SoundIs DEF IsLine
<1>3. t \in [1 .. n + m -> Block]
  BY <1>1 DEF With
<1>4. ASSUME NEW k \in 0 .. n + m + 1
      PROVE  Pos(t, k) = IF k <= i THEN Pos(s, k) ELSE IF k <= i + m THEN bs[k - i] ELSE Pos(s, k - m)
  <2>1. CASE k = 0
    BY <2>1, <1>1, <1>3, Places
  <2>2. CASE k = n + m + 1
    <3>1. k - m = n + 1 /\ ~(k <= i) /\ ~(k <= i + m) /\ k = (n + m) + 1
      BY <2>2, <1>1
    <3> QED BY <2>2, <3>1, <1>1, <1>3, Places
  <2>3. CASE k \in 1 .. n + m
    <3>1. Pos(t, k) = t[k]
      BY <2>3, <1>1, <1>3, Places
    <3>2. CASE k <= i
      <4>1. k \in 1 .. n /\ t[k] = s[k]
        BY <2>3, <3>2, <1>1 DEF With
      <4> QED BY <3>1, <3>2, <4>1, <1>1, Places
    <3>3. CASE ~(k <= i) /\ k <= i + m
      BY <2>3, <3>1, <3>3, <1>1 DEF With
    <3>4. CASE ~(k <= i) /\ ~(k <= i + m)
      <4>1. k - m \in 1 .. n /\ t[k] = s[k - m]
        BY <2>3, <3>4, <1>1 DEF With
      <4> QED BY <3>1, <3>4, <4>1, <1>1, Places
    <3> QED BY <3>2, <3>3, <3>4
  <2> QED BY <2>1, <2>2, <2>3, <1>1
<1>5. \A k \in 0 .. n + 1, q \in 1 .. m : Pos(s, k) \in Node /\ bs[q] # Pos(s, k)
  <2> SUFFICES ASSUME NEW k \in 0 .. n + 1, NEW q \in 1 .. m
               PROVE  Pos(s, k) \in Node /\ bs[q] # Pos(s, k)
    OBVIOUS
  <2>1. k = 0 \/ k = n + 1 \/ k \in 1 .. n
    BY <1>1
  <2> QED BY <2>1, <1>1, <1>2, Places, Fakes
<1>6. l \in Node /\ r \in Node /\ \A q \in 1 .. m : bs[q] # l /\ bs[q] # r
  <2>1. i \in 0 .. n + 1 /\ i + 1 \in 0 .. n + 1
    BY <1>1
  <2> QED BY <2>1, <1>5
<1>7. /\ nextFree'[l] = bs[1] /\ prevFree'[r] = bs[m]
      /\ \A q \in 1 .. m :
           /\ (q = m => nextFree'[bs[q]] = r) /\ (q # m => nextFree'[bs[q]] = bs[q + 1])
           /\ (q = 1 => prevFree'[bs[q]] = l) /\ (q # 1 => prevFree'[bs[q]] = bs[q - 1])
      /\ \A x \in Node : (\A q \in 1 .. m : bs[q] # x) =>
           (x # l => nextFree'[x] = nextFree[x]) /\ (x # r => prevFree'[x] = prevFree[x])
  <2>1. Joins(nextFree', nextFree, l, bs, m, r)
    BY <1>6, RelinkedThere DEF Connect
  <2>2. JoinsBack(prevFree', prevFree, l, bs, m, r)
    BY <1>6, RelinkedBack DEF Connect
  <2> QED BY <2>1, <2>2 DEF Joins, JoinsBack
<1>8. LinkTypeOK'
  <2>1. ASSUME NEW x \in Node
        PROVE  nextFree'[x] \in Node \union {Null} /\ prevFree'[x] \in Node \union {Null}
    <3>1. CASE \E q \in 1 .. m : bs[q] = x
      <4>1. PICK q \in 1 .. m : bs[q] = x
        BY <3>1
      <4>2. (q # m => bs[q + 1] \in Block) /\ (q # 1 => bs[q - 1] \in Block)
        OBVIOUS
      <4> QED BY <4>1, <4>2, <1>6, <1>7, Fakes
    <3>2. CASE \A q \in 1 .. m : bs[q] # x
      <4>1. bs[1] \in Block /\ bs[m] \in Block
        OBVIOUS
      <4> QED BY <3>2, <4>1, <1>7, Fakes DEF LinkTypeOK
    <3> QED BY <3>1, <3>2
  <2>2. nextFree' = [x \in Node |-> nextFree'[x]] /\ prevFree' = [x \in Node |-> prevFree'[x]]
    BY DEF Connect, Relinked
  <2> QED BY <2>1, <2>2, <1>1 DEF LinkTypeOK
<1>9. ASSUME NEW k \in 0 .. n + m
      PROVE  nextFree'[Pos(t, k)] = Pos(t, k + 1) /\ prevFree'[Pos(t, k + 1)] = Pos(t, k)
  <2>1. CASE k < i
    <3>1. /\ Pos(t, k) = Pos(s, k) /\ Pos(t, k + 1) = Pos(s, k + 1)
      <4>1. k \in 0 .. n + m + 1 /\ k + 1 \in 0 .. n + m + 1 /\ k <= i /\ k + 1 <= i
        BY <1>1, <2>1
      <4> QED BY <1>4, <4>1
    <3>2. k \in 0 .. n /\ k + 1 \in 0 .. n + 1 /\ k # i /\ k + 1 # i + 1 /\ k \in 0 .. n + 1
          /\ i \in 0 .. n + 1 /\ i + 1 \in 0 .. n + 1
      BY <1>1, <2>1
    <3>3. Pos(s, k) # l /\ Pos(s, k + 1) # r
      BY <3>2, <1>1, PlacesDiffer
    <3> QED BY <3>1, <3>2, <3>3, <1>2, <1>5, <1>7
  <2>2. CASE k = i
    <3>1. k + 1 \in 0 .. n + m + 1 /\ ~(k + 1 <= i) /\ k + 1 <= i + m /\ (k + 1) - i = 1 /\ k \in 0 .. n + m + 1
      BY <1>1, <2>2
    <3>2. Pos(t, k) = l /\ Pos(t, k + 1) = bs[1]
      BY <2>2, <3>1, <1>4
    <3>3. 1 \in 1 .. m
      OBVIOUS
    <3> QED BY <3>2, <3>3, <1>7
  <2>3. CASE k > i /\ k < i + m
    <3>1. /\ k \in 0 .. n + m + 1 /\ k + 1 \in 0 .. n + m + 1 /\ ~(k <= i) /\ ~(k + 1 <= i) /\ k <= i + m
          /\ k + 1 <= i + m /\ (k + 1) - i = (k - i) + 1 /\ k - i \in 1 .. m /\ k - i # m
          /\ (k - i) + 1 \in 1 .. m /\ (k - i) + 1 # 1 /\ ((k - i) + 1) - 1 = k - i
      BY <1>1, <2>3
    <3>2. Pos(t, k) = bs[k - i] /\ Pos(t, k + 1) = bs[(k - i) + 1]
      BY <3>1, <1>4
    <3> QED BY <3>1, <3>2, <1>7
  <2>4. CASE k = i + m
    <3>1. /\ k \in 0 .. n + m + 1 /\ k + 1 \in 0 .. n + m + 1 /\ ~(k <= i) /\ ~(k + 1 <= i)
          /\ ~(k + 1 <= i + m) /\ k <= i + m /\ (k + 1) - m = i + 1 /\ k - i = m /\ m \in 1 .. m
      BY <1>1, <2>4
    <3>2. Pos(t, k) = bs[m] /\ Pos(t, k + 1) = r
      BY <3>1, <1>4
    <3> QED BY <3>1, <3>2, <1>7
  <2>5. CASE k > i + m
    <3> DEFINE q == k - m
    <3>1. /\ k \in 0 .. n + m + 1 /\ k + 1 \in 0 .. n + m + 1 /\ ~(k <= i) /\ ~(k + 1 <= i)
          /\ ~(k <= i + m) /\ ~(k + 1 <= i + m) /\ (k + 1) - m = q + 1
          /\ q \in 0 .. n /\ q + 1 \in 0 .. n + 1 /\ q # i /\ q + 1 # i + 1 /\ q \in 0 .. n + 1
          /\ i \in 0 .. n + 1 /\ i + 1 \in 0 .. n + 1
      BY <1>1, <2>5
    <3>2. Pos(t, k) = Pos(s, q) /\ Pos(t, k + 1) = Pos(s, q + 1)
      BY <3>1, <1>4
    <3>3. Pos(s, q) # l /\ Pos(s, q + 1) # r
      BY <3>1, <1>1, PlacesDiffer
    <3> HIDE DEF q
    <3>4. nextFree[Pos(s, q)] = Pos(s, q + 1) /\ prevFree[Pos(s, q + 1)] = Pos(s, q)
      BY <3>1, <1>2
    <3>5. /\ nextFree'[Pos(s, q)] = nextFree[Pos(s, q)]
          /\ prevFree'[Pos(s, q + 1)] = prevFree[Pos(s, q + 1)]
      BY <3>1, <3>3, <1>5, <1>7
    <3> QED BY <3>2, <3>4, <3>5
  <2> QED BY <2>1, <2>2, <2>3, <2>4, <2>5, <1>1
<1>10. prevFree'[FakeHead] = Null /\ nextFree'[FakeTail] = Null
  <2>1. Pos(s, 0) = FakeHead /\ Pos(s, n + 1) = FakeTail
    BY <1>1, Places
  <2>2. 0 \in 0 .. n + 1 /\ n + 1 \in 0 .. n + 1 /\ i + 1 \in 0 .. n + 1 /\ i \in 0 .. n + 1
        /\ 0 # i + 1 /\ n + 1 # i
    BY <1>1
  <2>3. FakeHead # r /\ FakeTail # l
    BY <2>1, <2>2, <1>1, PlacesDiffer
  <2>4. \A q \in 1 .. m : bs[q] # FakeHead /\ bs[q] # FakeTail
    BY Fakes
  <2> QED BY <2>3, <2>4, <1>2, <1>7, Fakes
<1>11. {t[k] : k \in 1 .. n + m} = {s[k] : k \in 1 .. n} \union {bs[q] : q \in 1 .. m}
  <2>1. ASSUME NEW k \in 1 .. n + m
        PROVE  (\E p \in 1 .. n : t[k] = s[p]) \/ (\E q \in 1 .. m : t[k] = bs[q])
    <3>1. CASE k <= i
      <4>1. k \in 1 .. n /\ t[k] = s[k]
        BY <3>1, <1>1 DEF With
      <4> QED BY <4>1
    <3>2. CASE ~(k <= i) /\ k <= i + m
      <4>1. k - i \in 1 .. m /\ t[k] = bs[k - i]
        BY <3>2, <1>1 DEF With
      <4> QED BY <4>1
    <3>3. CASE ~(k <= i) /\ ~(k <= i + m)
      <4>1. k - m \in 1 .. n /\ t[k] = s[k - m]
        BY <3>3, <1>1 DEF With
      <4> QED BY <4>1
    <3> QED BY <3>1, <3>2, <3>3
  <2>2. ASSUME NEW p \in 1 .. n PROVE \E k \in 1 .. n + m : t[k] = s[p]
    <3>1. CASE p <= i
      <4>1. p \in 1 .. n + m /\ t[p] = s[p]
        BY <3>1, <1>1 DEF With
      <4> QED BY <4>1
    <3>2. CASE ~(p <= i)
      <4>1. p + m \in 1 .. n + m /\ ~(p + m <= i) /\ ~(p + m <= i + m) /\ (p + m) - m = p
        BY <3>2, <1>1
      <4>2. t[p + m] = s[p]
        BY <4>1 DEF With
      <4> QED BY <4>1, <4>2
    <3> QED BY <3>1, <3>2
  <2>3. ASSUME NEW q \in 1 .. m PROVE \E k \in 1 .. n + m : t[k] = bs[q]
    <3>1. q + i \in 1 .. n + m /\ ~(q + i <= i) /\ q + i <= i + m /\ (q + i) - i = q
      BY <1>1
    <3>2. t[q + i] = bs[q]
      BY <3>1 DEF With
    <3> QED BY <3>1, <3>2
  <2> HIDE DEF t
  <2>4. {t[k] : k \in 1 .. n + m} \subseteq {s[k] : k \in 1 .. n} \union {bs[q] : q \in 1 .. m}
    BY <2>1
  <2>5. {s[k] : k \in 1 .. n} \union {bs[q] : q \in 1 .. m} \subseteq {t[k] : k \in 1 .. n + m}
    BY <2>2, <2>3
  <2> QED BY <2>4, <2>5
<1>12. held' = Block \ {t[k] : k \in 1 .. n + m}
  <2> HIDE DEF t
  <2> QED BY <1>2, <1>11
<1>13. \A b \in held' : nextFree'[b] = Null /\ prevFree'[b] = Null
  <2> SUFFICES ASSUME NEW b \in held' PROVE nextFree'[b] = Null /\ prevFree'[b] = Null
    OBVIOUS
  <2>1. b \in held /\ b \in Node /\ \A q \in 1 .. m : bs[q] # b
    BY <1>2, Fakes
  <2>2. b # l /\ b # r
    <3>1. \A k \in 0 .. n + 1 : Pos(s, k) \notin held
      <4>1. \A k \in 0 .. n + 1 : k = 0 \/ k = n + 1 \/ k \in 1 .. n
        BY <1>1
      <4> QED BY <4>1, <1>1, <1>2, Places, Fakes
    <3>2. i \in 0 .. n + 1 /\ i + 1 \in 0 .. n + 1
      BY <1>1
    <3> QED BY <2>1, <3>1, <3>2
  <2> QED BY <2>1, <2>2, <1>2, <1>7
<1>14. Distinct(t)
  <2>1. \A q \in 1 .. m, p \in 1 .. n : bs[q] # s[p]
    BY <1>2
  <2>2. ASSUME NEW p \in 1 .. n + m, NEW q \in 1 .. n + m, t[p] = t[q], p < q PROVE FALSE
    <3>1. CASE q <= i
      <4>0. p \in 1 .. n /\ q \in 1 .. n /\ p <= i
        BY <2>2, <3>1, <1>1
      <4>1. p \in 1 .. n /\ q \in 1 .. n /\ t[p] = s[p] /\ t[q] = s[q]
        BY <3>1, <4>0 DEF With
      <4>2. s[p] = s[q]
        BY <2>2, <4>1
      <4>3. p = q
        BY <1>1, <4>0, <4>2 DEF Distinct
      <4> QED BY <2>2, <4>3
    <3>2. CASE p <= i /\ ~(q <= i) /\ q <= i + m
      <4>1. p \in 1 .. n /\ q - i \in 1 .. m /\ t[p] = s[p] /\ t[q] = bs[q - i]
        BY <3>2, <1>1 DEF With
      <4> QED BY <4>1, <2>1, <2>2
    <3>3. CASE p <= i /\ ~(q <= i) /\ ~(q <= i + m)
      <4>1. p \in 1 .. n /\ q - m \in 1 .. n /\ p # q - m /\ t[p] = s[p] /\ t[q] = s[q - m]
        BY <3>3, <1>1 DEF With
      <4> QED BY <4>1, <2>2, <1>1 DEF Distinct
    <3>4. CASE ~(p <= i) /\ q <= i + m
      <4>1. p - i \in 1 .. m /\ q - i \in 1 .. m /\ p - i # q - i /\ t[p] = bs[p - i] /\ t[q] = bs[q - i]
        BY <2>2, <3>4, <1>1 DEF With
      <4> QED BY <4>1, <2>2, <1>1 DEF Distinct
    <3>5. CASE ~(p <= i) /\ p <= i + m /\ ~(q <= i + m)
      <4>1. p - i \in 1 .. m /\ q - m \in 1 .. n /\ t[p] = bs[p - i] /\ t[q] = s[q - m]
        BY <3>5, <1>1 DEF With
      <4> QED BY <4>1, <2>1, <2>2
    <3>6. CASE ~(p <= i + m)
      <4>1. p - m \in 1 .. n /\ q - m \in 1 .. n /\ p - m # q - m /\ t[p] = s[p - m] /\ t[q] = s[q - m]
        BY <2>2, <3>6, <1>1 DEF With
      <4> QED BY <4>1, <2>2, <1>1 DEF Distinct
    <3> QED BY <2>2, <3>1, <3>2, <3>3, <3>4, <3>5, <3>6, <1>1
  <2>3. DOMAIN t = 1 .. n + m
    BY <1>3
  <2> HIDE DEF t
  <2>4. ASSUME NEW p \in 1 .. n + m, NEW q \in 1 .. n + m, t[p] = t[q] PROVE p = q
    <3>1. p < q \/ q < p \/ p = q
      BY <1>1
    <3> QED BY <3>1, <2>2, <2>4
  <2> QED BY <2>3, <2>4 DEF Distinct
<1> HIDE DEF t
<1>15. Sound(t)'
  BY <1>1, <1>3, <1>9, <1>10, <1>12, <1>13, <1>14, SoundNext
<1> QED BY <1>1, <1>3, <1>8, <1>15 DEF IsLine, t
-----------------------------------------------------------------------------
(* The lines of the two lemmas as sequences. *)

LEMMA Front ==
  ASSUME NEW n \in Nat, NEW s \in [1 .. n -> Block], NEW a \in Nat, NEW b \in 0 .. n,
         1 <= a, a <= b + 1
  PROVE  /\ SubSeq(s, a, b) \in Seq(Block) /\ Len(SubSeq(s, a, b)) = b - a + 1
         /\ \A k \in 1 .. b - a + 1 : SubSeq(s, a, b)[k] = s[a + k - 1]
<1>1. \A k \in a .. b : s[k] \in Block
  OBVIOUS
<1>2. a \in Int /\ b \in Int
  OBVIOUS
<1>3. /\ SubSeq(s, a, b) \in Seq(Block)
      /\ Len(SubSeq(s, a, b)) = IF a <= b THEN b - a + 1 ELSE 0
      /\ \A k \in 1 .. b - a + 1 : SubSeq(s, a, b)[k] = s[a + k - 1]
  BY <1>1, <1>2, SubSeqProperties
<1>4. ~(a <= b) => b - a + 1 = 0
  OBVIOUS
<1> QED BY <1>3, <1>4

LEMMA FrontGone ==
  ASSUME NEW n \in Nat, NEW s \in [1 .. n -> Block], NEW j \in 0 .. n
  PROVE  Without(s, n, 0, j) = SubSeq(s, j + 1, Len(s))
<1> DEFINE a == SubSeq(s, j + 1, n)
           w == Without(s, n, 0, j)
<1>1. Len(s) = n
  BY LenIs
<1>2. a \in Seq(Block) /\ Len(a) = n - j /\ \A k \in 1 .. n - j : a[k] = s[k + j]
  <2>1. /\ j + 1 \in Nat /\ n \in 0 .. n /\ 1 <= j + 1 /\ j + 1 <= n + 1 /\ n - (j + 1) + 1 = n - j
        /\ \A k \in 1 .. n - j : (j + 1) + k - 1 = k + j
    OBVIOUS
  <2>2. /\ a \in Seq(Block) /\ Len(a) = n - (j + 1) + 1
        /\ \A k \in 1 .. n - (j + 1) + 1 : a[k] = s[(j + 1) + k - 1]
    BY <2>1, Front
  <2> HIDE DEF a
  <2> QED BY <2>1, <2>2
<1>3. w \in [1 .. n - j -> Block] /\ \A k \in 1 .. n - j : w[k] = s[k + j]
  <2>1. n - (j - 0) = n - j /\ \A k \in 1 .. n - j : ~(k <= 0) /\ k + (j - 0) = k + j /\ k + j \in 1 .. n
    OBVIOUS
  <2> QED BY <2>1 DEF Without
<1>4. n - j \in Nat
  OBVIOUS
<1>5. w \in Seq(Block) /\ Len(w) = n - j
  BY <1>3, <1>4, LenIs
<1> HIDE DEF a, w
<1>6. a = w
  BY <1>2, <1>3, <1>5, SeqEqual
<1> QED BY <1>1, <1>6 DEF a, w

LEMMA OneGone ==
  ASSUME NEW n \in Nat, NEW s \in [1 .. n -> Block], NEW i \in 1 .. n
  PROVE  Without(s, n, i - 1, i) = SubSeq(s, 1, i - 1) \o SubSeq(s, i + 1, Len(s))
<1> DEFINE a == SubSeq(s, 1, i - 1)
           b == SubSeq(s, i + 1, n)
           w == Without(s, n, i - 1, i)
<1>1. Len(s) = n
  BY LenIs
<1>2. a \in Seq(Block) /\ Len(a) = i - 1 /\ \A k \in 1 .. i - 1 : a[k] = s[k]
  <2>1. /\ i - 1 \in 0 .. n /\ 1 <= (i - 1) + 1 /\ (i - 1) - 1 + 1 = i - 1
        /\ \A k \in 1 .. i - 1 : 1 + k - 1 = k
    OBVIOUS
  <2>2. /\ a \in Seq(Block) /\ Len(a) = (i - 1) - 1 + 1
        /\ \A k \in 1 .. (i - 1) - 1 + 1 : a[k] = s[1 + k - 1]
    BY <2>1, Front
  <2> HIDE DEF a
  <2> QED BY <2>1, <2>2
<1>3. b \in Seq(Block) /\ Len(b) = n - i /\ \A k \in 1 .. n - i : b[k] = s[k + i]
  <2>1. /\ i + 1 \in Nat /\ n \in 0 .. n /\ 1 <= i + 1 /\ i + 1 <= n + 1 /\ n - (i + 1) + 1 = n - i
        /\ \A k \in 1 .. n - i : (i + 1) + k - 1 = k + i
    OBVIOUS
  <2>2. /\ b \in Seq(Block) /\ Len(b) = n - (i + 1) + 1
        /\ \A k \in 1 .. n - (i + 1) + 1 : b[k] = s[(i + 1) + k - 1]
    BY <2>1, Front
  <2> HIDE DEF b
  <2> QED BY <2>1, <2>2
<1>4. w \in [1 .. n - 1 -> Block] /\ \A k \in 1 .. n - 1 : w[k] = IF k <= i - 1 THEN s[k] ELSE s[k + 1]
  <2>1. i - (i - 1) = 1 /\ \A k \in 1 .. n - 1 : k \in 1 .. n /\ k + 1 \in 1 .. n
    OBVIOUS
  <2> QED BY <2>1 DEF Without
<1>5. n - 1 \in Nat /\ (i - 1) + (n - i) = n - 1
  OBVIOUS
<1>6. w \in Seq(Block) /\ Len(w) = n - 1
  BY <1>4, <1>5, LenIs
<1> HIDE DEF a, b, w
<1>7. /\ a \o b \in Seq(Block) /\ Len(a \o b) = Len(a) + Len(b)
      /\ \A k \in 1 .. Len(a) + Len(b) : (a \o b)[k] = IF k <= Len(a) THEN a[k] ELSE b[k - Len(a)]
  BY <1>2, <1>3, ConcatProperties
<1>8. Len(a \o b) = n - 1
  BY <1>2, <1>3, <1>5, <1>7
<1>9. ASSUME NEW k \in 1 .. n - 1 PROVE (a \o b)[k] = w[k]
  <2>1. (a \o b)[k] = IF k <= i - 1 THEN a[k] ELSE b[k - (i - 1)]
    BY <1>2, <1>3, <1>5, <1>7
  <2>2. CASE k <= i - 1
    <3>1. k \in 1 .. i - 1
      BY <2>2
    <3> QED BY <2>1, <2>2, <3>1, <1>2, <1>4
  <2>3. CASE ~(k <= i - 1)
    <3>1. k - (i - 1) \in 1 .. n - i /\ (k - (i - 1)) + i = k + 1
      BY <2>3
    <3>2. b[k - (i - 1)] = s[k + 1]
      BY <3>1, <1>3
    <3> QED BY <2>1, <2>3, <3>2, <1>4
  <2> QED BY <2>2, <2>3
<1>10. a \o b = w
  BY <1>6, <1>7, <1>8, <1>9, SeqEqual
<1> QED BY <1>1, <1>10 DEF a, b, w

LEMMA LastIn ==
  ASSUME NEW n \in Nat, NEW s \in [1 .. n -> Block], NEW m \in Nat, NEW bs \in [1 .. m -> Block]
  PROVE  With(s, n, n, m, bs) = s \o bs
<1> DEFINE w == With(s, n, n, m, bs)
<1>1. Len(s) = n /\ s \in Seq(Block) /\ Len(bs) = m /\ bs \in Seq(Block)
  BY LenIs
<1>2. w \in [1 .. n + m -> Block] /\ \A k \in 1 .. n + m : w[k] = IF k <= n THEN s[k] ELSE bs[k - n]
  BY DEF With
<1>3. w \in Seq(Block) /\ Len(w) = n + m
  BY <1>2, LenIs
<1> HIDE DEF w
<1>4. /\ s \o bs \in Seq(Block) /\ Len(s \o bs) = n + m
      /\ \A k \in 1 .. n + m : (s \o bs)[k] = IF k <= n THEN s[k] ELSE bs[k - n]
  BY <1>1, ConcatProperties
<1>5. w = s \o bs
  BY <1>2, <1>3, <1>4, SeqEqual
<1> QED BY <1>5 DEF w

LEMMA FirstIn ==
  ASSUME NEW n \in Nat, NEW s \in [1 .. n -> Block], NEW m \in Nat, NEW bs \in [1 .. m -> Block]
  PROVE  With(s, n, 0, m, bs) = bs \o s
<1> DEFINE w == With(s, n, 0, m, bs)
<1>1. Len(s) = n /\ s \in Seq(Block) /\ Len(bs) = m /\ bs \in Seq(Block)
  BY LenIs
<1>2. w \in [1 .. m + n -> Block] /\ \A k \in 1 .. m + n : w[k] = IF k <= m THEN bs[k] ELSE s[k - m]
  BY DEF With
<1>3. w \in Seq(Block) /\ Len(w) = m + n
  BY <1>2, LenIs
<1> HIDE DEF w
<1>4. /\ bs \o s \in Seq(Block) /\ Len(bs \o s) = m + n
      /\ \A k \in 1 .. m + n : (bs \o s)[k] = IF k <= m THEN bs[k] ELSE s[k - m]
  BY <1>1, ConcatProperties
<1>5. w = bs \o s
  BY <1>2, <1>3, <1>4, SeqEqual
<1> QED BY <1>5 DEF w

-----------------------------------------------------------------------------
(* The calls, as what they do to the line s.                               *)

TakeStep(s, t) ==
  /\ queueCall'.op = "take" /\ queueCall'.n \in Nat
  /\ IF queueCall'.n <= Len(s)
     THEN /\ t = SubSeq(s, queueCall'.n + 1, Len(s))
          /\ queueRet' = [raised |-> "", blocks |-> SubSeq(s, 1, queueCall'.n)]
     ELSE queueRet'.raised # "" /\ t = s

ReuseStep(s, t) ==
  /\ queueCall'.op = "reuse"
  /\ IF queueCall'.block \in {s[i] : i \in 1 .. Len(s)}
     THEN \E i \in 1 .. Len(s) :
            /\ s[i] = queueCall'.block
            /\ t = SubSeq(s, 1, i - 1) \o SubSeq(s, i + 1, Len(s))
            /\ queueRet' = [raised |-> "", blocks |-> <<>>]
     ELSE queueRet'.raised # "" /\ t = s

GiveStep(s, t) ==
  /\ queueCall'.op \in {"last", "first"}
  /\ queueCall'.blocks \in Seq(Block \ {s[i] : i \in 1 .. Len(s)})
  /\ \A i, j \in 1 .. Len(queueCall'.blocks) : queueCall'.blocks[i] = queueCall'.blocks[j] => i = j
  /\ t = IF queueCall'.op = "last" THEN s \o queueCall'.blocks ELSE queueCall'.blocks \o s
  /\ queueRet' = [raised |-> "", blocks |-> <<>>]

LEMMA Idle ==
  ASSUME NEW s, IsLine(s), LinkTypeOK, UNCHANGED links
  PROVE  LinkTypeOK' /\ IsLine(s)'
<1>1. numFree' = numFree /\ Sound(s)' = Sound(s)
  BY DEF links, Sound, Chain
<1> QED BY <1>1 DEF IsLine, LinkTypeOK, links

(* What every proof about a call starts from.                              *)
LEMMA LineIs ==
  ASSUME NEW s, IsLine(s)
  PROVE  \E n \in Nat :
           /\ numFree = n /\ s \in [1 .. n -> Block] /\ Len(s) = n /\ s \in Seq(Block) /\ DOMAIN s = 1 .. n
           /\ Distinct(s) /\ Pos(s, 0) = FakeHead /\ Pos(s, n + 1) = FakeTail
           /\ \A k \in 1 .. n : Pos(s, k) = s[k]
           /\ \A k \in 0 .. n : nextFree[Pos(s, k)] = Pos(s, k + 1)
           /\ \A k \in 0 .. n : prevFree[Pos(s, k + 1)] = Pos(s, k)
           /\ held = Block \ {s[k] : k \in 1 .. n}
           /\ \A b \in held : nextFree[b] = Null /\ prevFree[b] = Null
<1>1. numFree \in Nat /\ s \in [1 .. numFree -> Block] /\ Distinct(s)
  BY DEF IsLine, Sound
<1>2. Len(s) = numFree /\ s \in Seq(Block) /\ DOMAIN s = 1 .. numFree
  BY <1>1, LenIs
<1>3. Sound(s)
  BY DEF IsLine
<1>4. /\ \A k \in 0 .. numFree : nextFree[Pos(s, k)] = Pos(s, k + 1)
      /\ \A k \in 0 .. numFree : prevFree[Pos(s, k + 1)] = Pos(s, k)
      /\ held = Block \ {s[k] : k \in 1 .. numFree}
      /\ \A b \in held : nextFree[b] = Null /\ prevFree[b] = Null
  BY <1>1, <1>3, SoundIs
<1>5. /\ Pos(s, 0) = FakeHead /\ Pos(s, numFree + 1) = FakeTail
      /\ \A k \in 1 .. numFree : Pos(s, k) = s[k]
  BY <1>1, Places
<1> QED BY <1>1, <1>2, <1>4, <1>5

(* The first j blocks leave.                                               *)
LEMMA FrontLeaves ==
  ASSUME NEW s, IsLine(s), LinkTypeOK, NEW n, n = numFree, NEW j \in 0 .. n, NEW gone,
         gone = {s[k] : k \in 1 .. j},
         Connect(FakeHead, <<>>, Pos(s, j + 1), gone),
         numFree' = n - j, held' = held \union gone
  PROVE  LinkTypeOK' /\ IsLine(SubSeq(s, j + 1, Len(s)))'
<1>1. n \in Nat /\ s \in [1 .. n -> Block] /\ Pos(s, 0) = FakeHead
  BY LineIs
<1>2. 0 \in 0 .. n /\ j \in 0 .. n /\ 0 + 1 = 1 /\ n - (j - 0) = n - j
  BY <1>1
<1>3. /\ Connect(Pos(s, 0), <<>>, Pos(s, j + 1), {s[k] : k \in 0 + 1 .. j})
      /\ numFree' = n - (j - 0) /\ held' = held \union {s[k] : k \in 0 + 1 .. j}
  BY <1>1, <1>2
<1>4. LinkTypeOK' /\ IsLine(Without(s, n, 0, j))'
  BY <1>2, <1>3, SpliceOut
<1>5. Without(s, n, 0, j) = SubSeq(s, j + 1, Len(s))
  BY <1>1, FrontGone
<1> QED BY <1>4, <1>5

LEMMA PopStep ==
  ASSUME NEW s, IsLine(s), LinkTypeOK, popleft
  PROVE  LinkTypeOK' /\ \E t : IsLine(t)' /\ TakeStep(s, t)
<1>1. PICK n \in Nat :
           /\ numFree = n /\ s \in [1 .. n -> Block] /\ Len(s) = n /\ s \in Seq(Block)
           /\ Pos(s, 0) = FakeHead /\ Pos(s, n + 1) = FakeTail
           /\ \A k \in 1 .. n : Pos(s, k) = s[k]
           /\ \A k \in 0 .. n : nextFree[Pos(s, k)] = Pos(s, k + 1)
  BY LineIs
<1>2. nextFree[FakeHead] = Pos(s, 1)
  <2>1. 0 \in 0 .. n /\ 0 + 1 = 1
    OBVIOUS
  <2> QED BY <1>1, <2>1
<1>3. queueCall' = [op |-> "take", n |-> 1]
  BY DEF popleft
<1>4. CASE n = 0
  <2>1. Raise("ValueError")
    BY <1>1, <1>2, <1>4 DEF popleft
  <2>2. LinkTypeOK' /\ IsLine(s)'
    BY <2>1, Idle DEF Raise
  <2>3. TakeStep(s, s)
    BY <2>1, <1>1, <1>3, <1>4 DEF TakeStep, Raise
  <2> QED BY <2>2, <2>3
<1>5. CASE n # 0
  <2>1. /\ 1 \in 1 .. n /\ 1 \in 0 .. n /\ n + 1 # 1 /\ 1 \in 0 .. n + 1 /\ n + 1 \in 0 .. n + 1
    BY <1>5
  <2>2. Pos(s, 1) = s[1] /\ s[1] \in Block /\ nextFree[s[1]] = Pos(s, 1 + 1)
    BY <1>1, <2>1
  <2>3. s[1] # FakeTail
    BY <2>2, Fakes
  <2>4. /\ Connect(FakeHead, <<>>, Pos(s, 1 + 1), {s[1]})
        /\ Out(<<s[1]>>) /\ Return(<<s[1]>>)
    BY <1>2, <2>2, <2>3 DEF popleft
  <2>5. {s[1]} = {s[k] : k \in 1 .. 1}
    OBVIOUS
  <2>6. numFree' = n - 1 /\ held' = held \union {s[1]}
    <3>1. Len(<<s[1]>>) = 1 /\ <<s[1]>>[1] = s[1] /\ \A k \in 1 .. 1 : k = 1
      OBVIOUS
    <3>2. {<<s[1]>>[k] : k \in 1 .. 1} = {s[1]}
      BY <3>1
    <3> QED BY <2>4, <3>1, <3>2, <1>1 DEF Out
  <2>7. LinkTypeOK' /\ IsLine(SubSeq(s, 1 + 1, Len(s)))'
    BY <1>1, <2>1, <2>4, <2>5, <2>6, FrontLeaves
  <2>8. SubSeq(s, 1, 1) = <<s[1]>>
    <3>1. 1 \in 1 .. Len(s)
      BY <1>1, <2>1
    <3>2. SubSeq(s, 1, 1) = <<s[1]>> \o SubSeq(s, 1 + 1, 1)
      BY <3>1, <1>1, SubSeqRecursiveFirst
    <3>3. SubSeq(s, 1 + 1, 1) = <<>>
      BY SubSeqEmpty
    <3>4. <<s[1]>> \in Seq(Block)
      BY <2>2
    <3> QED BY <3>2, <3>3, <3>4, ConcatEmptySeq
  <2>9. TakeStep(s, SubSeq(s, 1 + 1, Len(s)))
    <3>1. queueCall'.op = "take" /\ queueCall'.n = 1 /\ 1 \in Nat /\ 1 <= Len(s)
      BY <1>1, <1>3, <2>1
    <3>2. queueRet' = [raised |-> "", blocks |-> SubSeq(s, 1, 1)]
      BY <2>4, <2>8 DEF Return
    <3> QED BY <3>1, <3>2 DEF TakeStep
  <2> QED BY <2>7, <2>9
<1> QED BY <1>4, <1>5

LEMMA PopsStep ==
  ASSUME NEW s, IsLine(s), LinkTypeOK, NEW c \in Nat, popleft_n(c)
  PROVE  LinkTypeOK' /\ \E t : IsLine(t)' /\ TakeStep(s, t)
<1>1. PICK n \in Nat :
           /\ numFree = n /\ s \in [1 .. n -> Block] /\ Len(s) = n /\ s \in Seq(Block)
           /\ Pos(s, 0) = FakeHead /\ Pos(s, n + 1) = FakeTail
           /\ \A k \in 1 .. n : Pos(s, k) = s[k]
           /\ \A k \in 0 .. n : nextFree[Pos(s, k)] = Pos(s, k + 1)
  BY LineIs
<1>2. queueCall' = [op |-> "take", n |-> c]
  BY DEF popleft_n
<1>3. CASE c = 0
  <2>1. Return(<<>>) /\ UNCHANGED links
    BY <1>3 DEF popleft_n
  <2>2. LinkTypeOK' /\ IsLine(s)'
    BY <2>1, Idle
  <2>3. SubSeq(s, 1, 0) = <<>> /\ SubSeq(s, 0 + 1, Len(s)) = s
    BY <1>1, SubSeqEmpty, SubSeqFull
  <2>4. queueCall'.op = "take" /\ queueCall'.n = 0 /\ 0 \in Nat /\ 0 <= Len(s)
    BY <1>1, <1>2, <1>3
  <2>5. queueRet' = [raised |-> "", blocks |-> SubSeq(s, 1, 0)]
    BY <2>1, <2>3 DEF Return
  <2>6. TakeStep(s, s)
    BY <2>3, <2>4, <2>5 DEF TakeStep
  <2> QED BY <2>2, <2>6
<1>4. CASE c # 0 /\ n < c
  <2>1. Raise("AssertionError")
    BY <1>1, <1>4 DEF popleft_n
  <2>2. LinkTypeOK' /\ IsLine(s)'
    BY <2>1, Idle DEF Raise
  <2>3. queueCall'.op = "take" /\ queueCall'.n = c /\ ~(c <= Len(s))
    BY <1>1, <1>2, <1>4
  <2>4. queueRet'.raised # ""
    BY <2>1 DEF Raise
  <2>5. TakeStep(s, s)
    BY <2>3, <2>4 DEF TakeStep
  <2> QED BY <2>2, <2>5
<1>5. CASE c # 0 /\ ~(n < c)
  <2>0. c \in 1 .. n /\ c \in 0 .. n /\ c - 1 \in Nat
    BY <1>5
  <2>1. PICK w \in Lists(Block) :
            /\ Len(w) = c /\ nextFree[FakeHead] = w[1]
            /\ \A i \in 1 .. c - 1 : nextFree[w[i]] = w[i + 1]
            /\ Connect(FakeHead, <<>>, nextFree[w[c]], {w[i] : i \in 1 .. c})
            /\ Out(w) /\ Return(w)
    BY <1>1, <1>5 DEF popleft_n
  <2>2. w \in [1 .. c -> Block]
    <3>1. PICK x \in 0 .. Len(First) : w \in [1 .. x -> Block]
      BY DEF Lists
    <3>2. x \in Nat
      BY <3>1, FirstIsAll, LenProperties DEF FirstIsAll
    <3> QED BY <3>1, <3>2, <2>1, LenIs
  <2>3. \A k \in 1 .. c : w[k] = s[k]
    <3> DEFINE D == {k \in 1 .. c : w[k] # s[k]}
    <3>1. ASSUME D # {} PROVE FALSE
      <4>1. PICK k \in D : \A q \in D : k <= q
        <5>1. D \subseteq Nat
          OBVIOUS
        <5> HIDE DEF D
        <5> QED BY <3>1, <5>1, Least
      <4>2. CASE k = 1
        <5>1. 0 \in 0 .. n /\ 0 + 1 = 1 /\ 1 \in 1 .. n
          BY <2>0
        <5>2. nextFree[FakeHead] = s[1]
          BY <5>1, <1>1
        <5> QED BY <4>1, <4>2, <5>2, <2>1
      <4>3. CASE k # 1
        <5>1. k - 1 \in 1 .. c - 1 /\ k - 1 \in 1 .. c /\ (k - 1) + 1 = k /\ k - 1 \in 1 .. n /\ k \in 1 .. n
              /\ k - 1 \in 0 .. n /\ ~(k <= k - 1)
          BY <4>1, <4>3, <2>0
        <5>2. w[k - 1] = s[k - 1]
          BY <4>1, <5>1
        <5>3. nextFree[w[k - 1]] = w[k]
          BY <5>1, <2>1
        <5>4. nextFree[s[k - 1]] = s[k]
          BY <5>1, <1>1
        <5> QED BY <4>1, <5>2, <5>3, <5>4
      <4> QED BY <4>2, <4>3
    <3> QED BY <3>1
  <2>4. {w[i] : i \in 1 .. c} = {s[k] : k \in 1 .. c}
    BY <2>3
  <2>5. nextFree[w[c]] = Pos(s, c + 1)
    BY <2>0, <2>3, <1>1
  <2>6. Connect(FakeHead, <<>>, Pos(s, c + 1), {w[i] : i \in 1 .. c})
    BY <2>1, <2>5
  <2>7. numFree' = n - c /\ held' = held \union {w[i] : i \in 1 .. c}
    BY <2>1, <1>1 DEF Out
  <2>8. LinkTypeOK' /\ IsLine(SubSeq(s, c + 1, Len(s)))'
    BY <1>1, <2>0, <2>4, <2>6, <2>7, FrontLeaves
  <2>9. SubSeq(s, 1, c) = w
    <3>1. /\ 1 <= 1 /\ 1 <= c + 1 /\ c - 1 + 1 = c /\ 1 \in Nat
          /\ \A k \in 1 .. c : 1 + k - 1 = k
      BY <2>0
    <3>2. /\ SubSeq(s, 1, c) \in Seq(Block) /\ Len(SubSeq(s, 1, c)) = c
          /\ \A k \in 1 .. c : SubSeq(s, 1, c)[k] = s[k]
      BY <2>0, <3>1, <1>1, Front
    <3>3. w \in Seq(Block)
      BY <2>2, LenIs
    <3> QED BY <3>2, <3>3, <2>1, <2>3, SeqEqual
  <2>10. TakeStep(s, SubSeq(s, c + 1, Len(s)))
    <3>1. queueCall'.op = "take" /\ queueCall'.n = c /\ c <= Len(s)
      BY <1>1, <1>2, <2>0
    <3>2. queueRet' = [raised |-> "", blocks |-> SubSeq(s, 1, c)]
      BY <2>1, <2>9 DEF Return
    <3> QED BY <3>1, <3>2 DEF TakeStep
  <2> QED BY <2>8, <2>10
<1> QED BY <1>3, <1>4, <1>5

LEMMA RemoveStep ==
  ASSUME NEW s, IsLine(s), LinkTypeOK, NEW b \in Block, remove(b)
  PROVE  LinkTypeOK' /\ \E t : IsLine(t)' /\ ReuseStep(s, t)
<1>1. PICK n \in Nat :
           /\ numFree = n /\ s \in [1 .. n -> Block] /\ Len(s) = n /\ s \in Seq(Block)
           /\ Pos(s, 0) = FakeHead /\ Pos(s, n + 1) = FakeTail
           /\ \A k \in 1 .. n : Pos(s, k) = s[k]
           /\ \A k \in 0 .. n : nextFree[Pos(s, k)] = Pos(s, k + 1)
           /\ \A k \in 0 .. n : prevFree[Pos(s, k + 1)] = Pos(s, k)
           /\ held = Block \ {s[k] : k \in 1 .. n}
           /\ \A x \in held : nextFree[x] = Null /\ prevFree[x] = Null
  BY LineIs
<1>2. queueCall' = [op |-> "reuse", block |-> b]
  BY DEF remove
<1>3. queueCall'.op = "reuse" /\ queueCall'.block = b
  BY <1>2
<1>4. CASE b \in held
  <2>1. Raise("RuntimeError")
    BY <1>1, <1>4 DEF remove
  <2>2. LinkTypeOK' /\ IsLine(s)'
    BY <2>1, Idle DEF Raise
  <2>3. b \notin {s[i] : i \in 1 .. Len(s)} /\ queueRet'.raised # ""
    BY <2>1, <1>1, <1>4 DEF Raise
  <2>4. ReuseStep(s, s)
    BY <2>3, <1>3 DEF ReuseStep
  <2> QED BY <2>2, <2>4
<1>5. CASE b \notin held
  <2>1. PICK i \in 1 .. n : s[i] = b
    BY <1>1, <1>5
  <2>2. /\ i - 1 \in 0 .. n /\ (i - 1) + 1 = i /\ i \in 0 .. n /\ i \in i - 1 .. n
        /\ i - 1 \in 0 .. n + 1 /\ i + 1 \in 0 .. n + 1 /\ i - (i - 1) = 1
        /\ (\A k \in (i - 1) + 1 .. i : k = i) /\ i \in (i - 1) + 1 .. i
    OBVIOUS
  <2>3. prevFree[b] = Pos(s, i - 1) /\ nextFree[b] = Pos(s, i + 1)
    BY <2>1, <2>2, <1>1
  <2>4. prevFree[b] # Null /\ nextFree[b] # Null
    <3>1. Pos(s, i - 1) \in Node /\ Pos(s, i + 1) \in Node
      BY <2>2, <1>1, Places
    <3> QED BY <2>3, <3>1, Fakes
  <2>5. /\ Connect(Pos(s, i - 1), <<>>, Pos(s, i + 1), {b})
        /\ Out(<<b>>) /\ Return(<<>>)
    BY <2>3, <2>4 DEF remove
  <2>6. {b} = {s[k] : k \in (i - 1) + 1 .. i}
    BY <2>1, <2>2
  <2>7. numFree' = n - 1 /\ held' = held \union {b}
    <3>1. Len(<<b>>) = 1 /\ <<b>>[1] = b /\ \A k \in 1 .. 1 : k = 1
      OBVIOUS
    <3>2. {<<b>>[k] : k \in 1 .. 1} = {b}
      BY <3>1
    <3> QED BY <2>5, <3>1, <3>2, <1>1 DEF Out
  <2>8. LinkTypeOK' /\ IsLine(Without(s, n, i - 1, i))'
    <3>1. PICK p \in 0 .. n : p = i - 1
      BY <2>2
    <3>2. i \in p .. n /\ n - (i - p) = n - 1
      BY <2>2, <3>1
    <3>3. Connect(Pos(s, p), <<>>, Pos(s, i + 1), {s[k] : k \in p + 1 .. i})
      BY <2>5, <2>6, <3>1
    <3>4. numFree' = n - (i - p) /\ held' = held \union {s[k] : k \in p + 1 .. i}
      BY <2>6, <2>7, <3>1, <3>2
    <3>5. LinkTypeOK' /\ IsLine(Without(s, n, p, i))'
      BY <1>1, <3>2, <3>3, <3>4, SpliceOut
    <3> QED BY <3>1, <3>5
  <2>9. Without(s, n, i - 1, i) = SubSeq(s, 1, i - 1) \o SubSeq(s, i + 1, Len(s))
    BY <1>1, OneGone
  <2>10. ReuseStep(s, SubSeq(s, 1, i - 1) \o SubSeq(s, i + 1, Len(s)))
    <3>1. i \in 1 .. Len(s) /\ b \in {s[k] : k \in 1 .. Len(s)}
      BY <1>1, <2>1
    <3>2. queueRet' = [raised |-> "", blocks |-> <<>>]
      BY <2>5 DEF Return
    <3> QED BY <3>1, <3>2, <1>3, <2>1 DEF ReuseStep
  <2> QED BY <2>8, <2>9, <2>10
<1> QED BY <1>4, <1>5

(* The blocks of bs come back, at the end or at the front.                 *)
LEMMA ComeBack ==
  ASSUME NEW s, IsLine(s), LinkTypeOK, NEW m \in Nat \ {0}, NEW bs \in [1 .. m -> Block],
         Distinct(bs), \A q \in 1 .. m : bs[q] \in held, In(bs)
  PROVE  /\ Connect(prevFree[FakeTail], bs, FakeTail, {}) => LinkTypeOK' /\ IsLine(s \o bs)'
         /\ Connect(FakeHead, bs, nextFree[FakeHead], {}) => LinkTypeOK' /\ IsLine(bs \o s)'
<1>1. PICK n \in Nat :
           /\ numFree = n /\ s \in [1 .. n -> Block]
           /\ Pos(s, 0) = FakeHead /\ Pos(s, n + 1) = FakeTail
           /\ \A k \in 0 .. n : nextFree[Pos(s, k)] = Pos(s, k + 1)
           /\ \A k \in 0 .. n : prevFree[Pos(s, k + 1)] = Pos(s, k)
  BY LineIs
<1>2. n \in 0 .. n /\ 0 \in 0 .. n /\ 0 + 1 = 1
  OBVIOUS
<1>3. prevFree[FakeTail] = Pos(s, n) /\ nextFree[FakeHead] = Pos(s, 0 + 1)
  BY <1>1, <1>2
<1>4. numFree' = n + m /\ held' = held \ {bs[q] : q \in 1 .. m}
  <2>1. Len(bs) = m
    BY LenIs
  <2> QED BY <2>1, <1>1 DEF In
<1>5. ASSUME Connect(prevFree[FakeTail], bs, FakeTail, {}) PROVE LinkTypeOK' /\ IsLine(s \o bs)'
  <2>1. Connect(Pos(s, n), bs, Pos(s, n + 1), {})
    BY <1>1, <1>3, <1>5
  <2>2. LinkTypeOK' /\ IsLine(With(s, n, n, m, bs))'
    BY <1>1, <1>2, <1>4, <2>1, SpliceIn
  <2>3. With(s, n, n, m, bs) = s \o bs
    BY <1>1, LastIn
  <2> QED BY <2>2, <2>3
<1>6. ASSUME Connect(FakeHead, bs, nextFree[FakeHead], {}) PROVE LinkTypeOK' /\ IsLine(bs \o s)'
  <2>1. Connect(Pos(s, 0), bs, Pos(s, 0 + 1), {})
    BY <1>1, <1>3, <1>6
  <2>2. LinkTypeOK' /\ IsLine(With(s, n, 0, m, bs))'
    BY <1>1, <1>2, <1>4, <2>1, SpliceIn
  <2>3. With(s, n, 0, m, bs) = bs \o s
    BY <1>1, FirstIn
  <2> QED BY <2>2, <2>3
<1> QED BY <1>5, <1>6

LEMMA AppendStep ==
  ASSUME NEW s, IsLine(s), LinkTypeOK, NEW b \in held, append(b)
  PROVE  LinkTypeOK' /\ \E t : IsLine(t)' /\ GiveStep(s, t)
<1> DEFINE bs == <<b>>
<1>1. held = Block \ {s[k] : k \in 1 .. Len(s)}
  BY LineIs
<1>2. bs \in [1 .. 1 -> Block] /\ Distinct(bs) /\ (\A q \in 1 .. 1 : bs[q] \in held) /\ Len(bs) = 1
      /\ 1 \in Nat \ {0}
  <2>1. \A q \in 1 .. 1 : q = 1
    OBVIOUS
  <2>2. bs \in [1 .. 1 -> Block] /\ DOMAIN bs = 1 .. 1 /\ Len(bs) = 1 /\ bs[1] = b
    BY <1>1
  <2> QED BY <2>1, <2>2 DEF Distinct
<1>3. bs \in Seq(held)
  OBVIOUS
<1>4. /\ queueCall' = [op |-> "last", blocks |-> bs] /\ In(bs) /\ Return(<<>>)
      /\ Connect(prevFree[FakeTail], bs, FakeTail, {})
  BY DEF append
<1> HIDE DEF bs
<1>5. LinkTypeOK' /\ IsLine(s \o bs)'
  BY <1>2, <1>4, ComeBack
<1>6. GiveStep(s, s \o bs)
  <2>1. queueCall'.op = "last" /\ queueCall'.blocks = bs
    BY <1>4
  <2>2. queueRet' = [raised |-> "", blocks |-> <<>>]
    BY <1>4 DEF Return
  <2>3. \A i, j \in 1 .. Len(bs) : bs[i] = bs[j] => i = j
    BY <1>2 DEF Distinct
  <2> QED BY <2>1, <2>2, <2>3, <1>1, <1>3 DEF GiveStep
<1> QED BY <1>5, <1>6

LEMMA GivesStep ==
  ASSUME NEW s, IsLine(s), LinkTypeOK, NEW bs \in Lists(held), append_n(bs) \/ prepend_n(bs)
  PROVE  LinkTypeOK' /\ \E t : IsLine(t)' /\ GiveStep(s, t)
<1>1. held = Block \ {s[k] : k \in 1 .. Len(s)} /\ s \in Seq(Block)
  BY LineIs
<1>2. PICK m \in Nat : bs \in [1 .. m -> held]
  <2>1. PICK m \in 0 .. Len(First) : bs \in [1 .. m -> held]
    BY DEF Lists
  <2>2. m \in Nat
    BY <2>1, FirstIsAll, LenProperties DEF FirstIsAll
  <2> QED BY <2>1, <2>2
<1>3. /\ Distinct(bs) /\ bs \in Seq(held) /\ bs \in [1 .. m -> Block]
      /\ (\A q \in 1 .. m : bs[q] \in held) /\ Len(bs) = m
  BY <1>1, <1>2, LenIs DEF Lists
<1>4. \A i, j \in 1 .. Len(bs) : bs[i] = bs[j] => i = j
  BY <1>2, <1>3 DEF Distinct
<1>5. queueRet' = [raised |-> "", blocks |-> <<>>]
  BY DEF append_n, prepend_n, Return
<1>6. CASE bs = <<>>
  <2>1. UNCHANGED links
    BY <1>6 DEF append_n, prepend_n
  <2>2. LinkTypeOK' /\ IsLine(s)'
    BY <2>1, Idle
  <2>3. queueCall'.op \in {"last", "first"} /\ queueCall'.blocks = bs
    BY DEF append_n, prepend_n
  <2>4. s = s \o bs /\ s = bs \o s
    BY <1>1, <1>6, ConcatEmptySeq
  <2>5. GiveStep(s, s)
    BY <2>3, <2>4, <1>1, <1>3, <1>4, <1>5 DEF GiveStep
  <2> QED BY <2>2, <2>5
<1>7. CASE bs # <<>>
  <2>1. m \in Nat \ {0}
    BY <1>3, <1>7, EmptySeq
  <2>2. CASE append_n(bs)
    <3>1. Connect(prevFree[FakeTail], bs, FakeTail, {}) /\ In(bs)
      BY <2>2, <1>7 DEF append_n
    <3>2. LinkTypeOK' /\ IsLine(s \o bs)'
      BY <3>1, <2>1, <1>3, ComeBack
    <3>3. queueCall'.op = "last" /\ queueCall'.blocks = bs
      BY <2>2 DEF append_n
    <3>4. GiveStep(s, s \o bs)
      BY <3>3, <1>1, <1>3, <1>4, <1>5 DEF GiveStep
    <3> QED BY <3>2, <3>4
  <2>3. CASE prepend_n(bs)
    <3>1. Connect(FakeHead, bs, nextFree[FakeHead], {}) /\ In(bs)
      BY <2>3, <1>7 DEF prepend_n
    <3>2. LinkTypeOK' /\ IsLine(bs \o s)'
      BY <3>1, <2>1, <1>3, ComeBack
    <3>3. queueCall'.op = "first" /\ queueCall'.blocks = bs
      BY <2>3 DEF prepend_n
    <3>4. GiveStep(s, bs \o s)
      BY <3>3, <1>1, <1>3, <1>4, <1>5 DEF GiveStep
    <3> QED BY <3>2, <3>4
  <2> QED BY <2>2, <2>3
<1> QED BY <1>6, <1>7

-----------------------------------------------------------------------------
(* The two theorems. *)

LEMMA FirstIsLine ==
  ASSUME QueueInit
  PROVE  LinkTypeOK /\ IsLine(First)
<1> DEFINE n == Len(First)
           none == [x \in Node |-> Null]
<1>1. n \in Nat /\ First \in [1 .. n -> Block] /\ DOMAIN First = 1 .. n /\ Distinct(First)
      /\ {First[k] : k \in 1 .. n} = Block /\ numFree = n /\ held = {}
  <2>1. n \in Nat /\ First \in [1 .. n -> Block] /\ DOMAIN First = 1 .. n
    BY FirstIsAll, LenProperties DEF FirstIsAll
  <2> QED BY <2>1, FirstIsAll DEF FirstIsAll, QueueInit, Distinct
<1>2. /\ nextFree = Relinked(none, FakeHead, First, FakeTail, {})
      /\ prevFree = Relinked(none, FakeTail, Backwards(First), FakeHead, {})
  BY DEF QueueInit
<1>3. nextFree = [x \in Node |-> nextFree[x]] /\ prevFree = [x \in Node |-> prevFree[x]]
  BY <1>2 DEF Relinked
<1> HIDE DEF n
<1>4. CASE n = 0
  <2>1. First = <<>> /\ Block = {}
    BY <1>1, <1>4, FirstIsAll, EmptySeq DEF FirstIsAll, n
  <2>2. /\ nextFree[FakeHead] = FakeTail /\ nextFree[FakeTail] = Null
        /\ prevFree[FakeTail] = FakeHead /\ prevFree[FakeHead] = Null
    <3>1. none[FakeHead] = Null /\ none[FakeTail] = Null
      BY Fakes
    <3> HIDE DEF none
    <3> QED BY <1>2, <2>1, <3>1, Fakes, RelinkedNone
  <2>3. \A k \in 0 .. 0 : nextFree[Pos(First, k)] = Pos(First, k + 1) /\ prevFree[Pos(First, k + 1)] = Pos(First, k)
    <3>1. Pos(First, 0) = FakeHead /\ Pos(First, 0 + 1) = FakeTail
      BY <1>1, <1>4, Places
    <3> QED BY <2>2, <3>1
  <2>4. Sound(First)
    BY <1>1, <1>4, <2>1, <2>2, <2>3, SoundIs
  <2>5. Node = {FakeHead, FakeTail}
    BY <2>1 DEF Node
  <2>6. LinkTypeOK
    BY <1>1, <1>3, <2>2, <2>5 DEF LinkTypeOK
  <2> QED BY <1>1, <2>4, <2>6 DEF IsLine
<1>5. CASE n # 0
  <2>0. n \in Nat \ {0} /\ 1 \in 1 .. n /\ n \in 1 .. n
    BY <1>1, <1>5
  <2>1. \A q \in 1 .. n : First[q] \in Block /\ First[q] # FakeHead /\ First[q] # FakeTail
    BY <1>1, Fakes
  <2>2. Joins(nextFree, none, FakeHead, First, n, FakeTail)
    BY <1>1, <1>2, <2>0, <2>1, Fakes, RelinkedThere
  <2>3. JoinsBack(prevFree, none, FakeHead, First, n, FakeTail)
    BY <1>1, <1>2, <2>0, <2>1, Fakes, RelinkedBack
  <2>4. /\ nextFree[FakeHead] = First[1] /\ prevFree[FakeTail] = First[n]
        /\ \A q \in 1 .. n :
             /\ (q = n => nextFree[First[q]] = FakeTail) /\ (q # n => nextFree[First[q]] = First[q + 1])
             /\ (q = 1 => prevFree[First[q]] = FakeHead) /\ (q # 1 => prevFree[First[q]] = First[q - 1])
        /\ nextFree[FakeTail] = Null /\ prevFree[FakeHead] = Null
    <3>1. none[FakeHead] = Null /\ none[FakeTail] = Null
      BY Fakes
    <3> HIDE DEF none
    <3> QED BY <2>1, <2>2, <2>3, <3>1, Fakes DEF Joins, JoinsBack
  <2>5. ASSUME NEW k \in 0 .. n
        PROVE  nextFree[Pos(First, k)] = Pos(First, k + 1) /\ prevFree[Pos(First, k + 1)] = Pos(First, k)
    <3>1. Pos(First, 0) = FakeHead /\ Pos(First, n + 1) = FakeTail
          /\ \A q \in 1 .. n : Pos(First, q) = First[q]
      BY <1>1, Places
    <3>2. CASE k = 0
      <4>1. Pos(First, k) = FakeHead /\ Pos(First, k + 1) = First[1]
        BY <3>1, <3>2, <2>0
      <4> QED BY <4>1, <2>4, <2>0
    <3>3. CASE k # 0 /\ k # n
      <4>1. k \in 1 .. n /\ k + 1 \in 1 .. n /\ k + 1 # 1 /\ (k + 1) - 1 = k
        BY <3>3, <1>1
      <4>2. Pos(First, k) = First[k] /\ Pos(First, k + 1) = First[k + 1]
        BY <3>1, <4>1
      <4> QED BY <4>1, <4>2, <3>3, <2>4
    <3>4. CASE k = n
      <4>1. Pos(First, k) = First[n] /\ Pos(First, k + 1) = FakeTail
        BY <3>1, <3>4, <2>0
      <4> QED BY <4>1, <2>4, <2>0
    <3> QED BY <3>2, <3>3, <3>4
  <2>6. Sound(First)
    BY <1>1, <2>4, <2>5, SoundIs
  <2>7. ASSUME NEW x \in Node PROVE nextFree[x] \in Node \union {Null} /\ prevFree[x] \in Node \union {Null}
    <3>1. CASE x \in Block
      <4>1. PICK q \in 1 .. n : First[q] = x
        BY <3>1, <1>1
      <4>2. (q # n => First[q + 1] \in Block) /\ (q # 1 => First[q - 1] \in Block)
        BY <1>1
      <4> QED BY <4>1, <4>2, <2>4, Fakes
    <3>2. CASE x \in {FakeHead, FakeTail}
      BY <3>2, <2>0, <2>1, <2>4, Fakes
    <3> QED BY <3>1, <3>2 DEF Node
  <2>8. LinkTypeOK
    BY <1>1, <1>3, <2>7 DEF LinkTypeOK
  <2> QED BY <1>1, <2>6, <2>8 DEF IsLine
<1> QED BY <1>4, <1>5

LEMMA CallStep ==
  ASSUME NEW s, IsLine(s), LinkTypeOK, QueueNext
  PROVE  LinkTypeOK' /\ \E t : IsLine(t)' /\ (TakeStep(s, t) \/ ReuseStep(s, t) \/ GiveStep(s, t))
<1>1. CASE popleft
  BY <1>1, PopStep
<1>2. CASE \E n \in 0 .. Len(First) + 1 : popleft_n(n)
  <2>1. PICK n \in 0 .. Len(First) + 1 : popleft_n(n)
    BY <1>2
  <2>2. n \in Nat
    BY FirstIsAll, LenProperties DEF FirstIsAll
  <2> QED BY <2>1, <2>2, PopsStep
<1>3. CASE \E b \in Block : remove(b)
  BY <1>3, RemoveStep
<1>4. CASE \E b \in held : append(b)
  BY <1>4, AppendStep
<1>5. CASE \E bs \in Lists(held) : append_n(bs) \/ prepend_n(bs)
  BY <1>5, GivesStep
<1> QED BY <1>1, <1>2, <1>3, <1>4, <1>5 DEF QueueNext

LEMMA HasLine == QInv <=> LinkTypeOK /\ \E s : IsLine(s)
BY DEF QInv, QueueInv, IsLine, LinkTypeOK

LEMMA HasLineNext == QInv' <=> LinkTypeOK' /\ \E s : IsLine(s)'
BY DEF QInv, QueueInv, IsLine, LinkTypeOK

LEMMA QInvStep == QInv /\ [QueueNext]_queueVars => QInv'
<1> SUFFICES ASSUME QInv, [QueueNext]_queueVars PROVE QInv'
  OBVIOUS
<1>1. PICK s : IsLine(s) /\ LinkTypeOK
  BY HasLine
<1>2. CASE QueueNext
  <2>1. LinkTypeOK' /\ \E t : IsLine(t)'
    BY <1>1, <1>2, CallStep
  <2> QED BY <2>1, HasLineNext
<1>3. CASE UNCHANGED queueVars
  <2>1. LinkTypeOK' /\ IsLine(s)'
    BY <1>1, <1>3, Idle DEF queueVars
  <2> QED BY <2>1, HasLineNext
<1> QED BY <1>2, <1>3

(* The links stay one sound line of num_free_blocks blocks under every     *)
(* sequence of the calls of kv_cache_utils.py's queue, for any number of   *)
(* blocks.                                                                 *)
THEOREM QueueInvariance == QueueSpec => []QueueInv
<1>1. QueueInit => QInv
  BY FirstIsLine, HasLine
<1>2. QInv /\ [QueueNext]_queueVars => QInv'
  BY QInvStep
<1>3. QInv => QueueInv
  BY DEF QInv
<1> QED BY <1>1, <1>2, <1>3, PTL DEF QueueSpec

(* FreeList in the next state.                                             *)
AllLines == \A t : IsLine(t) => FreeList = t

LEMMA AllLinesHold == AllLines
BY FreeListIs DEF AllLines

LEMMA FreeListNext ==
  ASSUME NEW s, IsLine(s)'
  PROVE  FreeList' = s
<1>1. AllLines'
  BY AllLinesHold, PTL
<1> QED BY <1>1 DEF AllLines

(* The linked list implements the eviction order: get_all_free_blocks      *)
(* before and after a call are related as the line of EvictionOrder is.    *)
THEOREM QueueRefinement == QueueSpec => QueueIsALine
<1>1. QueueInit => QInv
  BY FirstIsLine, HasLine
<1>2. QInv /\ [QueueNext]_queueVars => QInv'
  BY QInvStep
<1>3. QueueInit => Order!Init
  <2> SUFFICES ASSUME QueueInit PROVE Order!Init
    OBVIOUS
  <2>1. FreeList = First
    BY FirstIsLine, FreeListIs
  <2>2. First \in Seq(Block) /\ {First[i] : i \in 1 .. Len(First)} = Block
        /\ \A i, j \in 1 .. Len(First) : First[i] = First[j] => i = j
    BY FirstIsAll DEF FirstIsAll
  <2>3. queueRet = [raised |-> "", blocks |-> <<>>]
    BY DEF QueueInit
  <2> QED BY <2>1, <2>2, <2>3 DEF Order!Init, Order!Distinct, Order!Free
<1>4. QInv /\ [QueueNext]_queueVars => [Order!Next]_queueVars
  <2> SUFFICES ASSUME QInv, [QueueNext]_queueVars PROVE [Order!Next]_queueVars
    OBVIOUS
  <2>1. PICK s : IsLine(s) /\ LinkTypeOK
    BY HasLine
  <2>2. FreeList = s
    BY <2>1, FreeListIs
  <2>3. CASE QueueNext
    <3>1. PICK t : IsLine(t)' /\ (TakeStep(s, t) \/ ReuseStep(s, t) \/ GiveStep(s, t))
      BY <2>1, <2>3, CallStep
    <3>2. FreeList' = t
      BY <3>1, FreeListNext
    <3>3. CASE TakeStep(s, t)
      BY <2>2, <3>2, <3>3 DEF TakeStep, Order!Next, Order!Take, Order!Returns, Order!Refused
    <3>4. CASE ReuseStep(s, t)
      BY <2>2, <3>2, <3>4 DEF ReuseStep, Order!Next, Order!Reuse, Order!Returns, Order!Refused, Order!Free
    <3>5. CASE GiveStep(s, t)
      BY <2>2, <3>2, <3>5 DEF GiveStep, Order!Next, Order!GiveBack, Order!Returns, Order!Free, Order!Distinct
    <3> QED BY <3>1, <3>3, <3>4, <3>5
  <2>4. CASE UNCHANGED queueVars
    BY <2>4
  <2> QED BY <2>3, <2>4
<1> QED BY <1>1, <1>2, <1>3, <1>4, PTL DEF QueueSpec, QueueIsALine

-----------------------------------------------------------------------------
(* The plan.  Two facts about the accounting are all that the search       *)
(* needs: it does not change while the length is searched for, and what    *)
(* fits for a length fits for a shorter one.                               *)


(* The stages have what their mamba layers share slots with.               *)
Grouped == kvIn \in KvConfigs /\ OfKind("mla") # {} /\ \A w \in Worker : On(w, "mla") # {}

-----------------------------------------------------------------------------
(* The accounting. *)

LEMMA LayersFinite ==
  ASSUME NEW S, S \subseteq 1 .. Layers
  PROVE  IsFiniteSet(S) /\ Cardinality(S) \in Nat /\ (S # {} => Cardinality(S) \in Nat \ {0})
<1>1. IsFiniteSet(1 .. Layers)
  BY KvSizes, FS_Interval DEF KvSizes
<1>2. IsFiniteSet(S)
  BY <1>1, FS_Subset
<1> QED BY <1>2, FS_CardinalityType, FS_EmptySet

LEMMA KindsAre ==
  ASSUME NEW w, NEW k
  PROVE  OfKind(k) \subseteq 1 .. Layers /\ On(w, k) \subseteq 1 .. Layers
BY DEF OfKind, On

LEMMA DivInt ==
  ASSUME NEW a \in Nat, NEW b \in Nat \ {0}
  PROVE  CeilDiv(a, b) \in Int
BY DEF CeilDiv

(* The candidates for the number of groups have a largest.                 *)
LEMMA GroupsMax ==
  ASSUME Grouped
  PROVE  LET S == {CeilDiv(Cardinality(OfKind("mamba")), Cardinality(OfKind("mla")))} \union
                  {CeilDiv(Cardinality(On(w, "mamba")), Cardinality(On(w, "mla"))) :
                     w \in {v \in Worker : On(v, "mamba") # {}}}
         IN  S \subseteq Int /\ \E m \in S : \A n \in S : n <= m
<1> DEFINE c(w) == CeilDiv(Cardinality(On(w, "mamba")), Cardinality(On(w, "mla")))
           c0 == CeilDiv(Cardinality(OfKind("mamba")), Cardinality(OfKind("mla")))
           S == {c0} \union {c(w) : w \in {v \in Worker : On(v, "mamba") # {}}}
<1>1. c0 \in Int /\ c(1) \in Int /\ c(2) \in Int
  <2>1. \A w \in Worker : Cardinality(On(w, "mamba")) \in Nat /\ Cardinality(On(w, "mla")) \in Nat \ {0}
    BY KindsAre, LayersFinite DEF Grouped
  <2>2. Cardinality(OfKind("mamba")) \in Nat /\ Cardinality(OfKind("mla")) \in Nat \ {0}
    BY KindsAre, LayersFinite DEF Grouped
  <2>3. 1 \in Worker /\ 2 \in Worker
    BY DEF Worker
  <2> QED BY <2>1, <2>2, <2>3, DivInt
<1>2. S \subseteq {c0, c(1), c(2)} /\ c0 \in S
  BY DEF Worker
<1> HIDE DEF c, c0, S
<1>4. \E m \in S : \A n \in S : n <= m
  <2>1. CASE c(1) \notin S /\ c(2) \notin S
    BY <2>1, <1>1, <1>2
  <2>2. CASE c(1) \in S /\ c(2) \notin S
    BY <2>2, <1>1, <1>2
  <2>3. CASE c(1) \notin S /\ c(2) \in S
    BY <2>3, <1>1, <1>2
  <2>4. CASE c(1) \in S /\ c(2) \in S
    <3>1. \E m \in {c0, c(1), c(2)} : c0 <= m /\ c(1) <= m /\ c(2) <= m
      BY <1>1
    <3> QED BY <2>4, <3>1, <1>2
  <2> QED BY <2>1, <2>2, <2>3, <2>4
<1>5. S \subseteq Int
  BY <1>1, <1>2
<1>6. S \subseteq Int /\ \E m \in S : \A n \in S : n <= m
  BY <1>4, <1>5
<1> QED BY <1>6 DEF S, c, c0

LEMMA GroupsInt ==
  ASSUME Grouped
  PROVE  MambaGroups \in Int
<1> DEFINE S == {CeilDiv(Cardinality(OfKind("mamba")), Cardinality(OfKind("mla")))} \union
                {CeilDiv(Cardinality(On(w, "mamba")), Cardinality(On(w, "mla"))) :
                   w \in {v \in Worker : On(v, "mamba") # {}}}
<1>1. S \subseteq Int /\ \E m \in S : \A n \in S : n <= m
  BY GroupsMax
<1>2. MambaGroups = Largest(S)
  BY DEF MambaGroups
<1> HIDE DEF S
<1> QED BY <1>1, <1>2 DEF Largest

LEMMA Product ==
  ASSUME NEW a \in Int, NEW b \in Int, a <= b, NEW p \in Nat
  PROVE  a * p \in Int /\ b * p \in Int /\ a * p <= b * p
<1>1. b - a \in Nat
  OBVIOUS
<1>2. (b - a) * p \in Nat
  BY <1>1
<1>3. (b - a) * p = b * p - a * p
  OBVIOUS
<1> QED BY <1>2, <1>3

(* What fits for a length fits for a shorter one.                          *)
LEMMA FitsMonotone ==
  ASSUME Grouped, NEW w \in Worker, NEW m \in 1 .. MaxLen, NEW n \in 1 .. MaxLen, m <= n, Fits(w, n)
  PROVE  Fits(w, m)
<1>1. AttnPages[m] \in Nat /\ AttnPages[n] \in Nat /\ AttnPages[m] <= AttnPages[n]
  BY KvSizes DEF KvSizes
<1>2. MambaGroups * MambaPages \in Int
  BY GroupsInt, KvSizes DEF KvSizes
<1>3. TargetBlocks(m) \in Int /\ TargetBlocks(n) \in Int /\ TargetBlocks(m) <= TargetBlocks(n)
  BY <1>1, <1>2 DEF TargetBlocks
<1>4. PerBlock(w) \in Nat
  <2>1. Cardinality(On(w, "mla")) \in Nat
    BY KindsAre, LayersFinite
  <2>2. kvIn.drafts \in Nat
    BY KvSizes DEF KvSizes, Grouped, KvConfigs
  <2>3. MlaPage + IdxPage \in Nat /\ DraftPage \in Nat
    BY KvSizes DEF KvSizes
  <2>4. Cardinality(On(w, "mla")) * (MlaPage + IdxPage) \in Nat /\ kvIn.drafts * DraftPage \in Nat
    BY <2>1, <2>2, <2>3
  <2> QED BY <2>4 DEF PerBlock, DraftBytes
<1>5. Needed(w, m) \in Int /\ Needed(w, n) \in Int /\ Needed(w, m) <= Needed(w, n)
  BY <1>3, <1>4, Product DEF Needed
<1>6. Available(w) \in Int
  <2>1. kvIn.memory[w] \in Nat /\ kvIn.override \in Nat
    BY KvSizes DEF KvSizes, Grouped, KvConfigs
  <2>2. kvIn.override * PerBlock(w) \in Nat
    BY <2>1, <1>4
  <2> QED BY <2>1, <2>2 DEF Available
<1> QED BY <1>5, <1>6 DEF Fits

(* The accounting reads the configuration only.                            *)
LEMMA FitsUnchanged ==
  ASSUME UNCHANGED kvIn
  PROVE  /\ \A k : OfKind(k)' = OfKind(k)
         /\ \A w, k : On(w, k)' = On(w, k)
         /\ \A w, len : Fits(w, len)' <=> Fits(w, len)
         /\ MambaGroups' = MambaGroups
<1>1. \A k : OfKind(k)' = OfKind(k)
  BY DEF OfKind
<1>2. \A w, k : On(w, k)' = On(w, k)
  BY <1>1 DEF On
<1>3. MambaGroups' = MambaGroups
  BY <1>1, <1>2 DEF MambaGroups
<1>4. \A w : PerBlock(w)' = PerBlock(w)
  BY <1>2 DEF PerBlock, DraftBytes
<1>5. \A w, len : Needed(w, len)' = Needed(w, len)
  BY <1>3, <1>4 DEF Needed, TargetBlocks
<1>6. \A w : Available(w)' = Available(w)
  BY <1>4 DEF Available
<1> QED BY <1>1, <1>2, <1>3, <1>5, <1>6 DEF Fits

-----------------------------------------------------------------------------
(* The invariant. *)

(* The lengths up to r are those that fit on worker w.                     *)
LongestFor(w, r) == \A len \in 1 .. MaxLen : len <= r <=> Fits(w, len)

(* The lengths up to kvAuto are those that fit on every worker before w.   *)
LongestBefore(w) ==
  \A len \in 1 .. MaxLen : len <= kvAuto <=> \A v \in Worker : v < w => Fits(v, len)

(* Between the bounds of the search lies the longest length that fits.     *)
Bounds ==
  LET s == search IN
  /\ s.result \in 1 .. MaxLen /\ Fits(s.worker, s.result)
  /\ s.left - 1 <= s.result /\ s.result <= s.right
  /\ \A len \in 1 .. MaxLen : len > s.right => ~Fits(s.worker, len)

KvTypeOK ==
  /\ kvIn \in KvConfigs /\ OfKind("mla") # {}
  /\ kvLen \in 0 .. MaxLen /\ kvAuto \in 0 .. MaxLen
  /\ search \in [worker : Worker, left : 1 .. MaxLen + 1, right : 0 .. MaxLen, result : 0 .. MaxLen]

PhaseInv ==
  CASE kvPhase = "group" -> kvLen = MaxLen /\ kvAuto = MaxLen /\ search.worker = 1
    [] kvPhase = "fit" -> Grouped /\ kvIn.auto /\ LongestBefore(search.worker)
    [] kvPhase = "search" -> Grouped /\ kvIn.auto /\ LongestBefore(search.worker) /\ Bounds
    [] kvPhase = "found" ->
         Grouped /\ kvIn.auto /\ LongestBefore(search.worker) /\ LongestFor(search.worker, search.result)
    [] kvPhase = "fitted" -> kvIn.auto /\ kvLen = MaxLen /\ LongestBefore(3)
    [] OTHER -> TRUE

KvInv == KvTypeOK /\ PhaseInv /\ FitIsLongest

(* The parts of the invariant are the same in two states that agree on     *)
(* what they read.                                                         *)
LEMMA Carried ==
  ASSUME UNCHANGED kvIn
  PROVE  /\ Grouped' <=> Grouped
         /\ OfKind("mla")' = OfKind("mla")
         /\ \A w, r : LongestFor(w, r)' <=> LongestFor(w, r)
         /\ UNCHANGED kvAuto => \A w : LongestBefore(w)' <=> LongestBefore(w)
BY FitsUnchanged DEF Grouped, LongestFor, LongestBefore

LEMMA KvInitial ==
  ASSUME KvInit
  PROVE  KvInv
<1>1. KvTypeOK
  BY KvSizes DEF KvInit, KvTypeOK, KvSizes, Worker
<1>2. PhaseInv /\ FitIsLongest
  BY DEF KvInit, PhaseInv, FitIsLongest
<1> QED BY <1>1, <1>2 DEF KvInv

LEMMA GroupKeeps ==
  ASSUME KvInv, Group
  PROVE  KvInv'
<1>1. UNCHANGED <<kvIn, kvLen, kvAuto, search>> /\ kvPhase = "group"
  BY DEF Group
<1>2. kvLen = MaxLen /\ kvAuto = MaxLen /\ search.worker = 1
  BY <1>1 DEF KvInv, PhaseInv
<1>3. KvTypeOK'
  BY <1>1, Carried DEF KvInv, KvTypeOK
<1>4. CASE kvPhase' = "error"
  BY <1>3, <1>4 DEF KvInv, PhaseInv, FitIsLongest
<1>5. CASE kvPhase' = "fit"
  <2>1. Grouped' /\ kvIn'.auto
    <3>1. Grouped /\ kvIn.auto
      BY <1>5 DEF Group, Grouped, KvInv, KvTypeOK
    <3> QED BY <1>1, <3>1, Carried
  <2>2. LongestBefore(1)'
    BY <1>1, <1>2, KvSizes DEF LongestBefore, Worker, KvSizes
  <2>3. PhaseInv' /\ FitIsLongest'
    BY <1>1, <1>2, <1>5, <2>1, <2>2 DEF PhaseInv, FitIsLongest
  <2> QED BY <1>3, <2>3 DEF KvInv
<1>6. CASE kvPhase' = "check"
  <2>1. ~kvIn.auto
    BY <1>6 DEF Group
  <2>2. PhaseInv' /\ FitIsLongest'
    BY <1>1, <1>2, <1>6, <2>1 DEF PhaseInv, FitIsLongest
  <2> QED BY <1>3, <2>2 DEF KvInv
<1> QED BY <1>4, <1>5, <1>6 DEF Group

LEMMA TryOneKeeps ==
  ASSUME KvInv, TryOne,
         NEW w, w = search.worker
  PROVE  KvInv'
<1>1. UNCHANGED <<kvIn, kvAuto>> /\ kvPhase = "fit" /\ kvLen' = 1 /\ MaxLen \in Nat \ {0}
  BY KvSizes DEF TryOne, KvSizes
<1>2. Grouped /\ kvIn.auto /\ LongestBefore(w) /\ KvTypeOK /\ w \in Worker
  BY <1>1 DEF KvInv, PhaseInv, KvTypeOK
<1>3. Grouped' /\ kvIn'.auto /\ LongestBefore(w)'
  BY <1>1, <1>2, Carried
<1>4. CASE Fits(w, 1)
  <2>1. kvPhase' = "search" /\ search' = [search EXCEPT !.left = 1, !.right = MaxLen, !.result = 1]
    BY <1>4 DEF TryOne
  <2>2. search'.worker = w /\ search'.left = 1 /\ search'.right = MaxLen /\ search'.result = 1
    BY <1>2, <2>1 DEF KvTypeOK
  <2>3. KvTypeOK'
    <3>1. 1 \in 1 .. MaxLen + 1 /\ MaxLen \in 0 .. MaxLen /\ 1 \in 0 .. MaxLen
      BY <1>1
    <3>2. search' \in [worker : Worker, left : 1 .. MaxLen + 1, right : 0 .. MaxLen, result : 0 .. MaxLen]
      BY <1>2, <2>1, <3>1 DEF KvTypeOK
    <3> QED BY <1>1, <1>2, <3>1, <3>2, Carried DEF KvTypeOK
  <2>4. Bounds'
    <3>1. Fits(w, 1)'
      BY <1>1, <1>4, FitsUnchanged
    <3> QED BY <1>1, <2>2, <3>1 DEF Bounds
  <2>5. PhaseInv' /\ FitIsLongest'
    BY <1>3, <2>1, <2>2, <2>4 DEF PhaseInv, FitIsLongest
  <2> QED BY <2>3, <2>5 DEF KvInv
<1>5. CASE ~Fits(w, 1)
  <2>1. kvPhase' = "found" /\ search' = [search EXCEPT !.result = 0]
    BY <1>5 DEF TryOne
  <2>2. search'.worker = w /\ search'.result = 0
    BY <1>2, <2>1 DEF KvTypeOK
  <2>3. KvTypeOK'
    BY <1>1, <1>2, <2>1, Carried DEF KvTypeOK
  <2>4. LongestFor(w, 0)
    <3>1. ASSUME NEW len \in 1 .. MaxLen, Fits(w, len) PROVE FALSE
      <4>1. 1 \in 1 .. MaxLen /\ 1 <= len
        BY <1>1
      <4> QED BY <4>1, <3>1, <1>2, <1>5, FitsMonotone
    <3> QED BY <3>1 DEF LongestFor
  <2>5. LongestFor(w, 0)'
    BY <1>1, <2>4, Carried
  <2>6. PhaseInv' /\ FitIsLongest'
    BY <1>3, <2>1, <2>2, <2>5 DEF PhaseInv, FitIsLongest
  <2> QED BY <2>3, <2>6 DEF KvInv
<1> QED BY <1>4, <1>5

LEMMA HalveKeeps ==
  ASSUME KvInv, Halve,
         NEW w, w = search.worker, NEW l, l = search.left, NEW r, r = search.right, NEW x, x = search.result,
         NEW mid, mid = (l + r) \div 2
  PROVE  KvInv'
<1>1. UNCHANGED <<kvIn, kvPhase, kvAuto>> /\ kvPhase = "search" /\ kvLen' = mid /\ l <= r
      /\ MaxLen \in Nat \ {0}
  BY KvSizes DEF Halve, KvSizes
<1>2. Grouped /\ kvIn.auto /\ LongestBefore(w) /\ KvTypeOK /\ w \in Worker /\ Bounds
      /\ l \in 1 .. MaxLen + 1 /\ r \in 0 .. MaxLen
  BY <1>1 DEF KvInv, PhaseInv, KvTypeOK
<1>3. Grouped' /\ kvIn'.auto /\ LongestBefore(w)'
  BY <1>1, <1>2, Carried
<1>4. mid \in Nat /\ l <= mid /\ mid <= r /\ mid \in 1 .. MaxLen
  BY <1>1, <1>2
<1>5. /\ x \in 1 .. MaxLen /\ Fits(w, x)
      /\ l - 1 <= x /\ x <= r
      /\ \A len \in 1 .. MaxLen : len > r => ~Fits(w, len)
  BY <1>2 DEF Bounds
<1>6. CASE Fits(w, mid)
  <2>1. search' = [search EXCEPT !.result = mid, !.left = mid + 1]
    BY <1>6 DEF Halve
  <2>2. search'.worker = w /\ search'.left = mid + 1 /\ search'.right = r /\ search'.result = mid
    BY <1>2, <2>1 DEF KvTypeOK
  <2>3. KvTypeOK'
    <3>1. mid + 1 \in 1 .. MaxLen + 1 /\ mid \in 0 .. MaxLen
      BY <1>1, <1>4
    <3> QED BY <1>1, <1>2, <2>1, <3>1, Carried DEF KvTypeOK
  <2>4. Bounds'
    <3>1. Fits(w, mid)' /\ \A len \in 1 .. MaxLen : len > r => ~Fits(w, len)'
      BY <1>1, <1>5, <1>6, FitsUnchanged
    <3>2. (mid + 1) - 1 <= mid
      BY <1>4
    <3> QED BY <1>4, <2>2, <3>1, <3>2 DEF Bounds
  <2>5. PhaseInv' /\ FitIsLongest'
    BY <1>1, <1>3, <2>2, <2>4 DEF PhaseInv, FitIsLongest
  <2> QED BY <2>3, <2>5 DEF KvInv
<1>7. CASE ~Fits(w, mid)
  <2>1. search' = [search EXCEPT !.right = mid - 1]
    BY <1>7 DEF Halve
  <2>2. search'.worker = w /\ search'.left = l /\ search'.right = mid - 1 /\ search'.result = x
    BY <1>2, <2>1 DEF KvTypeOK
  <2>3. KvTypeOK'
    <3>1. mid - 1 \in 0 .. MaxLen
      BY <1>1, <1>4
    <3> QED BY <1>1, <1>2, <2>1, <3>1, Carried DEF KvTypeOK
  <2>4. ASSUME NEW len \in 1 .. MaxLen, len >= mid PROVE ~Fits(w, len)
    BY <2>4, <1>2, <1>4, <1>7, FitsMonotone
  <2>5. x <= mid - 1
    BY <1>4, <1>5, <2>4
  <2>6. Bounds'
    <3>1. Fits(w, x)' /\ \A len \in 1 .. MaxLen : len >= mid => ~Fits(w, len)'
      <4>1. (\A len \in 1 .. MaxLen : len >= mid => ~Fits(w, len)) /\ Fits(w, x)
        BY <1>5, <2>4
      <4>2. \A len : Fits(w, len)' <=> Fits(w, len)
        BY <1>1, FitsUnchanged
      <4> QED BY <4>1, <4>2
    <3>2. \A len \in 1 .. MaxLen : len > mid - 1 => len >= mid
      BY <1>4
    <3> QED BY <1>5, <2>2, <2>5, <3>1, <3>2 DEF Bounds
  <2>7. PhaseInv' /\ FitIsLongest'
    BY <1>1, <1>3, <2>2, <2>6 DEF PhaseInv, FitIsLongest
  <2> QED BY <2>3, <2>7 DEF KvInv
<1> QED BY <1>6, <1>7

LEMMA SearchEndsKeeps ==
  ASSUME KvInv, SearchEnds,
         NEW w, w = search.worker
  PROVE  KvInv'
<1>1. UNCHANGED <<kvIn, kvLen, kvAuto, search>> /\ kvPhase = "search" /\ kvPhase' = "found"
      /\ search.left > search.right /\ MaxLen \in Nat
  BY KvSizes DEF SearchEnds, KvSizes
<1>2. Grouped /\ kvIn.auto /\ LongestBefore(w) /\ KvTypeOK /\ w \in Worker /\ Bounds
      /\ search.left \in 1 .. MaxLen + 1 /\ search.right \in 0 .. MaxLen
  BY <1>1 DEF KvInv, PhaseInv, KvTypeOK
<1>3. LongestFor(w, search.result)
  <2>1. search.result \in 1 .. MaxLen /\ search.result = search.right
    BY <1>1, <1>2 DEF Bounds
  <2>2. ASSUME NEW len \in 1 .. MaxLen PROVE len <= search.result <=> Fits(w, len)
    <3>1. CASE len <= search.result
      BY <3>1, <2>1, <1>2, FitsMonotone DEF Bounds
    <3>2. CASE len > search.result
      BY <3>2, <2>1, <1>2 DEF Bounds
    <3> QED BY <3>1, <3>2, <2>1
  <2> QED BY <2>2 DEF LongestFor
<1>4. KvTypeOK' /\ Grouped' /\ kvIn'.auto /\ LongestBefore(w)' /\ LongestFor(w, search.result)'
  BY <1>1, <1>2, <1>3, Carried DEF KvTypeOK
<1>5. PhaseInv' /\ FitIsLongest'
  <2>1. LongestFor(search.worker, search.result)' /\ LongestBefore(search.worker)'
    BY <1>1, <1>4 DEF LongestFor, LongestBefore
  <2> QED BY <1>1, <1>4, <2>1 DEF PhaseInv, FitIsLongest
<1> QED BY <1>4, <1>5 DEF KvInv

LEMMA FoundKeeps ==
  ASSUME KvInv, Found,
         NEW w, w = search.worker, NEW r, r = search.result
  PROVE  KvInv'
<1>1. UNCHANGED kvIn /\ kvPhase = "found" /\ kvLen' = MaxLen /\ MaxLen \in Nat \ {0}
      /\ kvAuto' = IF r < kvAuto THEN r ELSE kvAuto
  BY KvSizes DEF Found, KvSizes
<1>2. Grouped /\ kvIn.auto /\ LongestBefore(w) /\ LongestFor(w, r) /\ KvTypeOK /\ w \in Worker
      /\ r \in 0 .. MaxLen /\ kvAuto \in 0 .. MaxLen
  BY <1>1 DEF KvInv, PhaseInv, KvTypeOK
<1>3. kvAuto' \in 0 .. MaxLen /\ \A len \in 1 .. MaxLen : len <= kvAuto' <=> len <= kvAuto /\ len <= r
  BY <1>1, <1>2
<1>4. ASSUME NEW len \in 1 .. MaxLen
      PROVE  len <= kvAuto' <=> \A v \in Worker : v < w + 1 => Fits(v, len)'
  <2>1. len <= kvAuto' <=> (\A v \in Worker : v < w => Fits(v, len)) /\ Fits(w, len)
    BY <1>2, <1>3 DEF LongestBefore, LongestFor
  <2>2. \A v \in Worker : v < w + 1 <=> v < w \/ v = w
    BY <1>2 DEF Worker
  <2>3. \A v : Fits(v, len)' <=> Fits(v, len)
    BY <1>1, FitsUnchanged
  <2> QED BY <2>1, <2>2, <2>3, <1>2
<1>5. CASE w = 1
  <2>1. kvPhase' = "fit" /\ search' = [search EXCEPT !.worker = 2]
    BY <1>5 DEF Found
  <2>2. search'.worker = 2
    BY <1>2, <2>1 DEF KvTypeOK
  <2>3. KvTypeOK'
    BY <1>1, <1>2, <1>3, <2>1, Carried DEF KvTypeOK, Worker
  <2>4. LongestBefore(2)'
    BY <1>4, <1>5 DEF LongestBefore
  <2>5. PhaseInv' /\ FitIsLongest'
    <3>1. Grouped' /\ kvIn'.auto
      BY <1>1, <1>2, Carried
    <3>2. LongestBefore(search.worker)'
      BY <2>2, <2>4 DEF LongestBefore
    <3> QED BY <2>1, <3>1, <3>2 DEF PhaseInv, FitIsLongest
  <2> QED BY <2>3, <2>5 DEF KvInv
<1>6. CASE w = 2
  <2>1. kvPhase' = "fitted" /\ UNCHANGED search
    BY <1>6 DEF Found
  <2>2. KvTypeOK'
    BY <1>1, <1>2, <1>3, <2>1, Carried DEF KvTypeOK
  <2>3. LongestBefore(3)'
    BY <1>4, <1>6 DEF LongestBefore
  <2>4. PhaseInv' /\ FitIsLongest'
    BY <1>1, <1>2, <2>1, <2>3 DEF PhaseInv, FitIsLongest
  <2> QED BY <2>2, <2>4 DEF KvInv
<1> QED BY <1>2, <1>5, <1>6 DEF Worker

LEMMA FittedKeeps ==
  ASSUME KvInv, Fitted
  PROVE  KvInv'
<1>1. UNCHANGED <<kvIn, kvAuto, search>> /\ kvPhase = "fitted" /\ MaxLen \in Nat \ {0}
  BY KvSizes DEF Fitted, KvSizes
<1>2. kvIn.auto /\ kvLen = MaxLen /\ LongestBefore(3) /\ KvTypeOK /\ kvAuto \in 0 .. MaxLen
  BY <1>1 DEF KvInv, PhaseInv, KvTypeOK
<1>3. kvLen' = kvLen \/ kvLen' = kvAuto
  BY DEF Fitted
<1>4. KvTypeOK'
  BY <1>1, <1>2, <1>3, Carried DEF KvTypeOK
<1>5. CASE kvPhase' = "error"
  BY <1>4, <1>5 DEF KvInv, PhaseInv, FitIsLongest
<1>6. CASE kvPhase' = "check"
  <2>1. kvLen' = kvAuto
    <3>1. kvLen' = IF kvAuto >= kvLen THEN kvLen ELSE kvAuto
      BY <1>6 DEF Fitted
    <3> QED BY <1>1, <1>2, <3>1
  <2>2. ASSUME NEW len \in 1 .. MaxLen
        PROVE  len <= kvLen' <=> \A v \in Worker : Fits(v, len)'
    <3>1. \A v \in Worker : v < 3
      BY DEF Worker
    <3>2. \A v : Fits(v, len)' <=> Fits(v, len)
      BY <1>1, FitsUnchanged
    <3> QED BY <1>2, <2>1, <3>1, <3>2 DEF LongestBefore
  <2>3. PhaseInv' /\ FitIsLongest'
    BY <1>1, <1>2, <1>6, <2>2 DEF PhaseInv, FitIsLongest
  <2> QED BY <1>4, <2>3 DEF KvInv
<1> QED BY <1>5, <1>6 DEF Fitted

LEMMA CheckKeeps ==
  ASSUME KvInv, Check
  PROVE  KvInv'
<1>1. UNCHANGED <<kvIn, kvLen, kvAuto, search>>
  BY DEF Check
<1>2. KvTypeOK'
  BY <1>1, Carried DEF KvInv, KvTypeOK
<1>3. kvPhase' = "error" \/ (kvPhase' = "configure" /\ \A w \in Worker : Fits(w, kvLen))
  BY DEF Check
<1>4. kvPhase' = "configure" => \A w \in Worker : Fits(w, kvLen)'
  <2>1. \A w \in Worker : Fits(w, kvLen)' <=> Fits(w, kvLen)
    BY <1>1, FitsUnchanged DEF Fits, Needed, TargetBlocks
  <2> QED BY <1>3, <2>1
<1>5. PhaseInv' /\ FitIsLongest'
  BY <1>1, <1>3, <1>4 DEF PhaseInv, FitIsLongest
<1> QED BY <1>2, <1>5 DEF KvInv

LEMMA RestKeeps ==
  ASSUME KvInv, Configure \/ Shrink
  PROVE  KvInv'
<1>1. UNCHANGED <<kvIn, kvLen, kvAuto, search>> /\ kvPhase' \in {"shrink", "done"}
  BY DEF Configure, Shrink
<1>2. KvTypeOK'
  BY <1>1, Carried DEF KvInv, KvTypeOK
<1>3. PhaseInv' /\ FitIsLongest'
  BY <1>1 DEF PhaseInv, FitIsLongest
<1> QED BY <1>2, <1>3 DEF KvInv

LEMMA KvStep == KvInv /\ [KvNext]_kvVars => KvInv'
<1> SUFFICES ASSUME KvInv, [KvNext]_kvVars PROVE KvInv'
  OBVIOUS
<1>1. CASE KvNext
  <2>1. PICK w, l, r, x, mid :
          /\ w = search.worker /\ l = search.left /\ r = search.right /\ x = search.result
          /\ mid = (l + r) \div 2
    OBVIOUS
  <2> QED BY <1>1, <2>1, GroupKeeps, TryOneKeeps, HalveKeeps, SearchEndsKeeps, FoundKeeps, FittedKeeps, CheckKeeps,
     RestKeeps DEF KvNext
<1>2. CASE UNCHANGED kvVars
  <2>1. UNCHANGED <<kvIn, kvPhase, kvLen, kvAuto, search>>
    BY <1>2 DEF kvVars
  <2>2. KvTypeOK'
    BY <2>1, Carried DEF KvInv, KvTypeOK
  <2>3. /\ \A w, len : Fits(w, len)' <=> Fits(w, len)
        /\ Grouped' <=> Grouped
        /\ \A w : LongestBefore(w)' <=> LongestBefore(w)
        /\ \A w, r : LongestFor(w, r)' <=> LongestFor(w, r)
    BY <2>1, FitsUnchanged, Carried
  <2>4. PhaseInv' /\ FitIsLongest'
    <3>1. Bounds' <=> Bounds
      BY <2>1 DEF Bounds, Fits, Needed, Available, TargetBlocks, PerBlock, MambaGroups, On, OfKind, DraftBytes
    <3>2. PhaseInv'
      BY <2>1, <2>3, <3>1 DEF KvInv, PhaseInv
    <3>3. FitIsLongest'
      BY <2>1, <2>3 DEF KvInv, FitIsLongest
    <3> QED BY <3>2, <3>3
  <2> QED BY <2>2, <2>4 DEF KvInv
<1> QED BY <1>1, <1>2

(* The length that get_kv_cache_configs checks and plans for is the        *)
(* longest, up to the model's own, that the accounting lets every worker   *)
(* have, and a length that does not fit is not admitted: for any layers,   *)
(* pages and memories.                                                     *)
THEOREM FitTheorem == KvSpec => []FitIsLongest
<1>1. KvInit => KvInv
  BY KvInitial
<1>2. KvInv /\ [KvNext]_kvVars => KvInv'
  BY KvStep
<1>3. KvInv => FitIsLongest
  BY DEF KvInv
<1> QED BY <1>1, <1>2, <1>3, PTL DEF KvSpec

-----------------------------------------------------------------------------
(* The tensors of the plan.  A mamba layer shares the slot of an MLA layer *)
(* of its stage: the layers of one group on a stage are no more than its   *)
(* MLA layers, because a stage has neighbours in the round of the groups.  *)

(* The number of layers before one is its place among them.                *)
LEMMA Ranks ==
  ASSUME NEW S, S \subseteq 1 .. Layers
  PROVE  /\ \A i \in S : Before(S, i) \in 0 .. Cardinality(S) - 1
         /\ \A i \in S, j \in S : i < j => Before(S, i) < Before(S, j)
         /\ \A i \in S, j \in S : Before(S, i) = Before(S, j) => i = j
<1> DEFINE B(i) == {j \in S : j < i}
<1>1. IsFiniteSet(S) /\ \A i \in S : IsFiniteSet(B(i)) /\ Before(S, i) = Cardinality(B(i)) /\ i \in Int
  <2>1. IsFiniteSet(S)
    BY LayersFinite
  <2>3. S \subseteq Int
    OBVIOUS
  <2>2. \A i \in S : IsFiniteSet(B(i))
    BY <2>1, FS_Subset
  <2> QED BY <2>1, <2>2, <2>3 DEF Before
<1>2. Cardinality(S) \in Nat /\ \A i \in S : Cardinality(B(i)) \in Nat
  BY <1>1, FS_CardinalityType
<1>3. ASSUME NEW i \in S, NEW T, T \subseteq S, B(i) \subseteq T, i \in T
      PROVE  Cardinality(B(i)) < Cardinality(T)
  <2>1. IsFiniteSet(T)
    BY <1>1, <1>3, FS_Subset
  <2>4. i \notin B(i)
    BY <1>1
  <2>2. Cardinality(B(i)) <= Cardinality(T) /\ Cardinality(B(i)) # Cardinality(T)
    BY <1>3, <2>1, <2>4, FS_Subset
  <2>3. Cardinality(T) \in Nat
    BY <2>1, FS_CardinalityType
  <2> QED BY <1>2, <2>2, <2>3
<1>4. \A i \in S : Before(S, i) \in 0 .. Cardinality(S) - 1
  <2> TAKE i \in S
  <2>1. Cardinality(B(i)) < Cardinality(S)
    BY <1>3
  <2> QED BY <1>1, <1>2, <2>1
<1>5. ASSUME NEW i \in S, NEW j \in S, i < j PROVE Before(S, i) < Before(S, j)
  <2>1. B(i) \subseteq B(j) /\ i \in B(j) /\ B(j) \subseteq S
    <3>1. \A x \in S : x < i => x < j
      BY <1>1, <1>5
    <3> QED BY <1>5, <3>1
  <2> HIDE DEF B
  <2> QED BY <1>1, <1>3, <2>1
<1>6. ASSUME NEW i \in S, NEW j \in S, Before(S, i) = Before(S, j) PROVE i = j
  <2>1. ~(i < j) /\ ~(j < i)
    <3>1. Before(S, i) \in Int /\ Before(S, j) \in Int
      BY <1>4
    <3> HIDE DEF B
    <3> QED BY <3>1, <1>5, <1>6
  <2> QED BY <1>1, <2>1
<1> QED BY <1>4, <1>5, <1>6

(* Each number up to the size of the set is the place of a layer.          *)
LEMMA RanksAll ==
  ASSUME NEW S, S \subseteq 1 .. Layers, NEW n \in 0 .. Cardinality(S) - 1
  PROVE  \E i \in S : Before(S, i) = n
<1> DEFINE f == [i \in S |-> Before(S, i)]
           T == 0 .. Cardinality(S) - 1
<1>1. IsFiniteSet(S) /\ Cardinality(S) \in Nat
  BY LayersFinite
<1>2. f \in Injection(S, T)
  BY Ranks DEF Injection, IsInjective
<1>3. IsFiniteSet(T) /\ Cardinality(T) = Cardinality(S)
  BY <1>1, FS_Interval
<1>4. f \in Surjection(S, T)
  <2> HIDE DEF f, T
  <2> QED BY <1>2, <1>3, FS_Injection
<1> QED BY <1>4 DEF Surjection

LEMMA Ceiling ==
  ASSUME NEW a \in Nat, NEW b \in Nat \ {0}, NEW g \in Int, CeilDiv(a, b) <= g
  PROVE  g \in Nat /\ a <= b * g /\ (a > 0 => g > 0)
<1>1. PICK q \in Nat, r \in 0 .. b - 1 : a + b - 1 = b * q + r /\ q = (a + b - 1) \div b
  <2>1. a + b - 1 \in Nat
    OBVIOUS
  <2> QED BY <2>1, Divided
<1>2. q <= g
  BY <1>1 DEF CeilDiv
<1>3. a <= b * q
  BY <1>1
<1>4. b * q <= b * g /\ g \in Nat
  BY <1>2, Times
<1>5. a > 0 => g > 0
  BY <1>3, <1>4
<1> QED BY <1>3, <1>4, <1>5

(* With the balanced number of groups, no stage has more mamba layers of a *)
(* group than MLA layers.                                                  *)
LEMMA GroupsBalance ==
  ASSUME Grouped, OfKind("mamba") # {}
  PROVE  /\ MambaGroups \in Nat \ {0}
         /\ \A w \in Worker : Cardinality(On(w, "mamba")) <= Cardinality(On(w, "mla")) * MambaGroups
<1> DEFINE S == {CeilDiv(Cardinality(OfKind("mamba")), Cardinality(OfKind("mla")))} \union
                {CeilDiv(Cardinality(On(w, "mamba")), Cardinality(On(w, "mla"))) :
                   w \in {v \in Worker : On(v, "mamba") # {}}}
<1>1. MambaGroups = Largest(S) /\ MambaGroups \in Int
  BY GroupsInt DEF MambaGroups
<1>2. \A n \in S : n <= MambaGroups
  <2>1. \E m \in S : \A n \in S : n <= m
    BY GroupsMax
  <2> HIDE DEF S
  <2> QED BY <1>1, <2>1 DEF Largest
<1>3. Cardinality(OfKind("mamba")) \in Nat \ {0} /\ Cardinality(OfKind("mla")) \in Nat \ {0}
  BY KindsAre, LayersFinite DEF Grouped
<1>4. MambaGroups \in Nat \ {0}
  <2>1. CeilDiv(Cardinality(OfKind("mamba")), Cardinality(OfKind("mla"))) <= MambaGroups
    BY <1>2
  <2> QED BY <1>1, <1>3, <2>1, Ceiling
<1>5. ASSUME NEW w \in Worker
      PROVE  Cardinality(On(w, "mamba")) <= Cardinality(On(w, "mla")) * MambaGroups
  <2>1. Cardinality(On(w, "mamba")) \in Nat /\ Cardinality(On(w, "mla")) \in Nat \ {0}
    BY KindsAre, LayersFinite DEF Grouped
  <2>2. CASE On(w, "mamba") = {}
    <3>1. Cardinality(On(w, "mamba")) = 0
      BY <2>2, FS_EmptySet
    <3> QED BY <1>4, <2>1, <3>1
  <2>3. CASE On(w, "mamba") # {}
    <3>1. CeilDiv(Cardinality(On(w, "mamba")), Cardinality(On(w, "mla"))) <= MambaGroups
      BY <1>2, <2>3
    <3> QED BY <1>1, <2>1, <3>1, Ceiling
  <2> QED BY <2>2, <2>3
<1> QED BY <1>4, <1>5

LEMMA Apart ==
  ASSUME NEW G \in Nat \ {0}, NEW a \in Nat, NEW x \in Nat, NEW y \in Nat,
         (a + x) % G = (a + y) % G, x \div G = y \div G
  PROVE  x = y
<1>1. PICK p \in Nat, q \in Nat, r \in 0 .. G - 1 : a + x = G * p + r /\ a + y = G * q + r
  <2>1. PICK m \in Nat, n \in Nat : m = a + x /\ n = a + y
    OBVIOUS
  <2>2. PICK p \in Nat, r \in 0 .. G - 1 : m = G * p + r /\ m % G = r
    BY Quotient
  <2>3. PICK q \in Nat, t \in 0 .. G - 1 : n = G * q + t /\ n % G = t
    BY Quotient
  <2> QED BY <2>1, <2>2, <2>3
<1>2. PICK s \in Nat, u \in 0 .. G - 1, v \in 0 .. G - 1 : x = G * s + u /\ y = G * s + v
  <2>1. PICK s \in Nat, u \in 0 .. G - 1 : x = G * s + u /\ x \div G = s
    BY Quotient
  <2>2. PICK t \in Nat, v \in 0 .. G - 1 : y = G * t + v /\ y \div G = t
    BY Quotient
  <2> QED BY <2>1, <2>2
<1>3. ~(p < q)
  <2>1. ASSUME p < q PROVE FALSE
    <3>1. G * (p + 1) <= G * q /\ G * (p + 1) = G * p + G
      BY <2>1, Times
    <3>2. G * p \in Int /\ G * q \in Int /\ G * s \in Int
      OBVIOUS
    <3> QED BY <1>1, <1>2, <3>1, <3>2
  <2> QED BY <2>1
<1>4. ~(q < p)
  <2>1. ASSUME q < p PROVE FALSE
    <3>1. G * (q + 1) <= G * p /\ G * (q + 1) = G * q + G
      BY <2>1, Times
    <3>2. G * p \in Int /\ G * q \in Int /\ G * s \in Int
      OBVIOUS
    <3> QED BY <1>1, <1>2, <3>1, <3>2
  <2> QED BY <2>1
<1>5. p = q
  BY <1>3, <1>4
<1> QED BY <1>1, <1>5

LEMMA DivBelow ==
  ASSUME NEW G \in Nat \ {0}, NEW M \in Nat, NEW x \in Nat, x < M * G
  PROVE  x \div G \in 0 .. M - 1
<1>1. PICK q \in Nat, r \in 0 .. G - 1 : x = G * q + r /\ q = x \div G
  BY Divided
<1>2. ~(M <= q)
  <2>1. ASSUME M <= q PROVE FALSE
    <3>1. G * M <= G * q /\ G * M = M * G
      BY <2>1, Times
    <3> QED BY <1>1, <3>1
  <2> QED BY <2>1
<1> QED BY <1>1, <1>2

(* The mamba layers of a stage are neighbours among all mamba layers.      *)
LEMMA StageRanks ==
  ASSUME Grouped, NEW w \in Worker
  PROVE  \E a \in Nat : \A j \in On(w, "mamba") : Before(OfKind("mamba"), j) = a + Before(On(w, "mamba"), j)
<1> DEFINE all == OfKind("mamba")
           on == On(w, "mamba")
           cut == kvIn.cut
<1>1. on \subseteq all /\ all \subseteq 1 .. Layers /\ all \subseteq Int /\ cut \in Int /\ IsFiniteSet(all) /\ IsFiniteSet(on)
  <2>1. on \subseteq all /\ all \subseteq 1 .. Layers
    BY DEF On, OfKind
  <2>2. cut \in Int
    BY DEF Grouped, KvConfigs
  <2> QED BY <2>1, <2>2, LayersFinite
<1>2. \A i : i \in on <=> i \in all /\ (cut = 0 \/ (i <= cut <=> w = 1))
  BY DEF On
<1> HIDE DEF all, on, cut
<1>3. CASE cut = 0 \/ w = 1
  <2>1. \A j \in on : \A i \in all : i < j => i \in on
    BY <1>1, <1>2, <1>3
  <2>2. ASSUME NEW j \in on PROVE Before(all, j) = Before(on, j) /\ Before(on, j) \in Int
    <3>1. {i \in all : i < j} = {i \in on : i < j}
      BY <1>1, <2>1
    <3>2. on \subseteq 1 .. Layers
      BY <1>1
    <3>3. Before(on, j) \in 0 .. Cardinality(on) - 1
      BY <3>2, Ranks
    <3> QED BY <3>1, <3>3 DEF Before
  <2>3. \A j \in on : Before(all, j) = 0 + Before(on, j)
    BY <2>2
  <2> QED BY <2>3 DEF all, on
<1>4. CASE cut # 0 /\ w # 1
  <2> DEFINE rest == all \ on
  <2>1. IsFiniteSet(rest) /\ Cardinality(rest) \in Nat
    BY <1>1, FS_Subset, FS_CardinalityType
  <2>2. ASSUME NEW j \in on
        PROVE  Before(all, j) = Cardinality(rest) + Before(on, j)
    <3>1. {i \in all : i < j} = rest \union {i \in on : i < j}
      <4>1. \A i \in rest : i < j
        BY <1>1, <1>2, <1>4
      <4> QED BY <1>1, <4>1
    <3>2. rest \cap {i \in on : i < j} = {} /\ IsFiniteSet({i \in on : i < j})
      BY <1>1, FS_Subset
    <3>3. Cardinality({i \in all : i < j}) = Cardinality(rest) + Cardinality({i \in on : i < j}) - 0
      <4> HIDE DEF rest
      <4> QED BY <2>1, <3>1, <3>2, FS_Union, FS_EmptySet
    <3>4. Cardinality({i \in on : i < j}) \in Nat
      BY <3>2, FS_CardinalityType
    <3> QED BY <2>1, <3>3, <3>4 DEF Before
  <2> QED BY <2>1, <2>2 DEF all, on
<1> QED BY <1>3, <1>4

Peers(w, i) == {j \in On(w, "mamba") : MambaGroup(j) = MambaGroup(i)}

LEMMA PeersFew ==
  ASSUME Grouped, OfKind("mamba") # {}, NEW w \in Worker, NEW i \in On(w, "mamba")
  PROVE  Cardinality(Peers(w, i)) <= Cardinality(On(w, "mla"))
<1> DEFINE G == MambaGroups
           M == Cardinality(On(w, "mla"))
           on == On(w, "mamba")
           T == Peers(w, i)
           rank == [j \in T |-> Before(on, j) \div G]
<1>1. G \in Nat \ {0} /\ M \in Nat /\ Cardinality(on) \in Nat /\ Cardinality(on) <= M * G /\ on \subseteq 1 .. Layers
  BY GroupsBalance, KindsAre, LayersFinite
<1>2. PICK a \in Nat : \A j \in on : Before(OfKind("mamba"), j) = a + Before(on, j)
  BY StageRanks
<1>3. \A j \in on : MambaGroup(j) = (a + Before(on, j)) % G
  BY <1>2 DEF MambaGroup
<1>4. T \subseteq on /\ \A j, k \in T : (a + Before(on, j)) % G = (a + Before(on, k)) % G
  BY <1>3 DEF Peers
<1> HIDE DEF G, M, on, T
<1>5. \A j \in on : Before(on, j) \in Nat /\ Before(on, j) < M * G
  <2> TAKE j \in on
  <2>1. Before(on, j) \in 0 .. Cardinality(on) - 1
    BY <1>1, Ranks
  <2>2. M * G \in Int
    BY <1>1
  <2> QED BY <1>1, <2>1, <2>2
<1>6. \A j \in T : rank[j] \in 0 .. M - 1
  BY <1>1, <1>4, <1>5, DivBelow
<1>7. \A j, k \in T : rank[j] = rank[k] => j = k
  <2> SUFFICES ASSUME NEW j \in T, NEW k \in T, rank[j] = rank[k] PROVE j = k
    OBVIOUS
  <2>1. Before(on, j) \div G = Before(on, k) \div G
    OBVIOUS
  <2>2. Before(on, j) = Before(on, k)
    BY <1>1, <1>4, <1>5, <2>1, Apart
  <2> QED BY <1>1, <1>4, <2>2, Ranks
<1>8. rank \in Injection(T, 0 .. M - 1)
  BY <1>6, <1>7 DEF Injection, IsInjective
<1>9. IsFiniteSet(0 .. M - 1) /\ Cardinality(0 .. M - 1) = M
  <2>1. M - 1 \in Int /\ 0 \in Int
    BY <1>1
  <2>2. IsFiniteSet(0 .. M - 1) /\ Cardinality(0 .. M - 1) = IF 0 > M - 1 THEN 0 ELSE (M - 1) - 0 + 1
    BY <2>1, FS_Interval
  <2> QED BY <1>1, <2>2
<1>10. Cardinality(T) <= M
  <2> HIDE DEF rank
  <2> QED BY <1>8, <1>9, FS_Injection
<1> QED BY <1>10 DEF T, M

LEMMA SlotsAre ==
  ASSUME Grouped, OfKind("mamba") # {}, NEW w \in Worker
  PROVE  /\ \A m \in On(w, "mla") : Slot(w, m) = Before(On(w, "mla"), m)
         /\ \A i \in On(w, "mamba") : Slot(w, i) = Before(Peers(w, i), i) /\ i \in Peers(w, i)
<1>1. \A m \in On(w, "mla") : kvIn.kind[m] = "mla"
  BY DEF On, OfKind
<1>2. \A i \in On(w, "mamba") : kvIn.kind[i] = "mamba"
  BY DEF On, OfKind
<1>3. ASSUME NEW m \in On(w, "mla") PROVE Slot(w, m) = Before(On(w, "mla"), m)
  <2>1. {j \in On(w, kvIn.kind[m]) : kvIn.kind[m] = "mamba" => MambaGroup(j) = MambaGroup(m)} = On(w, "mla")
    BY <1>1
  <2> QED BY <2>1 DEF Slot
<1>4. ASSUME NEW i \in On(w, "mamba") PROVE Slot(w, i) = Before(Peers(w, i), i) /\ i \in Peers(w, i)
  <2>1. {j \in On(w, kvIn.kind[i]) : kvIn.kind[i] = "mamba" => MambaGroup(j) = MambaGroup(i)} = Peers(w, i)
    BY <1>2 DEF Peers
  <2> QED BY <2>1 DEF Slot, Peers
<1> QED BY <1>3, <1>4

(* A slot of a stage is one MLA layer and at most one layer of each mamba  *)
(* group, and every mamba layer has its slot.                              *)
LEMMA SlotsShared ==
  ASSUME Grouped, OfKind("mamba") # {}, NEW w \in Worker
  PROVE  /\ \A m \in On(w, "mla"), n \in On(w, "mla") : Slot(w, m) = Slot(w, n) => m = n
         /\ \A i \in On(w, "mamba") : \E m \in On(w, "mla") : Slot(w, m) = Slot(w, i)
         /\ \A i \in On(w, "mamba"), j \in On(w, "mamba") :
              Slot(w, i) = Slot(w, j) /\ MambaGroup(i) = MambaGroup(j) => i = j
<1>1. On(w, "mla") \subseteq 1 .. Layers /\ \A i \in On(w, "mamba") : Peers(w, i) \subseteq 1 .. Layers
  BY KindsAre DEF Peers
<1>2. \A m \in On(w, "mla"), n \in On(w, "mla") : Slot(w, m) = Slot(w, n) => m = n
  <2> SUFFICES ASSUME NEW m \in On(w, "mla"), NEW n \in On(w, "mla"), Slot(w, m) = Slot(w, n) PROVE m = n
    OBVIOUS
  <2>1. Before(On(w, "mla"), m) = Before(On(w, "mla"), n)
    BY SlotsAre
  <2> QED BY <1>1, <2>1, Ranks
<1>3. ASSUME NEW i \in On(w, "mamba") PROVE \E m \in On(w, "mla") : Slot(w, m) = Slot(w, i)
  <2>1. Before(Peers(w, i), i) \in 0 .. Cardinality(Peers(w, i)) - 1
    BY <1>1, SlotsAre, Ranks
  <2>2. Cardinality(Peers(w, i)) <= Cardinality(On(w, "mla"))
    BY PeersFew
  <2>3. Cardinality(Peers(w, i)) \in Nat /\ Cardinality(On(w, "mla")) \in Nat
    BY <1>1, LayersFinite
  <2>4. Before(Peers(w, i), i) \in 0 .. Cardinality(On(w, "mla")) - 1
    BY <2>1, <2>2, <2>3
  <2>5. PICK m \in On(w, "mla") : Before(On(w, "mla"), m) = Before(Peers(w, i), i)
    BY <1>1, <2>4, RanksAll
  <2> QED BY <2>5, SlotsAre
<1>4. ASSUME NEW i \in On(w, "mamba"), NEW j \in On(w, "mamba"),
             Slot(w, i) = Slot(w, j), MambaGroup(i) = MambaGroup(j)
      PROVE  i = j
  <2>1. Peers(w, i) = Peers(w, j)
    BY <1>4 DEF Peers
  <2>2. Before(Peers(w, i), i) = Before(Peers(w, i), j) /\ i \in Peers(w, i) /\ j \in Peers(w, i)
    BY <1>4, <2>1, SlotsAre
  <2> QED BY <1>1, <2>2, Ranks
<1> QED BY <1>2, <1>3, <1>4

(* The three kinds of tensors. *)
Shared(w, m) ==
  [page |-> MlaPage,
   by |-> {<<"mla", m>>} \union
          {<<"mamba", i>> : i \in {j \in On(w, "mamba") : Slot(w, j) = Slot(w, m)}}]
Indexed(m) == [page |-> IdxPage, by |-> {<<"idx", m>>, <<"tail", m>>}]
Drafted(d) == [page |-> DraftPage, by |-> {<<"draft", d>>}]

LEMMA TensorsAre ==
  ASSUME NEW w
  PROVE  Tensors(w) = {Shared(w, m) : m \in On(w, "mla")} \union {Indexed(m) : m \in On(w, "mla")}
                        \union {Drafted(d) : d \in 1 .. kvIn.drafts}
BY DEF Tensors, Shared, Indexed, Drafted

LEMMA LayersDiffer ==
  ASSUME NEW x, NEW y
  PROVE  /\ <<"mla", x>> # <<"mamba", y>> /\ <<"mla", x>> # <<"idx", y>> /\ <<"mla", x>> # <<"tail", y>>
         /\ <<"mla", x>> # <<"draft", y>> /\ <<"mamba", x>> # <<"idx", y>> /\ <<"mamba", x>> # <<"tail", y>>
         /\ <<"mamba", x>> # <<"draft", y>> /\ <<"idx", x>> # <<"tail", y>> /\ <<"idx", x>> # <<"draft", y>>
         /\ <<"tail", x>> # <<"draft", y>>
         /\ \A t : <<t, x>> = <<t, y>> => x = y
OBVIOUS

LEMMA ByTensors ==
  ASSUME NEW w, NEW m, NEW x
  PROVE  /\ <<"mla", x>> \in Shared(w, m).by <=> x = m
         /\ <<"mamba", x>> \in Shared(w, m).by <=> x \in On(w, "mamba") /\ Slot(w, x) = Slot(w, m)
         /\ <<"idx", x>> \notin Shared(w, m).by /\ <<"tail", x>> \notin Shared(w, m).by
         /\ <<"draft", x>> \notin Shared(w, m).by
         /\ <<"idx", x>> \in Indexed(m).by <=> x = m
         /\ <<"tail", x>> \in Indexed(m).by <=> x = m
         /\ <<"mla", x>> \notin Indexed(m).by /\ <<"mamba", x>> \notin Indexed(m).by
         /\ <<"draft", x>> \notin Indexed(m).by
         /\ <<"draft", x>> \in Drafted(m).by <=> x = m
         /\ <<"mla", x>> \notin Drafted(m).by /\ <<"mamba", x>> \notin Drafted(m).by
         /\ <<"idx", x>> \notin Drafted(m).by /\ <<"tail", x>> \notin Drafted(m).by
<1>1. Shared(w, m).by = {<<"mla", m>>} \union
          {<<"mamba", i>> : i \in {j \in On(w, "mamba") : Slot(w, j) = Slot(w, m)}}
  BY DEF Shared
<1>2. Indexed(m).by = {<<"idx", m>>, <<"tail", m>>} /\ Drafted(m).by = {<<"draft", m>>}
  BY DEF Indexed, Drafted
<1>3. <<"mamba", x>> \in Shared(w, m).by <=> x \in On(w, "mamba") /\ Slot(w, x) = Slot(w, m)
  BY <1>1, LayersDiffer
<1>4. \A y : y \in Shared(w, m).by => y = <<"mla", m>> \/ \E i : y = <<"mamba", i>>
  BY <1>1
<1>5. /\ <<"idx", x>> \notin Shared(w, m).by /\ <<"tail", x>> \notin Shared(w, m).by
      /\ <<"draft", x>> \notin Shared(w, m).by
  BY <1>4, LayersDiffer
<1>6. <<"mla", x>> \in Shared(w, m).by <=> x = m
  BY <1>1, LayersDiffer
<1> QED BY <1>2, <1>3, <1>5, <1>6, LayersDiffer

(* Every layer of a stage has its tensor and has it once.                  *)
LEMMA OneTensor ==
  ASSUME Grouped, OfKind("mamba") # {}, NEW w \in Worker, NEW l \in TargetLayers(w)
  PROVE  Cardinality({t \in Tensors(w) : l \in t.by}) = 1
<1> DEFINE mine == {t \in Tensors(w) : l \in t.by}
           A(m) == Shared(w, m)
           B(m) == Indexed(m)
           C(d) == Drafted(d)
<1>0. /\ \A t \in Tensors(w) : \/ \E m \in On(w, "mla") : t = A(m)
                               \/ \E m \in On(w, "mla") : t = B(m)
                               \/ \E d : t = C(d)
      /\ \A m \in On(w, "mla") : A(m) \in Tensors(w) /\ B(m) \in Tensors(w)
  BY TensorsAre
<1>5. ASSUME NEW x, l = <<"mla", x>>
      PROVE  \A m : (l \in A(m).by <=> x = m) /\ l \notin B(m).by /\ l \notin C(m).by
  BY <1>5, ByTensors
<1>6. ASSUME NEW x, l = <<"idx", x>> \/ l = <<"tail", x>>
      PROVE  \A m : l \notin A(m).by /\ (l \in B(m).by <=> x = m) /\ l \notin C(m).by
  <2>1. CASE l = <<"idx", x>>
    BY <2>1, ByTensors
  <2>2. CASE l = <<"tail", x>>
    BY <2>2, ByTensors
  <2> QED BY <1>6, <2>1, <2>2
<1>7. ASSUME NEW x \in On(w, "mamba"), l = <<"mamba", x>>
      PROVE  \A m : (l \in A(m).by <=> Slot(w, x) = Slot(w, m)) /\ l \notin B(m).by /\ l \notin C(m).by
  BY <1>7, ByTensors
<1> HIDE DEF A, B, C
<1>1. ASSUME NEW m \in On(w, "mla"), l = <<"mla", m>> PROVE \E t : mine = {t}
  <2>1. A(m) \in Tensors(w) /\ l \in A(m).by
    BY <1>0, <1>1, <1>5
  <2>2. \A t \in Tensors(w) : l \in t.by => t = A(m)
    BY <1>0, <1>1, <1>5
  <2>3. mine = {A(m)}
    BY <2>1, <2>2
  <2> QED BY <2>3
<1>2. ASSUME NEW m \in On(w, "mla"), l = <<"idx", m>> \/ l = <<"tail", m>> PROVE \E t : mine = {t}
  <2>1. B(m) \in Tensors(w) /\ l \in B(m).by
    BY <1>0, <1>2, <1>6
  <2>2. \A t \in Tensors(w) : l \in t.by => t = B(m)
    BY <1>0, <1>2, <1>6
  <2>3. mine = {B(m)}
    BY <2>1, <2>2
  <2> QED BY <2>3
<1>3. ASSUME NEW i \in On(w, "mamba"), l = <<"mamba", i>> PROVE \E t : mine = {t}
  <2>1. PICK m \in On(w, "mla") : Slot(w, m) = Slot(w, i)
    BY SlotsShared
  <2>2. A(m) \in Tensors(w) /\ l \in A(m).by
    BY <1>0, <1>3, <2>1, <1>7
  <2>3. \A n \in On(w, "mla") : l \in A(n).by => n = m
    BY <1>3, <2>1, <1>7, SlotsShared
  <2>4. \A t \in Tensors(w) : l \in t.by => t = A(m)
    BY <1>0, <1>3, <2>3, <1>7
  <2>5. mine = {A(m)}
    BY <2>2, <2>4
  <2> QED BY <2>5
<1>4. \/ \E m \in On(w, "mla") : l = <<"mla", m>> \/ l = <<"idx", m>> \/ l = <<"tail", m>>
      \/ \E i \in On(w, "mamba") : l = <<"mamba", i>>
  BY DEF TargetLayers
<1>8. \E t : mine = {t}
  BY <1>1, <1>2, <1>3, <1>4
<1> QED BY <1>8, FS_Singleton

(* Layers that share a tensor take their blocks from different groups.     *)
LEMMA SharersDiffer ==
  ASSUME Grouped, OfKind("mamba") # {}, NEW w \in Worker, NEW t \in Tensors(w),
         NEW k \in t.by, NEW l \in t.by, GroupOf(k) = GroupOf(l)
  PROVE  k = l
<1>1. CASE \E m \in On(w, "mla") : t = Shared(w, m)
  <2>1. PICK m \in On(w, "mla") : t = Shared(w, m)
    BY <1>1
  <2>2. \A x \in t.by : x = <<"mla", m>> \/ \E i \in On(w, "mamba") : x = <<"mamba", i>> /\ Slot(w, i) = Slot(w, m)
    BY <2>1 DEF Shared
  <2>3. GroupOf(<<"mla", m>>) = <<"attn">>
    BY DEF GroupOf
  <2>4. \A i : GroupOf(<<"mamba", i>>) = <<"mamba", MambaGroup(i)>>
    BY DEF GroupOf
  <2>5. \A g : <<"attn">> # <<"mamba", g>>
    OBVIOUS
  <2>6. CASE k = <<"mla", m>>
    BY <2>2, <2>3, <2>4, <2>5, <2>6
  <2>7. CASE k # <<"mla", m>>
    <3>1. l # <<"mla", m>>
      BY <2>2, <2>3, <2>4, <2>5, <2>7
    <3>2. PICK i \in On(w, "mamba"), j \in On(w, "mamba") :
            k = <<"mamba", i>> /\ l = <<"mamba", j>> /\ Slot(w, i) = Slot(w, j)
      BY <2>2, <2>7, <3>1
    <3>3. MambaGroup(i) = MambaGroup(j)
      BY <2>4, <3>2
    <3> QED BY <3>2, <3>3, SlotsShared
  <2> QED BY <2>6, <2>7
<1>2. CASE \E m : t = Indexed(m)
  <2>1. PICK m : t.by = {<<"idx", m>>, <<"tail", m>>}
    BY <1>2 DEF Indexed
  <2>2. GroupOf(<<"idx", m>>) = <<"attn">> /\ GroupOf(<<"tail", m>>) = <<"tail">>
    BY DEF GroupOf
  <2> QED BY <2>1, <2>2
<1>3. CASE \E d : t = Drafted(d)
  BY <1>3 DEF Drafted
<1> QED BY <1>1, <1>2, <1>3, TensorsAre

(* The bytes of the tensors of n blocks are n times those of a block id.   *)
LEMMA Bytes ==
  ASSUME Grouped, OfKind("mamba") # {}, NEW w \in Worker, NEW n \in Nat
  PROVE  MapThenSumSet(LAMBDA t : t.page * n, Tensors(w)) = n * PerBlock(w)
<1> DEFINE S == Tensors(w)
           M == On(w, "mla")
           D == 1 .. kvIn.drafts
           A == {Shared(w, m) : m \in M}
           B == {Indexed(m) : m \in M}
           C == {Drafted(d) : d \in D}
           v == [t \in S |-> t.page * n]
           P(it) == it = [T \in SUBSET S |-> IF T = {} THEN 0
                                             ELSE Some(T).page * n + it[T \ {Some(T)}]]
<1>1. IsFiniteSet(M) /\ IsFiniteSet(D) /\ Cardinality(M) \in Nat /\ kvIn.drafts \in Nat /\ Cardinality(D) = kvIn.drafts
  <2>1. kvIn.drafts \in Nat
    BY KvSizes DEF Grouped, KvConfigs, KvSizes
  <2>2. IsFiniteSet(D) /\ Cardinality(D) = kvIn.drafts
    BY <2>1, FS_Interval
  <2> QED BY <2>1, <2>2, KindsAre, LayersFinite
<1>2. IsFiniteSet(A) /\ Cardinality(A) = Cardinality(M)
  <2> DEFINE f == [m \in M |-> Shared(w, m)]
  <2>1. \A x, y \in M : f[x] = f[y] => x = y
    BY ByTensors
  <2>2. A = {f[x] : x \in M}
    OBVIOUS
  <2> HIDE DEF f, A, M
  <2> QED BY <1>1, <2>1, <2>2, ImageCard
<1>3. IsFiniteSet(B) /\ Cardinality(B) = Cardinality(M)
  <2> DEFINE f == [m \in M |-> Indexed(m)]
  <2>1. \A x, y \in M : f[x] = f[y] => x = y
    BY ByTensors
  <2>2. B = {f[x] : x \in M}
    OBVIOUS
  <2> HIDE DEF f, B, M
  <2> QED BY <1>1, <2>1, <2>2, ImageCard
<1>4. IsFiniteSet(C) /\ Cardinality(C) = kvIn.drafts
  <2> DEFINE f == [d \in D |-> Drafted(d)]
  <2>1. \A x, y \in D : f[x] = f[y] => x = y
    BY ByTensors
  <2>2. C = {f[x] : x \in D}
    OBVIOUS
  <2> HIDE DEF f, C, D
  <2> QED BY <1>1, <2>1, <2>2, ImageCard
<1>5. S = (A \union B) \union C /\ A \cap B = {} /\ (A \union B) \cap C = {}
  <2>1. S = (A \union B) \union C
    BY TensorsAre
  <2>2. \A x, y : Shared(w, x) # Indexed(y) /\ Shared(w, x) # Drafted(y) /\ Indexed(x) # Drafted(y)
    <3> TAKE x, y
    <3>1. <<"mla", x>> \in Shared(w, x).by /\ <<"mla", x>> \notin Indexed(y).by /\ <<"mla", x>> \notin Drafted(y).by
      BY ByTensors
    <3>2. <<"idx", x>> \in Indexed(x).by /\ <<"idx", x>> \notin Drafted(y).by
      BY ByTensors
    <3> QED BY <3>1, <3>2
  <2> QED BY <2>1, <2>2
<1>6. /\ \A t \in A : v[t] = MlaPage * n
      /\ \A t \in B : v[t] = IdxPage * n
      /\ \A t \in C : v[t] = DraftPage * n
  BY <1>5 DEF Shared, Indexed, Drafted
<1>7. MlaPage * n \in Nat /\ IdxPage * n \in Nat /\ DraftPage * n \in Nat
  BY KvSizes DEF KvSizes
<1>8. IsFiniteSet(S) /\ v \in [S -> Int]
  <2>1. IsFiniteSet(S)
    <3>1. IsFiniteSet(A \union B)
      BY <1>2, <1>3, FS_Union
    <3> HIDE DEF A, B, C, S
    <3> QED BY <3>1, <1>4, <1>5, FS_Union
  <2>2. \A t \in S : v[t] \in Int
    BY <1>5, <1>6, <1>7
  <2> QED BY <2>1, <2>2
<1>9. P(CHOOSE it : P(it))
  <2>1. PICK it : Sums(it, S, v)
    <3> HIDE DEF S, v
    <3> QED BY <1>8, SumsExist
  <2>2. P(it)
    <3>1. \A T \in SUBSET S : T # {} => v[Some(T)] = Some(T).page * n
      BY DEF Some
    <3> HIDE DEF S, v
    <3> QED BY <2>1, <3>1 DEF Sums
  <2> HIDE DEF P
  <2> QED BY <2>2
<1>10. MapThenSumSet(LAMBDA t : t.page * n, S) = (CHOOSE it : P(it))[S]
  BY DEF MapThenSumSet, MapThenFoldSet, Some
<1>11. PICK it : P(it) /\ MapThenSumSet(LAMBDA t : t.page * n, S) = it[S]
  <2> HIDE DEF P
  <2> QED BY <1>9, <1>10
<1>12. Sums(it, S, v)
  <2>1. it = [T \in SUBSET S |-> IF T = {} THEN 0 ELSE v[Some(T)] + it[T \ {Some(T)}]]
    <3>1. \A T \in SUBSET S : T # {} => v[Some(T)] = Some(T).page * n
      BY DEF Some
    <3>2. it = [T \in SUBSET S |-> IF T = {} THEN 0 ELSE Some(T).page * n + it[T \ {Some(T)}]]
      BY <1>11
    <3> HIDE DEF S, v
    <3> QED BY <3>1, <3>2
  <2> HIDE DEF S, v, P
  <2> QED BY <1>8, <2>1, SumsAre
<1> HIDE DEF A, B, C, S, v, P, M, D
<1>13. it[S] = it[A \union B] + it[C] /\ it[A \union B] = it[A] + it[B]
  BY <1>5, <1>8, <1>12, SumOfUnion
<1>14. /\ it[A] = (MlaPage * n) * Cardinality(A)
       /\ it[B] = (IdxPage * n) * Cardinality(B)
       /\ it[C] = (DraftPage * n) * Cardinality(C)
  BY <1>5, <1>6, <1>7, <1>8, <1>12, SumOfEqual
<1>15. PICK m \in Nat, d \in Nat, p \in Nat, q \in Nat, r \in Nat :
         m = Cardinality(M) /\ d = kvIn.drafts /\ p = MlaPage /\ q = IdxPage /\ r = DraftPage
  BY <1>1, KvSizes DEF KvSizes
<1>16. it[S] = ((p * n) * m + (q * n) * m) + (r * n) * d
  BY <1>2, <1>3, <1>4, <1>13, <1>14, <1>15
<1>17. PerBlock(w) = m * (p + q) + d * r
  BY <1>15 DEF PerBlock, DraftBytes, M
<1>18. ((p * n) * m + (q * n) * m) + (r * n) * d = n * (m * (p + q) + d * r)
  OBVIOUS
<1> QED BY <1>11, <1>16, <1>17, <1>18 DEF S

-----------------------------------------------------------------------------
(* What the phases establish one after the other: the stages are grouped,  *)
(* the checked length is one, and there is room for the blocks, which are  *)
(* as many as a request of that length was counted to need.                *)

Room(w) ==
  /\ blocks[w] \in Nat \ {0} /\ blocks[w] * PerBlock(w) <= Available(w)
  /\ TargetBlocks(kvLen) <= blocks[w]

Planned ==
  /\ OfKind("mamba") # {}
  /\ kvPhase \in {"group", "fit", "search", "found", "fitted", "check", "configure", "shrink", "done", "error"}
  /\ kvPhase \notin {"group", "error"} => Grouped
  /\ kvPhase \in {"check", "configure", "shrink", "done"} => kvLen \in 1 .. MaxLen
  /\ kvPhase \in {"shrink", "done"} => \A w \in Worker : Room(w)
  /\ kvPhase = "done" => blocks[1] = blocks[2]

LEMMA CountIs ==
  ASSUME Grouped, OfKind("mamba") # {}, kvLen \in 1 .. MaxLen
  PROVE  TargetBlocks(kvLen) \in Nat \ {0}
<1>1. MambaGroups \in Nat /\ MambaPages \in Nat /\ AttnPages[kvLen] \in Nat
  BY GroupsBalance, KvSizes DEF KvSizes
<1>2. MambaGroups * MambaPages \in Nat
  BY <1>1
<1> QED BY <1>1, <1>2 DEF TargetBlocks

LEMMA PlannedIsSound ==
  ASSUME Planned
  PROVE  PlanSound
<1> SUFFICES ASSUME kvPhase = "done" PROVE PlanSound
  BY DEF PlanSound
<1>1. Grouped /\ OfKind("mamba") # {} /\ (\A w \in Worker : Room(w)) /\ blocks[1] = blocks[2]
  BY DEF Planned
<1>2. 1 \in Worker
  BY DEF Worker
<1>3. blocks[1] \in Nat \ {0}
  BY <1>1, <1>2 DEF Room
<1>4. ASSUME NEW w \in Worker
      PROVE  /\ \A l \in TargetLayers(w) : Cardinality({t \in Tensors(w) : l \in t.by}) = 1
             /\ \A t \in Tensors(w) : \A k, l \in t.by : GroupOf(k) = GroupOf(l) => k = l
             /\ TensorBytes(w) <= Available(w)
             /\ kvIn.drafts = 0 => RequestBlocks(kvLen) <= blocks[w]
  <2>1. blocks[w] \in Nat /\ blocks[w] * PerBlock(w) <= Available(w)
    BY <1>1 DEF Room
  <2>2. TensorBytes(w) = blocks[w] * PerBlock(w)
    BY <1>1, <2>1, Bytes DEF TensorBytes
  <2>3. ASSUME kvIn.drafts = 0 PROVE RequestBlocks(kvLen) <= blocks[w]
    <3>1. TargetBlocks(kvLen) <= blocks[w] /\ TargetBlocks(kvLen) \in Nat
      BY <1>1, CountIs DEF Room, Planned
    <3>2. RequestBlocks(kvLen) = TargetBlocks(kvLen)
      BY <2>3, <3>1 DEF RequestBlocks
    <3> QED BY <3>1, <3>2
  <2> QED BY <1>1, <2>1, <2>2, <2>3, OneTensor, SharersDiffer
<1> QED BY <1>1, <1>3, <1>4 DEF PlanSound

LEMMA Positive ==
  ASSUME Grouped, NEW w \in Worker
  PROVE  PerBlock(w) \in Nat \ {0} /\ kvIn.override \in Nat /\ kvIn.memory[w] \in Nat
<1>1. kvIn.override \in Nat /\ kvIn.memory[w] \in Nat /\ kvIn.drafts \in Nat
  BY KvSizes DEF KvSizes, Grouped, KvConfigs
<1>2. PICK m \in Nat \ {0}, p \in Nat \ {0}, d \in Nat :
        m = Cardinality(On(w, "mla")) /\ p = MlaPage + IdxPage /\ d = kvIn.drafts * DraftPage
  <2>1. Cardinality(On(w, "mla")) \in Nat \ {0}
    BY KindsAre, LayersFinite DEF Grouped
  <2>2. MlaPage + IdxPage \in Nat \ {0} /\ DraftPage \in Nat
    BY KvSizes DEF KvSizes
  <2>3. kvIn.drafts * DraftPage \in Nat
    BY <1>1, <2>2
  <2> QED BY <2>1, <2>2, <2>3
<1>3. m * p \in Nat \ {0}
  <2>1. m * 1 <= m * p
    BY Times
  <2> QED BY <2>1
<1> QED BY <1>1, <1>2, <1>3 DEF PerBlock, DraftBytes

(* What was admitted has room for the blocks that were counted.            *)
LEMMA Configured ==
  ASSUME Grouped, OfKind("mamba") # {}, NEW w \in Worker, kvLen \in 1 .. MaxLen, Fits(w, kvLen)
  PROVE  LET n == IF kvIn.override = 0 THEN Available(w) \div PerBlock(w) ELSE kvIn.override
         IN  n \in Nat \ {0} /\ n * PerBlock(w) <= Available(w) /\ TargetBlocks(kvLen) <= n
<1>1. PICK p \in Nat \ {0} : p = PerBlock(w)
  BY Positive
<1>4. PICK k \in Nat \ {0} : TargetBlocks(kvLen) = k
  BY CountIs
<1>2. CASE kvIn.override # 0
  <2>1. PICK n \in Nat \ {0} : n = kvIn.override /\ Available(w) = n * p /\ n * p \in Int
    BY <1>1, <1>2, Positive DEF Available
  <2>2. k * p <= n * p
    BY <1>1, <1>4, <2>1 DEF Fits, Needed
  <2>3. ~(n < k)
    <3>1. ASSUME n < k PROVE FALSE
      <4>1. p * (n + 1) <= p * k
        BY <3>1, Times
      <4>2. p * (n + 1) = n * p + p /\ p * k = k * p /\ k * p \in Int
        OBVIOUS
      <4> QED BY <2>2, <4>1, <4>2
    <3> QED BY <3>1
  <2> QED BY <1>1, <1>2, <1>4, <2>1, <2>3
<1>3. CASE kvIn.override = 0
  <2>1. PICK a \in Nat : a = Available(w)
    BY <1>3, Positive DEF Available
  <2>2. p * k <= a
    BY <1>1, <1>4, <2>1 DEF Fits, Needed
  <2>3. PICK q \in Nat, r \in 0 .. p - 1 : a = p * q + r /\ a \div p = q
    BY Quotient
  <2>4. ~(q < k)
    <3>1. ASSUME q < k PROVE FALSE
      <4>1. p * (q + 1) <= p * k /\ p * (q + 1) = p * q + p /\ p * k \in Int
        BY <3>1, Times
      <4> QED BY <2>2, <2>3, <4>1
    <3> QED BY <3>1
  <2>5. q * p <= a
    BY <2>3
  <2> QED BY <1>1, <1>3, <1>4, <2>1, <2>3, <2>4, <2>5
<1> QED BY <1>2, <1>3

LEMMA AccountUnchanged ==
  ASSUME UNCHANGED kvIn
  PROVE  /\ \A k : OfKind(k)' = OfKind(k)
         /\ Grouped' <=> Grouped
         /\ \A w : PerBlock(w)' = PerBlock(w) /\ Available(w)' = Available(w)
         /\ UNCHANGED kvLen => TargetBlocks(kvLen)' = TargetBlocks(kvLen)
<1>1. \A w, k : On(w, k)' = On(w, k)
  BY FitsUnchanged
<1>2. \A w : PerBlock(w)' = PerBlock(w)
  BY <1>1 DEF PerBlock, DraftBytes
<1>3. \A w : Available(w)' = Available(w)
  BY <1>2 DEF Available
<1>4. UNCHANGED kvLen => TargetBlocks(kvLen)' = TargetBlocks(kvLen)
  BY FitsUnchanged DEF TargetBlocks
<1> QED BY <1>2, <1>3, <1>4, FitsUnchanged, Carried

LEMMA PlannedStep ==
  ASSUME KvInv, Planned, [KvNext]_kvVars
  PROVE  Planned'
<1>1. UNCHANGED kvIn
  BY DEF KvNext, kvVars, Group, TryOne, Halve, SearchEnds, Found, Fitted, Check, Configure, Shrink
<1>2. OfKind("mamba")' # {} /\ (Grouped' <=> Grouped)
  BY <1>1, AccountUnchanged DEF Planned
<1>3. \A w \in Worker : UNCHANGED <<blocks, kvLen>> /\ Room(w) => Room(w)'
  BY <1>1, AccountUnchanged DEF Room
<1>4. CASE Group
  <2>1. kvPhase' # "error" => Grouped
    BY <1>4 DEF Group, KvInv, KvTypeOK, Grouped
  <2>2. kvPhase' = "check" => kvLen' \in 1 .. MaxLen
    BY <1>4, KvSizes DEF Group, KvInv, PhaseInv, KvSizes
  <2>3. kvPhase' \in {"fit", "check", "error"}
    BY <1>4 DEF Group
  <2> QED BY <1>2, <2>1, <2>2, <2>3 DEF Planned
<1>5. CASE TryOne \/ Halve \/ SearchEnds \/ Found
  <2>1. kvPhase \in {"fit", "search", "found"} /\ kvPhase' \in {"fit", "search", "found", "fitted"}
    BY <1>5 DEF TryOne, Halve, SearchEnds, Found
  <2> QED BY <1>2, <2>1 DEF Planned
<1>6. CASE Fitted
  <2>1. kvPhase = "fitted" /\ kvPhase' \in {"check", "error"}
    BY <1>6 DEF Fitted
  <2>2. kvPhase' = "check" => kvLen' \in 1 .. MaxLen
    <3>1. kvLen = MaxLen /\ kvAuto \in 0 .. MaxLen
      BY <2>1 DEF KvInv, PhaseInv, KvTypeOK
    <3>2. MaxLen \in Nat \ {0}
      BY KvSizes DEF KvSizes
    <3> QED BY <1>6, <3>1, <3>2 DEF Fitted
  <2> QED BY <1>2, <2>1, <2>2 DEF Planned
<1>7. CASE Check
  BY <1>2, <1>7 DEF Check, Planned
<1>8. CASE Configure
  <2>1. kvPhase = "configure" /\ kvPhase' = "shrink" /\ Grouped /\ kvLen \in 1 .. MaxLen
    BY <1>8 DEF Configure, Planned
  <2>2. \A w \in Worker : Fits(w, kvLen)
    BY <2>1 DEF KvInv, FitIsLongest
  <2>4. kvLen' = kvLen
    BY <1>8 DEF Configure
  <2>3. ASSUME NEW w \in Worker PROVE Room(w)'
    <3>1. blocks'[w] = IF kvIn.override = 0 THEN Available(w) \div PerBlock(w) ELSE kvIn.override
      BY <1>8 DEF Configure
    <3>2. blocks'[w] \in Nat \ {0} /\ blocks'[w] * PerBlock(w) <= Available(w) /\ TargetBlocks(kvLen) <= blocks'[w]
      BY <2>1, <2>2, <3>1, Configured DEF Planned
    <3> QED BY <1>1, <2>4, <3>2, AccountUnchanged DEF Room
  <2> QED BY <1>2, <2>1, <2>3, <2>4 DEF Planned
<1>9. CASE Shrink
  <2>1. kvPhase = "shrink" /\ kvPhase' = "done" /\ Grouped /\ \A w \in Worker : Room(w)
    BY <1>9 DEF Shrink, Planned
  <2>2. PICK n \in Nat \ {0} : /\ n <= blocks[1] /\ n <= blocks[2] /\ n \in {blocks[1], blocks[2]}
                              /\ blocks' = [w \in Worker |-> n]
    <3>1. blocks[1] \in Nat \ {0} /\ blocks[2] \in Nat \ {0}
      BY <2>1 DEF Worker, Room
    <3> QED BY <1>9, <3>1 DEF Shrink
  <2>5. kvLen' = kvLen /\ kvLen \in 1 .. MaxLen
    BY <1>9 DEF Shrink, Planned
  <2>3. ASSUME NEW w \in Worker PROVE Room(w)'
    <3>1. n <= blocks[w] /\ blocks[w] \in Nat \ {0} /\ blocks[w] * PerBlock(w) <= Available(w)
      BY <2>1, <2>2 DEF Worker, Room
    <3>2. PerBlock(w) \in Nat /\ Available(w) \in Int
      <4>1. kvIn.override * PerBlock(w) \in Int
        BY <2>1, Positive
      <4> QED BY <2>1, <4>1, Positive DEF Available
    <3>3. n * PerBlock(w) <= Available(w)
      BY <3>1, <3>2, Product
    <3>4. TargetBlocks(kvLen) <= n
      BY <2>1, <2>2 DEF Worker, Room
    <3> QED BY <1>1, <2>2, <2>5, <3>3, <3>4, AccountUnchanged DEF Room
  <2>4. blocks'[1] = blocks'[2]
    BY <2>2 DEF Worker
  <2> QED BY <1>2, <2>1, <2>3, <2>4, <2>5 DEF Planned
<1>10. CASE UNCHANGED kvVars
  BY <1>2, <1>3, <1>10 DEF Planned, kvVars
<1> QED BY <1>4, <1>5, <1>6, <1>7, <1>8, <1>9, <1>10 DEF KvNext

(* Whatever the layers, the stages, the pages and the memories: in every   *)
(* plan of get_kv_cache_configs each layer has one tensor on its worker,   *)
(* layers that share a tensor take their blocks from different groups, the *)
(* tensors fit the memory, the workers agree on the blocks, and these are  *)
(* enough for a request of the length, if there is no drafter.             *)
THEOREM PlanTheorem == KvSpec => []PlanSound
<1>1. KvInit => KvInv /\ Planned
  BY KvInitial DEF KvInit, Planned
<1>2. KvInv /\ [KvNext]_kvVars => KvInv'
  BY KvStep
<1>3. KvInv /\ Planned /\ [KvNext]_kvVars => Planned'
  BY PlannedStep
<1>4. Planned => PlanSound
  BY PlannedIsSound
<1> QED BY <1>1, <1>2, <1>3, <1>4, PTL DEF KvSpec
====

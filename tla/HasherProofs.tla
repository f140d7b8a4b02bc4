---- MODULE HasherProofs ----
(***************************************************************************)
(* Proofs about the hashes of the prefix cache for any sets of groups, any *)
(* requests and any steps of the engine.  A call of the hasher walks over  *)
(* the inputs and the blocks together; its list of places is a function    *)
(* that recurs over the blocks, and a new hash is good at its place.  The  *)
(* view of a group then reads whole runs of good hashes.                   *)
(***************************************************************************)
EXTENDS BlockHasher, DataLemmas

-----------------------------------------------------------------------------
(* The walk over the inputs. *)

(* The inputs of a request stand one after the other.                      *)
MmOK ==
  /\ Len(Mm) \in Nat /\ (Mm = <<>> <=> Len(Mm) = 0)
  /\ \A i \in 1 .. Len(Mm) : Mm[i].offset \in Nat /\ End(Mm[i]) \in Nat /\ Mm[i].offset < End(Mm[i])
  /\ \A i, j \in 1 .. Len(Mm) : i < j => End(Mm[i]) <= Mm[j].offset

Places == {-1} \union 1 .. Len(Mm) + 1
Taken(first, last, start, end) ==
  {i \in first .. Len(Mm) : i <= last /\ Mm[i].offset < end /\ start < End(Mm[i])}
KeysAt(start, inputs) == {<<Mm[i].id, Mm[i].offset - start>> : i \in inputs}

(* The next input is the first that the block does not end behind.         *)
LEMMA MmWalk ==
  ASSUME MmOK, NEW start \in Nat, NEW end \in Nat, start < end, NEW k \in Places, Mm # <<>>,
         ~(End(Mm[Len(Mm)]) <= start),
         NEW first, first = IF k = -1 THEN Len(Mm) ELSE k, NEW x, x = MmKeys(start, end, k)
  PROVE  /\ x.next \in first .. Len(Mm) + 1 /\ first \in 1 .. Len(Mm) + 1
         /\ \A i \in first .. Len(Mm) : i < x.next => End(Mm[i]) <= end
         /\ x.next <= Len(Mm) => end <= Mm[x.next].offset \/ end < End(Mm[x.next])
         /\ x.keys = KeysAt(start, Taken(first, x.next, start, end))
<1> DEFINE stop == {i \in first .. Len(Mm) : end <= Mm[i].offset \/ end < End(Mm[i])}
           next == CHOOSE n \in stop \union {Len(Mm) + 1} : \A m \in stop : n <= m
<1>1. Len(Mm) \in Nat \ {0} /\ first \in 1 .. Len(Mm) + 1
  BY DEF MmOK, Places
<1>2. x = [keys |-> KeysAt(start, Taken(first, next, start, end)), next |-> next]
  BY DEF MmKeys, KeysAt, Taken
<1>3. \E n \in stop \union {Len(Mm) + 1} : \A m \in stop : n <= m
  <2>1. CASE stop = {}
    BY <2>1
  <2>2. CASE stop # {}
    <3>1. stop \subseteq Nat
      BY <1>1
    <3> HIDE DEF stop
    <3> QED BY <2>2, <3>1, Least
  <2> QED BY <2>1, <2>2
<1>4. next \in stop \union {Len(Mm) + 1} /\ \A m \in stop : next <= m
  <2> HIDE DEF stop
  <2> QED BY <1>3
<1> HIDE DEF next
<1>5. next \in first .. Len(Mm) + 1
  BY <1>1, <1>4
<1>6. \A i \in first .. Len(Mm) : i < next => End(Mm[i]) <= end
  <2> SUFFICES ASSUME NEW i \in first .. Len(Mm), i < next PROVE End(Mm[i]) <= end
    OBVIOUS
  <2>1. i \notin stop
    BY <1>1, <1>4, <1>5
  <2>2. ~(end < End(Mm[i])) /\ End(Mm[i]) \in Nat
    BY <1>1, <2>1 DEF MmOK
  <2> QED BY <2>2
<1>7. next <= Len(Mm) => end <= Mm[next].offset \/ end < End(Mm[next])
  BY <1>1, <1>4
<1> QED BY <1>1, <1>2, <1>5, <1>6, <1>7

LEMMA MmStays ==
  ASSUME NEW start, NEW end, NEW k, Mm = <<>> \/ End(Mm[Len(Mm)]) <= start
  PROVE  MmKeys(start, end, k) = [keys |-> {}, next |-> k]
BY DEF MmKeys

LEMMA MmNone ==
  ASSUME MmOK, NEW start \in Nat, NEW end \in Nat, Mm = <<>> \/ End(Mm[Len(Mm)]) <= start
  PROVE  InputsOf(start, end) = {}
<1>1. ASSUME NEW i \in 1 .. Len(Mm), start < End(Mm[i]) PROVE FALSE
  <2>1. Len(Mm) \in Nat \ {0} /\ Mm # <<>> /\ Len(Mm) \in 1 .. Len(Mm)
    BY DEF MmOK
  <2>2. i = Len(Mm) \/ (i < Len(Mm) /\ End(Mm[i]) <= Mm[Len(Mm)].offset)
    BY <2>1 DEF MmOK
  <2>3. /\ End(Mm[i]) \in Nat /\ End(Mm[Len(Mm)]) \in Nat /\ Mm[Len(Mm)].offset \in Nat
        /\ Mm[Len(Mm)].offset < End(Mm[Len(Mm)])
    BY <2>1 DEF MmOK
  <2>4. End(Mm[Len(Mm)]) <= start
    BY <2>1
  <2> QED BY <1>1, <2>2, <2>3, <2>4
<1> QED BY <1>1 DEF InputsOf

LEMMA MmPlace ==
  ASSUME MmOK, NEW start \in Nat, NEW end \in Nat, start < end, NEW k \in Places
  PROVE  MmKeys(start, end, k).next \in Places
<1>1. CASE Mm = <<>> \/ End(Mm[Len(Mm)]) <= start
  BY <1>1, MmStays
<1>2. CASE ~(Mm = <<>> \/ End(Mm[Len(Mm)]) <= start)
  <2>1. PICK first \in 1 .. Len(Mm) + 1 : MmKeys(start, end, k).next \in first .. Len(Mm) + 1
    BY <1>2, MmWalk
  <2> QED BY <2>1 DEF Places, MmOK
<1> QED BY <1>1, <1>2

(* In the first call of the hasher: the inputs before the place end before *)
(* the block, so that its keys are those of all its inputs.                *)
LEMMA MmFirstCall ==
  ASSUME MmOK, NEW start \in Nat, NEW end \in Nat, start < end, NEW k \in 1 .. Len(Mm) + 1,
         \A i \in 1 .. Len(Mm) : i < k => End(Mm[i]) <= start,
         NEW x, x = MmKeys(start, end, k)
  PROVE  /\ x.keys = KeysAt(start, InputsOf(start, end))
         /\ x.next \in 1 .. Len(Mm) + 1
         /\ \A i \in 1 .. Len(Mm) : i < x.next => End(Mm[i]) <= end
<1>1. CASE Mm = <<>> \/ End(Mm[Len(Mm)]) <= start
  <2>1. x = [keys |-> {}, next |-> k] /\ InputsOf(start, end) = {}
    BY <1>1, MmStays, MmNone
  <2>2. \A i \in 1 .. Len(Mm) : i < k => End(Mm[i]) <= end
    BY DEF MmOK
  <2> QED BY <2>1, <2>2 DEF KeysAt
<1>2. CASE ~(Mm = <<>> \/ End(Mm[Len(Mm)]) <= start)
  <2> DEFINE n == x.next
             taken == Taken(k, n, start, end)
  <2>1. k \in Places /\ k # -1 /\ Len(Mm) \in Nat
    BY DEF Places, MmOK
  <2>2. /\ n \in k .. Len(Mm) + 1
        /\ \A i \in k .. Len(Mm) : i < n => End(Mm[i]) <= end
        /\ n <= Len(Mm) => end <= Mm[n].offset \/ end < End(Mm[n])
        /\ x.keys = KeysAt(start, taken)
    <3>1. k = IF k = -1 THEN Len(Mm) ELSE k
      BY <2>1
    <3> QED BY <1>2, <2>1, <3>1, MmWalk
  <2>3. \A i \in 1 .. Len(Mm) : i < n => End(Mm[i]) <= end
    BY <2>1, <2>2 DEF MmOK
  <2>4. ASSUME NEW i \in 1 .. Len(Mm), Mm[i].offset < end, start < End(Mm[i]) PROVE i \in k .. Len(Mm) /\ i <= n
    <3>1. ~(i < k)
      BY <2>4 DEF MmOK
    <3>2. ~(n < i)
      <4>1. ASSUME n < i PROVE FALSE
        <5>1. n \in 1 .. Len(Mm) /\ End(Mm[n]) <= Mm[i].offset
          BY <2>1, <2>2, <4>1 DEF MmOK
        <5>2. end <= Mm[n].offset \/ end < End(Mm[n])
          BY <2>2, <5>1
        <5>3. End(Mm[n]) \in Nat /\ Mm[n].offset \in Nat /\ Mm[n].offset < End(Mm[n]) /\ Mm[i].offset \in Nat
          BY <5>1 DEF MmOK
        <5> QED BY <2>4, <5>1, <5>2, <5>3
      <4> QED BY <4>1
    <3> QED BY <2>1, <2>2, <3>1, <3>2
  <2>5. taken = InputsOf(start, end)
    BY <2>1, <2>4 DEF InputsOf, Taken
  <2> HIDE DEF taken
  <2> QED BY <2>1, <2>2, <2>3, <2>5
<1> QED BY <1>1, <1>2

(* In a later call: the keys are those of the last input.                  *)
LastPlace(k, e) ==
  /\ k \in {-1, Len(Mm), Len(Mm) + 1} /\ (Mm = <<>> => k = -1)
  /\ k = Len(Mm) + 1 => End(Mm[Len(Mm)]) <= e
LastOf(inputs) == {i \in inputs : i = Len(Mm)}

LEMMA MmLaterCall ==
  ASSUME MmOK, NEW start \in Nat, NEW end \in Nat, start < end, NEW k, LastPlace(k, start),
         NEW x, x = MmKeys(start, end, k)
  PROVE  x.keys = KeysAt(start, LastOf(InputsOf(start, end))) /\ LastPlace(x.next, end)
<1> USE DEF LastPlace, LastOf
<1>1. CASE Mm = <<>> \/ End(Mm[Len(Mm)]) <= start
  <2>1. x = [keys |-> {}, next |-> k] /\ InputsOf(start, end) = {}
    BY <1>1, MmStays, MmNone
  <2>2. k = Len(Mm) + 1 => End(Mm[Len(Mm)]) <= end
    <3> SUFFICES ASSUME k = Len(Mm) + 1 PROVE End(Mm[Len(Mm)]) <= end
      OBVIOUS
    <3>1. Mm # <<>> /\ Len(Mm) \in 1 .. Len(Mm)
      BY DEF MmOK
    <3>2. End(Mm[Len(Mm)]) \in Nat
      BY <3>1 DEF MmOK
    <3> QED BY <3>2
  <2> QED BY <2>1, <2>2 DEF KeysAt
<1>2. CASE ~(Mm = <<>> \/ End(Mm[Len(Mm)]) <= start)
  <2> DEFINE n == x.next
             L == Len(Mm)
             taken == Taken(L, n, start, end)
  <2>1. k \in Places /\ L \in Nat \ {0} /\ L \in 1 .. L /\ L = (IF k = -1 THEN L ELSE k)
    BY <1>2 DEF Places, MmOK
  <2>2. /\ n \in L .. L + 1
        /\ \A i \in L .. L : i < n => End(Mm[i]) <= end
        /\ x.keys = KeysAt(start, taken)
    BY <1>2, <2>1, MmWalk
  <2>3. taken = {i \in InputsOf(start, end) : i = L}
    BY <2>1, <2>2 DEF InputsOf, Taken
  <2>4. n = L + 1 => End(Mm[L]) <= end
    BY <2>1, <2>2
  <2>5. n \in {-1, L, L + 1}
    BY <2>1, <2>2
  <2> HIDE DEF taken
  <2> QED BY <1>2, <2>2, <2>3, <2>4, <2>5
<1> QED BY <1>1, <1>2

-----------------------------------------------------------------------------
(* The hashes of a call. *)

LEMMA AppendIs ==
  ASSUME NEW n \in Nat, NEW s, s = [i \in 1 .. n |-> s[i]], NEW e,
         NEW t, t = [i \in 1 .. n + 1 |-> IF i = n + 1 THEN e ELSE s[i]]
  PROVE  Append(s, e) = t
<1> DEFINE S == {s[i] : i \in 1 .. n} \union {e}
<1>1. s \in [1 .. n -> S] /\ e \in S
  OBVIOUS
<1> HIDE DEF S
<1>2. s \in Seq(S) /\ Len(s) = n
  BY <1>1, LenIs
<1>3. Append(s, e) \in Seq(S) /\ Len(Append(s, e)) = n + 1 /\ Append(s, e)[n + 1] = e
      /\ \A i \in 1 .. n : Append(s, e)[i] = s[i]
  BY <1>1, <1>2, AppendProperties
<1>4. DOMAIN Append(s, e) = 1 .. n + 1 /\ Append(s, e) = [i \in DOMAIN Append(s, e) |-> Append(s, e)[i]]
  BY <1>3, LenProperties
<1>5. \A i \in 1 .. n + 1 : Append(s, e)[i] = IF i = n + 1 THEN e ELSE s[i]
  BY <1>3
<1> QED BY <1>4, <1>5

(* The hash of block b, if the walk over the inputs stands at k.           *)
HashOf(b, size, k) ==
  [from |-> (b - 1) * size, to |-> (b - 1) * size + size,
   extra |-> MmKeys((b - 1) * size, (b - 1) * size + size, k).keys \union PlainKeys((b - 1) * size)]

IsList(s, n) == s = [i \in 1 .. n |-> s[i]]
Filled(tokens, size, n) == n = tokens \div size
Generated(old, size) == old > 0 => request.prompt < (old + 1) * size

Walks(ks, old, n, size, hashes, hs) ==
  /\ ks \in [old .. n -> Places] /\ ks[old] = IF old > 0 THEN -1 ELSE 1
  /\ \A b \in old + 1 .. n : ks[b] = MmKeys((b - 1) * size, (b - 1) * size + size, ks[b - 1]).next
  /\ hs = [b \in 1 .. n |-> IF b <= old THEN hashes[b] ELSE HashOf(b, size, ks[b - 1])]

(* What the hasher returns: the old hashes and, for each new block, the    *)
(* hash at the place that the walk has reached before it.                  *)
LEMMA HashedIs ==
  ASSUME MmOK, NEW T, NEW old \in Nat, NEW hashes \in [1 .. old -> T],
         NEW size \in Nat \ {0}, NEW tokens, NEW n \in Nat, Filled(tokens, size, n), old <= n
  PROVE  \E ks : Walks(ks, old, n, size, hashes, Hashed(hashes, size, tokens))
<1> DEFINE c == IF old > 0 THEN -1 ELSE 1
           step == [p \in Places \X (old + 1 .. n) |->
                      MmKeys((p[2] - 1) * size, (p[2] - 1) * size + size, p[1]).next]
<1>1. Steps(step, old, n, Places)
  <2> SUFFICES \A x \in Places, b \in old + 1 .. n : step[<<x, b>>] \in Places
    BY DEF Steps
  <2> TAKE x \in Places, b \in old + 1 .. n
  <2>1. PICK start \in Nat, end \in Nat : start = (b - 1) * size /\ end = (b - 1) * size + size /\ start < end
    <3>1. b - 1 \in Nat
      OBVIOUS
    <3>2. (b - 1) * size \in Nat
      BY <3>1
    <3> QED BY <3>2
  <2>2. step[<<x, b>>] = MmKeys(start, end, x).next
    BY <2>1
  <2> QED BY <2>1, <2>2, MmPlace
<1>2. PICK ks : Recurs(ks, old, n, Places, c, step)
  <2>1. c \in Places
    BY DEF Places, MmOK
  <2>2. old \in Int /\ n \in Int
    OBVIOUS
  <2> HIDE DEF c, step
  <2> QED BY <1>1, <2>1, <2>2, Recursion
<1>3. \A b \in old + 1 .. n : ks[b - 1] \in Places /\ ks[b] = MmKeys((b - 1) * size, (b - 1) * size + size, ks[b - 1]).next
  <2> TAKE b \in old + 1 .. n
  <2>1. b - 1 \in old .. n
    OBVIOUS
  <2>2. ks[b] = step[<<ks[b - 1], b>>] /\ ks[b - 1] \in Places
    BY <1>2, <2>1 DEF Recurs
  <2> QED BY <2>1, <2>2
<1> DEFINE H(m) == [b \in 1 .. m |-> IF b <= old THEN hashes[b] ELSE HashOf(b, size, ks[b - 1])]
           P(f) == f = [b \in old .. n |->
                          IF b = old THEN [hashes |-> hashes, next |-> c]
                          ELSE [hashes |-> Append(f[b - 1].hashes, HashOf(b, size, f[b - 1].next)),
                                next |-> MmKeys((b - 1) * size, (b - 1) * size + size, f[b - 1].next).next]]
           g == [b \in old .. n |-> [hashes |-> H(b), next |-> ks[b]]]
<1>4. H(old) = hashes
  OBVIOUS
<1>5. ASSUME NEW b \in old + 1 .. n PROVE Append(H(b - 1), HashOf(b, size, ks[b - 1])) = H(b)
  <2> DEFINE s == H(b - 1)
             e == HashOf(b, size, ks[b - 1])
  <2>1. b - 1 \in Nat /\ b = (b - 1) + 1 /\ s = [i \in 1 .. b - 1 |-> s[i]]
    OBVIOUS
  <2>2. H(b) = [i \in 1 .. (b - 1) + 1 |-> IF i = (b - 1) + 1 THEN e ELSE s[i]]
    OBVIOUS
  <2> HIDE DEF H
  <2> QED BY <2>1, <2>2, AppendIs
<1>6. P(g)
  <2>1. ASSUME NEW b \in old .. n
        PROVE  g[b] = IF b = old THEN [hashes |-> hashes, next |-> c]
                      ELSE [hashes |-> Append(g[b - 1].hashes, HashOf(b, size, g[b - 1].next)),
                            next |-> MmKeys((b - 1) * size, (b - 1) * size + size, g[b - 1].next).next]
    <3>1. CASE b = old
      BY <3>1, <1>2, <1>4 DEF Recurs
    <3>2. CASE b # old
      <4>1. b \in old + 1 .. n /\ b - 1 \in old .. n
        BY <3>2
      <4>2. g[b - 1].hashes = H(b - 1) /\ g[b - 1].next = ks[b - 1]
        BY <4>1
      <4>3. g[b] = [hashes |-> H(b), next |-> ks[b]]
        OBVIOUS
      <4> HIDE DEF g, H
      <4> QED BY <1>3, <1>5, <3>2, <4>1, <4>2, <4>3
    <3> QED BY <3>1, <3>2
  <2> HIDE DEF H, c
  <2> QED BY <2>1
<1>7. PICK f : P(f) /\ Hashed(hashes, size, tokens) = f[n].hashes
  <2>1. P(CHOOSE f : P(f))
    <3> HIDE DEF P, g
    <3> QED BY <1>6
  <2>2. Len(hashes) = old
    BY LenIs
  <2>3. Hashed(hashes, size, tokens) = (CHOOSE f : P(f))[n].hashes
    BY <2>2 DEF Hashed, HashOf, Filled
  <2> HIDE DEF P
  <2> QED BY <2>1, <2>3
<1>8. \A b \in old .. n : f[b] = g[b]
  <2> DEFINE S == {b \in old .. n : f[b] = g[b]}
             stepped(h, b) == [hashes |-> Append(h[b - 1].hashes, HashOf(b, size, h[b - 1].next)),
                               next |-> MmKeys((b - 1) * size, (b - 1) * size + size, h[b - 1].next).next]
  <2>1. /\ \A b \in old .. n : f[b] = IF b = old THEN [hashes |-> hashes, next |-> c] ELSE stepped(f, b)
        /\ \A b \in old .. n : g[b] = IF b = old THEN [hashes |-> hashes, next |-> c] ELSE stepped(g, b)
    <3>1. f = [b \in old .. n |-> IF b = old THEN [hashes |-> hashes, next |-> c] ELSE stepped(f, b)]
      BY <1>7
    <3>2. g = [b \in old .. n |-> IF b = old THEN [hashes |-> hashes, next |-> c] ELSE stepped(g, b)]
      BY <1>6
    <3> HIDE DEF stepped, c, g
    <3> QED BY <3>1, <3>2
  <2> HIDE DEF g, H, P, c
  <2>2. old \in S
    <3>1. old \in old .. n
      OBVIOUS
    <3> QED BY <2>1, <3>1
  <2>3. ASSUME NEW b \in old .. n - 1, f[b] = g[b] PROVE b + 1 \in S
    <3>1. b + 1 \in old .. n /\ (b + 1) - 1 = b /\ b + 1 # old
      OBVIOUS
    <3>2. stepped(f, b + 1) = stepped(g, b + 1)
      BY <2>3, <3>1
    <3> HIDE DEF stepped
    <3> QED BY <2>1, <3>1, <3>2
  <2>4. old .. n \subseteq S
    <3>1. \A b \in old .. n - 1 : b \in S => b + 1 \in S
      BY <2>3
    <3>2. old \in Int /\ n \in Int
      OBVIOUS
    <3> HIDE DEF S
    <3> QED BY <2>2, <3>1, <3>2, Upward
  <2> QED BY <2>4
<1>9. Hashed(hashes, size, tokens) = H(n)
  <2>1. n \in old .. n
    OBVIOUS
  <2>2. g[n].hashes = H(n)
    BY <2>1
  <2> HIDE DEF g, H, P
  <2> QED BY <1>7, <1>8, <2>1, <2>2
<1>10. ks \in [old .. n -> Places] /\ ks[old] = c
  BY <1>2 DEF Recurs
<1>11. Walks(ks, old, n, size, hashes, Hashed(hashes, size, tokens))
  BY <1>3, <1>9, <1>10 DEF Walks
<1> QED BY <1>11

GoodHash(h, b, size) ==
  /\ h.from = (b - 1) * size /\ h.to = b * size
  /\ ~LateDouble(h) => h.extra = KeysAt(h.from, InputsOf(h.from, h.to)) \union PlainKeys(h.from)

LEMMA BlockEnds ==
  ASSUME NEW size \in Nat \ {0}, NEW b \in Nat \ {0}
  PROVE  \E start \in Nat, end \in Nat :
           start = (b - 1) * size /\ end = (b - 1) * size + size /\ end = b * size /\ start < end
<1>1. b - 1 \in Nat /\ b = (b - 1) + 1
  OBVIOUS
<1>2. PICK a \in Nat : a = b - 1
  BY <1>1
<1>3. a * size \in Nat /\ (a + 1) * size = a * size + size
  OBVIOUS
<1> QED BY <1>1, <1>2, <1>3

(* The new hashes are good: the first call names every input, and a later  *)
(* one the last, which are all but behind a late double block.             *)
LEMMA NewHashes ==
  ASSUME MmOK, NEW old \in Nat, NEW hashes, IsList(hashes, old),
         NEW size \in Nat \ {0}, NEW tokens, NEW n \in Nat, Filled(tokens, size, n), old <= n,
         request.prompt \in Nat, Generated(old, size),
         NEW hs, hs = Hashed(hashes, size, tokens)
  PROVE  /\ IsList(hs, n)
         /\ \A b \in 1 .. old : hs[b] = hashes[b]
         /\ \A b \in old + 1 .. n : GoodHash(hs[b], b, size)
<1>1. PICK ks : Walks(ks, old, n, size, hashes, hs)
  <2> DEFINE T == {hashes[b] : b \in 1 .. old}
  <2>1. hashes \in [1 .. old -> T]
    BY DEF IsList
  <2> HIDE DEF T
  <2> QED BY <2>1, HashedIs
<1>2. /\ IsList(hs, n) /\ \A b \in 1 .. old : hs[b] = hashes[b]
      /\ \A b \in old + 1 .. n : hs[b] = HashOf(b, size, ks[b - 1])
  <2> DEFINE e(b) == IF b <= old THEN hashes[b] ELSE HashOf(b, size, ks[b - 1])
  <2>1. hs = [b \in 1 .. n |-> e(b)]
    BY <1>1 DEF Walks
  <2>2. \A b \in 1 .. old : b \in 1 .. n /\ e(b) = hashes[b]
    OBVIOUS
  <2>3. \A b \in old + 1 .. n : b \in 1 .. n /\ e(b) = HashOf(b, size, ks[b - 1])
    OBVIOUS
  <2> HIDE DEF e
  <2> QED BY <2>1, <2>2, <2>3 DEF IsList
<1>3. \A b \in old + 1 .. n : hs[b] = HashOf(b, size, ks[b - 1]) /\ b \in Nat \ {0}
  BY <1>2
<1>4. CASE old = 0
  <2> DEFINE W == {b \in old .. n : /\ ks[b] \in 1 .. Len(Mm) + 1
                                    /\ \A i \in 1 .. Len(Mm) : i < ks[b] => End(Mm[i]) <= b * size}
  <2>1. old \in W
    BY <1>1, <1>4 DEF MmOK, Walks
  <2>2. ASSUME NEW b \in old + 1 .. n, b - 1 \in W
        PROVE  b \in W /\ GoodHash(hs[b], b, size)
    <3>1. PICK start \in Nat, end \in Nat :
            start = (b - 1) * size /\ end = (b - 1) * size + size /\ end = b * size /\ start < end
      BY BlockEnds
    <3>2. PICK x : x = MmKeys(start, end, ks[b - 1])
      OBVIOUS
    <3>3. ks[b - 1] \in 1 .. Len(Mm) + 1 /\ \A i \in 1 .. Len(Mm) : i < ks[b - 1] => End(Mm[i]) <= start
      BY <2>2, <3>1
    <3>4. /\ x.keys = KeysAt(start, InputsOf(start, end))
          /\ x.next \in 1 .. Len(Mm) + 1
          /\ \A i \in 1 .. Len(Mm) : i < x.next => End(Mm[i]) <= end
      BY <3>1, <3>2, <3>3, MmFirstCall
    <3>5. ks[b] = x.next
      BY <1>1, <3>1, <3>2 DEF Walks
    <3>6. b \in W
      BY <3>1, <3>4, <3>5
    <3>7. hs[b] = [from |-> start, to |-> end, extra |-> x.keys \union PlainKeys(start)]
      BY <1>3, <3>1, <3>2 DEF HashOf
    <3>8. GoodHash(hs[b], b, size)
      <4>1. hs[b].from = start /\ hs[b].to = end /\ hs[b].extra = x.keys \union PlainKeys(start)
        BY <3>7
      <4> QED BY <3>1, <3>4, <4>1 DEF GoodHash
    <3> QED BY <3>6, <3>8
  <2>3. old .. n \subseteq W
    <3> HIDE DEF W
    <3>1. ASSUME NEW b \in old .. n - 1, b \in W PROVE b + 1 \in W
      <4>1. b + 1 \in old + 1 .. n /\ (b + 1) - 1 = b
        OBVIOUS
      <4>2. (b + 1) - 1 \in W
        BY <3>1, <4>1
      <4> QED BY <2>2, <4>1, <4>2
    <3>2. old \in Int /\ n \in Int
      OBVIOUS
    <3> QED BY <2>1, <3>1, <3>2, Upward
  <2>4. \A b \in old + 1 .. n : b - 1 \in old .. n
    OBVIOUS
  <2> HIDE DEF W
  <2> QED BY <1>2, <2>2, <2>3, <2>4
<1>5. CASE old > 0
  <2> DEFINE L == Len(Mm)
             W == {b \in old .. n : LastPlace(ks[b], b * size)}
  <2>1. old \in W
    BY <1>1, <1>5 DEF MmOK, Walks, LastPlace
  <2>2. ASSUME NEW b \in old + 1 .. n, b - 1 \in W
        PROVE  b \in W /\ GoodHash(hs[b], b, size)
    <3>1. PICK start \in Nat, end \in Nat :
            start = (b - 1) * size /\ end = (b - 1) * size + size /\ end = b * size /\ start < end
      BY BlockEnds
    <3>2. PICK x : x = MmKeys(start, end, ks[b - 1])
      OBVIOUS
    <3>3. LastPlace(ks[b - 1], start)
      BY <2>2, <3>1
    <3>4. x.keys = KeysAt(start, LastOf(InputsOf(start, end))) /\ LastPlace(x.next, end)
      BY <3>1, <3>2, <3>3, MmLaterCall
    <3>5. ks[b] = x.next
      BY <1>1, <3>1, <3>2 DEF Walks
    <3>6. b \in W
      BY <3>1, <3>4, <3>5
    <3>7. hs[b] = [from |-> start, to |-> end, extra |-> x.keys \union PlainKeys(start)]
      BY <1>3, <3>1, <3>2 DEF HashOf
    <3>8. start > 0 /\ end > request.prompt
      <4>1. size * 1 <= size * (b - 1) /\ size * (old + 1) <= size * b
        <5>1. b \in Nat /\ b - 1 \in Nat /\ 1 <= b - 1 /\ old + 1 <= b /\ old + 1 \in Nat
          BY <1>5
        <5> QED BY <5>1, Times
      <4>2. size * 1 = size /\ size * (b - 1) = (b - 1) * size /\ size * b = b * size /\ size * (old + 1) = (old + 1) * size
        OBVIOUS
      <4>3. (old + 1) * size \in Nat
        OBVIOUS
      <4> QED BY <1>5, <3>1, <4>1, <4>2, <4>3 DEF Generated
    <3>9. ~LateDouble(hs[b]) => LastOf(InputsOf(start, end)) = InputsOf(start, end)
      <4>1. hs[b].from = start /\ hs[b].to = end
        BY <3>7
      <4>2. ~LateDouble(hs[b]) => \A i \in InputsOf(start, end) : ~(i < L)
        BY <3>8, <4>1 DEF LateDouble
      <4>3. \A i \in InputsOf(start, end) : ~(i < L) => i = L
        BY DEF InputsOf, MmOK
      <4> QED BY <4>2, <4>3 DEF LastOf
    <3>10. GoodHash(hs[b], b, size)
      <4>1. hs[b].from = start /\ hs[b].to = end /\ hs[b].extra = x.keys \union PlainKeys(start)
        BY <3>7
      <4> QED BY <3>1, <3>4, <3>9, <4>1 DEF GoodHash
    <3> QED BY <3>6, <3>10
  <2>3. old .. n \subseteq W
    <3> HIDE DEF W
    <3>1. ASSUME NEW b \in old .. n - 1, b \in W PROVE b + 1 \in W
      <4>1. b + 1 \in old + 1 .. n /\ (b + 1) - 1 = b
        OBVIOUS
      <4>2. (b + 1) - 1 \in W
        BY <3>1, <4>1
      <4> QED BY <2>2, <4>1, <4>2
    <3>2. old \in Int /\ n \in Int
      OBVIOUS
    <3> QED BY <2>1, <3>1, <3>2, Upward
  <2>4. \A b \in old + 1 .. n : b - 1 \in old .. n
    OBVIOUS
  <2> HIDE DEF W
  <2> QED BY <1>2, <2>2, <2>3, <2>4
<1> QED BY <1>4, <1>5

(* The inputs that a request may have. *)
LEMMA InputsAreOK ==
  ASSUME NEW p \in Nat, Mm \in Inputs(p)
  PROVE  MmOK
<1> DEFINE R == [id : {"a", "b"}, offset : 0 .. p - 1, length : 1 .. p]
<1>1. PICK L \in Nat : Mm \in [1 .. L -> R] /\ \A i \in 1 .. Len(Mm) : i < Len(Mm) => End(Mm[i]) <= Mm[i + 1].offset
  <2>1. MaxInputs \in Nat
    BY HasherSizes DEF HasherSizes
  <2> QED BY <2>1 DEF Inputs
<1>2. Len(Mm) = L /\ Mm \in Seq(R)
  <2> HIDE DEF R
  <2> QED BY <1>1, LenIs
<1>3. \A i \in 1 .. L : Mm[i].offset \in Nat /\ End(Mm[i]) \in Nat /\ Mm[i].offset < End(Mm[i])
  <2> TAKE i \in 1 .. L
  <2>1. Mm[i] \in R
    BY <1>1
  <2>2. Mm[i].offset \in Nat /\ Mm[i].length \in Nat \ {0}
    BY <2>1
  <2> QED BY <2>2 DEF End
<1>4. ASSUME NEW i \in 1 .. L, NEW j \in 1 .. L, i < j PROVE End(Mm[i]) <= Mm[j].offset
  <2> DEFINE S == {m \in i + 1 .. L : End(Mm[i]) <= Mm[m].offset}
  <2>1. i + 1 \in S
    BY <1>1, <1>2, <1>4
  <2>2. ASSUME NEW m \in i + 1 .. L - 1, m \in S PROVE m + 1 \in S
    <3>1. m \in 1 .. L /\ m + 1 \in 1 .. L /\ m + 1 \in i + 1 .. L /\ m < L
      OBVIOUS
    <3>2. End(Mm[i]) <= Mm[m].offset /\ Mm[m].offset < End(Mm[m]) /\ End(Mm[m]) <= Mm[m + 1].offset
      BY <1>1, <1>2, <1>3, <2>2, <3>1
    <3>3. /\ End(Mm[i]) \in Nat /\ Mm[m].offset \in Nat /\ End(Mm[m]) \in Nat /\ Mm[m + 1].offset \in Nat
      BY <1>3, <3>1
    <3> QED BY <3>1, <3>2, <3>3
  <2>3. i + 1 .. L \subseteq S
    <3>1. \A m \in i + 1 .. L - 1 : m \in S => m + 1 \in S
      BY <2>2
    <3>2. i + 1 \in Int /\ L \in Int
      OBVIOUS
    <3> HIDE DEF S
    <3> QED BY <2>1, <3>1, <3>2, Upward
  <2>4. j \in i + 1 .. L
    BY <1>4
  <2> QED BY <2>3, <2>4
<1>5. Mm = <<>> <=> Len(Mm) = 0
  <2> HIDE DEF R
  <2> QED BY <1>2, EmptySeq
<1> QED BY <1>2, <1>3, <1>4, <1>5 DEF MmOK

LEMMA DivUp ==
  ASSUME NEW b \in Nat \ {0}, NEW m \in Nat, NEW n \in Nat, m <= n
  PROVE  m \div b <= n \div b
<1>1. PICK p \in Nat, r \in 0 .. b - 1 : m = b * p + r /\ m \div b = p
  BY Quotient
<1>2. PICK q \in Nat, s \in 0 .. b - 1 : n = b * q + s /\ n \div b = q
  BY Quotient
<1>3. ~(q < p)
  <2>1. ASSUME q < p PROVE FALSE
    <3>1. b * (q + 1) <= b * p
      BY <2>1, Times
    <3> QED BY <1>1, <1>2, <3>1
  <2> QED BY <2>1
<1> QED BY <1>1, <1>2, <1>3

-----------------------------------------------------------------------------
(* The invariant: every full block has its hash, and the hash is good.     *)

AllHashed(hashes, tokens, size) ==
  /\ IsList(hashes, tokens \div size)
  /\ \A b \in 1 .. tokens \div size : GoodHash(hashes[b], b, size)

HasherInv ==
  /\ hashConf \in [groups : GroupSets, unit : Units, caching : BOOLEAN, aligned : BOOLEAN]
  /\ HashBlockSize # 0
  /\ MmOK /\ request.prompt \in Nat /\ numTokens \in Nat /\ request.prompt <= numTokens
  /\ HashBlockSize \in Nat => AllHashed(blockHashes, numTokens, HashBlockSize)

LEMMA HasherStarts == HasherInit => HasherInv
<1> SUFFICES ASSUME HasherInit PROVE HasherInv
  OBVIOUS
<1>1. PICK p \in 1 .. MaxPrompt : request.prompt = p /\ Mm \in Inputs(p)
  BY DEF HasherInit, Mm
<1>2. p \in Nat
  BY HasherSizes DEF HasherSizes
<1>3. MmOK /\ request.prompt \in Nat /\ numTokens \in Nat /\ request.prompt <= numTokens
  BY <1>1, <1>2, InputsAreOK DEF HasherInit
<1>4. ASSUME NEW size, size = HashBlockSize, size \in Nat PROVE AllHashed(blockHashes, numTokens, size)
  <2>1. PICK n \in Nat : n = numTokens \div size
    BY <1>3, <1>4, Quotient DEF HasherInit
  <2>2. blockHashes = Hashed(<<>>, size, numTokens) /\ size \in Nat \ {0}
    BY <1>4 DEF HasherInit
  <2>3. IsList(<<>>, 0) /\ Generated(0, size) /\ Filled(numTokens, size, n)
    BY <2>1 DEF IsList, Generated, Filled
  <2>4. IsList(blockHashes, n) /\ \A b \in 0 + 1 .. n : GoodHash(blockHashes[b], b, size)
    BY <1>3, <2>2, <2>3, NewHashes
  <2> QED BY <2>1, <2>4 DEF AllHashed
<1> QED BY <1>3, <1>4 DEF HasherInv, HasherInit

(* The request's own data do not change. *)
LEMMA RequestKept ==
  ASSUME UNCHANGED <<hashConf, request>>
  PROVE  /\ HashBlockSize' = HashBlockSize /\ (MmOK' <=> MmOK)
         /\ \A h, b, size : GoodHash(h, b, size)' <=> GoodHash(h, b, size)
<1>1. HashBlockSize' = HashBlockSize
  BY DEF HashBlockSize, SchedulerBlockSize, Hashing
<1>2. Mm' = Mm
  BY DEF Mm
<1>3. \A s, e : InputsOf(s, e)' = InputsOf(s, e)
  BY <1>2 DEF InputsOf
<1>4. /\ \A s, i : KeysAt(s, i)' = KeysAt(s, i)
      /\ \A s : PlainKeys(s)' = PlainKeys(s)
      /\ \A h : LateDouble(h)' <=> LateDouble(h)
  BY <1>2, <1>3 DEF KeysAt, PlainKeys, LateDouble
<1>5. MmOK' <=> MmOK
  BY <1>2 DEF MmOK
<1> QED BY <1>1, <1>3, <1>4, <1>5 DEF GoodHash

(* The tail that a step appends makes the list what the hasher returned.   *)
LEMMA TailGoesOn ==
  ASSUME NEW old \in Nat, NEW n \in Nat, old <= n, NEW hashes, IsList(hashes, old), NEW hs, IsList(hs, n),
         \A b \in 1 .. old : hs[b] = hashes[b]
  PROVE  Len(hashes) = old /\ hashes \o SubSeq(hs, old + 1, n) = hs
<1> DEFINE S == {hs[b] : b \in 1 .. n}
           t == SubSeq(hs, old + 1, n)
<1>1. hashes \in [1 .. old -> S] /\ hs \in [1 .. n -> S]
  BY DEF IsList
<1> HIDE DEF S
<1>2. hashes \in Seq(S) /\ Len(hashes) = old /\ hs \in Seq(S) /\ Len(hs) = n
  BY <1>1, LenIs
<1>3. t \in Seq(S) /\ Len(t) = n - old /\ \A i \in 1 .. n - old : t[i] = hs[old + i]
  <2>1. old + 1 \in 1 .. Len(hs) + 1 /\ n \in (old + 1) - 1 .. Len(hs)
    BY <1>2
  <2>2. t \in Seq(S) /\ Len(t) = n - (old + 1) + 1 /\ \A i \in 1 .. n - (old + 1) + 1 : t[i] = hs[(old + 1) + i - 1]
    BY <1>2, <2>1, SubSeqProperties
  <2> QED BY <2>2
<1> HIDE DEF t
<1>4. /\ hashes \o t \in Seq(S) /\ Len(hashes \o t) = n
      /\ \A i \in 1 .. n : (hashes \o t)[i] = IF i <= old THEN hashes[i] ELSE t[i - old]
  <2>1. /\ hashes \o t \in Seq(S) /\ Len(hashes \o t) = Len(hashes) + Len(t)
        /\ \A i \in 1 .. Len(hashes) + Len(t) :
             (hashes \o t)[i] = IF i <= Len(hashes) THEN hashes[i] ELSE t[i - Len(hashes)]
    BY <1>2, <1>3, ConcatProperties
  <2>2. Len(hashes) + Len(t) = n
    BY <1>2, <1>3
  <2> QED BY <1>2, <2>1, <2>2
<1>5. \A i \in 1 .. n : (hashes \o t)[i] = hs[i]
  <2> TAKE i \in 1 .. n
  <2>1. CASE i <= old
    BY <1>4, <2>1
  <2>2. CASE ~(i <= old)
    <3>1. i - old \in 1 .. n - old /\ old + (i - old) = i
      BY <2>2
    <3> QED BY <1>3, <1>4, <2>2, <3>1
  <2> QED BY <2>1, <2>2
<1>6. hashes \o t = hs
  <2>1. DOMAIN (hashes \o t) = 1 .. n /\ DOMAIN hs = 1 .. n
    BY <1>2, <1>4, LenProperties
  <2> QED BY <1>2, <1>4, <1>5, <2>1, SeqEqual
<1> QED BY <1>2, <1>6 DEF t

LEMMA NextBlock ==
  ASSUME NEW b \in Nat \ {0}, NEW q \in Nat
  PROVE  (q + 1) * b \in Nat /\ \A r \in 0 .. b - 1 : b * q + r < (q + 1) * b
<1>1. (q + 1) * b = b * q + b /\ b * q \in Nat
  OBVIOUS
<1> QED BY <1>1

LEMMA HasherStep == HasherInv /\ [HasherNext]_hashVars => HasherInv'
<1> SUFFICES ASSUME HasherInv, [HasherNext]_hashVars PROVE HasherInv'
  OBVIOUS
<1>1. UNCHANGED <<hashConf, request>>
  BY DEF HasherNext, AppendTokens, hashVars
<1>2. numTokens' \in Nat /\ numTokens <= numTokens' /\ request.prompt <= numTokens'
  <2>1. numTokens \in Nat /\ request.prompt \in Nat /\ request.prompt <= numTokens
    BY DEF HasherInv
  <2>2. CASE UNCHANGED hashVars
    BY <2>1, <2>2 DEF hashVars
  <2>3. CASE HasherNext
    <3>1. PICK n \in 1 .. MaxStep : AppendTokens(n)
      BY <2>3 DEF HasherNext
    <3>2. n \in Nat /\ numTokens' = numTokens + n
      BY <3>1, HasherSizes DEF HasherSizes, AppendTokens
    <3> QED BY <2>1, <3>2
  <2> QED BY <2>2, <2>3
<1>3. ASSUME NEW size, size = HashBlockSize, size \in Nat
      PROVE  AllHashed(blockHashes', numTokens', size)
  <2>1. size \in Nat \ {0} /\ AllHashed(blockHashes, numTokens, size) /\ MmOK /\ request.prompt \in Nat
        /\ numTokens \in Nat /\ request.prompt <= numTokens
    BY <1>3 DEF HasherInv
  <2>2. CASE UNCHANGED hashVars
    BY <2>1, <2>2 DEF hashVars
  <2>3. CASE HasherNext
    <3>1. PICK old \in Nat, n \in Nat, r \in 0 .. size - 1 :
            old = numTokens \div size /\ n = numTokens' \div size /\ old <= n /\ numTokens = size * old + r
      <4>1. PICK old \in Nat, r \in 0 .. size - 1 : old = numTokens \div size /\ numTokens = size * old + r
        BY <2>1, Quotient
      <4>2. PICK n \in Nat : n = numTokens' \div size
        BY <1>2, <2>1, Quotient
      <4>3. numTokens \div size <= numTokens' \div size
        BY <1>2, <2>1, DivUp
      <4> QED BY <4>1, <4>2, <4>3
    <3>2. IsList(blockHashes, old) /\ \A b \in 1 .. old : GoodHash(blockHashes[b], b, size)
      BY <2>1, <3>1 DEF AllHashed
    <3>3. Generated(old, size) /\ Filled(numTokens', size, n)
      <4>1. numTokens < (old + 1) * size
        BY <2>1, <3>1, NextBlock
      <4>2. (old + 1) * size \in Nat
        BY <2>1, NextBlock
      <4> QED BY <2>1, <3>1, <4>1, <4>2 DEF Generated, Filled
    <3>4. PICK hs : hs = Hashed(blockHashes, size, numTokens')
      OBVIOUS
    <3>5. /\ IsList(hs, n) /\ \A b \in 1 .. old : hs[b] = blockHashes[b]
          /\ \A b \in old + 1 .. n : GoodHash(hs[b], b, size)
      BY <2>1, <3>1, <3>2, <3>3, <3>4, NewHashes
    <3>6. blockHashes' = blockHashes \o SubSeq(hs, Len(blockHashes) + 1, n)
      BY <1>3, <2>3, <3>1, <3>4 DEF HasherNext, AppendTokens
    <3>7. blockHashes' = hs
      BY <3>1, <3>2, <3>5, <3>6, TailGoesOn
    <3>8. ASSUME NEW b \in 1 .. n PROVE GoodHash(hs[b], b, size)
      <4>1. b \in 1 .. old \/ b \in old + 1 .. n
        OBVIOUS
      <4> QED BY <3>2, <3>5, <4>1
    <3> QED BY <3>1, <3>5, <3>7, <3>8 DEF AllHashed
  <2> QED BY <2>2, <2>3
<1>4. HashBlockSize' = HashBlockSize /\ MmOK'
  BY <1>1, RequestKept DEF HasherInv
<1>5. HashBlockSize' \in Nat => AllHashed(blockHashes, numTokens, HashBlockSize)'
  <2> SUFFICES ASSUME HashBlockSize \in Nat PROVE AllHashed(blockHashes, numTokens, HashBlockSize)'
    BY <1>4
  <2>1. AllHashed(blockHashes', numTokens', HashBlockSize)
    BY <1>3
  <2> QED BY <1>1, <1>4, <2>1, RequestKept DEF AllHashed
<1> QED BY <1>1, <1>2, <1>4, <1>5 DEF HasherInv

-----------------------------------------------------------------------------
(* The block sizes. *)

LEMMA Modulo ==
  ASSUME NEW s \in Nat \ {0}
  PROVE  s % s = 0 /\ s % 1 = 0 /\ \A k \in 1 .. s - 1 : k % s = k
<1>1. s = s * 1 + 0 /\ s = 1 * s + 0
  OBVIOUS
<1>2. s % s = 0
  <2>1. (s * 1 + 0) % s = 0
    BY DividedOnce
  <2> QED BY <1>1, <2>1
<1>3. s % 1 = 0
  <2>1. (1 * s + 0) % 1 = 0
    BY DividedOnce
  <2> QED BY <1>1, <2>1
<1>4. ASSUME NEW k \in 1 .. s - 1 PROVE k % s = k
  <2>1. (s * 0 + k) % s = k
    BY DividedOnce
  <2>2. s * 0 + k = k
    OBVIOUS
  <2> QED BY <2>1, <2>2
<1> QED BY <1>2, <1>3, <1>4

LEMMA LcmOfOne ==
  ASSUME NEW s \in 1 .. MaxTokens
  PROVE  Lcm({s}) = s
<1> DEFINE Q(m) == /\ \A n \in {s} : Divides(n, m)
                   /\ \A k \in 1 .. m - 1 : \E n \in {s} : ~Divides(n, k)
<1>1. MaxTokens \in Nat /\ s \in Nat \ {0}
  BY HasherSizes DEF HasherSizes
<1>2. s \in 1 .. MaxTokens * MaxTokens
  <2>1. MaxTokens * 1 <= MaxTokens * MaxTokens /\ MaxTokens * 1 = MaxTokens /\ MaxTokens * MaxTokens \in Int
    BY <1>1, Times
  <2> QED BY <1>1, <2>1
<1>3. Q(s)
  BY <1>1, Modulo DEF Divides
<1>4. ASSUME NEW m \in 1 .. MaxTokens * MaxTokens, Q(m) PROVE m = s
  <2>1. m \in Nat \ {0} /\ m % s = 0
    BY <1>4 DEF Divides
  <2>2. PICK q \in Nat : m = s * q + 0
    <3>1. PICK q \in Nat, r \in 0 .. s - 1 : m = s * q + r /\ m % s = r
      BY <1>1, <2>1, Quotient
    <3> QED BY <2>1, <3>1
  <2>3. q # 0
    BY <2>1, <2>2
  <2>4. s * 1 <= s * q
    BY <1>1, <2>3, Times
  <2>5. ASSUME s < m PROVE FALSE
    <3>1. s \in 1 .. m - 1
      BY <1>1, <2>1, <2>5
    <3>2. ~Divides(s, s)
      BY <1>4, <3>1
    <3> QED BY <1>1, <3>2, Modulo DEF Divides
  <2> QED BY <1>1, <2>1, <2>2, <2>4, <2>5
<1>5. Lcm({s}) = CHOOSE m \in 1 .. MaxTokens * MaxTokens : Q(m)
  BY DEF Lcm
<1> HIDE DEF Q
<1> QED BY <1>2, <1>3, <1>4, <1>5

LEMMA GcdType ==
  ASSUME NEW S, S \subseteq 1 .. MaxTokens, S # {}
  PROVE  Gcd(S) \in 1 .. MaxTokens
<1> DEFINE D == {d \in 1 .. MaxTokens : \A n \in S : Divides(d, n)}
           T == {MaxTokens - d : d \in D}
<1>1. MaxTokens \in Nat \ {0}
  <2>1. PICK x \in S : x \in 1 .. MaxTokens
    OBVIOUS
  <2>2. MaxTokens \in Nat
    BY HasherSizes DEF HasherSizes
  <2> QED BY <2>1, <2>2
<1>2. 1 \in D
  BY <1>1, Modulo DEF Divides
<1>3. PICK t \in T : \A u \in T : t <= u
  <2>1. T \subseteq Nat /\ T # {}
    BY <1>1, <1>2
  <2> HIDE DEF T
  <2> QED BY <2>1, Least
<1>4. PICK d \in D : t = MaxTokens - d
  OBVIOUS
<1>5. ASSUME NEW e \in D PROVE e <= d
  <2>1. MaxTokens - e \in T /\ e \in Int /\ d \in Int
    OBVIOUS
  <2>2. MaxTokens - d <= MaxTokens - e
    BY <1>3, <1>4, <2>1
  <2> QED BY <1>1, <2>1, <2>2
<1>6. \E x \in 1 .. MaxTokens : /\ \A n \in S : Divides(x, n)
                                /\ \A e \in 1 .. MaxTokens : (\A n \in S : Divides(e, n)) => e <= x
  BY <1>5
<1> QED BY <1>6 DEF Gcd

LEMMA SizeDivides ==
  ASSUME HasherInv, hashConf.caching, hashConf.aligned, NEW g \in Hashing, NEW size, size = HashBlockSize
  PROVE  size \in Nat \ {0} /\ g.size \in Nat \ {0} /\ g.size % size = 0
<1> DEFINE groups == hashConf.groups
           sizes == Sizes(IF Hashing = {} THEN groups ELSE Hashing)
           d == IF hashConf.unit # 0 THEN hashConf.unit ELSE Gcd(sizes)
<1>1. /\ IsFiniteSet(groups) /\ groups \subseteq [size : 1 .. MaxTokens, mamba : BOOLEAN, participates : BOOLEAN]
      /\ hashConf.unit \in Nat
  BY HasherSizes DEF HasherSizes, HasherInv
<1>2. Hashing \subseteq groups /\ Hashing # {}
  BY DEF Hashing
<1>3. g.size \in 1 .. MaxTokens /\ MaxTokens \in Nat
  BY <1>1, <1>2, HasherSizes DEF HasherSizes
<1>4. CASE Cardinality(groups) = 1
  <2>1. PICK h : groups = {h}
    BY <1>1, <1>4, FS_Singleton
  <2>2. groups = {g}
    BY <1>2, <2>1
  <2>3. Sizes(groups) = {g.size}
    BY <2>2 DEF Sizes
  <2>4. size = g.size
    BY <1>3, <1>4, <2>3, LcmOfOne DEF HashBlockSize, SchedulerBlockSize
  <2> QED BY <1>3, <2>4, Modulo
<1>5. CASE Cardinality(groups) # 1
  <2>1. size = IF \A n \in sizes : Divides(d, n) THEN d ELSE 0
    BY <1>5 DEF HashBlockSize
  <2>2. size # 0
    BY DEF HasherInv
  <2>3. sizes \subseteq 1 .. MaxTokens /\ g.size \in sizes
    BY <1>1, <1>2 DEF Sizes
  <2>4. d \in Nat \ {0}
    <3>1. Gcd(sizes) \in 1 .. MaxTokens
      BY <2>3, GcdType
    <3> QED BY <1>1, <3>1
  <2>5. size = d /\ \A n \in sizes : Divides(size, n)
    BY <2>1, <2>2
  <2> QED BY <1>3, <2>3, <2>4, <2>5 DEF Divides
<1> QED BY <1>4, <1>5

LEMMA DivDiv ==
  ASSUME NEW a \in Nat, NEW b \in Nat \ {0}, NEW c \in Nat \ {0}, NEW m \in Nat \ {0}, m = b * c,
         NEW n, n = a \div b
  PROVE  n \div c = a \div m
<1>1. PICK q \in Nat, r \in 0 .. b - 1 : a = b * q + r /\ a \div b = q
  BY Quotient
<1>2. PICK p \in Nat, s \in 0 .. c - 1 : q = c * p + s /\ q \div c = p
  BY Quotient
<1>4. PICK t \in Nat : t = b * s + r /\ t < m
  <2>1. b * (s + 1) <= b * c
    BY Times
  <2>2. b * (s + 1) = b * s + b /\ b * s \in Nat
    OBVIOUS
  <2> QED BY <2>1, <2>2
<1>5. a = m * p + t
  <2>1. b * (c * p + s) = (b * c) * p + b * s
    OBVIOUS
  <2> QED BY <1>1, <1>2, <1>4, <2>1
<1>6. (m * p + t) \div m = p
  BY <1>4, DividedOnce
<1> QED BY <1>1, <1>2, <1>5, <1>6

-----------------------------------------------------------------------------
(* The view of a group. *)

\* The hashes of one size read as hashes of a larger one: every entry is the
\* list of the block hashes from the start to the end of a larger block.
Chained(view, hashes, size, target, tokens, n) ==
  /\ Len(view) = tokens \div target
  /\ \A i \in 1 .. tokens \div target : \E k \in 1 .. n :
       k * size = i * target /\ Len(view[i]) = k /\ \A b \in 1 .. k : view[i][b] = hashes[b]

LEMMA ViewIs ==
  ASSUME NEW size \in Nat \ {0}, NEW target \in Nat \ {0}, target % size = 0,
         NEW tokens \in Nat, NEW n \in Nat, Filled(tokens, size, n), NEW hashes, IsList(hashes, n)
  PROVE  Chained(View(hashes, size, target), hashes, size, target, tokens, n)
<1> DEFINE S == {hashes[b] : b \in 1 .. n}
           view == View(hashes, size, target)
<1>1. PICK scale \in Nat \ {0} : target = size * scale /\ target \div size = scale
  <2>1. PICK q \in Nat : target = size * q + 0 /\ target \div size = q
    BY Quotient
  <2>2. q # 0
    BY <2>1
  <2> QED BY <2>1, <2>2
<1>2. hashes \in [1 .. n -> S] /\ \A b \in 1 .. n : hashes[b] \in S
  BY DEF IsList
<1>3. Len(hashes) = n
  <2> HIDE DEF S
  <2> QED BY <1>2, LenIs
<1>4. PICK v \in Nat : v = n \div scale /\ v = tokens \div target /\ v * scale <= n
  <2>1. n \div scale = tokens \div target
    <3>1. n = tokens \div size
      BY DEF Filled
    <3> QED BY <1>1, <3>1, DivDiv
  <2>2. PICK v \in Nat, r \in 0 .. scale - 1 : n = scale * v + r /\ n \div scale = v
    BY Quotient
  <2>3. v * scale <= n
    BY <2>2
  <2> QED BY <2>1, <2>2, <2>3
<1>5. view = [i \in 1 .. v |-> SubSeq(hashes, 1, i * scale)]
  BY <1>1, <1>3, <1>4 DEF View
<1>6. ASSUME NEW i \in 1 .. v
      PROVE  \E k \in 1 .. n : /\ k * size = i * target /\ Len(view[i]) = k
                               /\ view[i] \in Seq(S) /\ \A b \in 1 .. k : view[i][b] = hashes[b]
  <2>1. PICK k \in 1 .. n : k = i * scale
    <3>1. scale * i <= scale * v /\ scale * 1 <= scale * i
      BY Times
    <3>2. scale * i = i * scale /\ scale * v = v * scale /\ scale * 1 = scale /\ i * scale \in Int
      OBVIOUS
    <3> QED BY <1>4, <3>1, <3>2
  <2>2. k * size = i * target
    BY <1>1, <2>1
  <2>3. view[i] = SubSeq(hashes, 1, k)
    BY <1>5, <2>1
  <2>4. /\ SubSeq(hashes, 1, k) \in Seq(S)
        /\ Len(SubSeq(hashes, 1, k)) = IF 1 <= k THEN k - 1 + 1 ELSE 0
        /\ \A b \in 1 .. k - 1 + 1 : SubSeq(hashes, 1, k)[b] = hashes[1 + b - 1]
    <3> HIDE DEF S
    <3>1. \A b \in 1 .. k : b \in 1 .. n /\ hashes[b] \in S
      BY <1>2
    <3> QED BY <3>1, SubSeqProperties
  <2>5. Len(view[i]) = k /\ \A b \in 1 .. k : view[i][b] = hashes[b]
    <3>1. k - 1 + 1 = k /\ 1 <= k /\ \A b \in 1 .. k : 1 + b - 1 = b
      OBVIOUS
    <3> HIDE DEF view
    <3> QED BY <2>3, <2>4, <3>1
  <2> QED BY <2>2, <2>3, <2>4, <2>5
<1>7. Len(view) = v
  <2>1. view \in [1 .. v -> Seq(S)]
    BY <1>5, <1>6
  <2> HIDE DEF view, S
  <2> QED BY <2>1, LenIs
<1> HIDE DEF S, view
<1>8. Chained(view, hashes, size, target, tokens, n)
  BY <1>4, <1>6, <1>7 DEF Chained
<1> QED BY <1>8 DEF view

LEMMA HashesFingerprint ==
  ASSUME HasherInv
  PROVE  PrefixHashed
<1> SUFFICES ASSUME hashConf.caching, hashConf.aligned, NEW g \in Hashing
             PROVE  LET view == View(blockHashes, HashBlockSize, g.size)
                    IN  /\ Len(view) = numTokens \div g.size
                        /\ \A i \in 1 .. Len(view) :
                             (\A b \in 1 .. Len(view[i]) : ~LateDouble(view[i][b])) =>
                               Fingerprints(view[i], i * g.size)
  BY DEF PrefixHashed
<1>1. PICK size \in Nat \ {0}, target \in Nat \ {0} : size = HashBlockSize /\ target = g.size /\ target % size = 0
  BY SizeDivides
<1>2. PICK n \in Nat : n = numTokens \div size
  <2>1. numTokens \in Nat
    BY DEF HasherInv
  <2> QED BY <1>1, <2>1, Quotient
<1>3. IsList(blockHashes, n) /\ (\A b \in 1 .. n : GoodHash(blockHashes[b], b, size)) /\ numTokens \in Nat
  BY <1>1, <1>2 DEF HasherInv, AllHashed
<1>4. PICK view : view = View(blockHashes, size, target)
  OBVIOUS
<1>5. /\ Len(view) = numTokens \div target
      /\ \A i \in 1 .. numTokens \div target : \E k \in 1 .. n :
           k * size = i * target /\ Len(view[i]) = k /\ \A b \in 1 .. k : view[i][b] = blockHashes[b]
  <2>1. Filled(numTokens, size, n)
    BY <1>2 DEF Filled
  <2>2. Chained(view, blockHashes, size, target, numTokens, n)
    BY <1>1, <1>3, <1>4, <2>1, ViewIs
  <2> QED BY <2>2 DEF Chained
<1>6. ASSUME NEW i \in 1 .. Len(view), \A b \in 1 .. Len(view[i]) : ~LateDouble(view[i][b])
      PROVE  Fingerprints(view[i], i * target)
  <2>1. PICK k \in 1 .. n :
          k * size = i * target /\ Len(view[i]) = k /\ \A b \in 1 .. k : view[i][b] = blockHashes[b]
    BY <1>5
  <2> DEFINE c == view[i]
  <2>2. ASSUME NEW b \in 1 .. k
        PROVE  /\ c[b].from = (b - 1) * size /\ c[b].to = b * size
               /\ c[b].extra = KeysAt(c[b].from, InputsOf(c[b].from, c[b].to)) \union PlainKeys(c[b].from)
    <3>1. c[b] = blockHashes[b] /\ ~LateDouble(c[b]) /\ b \in 1 .. n
      BY <1>6, <2>1
    <3>2. GoodHash(c[b], b, size)
      BY <1>3, <3>1
    <3> HIDE DEF c
    <3> QED BY <3>1, <3>2 DEF GoodHash
  <2> HIDE DEF c
  <2>3. ASSUME NEW b \in 1 .. k
        PROVE  /\ c[b].from = (IF b = 1 THEN 0 ELSE c[b - 1].to)
               /\ c[b].extra = {<<Mm[j].id, Mm[j].offset - c[b].from>> : j \in InputsOf(c[b].from, c[b].to)}
                               \union (request.plain \ (IF b > 1 THEN {<<"salt">>} ELSE {}))
    <3>1. c[b].from = (IF b = 1 THEN 0 ELSE c[b - 1].to)
      <4>1. CASE b = 1
        <5>1. (1 - 1) * size = 0
          OBVIOUS
        <5> QED BY <2>2, <4>1, <5>1
      <4>2. CASE b # 1
        <5>1. b - 1 \in 1 .. k
          BY <4>2
        <5> QED BY <2>2, <4>2, <5>1
      <4> QED BY <4>1, <4>2
    <3>2. c[b].from = 0 <=> ~(b > 1)
      <4>1. CASE b = 1
        BY <3>1, <4>1
      <4>2. CASE b # 1
        <5>1. b - 1 \in Nat /\ 1 <= b - 1
          BY <4>2
        <5>2. size * 1 <= size * (b - 1) /\ size * 1 = size /\ size * (b - 1) = (b - 1) * size /\ (b - 1) * size \in Nat
          BY <5>1, Times
        <5>3. c[b].from = (b - 1) * size
          BY <2>2
        <5> QED BY <4>2, <5>2, <5>3
      <4> QED BY <4>1, <4>2
    <3>3. PlainKeys(c[b].from) = request.plain \ (IF b > 1 THEN {<<"salt">>} ELSE {})
      BY <3>2 DEF PlainKeys
    <3> QED BY <2>2, <3>1, <3>3 DEF KeysAt
  <2>4. c[k].to = i * target
    BY <2>1, <2>2
  <2>5. Len(c) = k
    BY <2>1 DEF c
  <2>6. Fingerprints(c, i * target)
    BY <2>3, <2>4, <2>5 DEF Fingerprints
  <2> QED BY <2>6 DEF c
<1> QED BY <1>1, <1>4, <1>5, <1>6

(* For any groups, requests and steps: every hash of the prefix cache, at  *)
(* the block size of every group that is looked up, fingerprints the       *)
(* prefix that ends at its boundary, unless the chain has a late double    *)
(* block.                                                                  *)
THEOREM HasherTheorem == HasherSpec => []PrefixHashed
<1>1. HasherInv => PrefixHashed
  BY HashesFingerprint
<1> QED BY <1>1, HasherStarts, HasherStep, PTL DEF HasherSpec
====

---- MODULE ParserProofs ----
(***************************************************************************)
(* Proofs about the fail-closed parser for any tools, schemas and length   *)
(* of the response, wherever its events are cut into deltas.  A delta that *)
(* is delivered moves what it holds to the client; so the invariant speaks *)
(* of what the client has and what waits in the parser together, which a   *)
(* delivery does not change.                                               *)
(***************************************************************************)
EXTENDS ToolParser, SequenceTheorems, TLAPS

Slot == [name : Tools \union {Invented, Garbage, NoName}, keys : SUBSET Keys, ragged : BOOLEAN]
Call == [idx : Nat, call : Slot]
Item == {"text", "call"} \X Nat

ParserType ==
  [slots : Seq(Slot), closed : SUBSET Nat, rejects : Seq(Item),
   delta : [content : Seq(Item), calls : Seq(Call)]]
ClientType ==
  [content : Seq([item : Item, delta : Nat]), calls : Seq([item : Call, delta : Nat])]

Elems(s) == {s[i] : i \in 1 .. Len(s)}
Stamp(s, d) == [i \in 1 .. Len(s) |-> [item |-> s[i], delta |-> d]]

(* The calls given to the client, and those that wait in the delta.        *)
NGiven(p, c) == Len(c.calls) + Len(p.delta.calls)
Given(p, c) ==
  [i \in 1 .. NGiven(p, c) |->
     IF i <= Len(c.calls) THEN c.calls[i].item ELSE p.delta.calls[i - Len(c.calls)]]
GivenIdx(p, c) == {Given(p, c)[i].idx : i \in 1 .. NGiven(p, c)}

(* The content, given or waiting in the delta or among the rejected.       *)
Shown(p, c) ==
  {c.content[i].item : i \in 1 .. Len(c.content)} \union Elems(p.delta.content) \union Elems(p.rejects)
Texts(w) == {w[i] : i \in {j \in 1 .. Len(w) : w[j][1] = "text"}}

Typed(p, o, w, c) ==
  /\ p \in ParserType /\ o \in BOOLEAN /\ c \in ClientType
  /\ w \in Seq({"text", "call", "cut"} \X Nat)

(* All slots are closed but the last while its call is open.               *)
SlotsInv(p, o) ==
  /\ o => Len(p.slots) > 0
  /\ p.closed = 1 .. (IF o THEN Len(p.slots) - 1 ELSE Len(p.slots))

(* A call that was given is what its closed slot still holds, and it is    *)
(* valid.                                                                  *)
GivenInv(p, c) ==
  \A i \in 1 .. NGiven(p, c) :
    LET g == Given(p, c)[i] IN
    /\ g.idx \in p.closed /\ p.slots[g.idx] = g.call
    /\ Validates(g.call)

(* A slot is given once, and every closed slot that is not empty is.       *)
OnceInv(p, c) ==
  /\ \A i, j \in 1 .. NGiven(p, c) : Given(p, c)[i].idx = Given(p, c)[j].idx => i = j
  /\ \A k \in p.closed : p.slots[k] # FreshSlot => k \in GivenIdx(p, c)

ContentInv(p, w, c) ==
  /\ Shown(p, c) = Texts(w) \union {<<"call", k>> : k \in p.closed \ GivenIdx(p, c)}
  /\ Len(w) = Len(c.content) + Len(p.delta.content) + Len(p.rejects) + NGiven(p, c)

Core(p, o, w, c) ==
  Typed(p, o, w, c) /\ SlotsInv(p, o) /\ GivenInv(p, c) /\ OnceInv(p, c) /\ ContentInv(p, w, c)

Emptied == finished => ~callOpen /\ parser.delta = NoDelta /\ parser.rejects = <<>>

PInv == Core(parser, callOpen, written, client) /\ nDeltas \in Nat /\ Emptied

-----------------------------------------------------------------------------
(* Sequences. *)

LEMMA LenIs ==
  ASSUME NEW S, NEW n \in Nat, NEW s \in [1 .. n -> S]
  PROVE  s \in Seq(S) /\ Len(s) = n
<1>1. s \in Seq(S)
  BY SeqDef
<1>2. Len(s) \in Nat /\ DOMAIN s = 1 .. Len(s)
  BY <1>1, LenProperties
<1>3. 1 .. Len(s) = 1 .. n
  BY <1>2
<1> QED BY <1>1, <1>2, <1>3

LEMMA AppendIs ==
  ASSUME NEW S, NEW s \in Seq(S), NEW e \in S
  PROVE  /\ Append(s, e) \in Seq(S) /\ Len(Append(s, e)) = Len(s) + 1
         /\ \A i \in 1 .. Len(s) : Append(s, e)[i] = s[i]
         /\ Append(s, e)[Len(s) + 1] = e
         /\ Elems(Append(s, e)) = Elems(s) \union {e}
<1>1. /\ Append(s, e) \in Seq(S) /\ Len(Append(s, e)) = Len(s) + 1
      /\ \A i \in 1 .. Len(s) : Append(s, e)[i] = s[i]
      /\ Append(s, e)[Len(s) + 1] = e
  OBVIOUS
<1> DEFINE a == Append(s, e)
<1>2. Len(s) \in Nat
  OBVIOUS
<1> HIDE DEF a
<1>3. Elems(a) \subseteq Elems(s) \union {e}
  BY <1>1, <1>2 DEF Elems, a
<1>4. Elems(s) \union {e} \subseteq Elems(a)
  <2>1. \A i \in 1 .. Len(s) : i \in 1 .. Len(s) + 1
    BY <1>2
  <2>2. Len(s) + 1 \in 1 .. Len(s) + 1
    BY <1>2
  <2> QED BY <2>1, <2>2, <1>1 DEF Elems, a
<1> QED BY <1>1, <1>3, <1>4 DEF a

LEMMA ConcatIs ==
  ASSUME NEW S, NEW s \in Seq(S), NEW t \in Seq(S)
  PROVE  /\ s \o t \in Seq(S) /\ Len(s \o t) = Len(s) + Len(t)
         /\ Elems(s \o t) = Elems(s) \union Elems(t)
<1>1. /\ s \o t \in Seq(S) /\ Len(s \o t) = Len(s) + Len(t)
      /\ \A i \in 1 .. Len(s) + Len(t) : (s \o t)[i] = IF i <= Len(s) THEN s[i] ELSE t[i - Len(s)]
  BY ConcatProperties
<1>2. Len(s) \in Nat /\ Len(t) \in Nat
  OBVIOUS
<1> DEFINE a == s \o t
<1> HIDE DEF a
<1>3. Elems(a) \subseteq Elems(s) \union Elems(t)
  <2>1. ASSUME NEW i \in 1 .. Len(s) + Len(t) PROVE a[i] \in Elems(s) \union Elems(t)
    <3>1. CASE i <= Len(s)
      <4>1. i \in 1 .. Len(s) /\ a[i] = s[i]
        BY <3>1, <1>1, <1>2 DEF a
      <4> QED BY <4>1 DEF Elems
    <3>2. CASE ~(i <= Len(s))
      <4>1. i - Len(s) \in 1 .. Len(t) /\ a[i] = t[i - Len(s)]
        BY <3>2, <1>1, <1>2 DEF a
      <4> QED BY <4>1 DEF Elems
    <3> QED BY <3>1, <3>2
  <2> QED BY <2>1, <1>1 DEF Elems, a
<1>4. Elems(s) \union Elems(t) \subseteq Elems(a)
  <2>1. ASSUME NEW i \in 1 .. Len(s) PROVE s[i] \in Elems(a)
    <3>1. i \in 1 .. Len(s) + Len(t) /\ a[i] = s[i] /\ Len(a) = Len(s) + Len(t)
      BY <1>1, <1>2 DEF a
    <3> QED BY <3>1 DEF Elems
  <2>2. ASSUME NEW i \in 1 .. Len(t) PROVE t[i] \in Elems(a)
    <3>1. i + Len(s) \in 1 .. Len(s) + Len(t) /\ ~(i + Len(s) <= Len(s)) /\ (i + Len(s)) - Len(s) = i
          /\ Len(a) = Len(s) + Len(t)
      BY <1>1, <1>2 DEF a
    <3>2. a[i + Len(s)] = t[i]
      BY <3>1, <1>1 DEF a
    <3> QED BY <3>1, <3>2 DEF Elems
  <2> QED BY <2>1, <2>2 DEF Elems
<1> QED BY <1>1, <1>3, <1>4 DEF a

LEMMA StampIs ==
  ASSUME NEW S, NEW s \in Seq(S), NEW d \in Nat
  PROVE  /\ Stamp(s, d) \in Seq([item : S, delta : Nat]) /\ Len(Stamp(s, d)) = Len(s)
         /\ \A i \in 1 .. Len(s) : Stamp(s, d)[i].item = s[i]
<1>1. Len(s) \in Nat /\ s \in [1 .. Len(s) -> S]
  BY LenProperties
<1>2. Stamp(s, d) \in [1 .. Len(s) -> [item : S, delta : Nat]] /\ \A i \in 1 .. Len(s) : Stamp(s, d)[i].item = s[i]
  BY <1>1 DEF Stamp
<1>3. Stamp(s, d) \in Seq([item : S, delta : Nat]) /\ Len(Stamp(s, d)) = Len(s)
  BY <1>1, <1>2, LenIs
<1> QED BY <1>2, <1>3

LEMMA SlotFacts ==
  /\ FreshSlot \in Slot /\ ~Validates(FreshSlot)
  /\ \A s \in Slot : Validates(s) => s # FreshSlot
BY DEF FreshSlot, Slot, Validates

-----------------------------------------------------------------------------
(* What was given, when the parser or the client changes. *)

LEMMA GivenTypes ==
  ASSUME NEW p \in ParserType, NEW c \in ClientType
  PROVE  /\ Len(c.calls) \in Nat /\ Len(p.delta.calls) \in Nat /\ NGiven(p, c) \in Nat
         /\ \A i \in 1 .. NGiven(p, c) : Given(p, c)[i] \in Call
<1>1. c.calls \in Seq([item : Call, delta : Nat]) /\ p.delta.calls \in Seq(Call)
  BY DEF ClientType, ParserType
<1>2. PICK a \in Nat, b \in Nat : a = Len(c.calls) /\ b = Len(p.delta.calls)
  BY <1>1, LenProperties
<1>3. NGiven(p, c) = a + b
  BY <1>2 DEF NGiven
<1>4. \A i \in 1 .. a + b : Given(p, c)[i] = IF i <= a THEN c.calls[i].item ELSE p.delta.calls[i - a]
  BY <1>2, <1>3 DEF Given
<1>5. ASSUME NEW i \in 1 .. a + b PROVE Given(p, c)[i] \in Call
  <2>1. CASE i <= a
    <3>1. i \in 1 .. Len(c.calls)
      BY <2>1, <1>2
    <3>2. c.calls[i] \in [item : Call, delta : Nat]
      BY <1>1, <3>1, ElementOfSeq
    <3> QED BY <2>1, <3>2, <1>4
  <2>2. CASE ~(i <= a)
    <3>1. i - a \in 1 .. b
      BY <2>2
    <3>2. i - a \in 1 .. Len(p.delta.calls)
      BY <3>1, <1>2
    <3>3. p.delta.calls[i - a] \in Call
      BY <1>1, <3>2, ElementOfSeq
    <3> QED BY <2>2, <3>3, <1>4
  <2> QED BY <2>1, <2>2
<1>6. a + b \in Nat
  OBVIOUS
<1> QED BY <1>2, <1>3, <1>5, <1>6

LEMMA GivenSame ==
  ASSUME NEW p, NEW q, NEW c, q.delta.calls = p.delta.calls
  PROVE  NGiven(q, c) = NGiven(p, c) /\ Given(q, c) = Given(p, c) /\ GivenIdx(q, c) = GivenIdx(p, c)
<1>1. NGiven(q, c) = NGiven(p, c)
  BY DEF NGiven
<1>2. Given(q, c) = Given(p, c)
  BY <1>1 DEF Given
<1> QED BY <1>1, <1>2 DEF GivenIdx

LEMMA GivenMore ==
  ASSUME NEW p \in ParserType, NEW c \in ClientType, NEW q, NEW e \in Call,
         q.delta.calls = Append(p.delta.calls, e)
  PROVE  /\ NGiven(q, c) = NGiven(p, c) + 1
         /\ \A i \in 1 .. NGiven(p, c) : Given(q, c)[i] = Given(p, c)[i]
         /\ Given(q, c)[NGiven(p, c) + 1] = e
         /\ GivenIdx(q, c) = GivenIdx(p, c) \union {e.idx}
<1>0. p.delta.calls \in Seq(Call)
  BY DEF ParserType
<1>1. PICK a \in Nat, b \in Nat : a = Len(c.calls) /\ b = Len(p.delta.calls)
  BY GivenTypes
<1>2. /\ Len(q.delta.calls) = b + 1 /\ q.delta.calls[b + 1] = e
      /\ \A i \in 1 .. b : q.delta.calls[i] = p.delta.calls[i]
  BY <1>0, <1>1, AppendIs
<1>3. PICK n \in Nat : n = a + b
  OBVIOUS
<1>4. NGiven(p, c) = n /\ NGiven(q, c) = n + 1
  <2>1. NGiven(p, c) = a + b
    BY <1>1 DEF NGiven
  <2>2. NGiven(q, c) = a + (b + 1)
    BY <1>1, <1>2 DEF NGiven
  <2> QED BY <2>1, <2>2, <1>3
<1>5. PICK f, g : f = Given(q, c) /\ g = Given(p, c)
  OBVIOUS
<1>6. /\ \A i \in 1 .. n : g[i] = IF i <= a THEN c.calls[i].item ELSE p.delta.calls[i - a]
      /\ \A i \in 1 .. n + 1 : f[i] = IF i <= a THEN c.calls[i].item ELSE q.delta.calls[i - a]
  BY <1>1, <1>4, <1>5 DEF Given
<1>7. ASSUME NEW i \in 1 .. n PROVE f[i] = g[i]
  <2>1. i \in 1 .. n + 1 /\ (~(i <= a) => i - a \in 1 .. b)
    BY <1>3
  <2> QED BY <2>1, <1>2, <1>6
<1>8. f[n + 1] = e
  <2>1. n + 1 \in 1 .. n + 1 /\ ~(n + 1 <= a) /\ (n + 1) - a = b + 1
    BY <1>3
  <2> QED BY <2>1, <1>2, <1>6
<1>9. GivenIdx(q, c) = {f[i].idx : i \in 1 .. n + 1} /\ GivenIdx(p, c) = {g[i].idx : i \in 1 .. n}
  BY <1>4, <1>5 DEF GivenIdx
<1>10. {f[i].idx : i \in 1 .. n + 1} \subseteq {g[i].idx : i \in 1 .. n} \union {e.idx}
  <2>1. \A i \in 1 .. n + 1 : i \in 1 .. n \/ i = n + 1
    OBVIOUS
  <2> QED BY <2>1, <1>7, <1>8
<1>11. {g[i].idx : i \in 1 .. n} \union {e.idx} \subseteq {f[i].idx : i \in 1 .. n + 1}
  <2>1. n + 1 \in 1 .. n + 1 /\ \A i \in 1 .. n : i \in 1 .. n + 1
    OBVIOUS
  <2> QED BY <2>1, <1>7, <1>8
<1>12. GivenIdx(q, c) = GivenIdx(p, c) \union {e.idx}
  BY <1>9, <1>10, <1>11
<1> QED BY <1>4, <1>5, <1>7, <1>8, <1>12

-----------------------------------------------------------------------------
(* The parts that a step is made of. *)

LEMMA TextsMore ==
  ASSUME NEW w \in Seq({"text", "call", "cut"} \X Nat), NEW e \in {"text", "call", "cut"} \X Nat
  PROVE  /\ e[1] = "text" => Texts(Append(w, e)) = Texts(w) \union {e}
         /\ e[1] # "text" => Texts(Append(w, e)) = Texts(w)
<1> DEFINE x == Append(w, e)
           n == Len(w)
<1>1. n \in Nat /\ Len(x) = n + 1 /\ x[n + 1] = e /\ \A i \in 1 .. n : x[i] = w[i]
  BY AppendIs
<1> HIDE DEF x, n
<1>2. Texts(x) = {x[i] : i \in {j \in 1 .. n + 1 : x[j][1] = "text"}}
  BY <1>1 DEF Texts
<1>3. Texts(w) = {w[i] : i \in {j \in 1 .. n : w[j][1] = "text"}}
  BY DEF Texts, n
<1>4. \A i : i \in 1 .. n + 1 <=> i \in 1 .. n \/ i = n + 1
  BY <1>1
<1>5. Texts(w) \subseteq Texts(x)
  BY <1>1, <1>2, <1>3, <1>4
<1>6. e[1] = "text" => e \in Texts(x)
  BY <1>1, <1>2, <1>4
<1>7. Texts(x) \subseteq Texts(w) \union (IF e[1] = "text" THEN {e} ELSE {})
  <2>1. ASSUME NEW i \in 1 .. n + 1, x[i][1] = "text" PROVE x[i] \in Texts(w) \/ (e[1] = "text" /\ x[i] = e)
    BY <2>1, <1>1, <1>3, <1>4
  <2> QED BY <2>1, <1>2
<1> QED BY <1>5, <1>6, <1>7 DEF x

(* The open call ends: it is given, or its text is rejected.               *)
LEMMA Ends ==
  ASSUME NEW p, NEW w, NEW c, Core(p, TRUE, w, c), NEW k \in {"call", "cut"}
  PROVE  Core(HandleToolEnd(p), FALSE, Append(w, <<k, Len(p.slots)>>), c)
<1> DEFINE n == Len(p.slots)
           s == p.slots[Len(p.slots)]
           q == HandleToolEnd(p)
           x == Append(w, <<k, n>>)
           e == [idx |-> n, call |-> s]
<1>1. /\ p \in ParserType /\ c \in ClientType /\ w \in Seq({"text", "call", "cut"} \X Nat)
      /\ p.slots \in Seq(Slot) /\ p.closed = 1 .. n - 1 /\ n \in Nat \ {0}
      /\ p.rejects \in Seq(Item) /\ p.delta.content \in Seq(Item) /\ p.delta.calls \in Seq(Call)
      /\ p.delta = [content |-> p.delta.content, calls |-> p.delta.calls]
  BY DEF Core, Typed, SlotsInv, ParserType
<1>2. n \in 1 .. n /\ s \in Slot /\ e \in Call /\ p.closed \union {n} = 1 .. n /\ n \notin p.closed
  <2>1. n \in 1 .. n /\ (1 .. n - 1) \union {n} = 1 .. n /\ n \notin 1 .. n - 1
    BY <1>1
  <2>2. s \in Slot
    BY <1>1, <2>1, ElementOfSeq
  <2> QED BY <1>1, <2>1, <2>2 DEF Call
<1>3. x \in Seq({"text", "call", "cut"} \X Nat) /\ Len(x) = Len(w) + 1 /\ Texts(x) = Texts(w)
  BY <1>1, AppendIs, TextsMore
<1>4. n \notin GivenIdx(p, c)
  BY <1>2 DEF Core, GivenInv, GivenIdx
<1>5. CASE Validates(s)
  <2>1. q = [[p EXCEPT !.closed = p.closed \union {n}] EXCEPT !.delta.calls = Append(p.delta.calls, e)]
    BY <1>1, <1>5 DEF HandleToolEnd, ParserType
  <2>2. /\ q.slots = p.slots /\ q.closed = 1 .. n /\ q.rejects = p.rejects
        /\ q.delta.content = p.delta.content /\ q.delta.calls = Append(p.delta.calls, e)
        /\ q \in [slots : Seq(Slot), closed : SUBSET Nat, rejects : Seq(Item),
                  delta : [content : Seq(Item), calls : Seq(Call)]]
    <3>1. Append(p.delta.calls, e) \in Seq(Call)
      BY <1>1, <1>2, AppendIs
    <3>2. (p.closed \union {n}) \in SUBSET Nat
      BY <1>1, <1>2
    <3> HIDE DEF e, n, q
    <3> QED BY <2>1, <3>1, <3>2, <1>1, <1>2 DEF ParserType
  <2>3. /\ NGiven(q, c) = NGiven(p, c) + 1
        /\ \A i \in 1 .. NGiven(p, c) : Given(q, c)[i] = Given(p, c)[i]
        /\ Given(q, c)[NGiven(p, c) + 1] = e
        /\ GivenIdx(q, c) = GivenIdx(p, c) \union {n}
    <3>1. e.idx = n /\ q.delta.calls = Append(p.delta.calls, e)
      BY <2>2
    <3>2. p \in ParserType /\ c \in ClientType /\ e \in Call
      BY <1>1, <1>2
    <3> HIDE DEF q, e, n
    <3>3. /\ NGiven(q, c) = NGiven(p, c) + 1
          /\ \A i \in 1 .. NGiven(p, c) : Given(q, c)[i] = Given(p, c)[i]
          /\ Given(q, c)[NGiven(p, c) + 1] = e
          /\ GivenIdx(q, c) = GivenIdx(p, c) \union {e.idx}
      BY <3>1, <3>2, GivenMore
    <3> QED BY <3>1, <3>3
  <2>4. NGiven(p, c) \in Nat /\ \A i \in 1 .. NGiven(p, c) + 1 : i \in 1 .. NGiven(p, c) \/ i = NGiven(p, c) + 1
    BY <1>1, GivenTypes
  <2> HIDE DEF q, x, n, s
  <2>5. Typed(q, FALSE, x, c)
    BY <1>1, <1>3, <2>2 DEF Typed, ParserType
  <2>6. SlotsInv(q, FALSE)
    BY <2>2 DEF SlotsInv, n
  <2>7. GivenInv(q, c)
    <3>1. ASSUME NEW i \in 1 .. NGiven(q, c)
          PROVE  /\ Given(q, c)[i].idx \in q.closed /\ q.slots[Given(q, c)[i].idx] = Given(q, c)[i].call
                 /\ Validates(Given(q, c)[i].call)
      <4>1. CASE i \in 1 .. NGiven(p, c)
        <5>1. /\ Given(p, c)[i].idx \in p.closed /\ p.slots[Given(p, c)[i].idx] = Given(p, c)[i].call
              /\ Validates(Given(p, c)[i].call)
          BY <4>1 DEF Core, GivenInv
        <5> QED BY <4>1, <5>1, <2>2, <2>3, <1>2
      <4>2. CASE i = NGiven(p, c) + 1
        <5>1. Given(q, c)[i] = e /\ e.idx = n /\ e.call = s /\ p.slots[n] = s
          BY <4>2, <2>3 DEF s, n
        <5> QED BY <5>1, <1>2, <1>5, <2>2
      <4> QED BY <4>1, <4>2, <2>3, <2>4
    <3> QED BY <3>1 DEF GivenInv
  <2>8. OnceInv(q, c)
    <3>1. ASSUME NEW i \in 1 .. NGiven(q, c), NEW j \in 1 .. NGiven(q, c),
                 Given(q, c)[i].idx = Given(q, c)[j].idx
          PROVE  i = j
      <4>1. \A m \in 1 .. NGiven(p, c) : Given(p, c)[m].idx \in p.closed
        BY DEF Core, GivenInv
      <4>2. e.idx = n
        OBVIOUS
      <4>3. \A m \in 1 .. NGiven(p, c) : Given(q, c)[m].idx # n
        BY <4>1, <1>2, <2>3
      <4>4. CASE i \in 1 .. NGiven(p, c) /\ j \in 1 .. NGiven(p, c)
        BY <3>1, <4>4, <2>3 DEF Core, OnceInv
      <4>5. CASE i = NGiven(p, c) + 1 \/ j = NGiven(p, c) + 1
        BY <3>1, <4>2, <4>3, <4>5, <2>3, <2>4
      <4> QED BY <4>4, <4>5, <2>3, <2>4
    <3>2. \A m \in q.closed : q.slots[m] # FreshSlot => m \in GivenIdx(q, c)
      BY <2>2, <2>3, <1>2 DEF Core, OnceInv
    <3> QED BY <3>1, <3>2 DEF OnceInv
  <2>9. ContentInv(q, x, c)
    <3>1. Shown(q, c) = Shown(p, c)
      BY <2>2 DEF Shown
    <3>2. q.closed \ GivenIdx(q, c) = p.closed \ GivenIdx(p, c)
      BY <2>2, <2>3, <1>2
    <3>3. Len(c.content) \in Nat /\ Len(p.delta.content) \in Nat /\ Len(p.rejects) \in Nat /\ Len(w) \in Nat
      BY <1>1 DEF ClientType
    <3>4. Len(x) = Len(c.content) + Len(q.delta.content) + Len(q.rejects) + NGiven(q, c)
      <4>1. Len(w) = Len(c.content) + Len(p.delta.content) + Len(p.rejects) + NGiven(p, c)
        BY DEF Core, ContentInv
      <4>2. NGiven(q, c) = NGiven(p, c) + 1 /\ Len(x) = Len(w) + 1
            /\ Len(q.delta.content) = Len(p.delta.content) /\ Len(q.rejects) = Len(p.rejects)
        BY <1>3, <2>2, <2>3
      <4>3. PICK h \in Nat, i \in Nat, j \in Nat, k2 \in Nat :
              /\ h = Len(c.content) /\ i = Len(p.delta.content) /\ j = Len(p.rejects) /\ k2 = NGiven(p, c)
        BY <3>3, <2>4
      <4>4. Len(w) = h + i + j + k2
        BY <4>1, <4>3
      <4>5. Len(w) + 1 = h + i + j + (k2 + 1)
        BY <4>4
      <4>6. Len(x) = h + i + j + (k2 + 1)
        BY <4>2, <4>5
      <4> QED BY <4>2, <4>3, <4>6
    <3> QED BY <3>1, <3>2, <3>4, <1>3 DEF Core, ContentInv
  <2> QED BY <2>5, <2>6, <2>7, <2>8, <2>9 DEF Core, q, x, n
<1>6. CASE ~Validates(s)
  <2> DEFINE y == <<"call", n>>
  <2>1. q = [[p EXCEPT !.closed = p.closed \union {n}]
               EXCEPT !.rejects = Append(p.rejects, y), !.slots[n] = FreshSlot]
    BY <1>1, <1>6 DEF HandleToolEnd, Reject, ParserType
  <2>2. /\ q.slots = [p.slots EXCEPT ![n] = FreshSlot] /\ q.closed = 1 .. n
        /\ q.rejects = Append(p.rejects, y) /\ q.delta = p.delta
        /\ q \in [slots : Seq(Slot), closed : SUBSET Nat, rejects : Seq(Item),
                  delta : [content : Seq(Item), calls : Seq(Call)]]
    <3>1. Append(p.rejects, y) \in Seq(Item)
      BY <1>1, <1>2, AppendIs DEF Item
    <3>2. (p.closed \union {n}) \in SUBSET Nat
      BY <1>1, <1>2
    <3>3. [p.slots EXCEPT ![n] = FreshSlot] \in Seq(Slot)
      BY <1>1, <1>2, SlotFacts, ExceptSeq
    <3> HIDE DEF y, n, q
    <3> QED BY <2>1, <3>1, <3>2, <3>3, <1>1, <1>2 DEF ParserType
  <2>3. /\ Len(q.slots) = n /\ q.slots[n] = FreshSlot
        /\ \A m \in 1 .. n : m # n => q.slots[m] = p.slots[m]
    <3>1. /\ Len([p.slots EXCEPT ![n] = FreshSlot]) = n
          /\ \A m \in 1 .. n : [p.slots EXCEPT ![n] = FreshSlot][m] = IF m = n THEN FreshSlot ELSE p.slots[m]
      BY <1>1, <1>2, SlotFacts, ExceptSeq
    <3> HIDE DEF q
    <3> QED BY <2>2, <3>1, <1>2
  <2>4. NGiven(q, c) = NGiven(p, c) /\ Given(q, c) = Given(p, c) /\ GivenIdx(q, c) = GivenIdx(p, c)
    BY <2>2, GivenSame
  <2>5. \A m \in p.closed : m \in 1 .. n /\ m # n
    BY <1>2
  <2> HIDE DEF q, x, n, s
  <2>6. Typed(q, FALSE, x, c)
    BY <1>1, <1>3, <2>2 DEF Typed, ParserType
  <2>7. SlotsInv(q, FALSE)
    BY <2>2, <2>3 DEF SlotsInv
  <2>8. GivenInv(q, c)
    <3>1. ASSUME NEW i \in 1 .. NGiven(p, c)
          PROVE  /\ Given(p, c)[i].idx \in q.closed /\ q.slots[Given(p, c)[i].idx] = Given(p, c)[i].call
                 /\ Validates(Given(p, c)[i].call)
      <4>1. /\ Given(p, c)[i].idx \in p.closed /\ p.slots[Given(p, c)[i].idx] = Given(p, c)[i].call
            /\ Validates(Given(p, c)[i].call)
        BY DEF Core, GivenInv
      <4> QED BY <4>1, <2>2, <2>3, <2>5
    <3> QED BY <3>1, <2>4 DEF GivenInv
  <2>9. OnceInv(q, c)
    <3>1. \A m \in q.closed : q.slots[m] # FreshSlot => m \in GivenIdx(q, c)
      BY <2>2, <2>3, <2>4, <2>5, <1>2 DEF Core, OnceInv
    <3> QED BY <3>1, <2>4 DEF Core, OnceInv
  <2>10. ContentInv(q, x, c)
    <3>1. Elems(q.rejects) = Elems(p.rejects) \union {y} /\ Len(q.rejects) = Len(p.rejects) + 1
      <4>1. y \in Item
        BY <1>1 DEF Item
      <4>2. q.rejects = Append(p.rejects, y) /\ p.rejects \in Seq(Item)
        BY <2>2, <1>1
      <4> HIDE DEF y
      <4> QED BY <4>1, <4>2, AppendIs
    <3>2. Shown(q, c) = Shown(p, c) \union {y}
      BY <2>2, <3>1 DEF Shown
    <3>3. q.closed \ GivenIdx(q, c) = (p.closed \ GivenIdx(p, c)) \union {n}
      BY <2>2, <2>4, <1>2, <1>4
    <3>4. {<<"call", m>> : m \in q.closed \ GivenIdx(q, c)}
            = {<<"call", m>> : m \in p.closed \ GivenIdx(p, c)} \union {y}
      BY <3>3
    <3>5. Len(c.content) \in Nat /\ Len(p.delta.content) \in Nat /\ Len(p.rejects) \in Nat /\ Len(w) \in Nat
      BY <1>1 DEF ClientType
    <3>6. Len(x) = Len(c.content) + Len(q.delta.content) + Len(q.rejects) + NGiven(q, c)
      <4>0. NGiven(p, c) \in Nat
        BY <1>1, GivenTypes
      <4>1. Len(w) = Len(c.content) + Len(p.delta.content) + Len(p.rejects) + NGiven(p, c)
        BY DEF Core, ContentInv
      <4>2. NGiven(q, c) = NGiven(p, c) /\ Len(x) = Len(w) + 1
            /\ Len(q.delta.content) = Len(p.delta.content) /\ Len(q.rejects) = Len(p.rejects) + 1
        BY <1>3, <2>2, <2>4, <3>1
      <4>3. PICK h \in Nat, i \in Nat, j \in Nat, k2 \in Nat :
              /\ h = Len(c.content) /\ i = Len(p.delta.content) /\ j = Len(p.rejects) /\ k2 = NGiven(p, c)
        BY <3>5, <4>0
      <4>4. Len(w) = h + i + j + k2
        BY <4>1, <4>3
      <4>5. Len(w) + 1 = h + i + (j + 1) + k2
        BY <4>4
      <4>6. Len(x) = h + i + (j + 1) + k2
        BY <4>2, <4>5
      <4> QED BY <4>2, <4>3, <4>6
    <3> QED BY <3>2, <3>4, <3>6, <1>3 DEF Core, ContentInv
  <2> QED BY <2>6, <2>7, <2>8, <2>9, <2>10 DEF Core, q, x, n
<1> QED BY <1>5, <1>6

(* Only a slot that is not closed changes.                                 *)
LEMMA OpenSlotChanges ==
  ASSUME NEW p, NEW o, NEW w, NEW c, Core(p, o, w, c), NEW q \in ParserType, NEW b \in BOOLEAN,
         q.closed = p.closed, q.delta = p.delta, q.rejects = p.rejects,
         \A m \in p.closed : q.slots[m] = p.slots[m], SlotsInv(q, b)
  PROVE  Core(q, b, w, c)
<1>1. NGiven(q, c) = NGiven(p, c) /\ Given(q, c) = Given(p, c) /\ GivenIdx(q, c) = GivenIdx(p, c)
  BY GivenSame
<1>2. Typed(q, b, w, c)
  BY DEF Core, Typed
<1>3. GivenInv(q, c)
  BY <1>1 DEF Core, GivenInv
<1>4. OnceInv(q, c)
  BY <1>1 DEF Core, OnceInv
<1>5. ContentInv(q, w, c)
  BY <1>1 DEF Core, ContentInv, Shown
<1> QED BY <1>2, <1>3, <1>4, <1>5 DEF Core

LEMMA Touched ==
  ASSUME NEW p, NEW w, NEW c, Core(p, TRUE, w, c), NEW s \in Slot
  PROVE  Core([p EXCEPT !.slots = [p.slots EXCEPT ![Len(p.slots)] = s]], TRUE, w, c)
<1> DEFINE n == Len(p.slots)
           q == [p EXCEPT !.slots = [p.slots EXCEPT ![n] = s]]
<1>1. p \in ParserType /\ p.slots \in Seq(Slot) /\ p.closed = 1 .. n - 1 /\ n \in Nat \ {0} /\ n \in 1 .. n
  BY DEF Core, Typed, SlotsInv, ParserType
<1>2. /\ [p.slots EXCEPT ![n] = s] \in Seq(Slot) /\ Len([p.slots EXCEPT ![n] = s]) = n
      /\ \A m \in 1 .. n : [p.slots EXCEPT ![n] = s][m] = IF m = n THEN s ELSE p.slots[m]
  BY <1>1, ExceptSeq
<1>3. /\ q \in ParserType /\ q.closed = p.closed /\ q.delta = p.delta /\ q.rejects = p.rejects
      /\ q.slots = [p.slots EXCEPT ![n] = s]
  BY <1>1, <1>2 DEF ParserType
<1>4. \A m \in p.closed : m \in 1 .. n /\ m # n
  BY <1>1
<1> HIDE DEF q
<1>5. \A m \in p.closed : q.slots[m] = p.slots[m]
  BY <1>2, <1>3, <1>4
<1>6. SlotsInv(q, TRUE)
  BY <1>1, <1>2, <1>3 DEF SlotsInv
<1>7. Core(q, TRUE, w, c)
  BY <1>3, <1>5, <1>6, OpenSlotChanges
<1> QED BY <1>7 DEF q

LEMMA Started ==
  ASSUME NEW p, NEW w, NEW c, Core(p, FALSE, w, c)
  PROVE  Core([p EXCEPT !.slots = Append(p.slots, FreshSlot)], TRUE, w, c)
<1> DEFINE n == Len(p.slots)
           q == [p EXCEPT !.slots = Append(p.slots, FreshSlot)]
<1>1. p \in ParserType /\ p.slots \in Seq(Slot) /\ p.closed = 1 .. n /\ n \in Nat
  BY DEF Core, Typed, SlotsInv, ParserType
<1>2. /\ Append(p.slots, FreshSlot) \in Seq(Slot) /\ Len(Append(p.slots, FreshSlot)) = n + 1
      /\ \A m \in 1 .. n : Append(p.slots, FreshSlot)[m] = p.slots[m]
  BY <1>1, SlotFacts, AppendIs
<1>3. /\ q \in ParserType /\ q.closed = p.closed /\ q.delta = p.delta /\ q.rejects = p.rejects
      /\ q.slots = Append(p.slots, FreshSlot)
  BY <1>1, <1>2 DEF ParserType
<1> HIDE DEF q
<1>4. \A m \in p.closed : q.slots[m] = p.slots[m]
  BY <1>1, <1>2, <1>3
<1>5. SlotsInv(q, TRUE)
  <2>1. Len(q.slots) > 0 /\ Len(q.slots) - 1 = n
    BY <1>1, <1>2, <1>3
  <2> QED BY <2>1, <1>1, <1>3 DEF SlotsInv
<1>6. Core(q, TRUE, w, c)
  BY <1>3, <1>4, <1>5, OpenSlotChanges
<1> QED BY <1>6 DEF q

LEMMA Said ==
  ASSUME NEW p, NEW w, NEW c, Core(p, FALSE, w, c), NEW e \in Item,
         e \in {"text", "call", "cut"} \X Nat, e[1] = "text"
  PROVE  Core([p EXCEPT !.delta = [content |-> Append(p.delta.content, e), calls |-> p.delta.calls]],
              FALSE, Append(w, e), c)
<1> DEFINE q == [p EXCEPT !.delta = [content |-> Append(p.delta.content, e), calls |-> p.delta.calls]]
           x == Append(w, e)
<1>1. /\ p \in ParserType /\ c \in ClientType /\ w \in Seq({"text", "call", "cut"} \X Nat)
      /\ p.delta.content \in Seq(Item) /\ p.delta.calls \in Seq(Call) /\ p.rejects \in Seq(Item)
  BY DEF Core, Typed, ParserType
<1>2. Len(w) \in Nat
  BY <1>1
<1>3. x \in Seq({"text", "call", "cut"} \X Nat) /\ Len(x) = Len(w) + 1 /\ Texts(x) = Texts(w) \union {e}
  <2>1. w \in Seq({"text", "call", "cut"} \X Nat)
    BY <1>1
  <2>2. x \in Seq({"text", "call", "cut"} \X Nat) /\ Len(x) = Len(w) + 1
    BY <2>1
  <2>3. Texts(x) = Texts(w) \union {e}
    BY <2>1, TextsMore
  <2> QED BY <2>2, <2>3
<1>4. /\ Append(p.delta.content, e) \in Seq(Item)
      /\ Len(Append(p.delta.content, e)) = Len(p.delta.content) + 1
      /\ Elems(Append(p.delta.content, e)) = Elems(p.delta.content) \union {e}
  BY <1>1, <1>2, AppendIs
<1>5. /\ q \in ParserType /\ q.slots = p.slots /\ q.closed = p.closed /\ q.rejects = p.rejects
      /\ q.delta.content = Append(p.delta.content, e) /\ q.delta.calls = p.delta.calls
  BY <1>1, <1>4 DEF ParserType
<1> HIDE DEF q, x
<1>6. NGiven(q, c) = NGiven(p, c) /\ Given(q, c) = Given(p, c) /\ GivenIdx(q, c) = GivenIdx(p, c)
  BY <1>5, GivenSame
<1>7. Typed(q, FALSE, x, c) /\ SlotsInv(q, FALSE)
  BY <1>1, <1>3, <1>5 DEF Core, Typed, SlotsInv
<1>8. GivenInv(q, c) /\ OnceInv(q, c)
  BY <1>5, <1>6 DEF Core, GivenInv, OnceInv
<1>9. ContentInv(q, x, c)
  <2>1. Shown(q, c) = Shown(p, c) \union {e}
    BY <1>4, <1>5 DEF Shown
  <2>2. PICK h \in Nat, i \in Nat, j \in Nat, k \in Nat :
          /\ h = Len(c.content) /\ i = Len(p.delta.content) /\ j = Len(p.rejects) /\ k = NGiven(p, c)
    <3>1. c.content \in Seq([item : Item, delta : Nat])
      BY <1>1 DEF ClientType
    <3> QED BY <3>1, <1>1, GivenTypes, LenProperties
  <2>3. Len(w) = h + i + j + k
    BY <2>2 DEF Core, ContentInv
  <2>4. Len(w) + 1 = h + (i + 1) + j + k
    BY <2>3
  <2>5. Len(x) = Len(c.content) + Len(q.delta.content) + Len(q.rejects) + NGiven(q, c)
    BY <2>2, <2>4, <1>3, <1>4, <1>5, <1>6
  <2> QED BY <2>1, <2>5, <1>3, <1>5, <1>6 DEF Core, ContentInv
<1> QED BY <1>7, <1>8, <1>9 DEF Core, q, x

(* The rejected text is flushed, and the sweep at the end finds nothing:   *)
(* the engine has ended every call.                                        *)
LEMMA Flushed ==
  ASSUME NEW p, NEW o, NEW w, NEW c, Core(p, o, w, c), NEW atEnd, atEnd => ~o
  PROVE  /\ Core(Finalize(p, atEnd), o, w, c) /\ Finalize(p, atEnd).rejects = <<>>
         /\ Finalize(p, atEnd).delta.content = p.delta.content \o p.rejects
         /\ Finalize(p, atEnd).closed = p.closed
<1> DEFINE q == Finalize(p, atEnd)
           all == p.delta.content \o p.rejects
<1>1. /\ p \in ParserType /\ c \in ClientType
      /\ p.delta.content \in Seq(Item) /\ p.delta.calls \in Seq(Call) /\ p.rejects \in Seq(Item)
      /\ p.delta = [content |-> p.delta.content, calls |-> p.delta.calls]
  BY DEF Core, Typed, ParserType
<1>2. atEnd => NeverClosed(p) = {}
  BY DEF Core, SlotsInv, NeverClosed
<1>3. q = [p EXCEPT !.delta = [content |-> all, calls |-> p.delta.calls], !.rejects = <<>>]
  <2>1. q = [p EXCEPT !.delta.content = all, !.rejects = <<>>]
    BY <1>2 DEF Finalize
  <2>2. [p.delta EXCEPT !.content = all] = [content |-> all, calls |-> p.delta.calls]
    <3>1. p.delta \in [content : Seq(Item), calls : Seq(Call)]
      BY <1>1 DEF ParserType
    <3> HIDE DEF all
    <3> QED BY <3>1
  <2> HIDE DEF q, all
  <2> QED BY <2>1, <2>2, <1>1 DEF ParserType
<1>4. all \in Seq(Item) /\ Len(all) = Len(p.delta.content) + Len(p.rejects)
      /\ Elems(all) = Elems(p.delta.content) \union Elems(p.rejects)
  BY <1>1, ConcatIs
<1> HIDE DEF all
<1>5. /\ q \in ParserType /\ q.slots = p.slots /\ q.closed = p.closed /\ q.rejects = <<>>
      /\ q.delta.content = all /\ q.delta.calls = p.delta.calls
  <2>1. [content |-> all, calls |-> p.delta.calls] \in [content : Seq(Item), calls : Seq(Call)]
    BY <1>1, <1>4
  <2>2. <<>> \in Seq(Item)
    OBVIOUS
  <2> HIDE DEF q
  <2> QED BY <2>1, <2>2, <1>1, <1>3 DEF ParserType
<1> HIDE DEF q
<1>6. NGiven(q, c) = NGiven(p, c) /\ Given(q, c) = Given(p, c) /\ GivenIdx(q, c) = GivenIdx(p, c)
  BY <1>5, GivenSame
<1>7. Typed(q, o, w, c) /\ SlotsInv(q, o)
  BY <1>5 DEF Core, Typed, SlotsInv
<1>8. GivenInv(q, c) /\ OnceInv(q, c)
  BY <1>5, <1>6 DEF Core, GivenInv, OnceInv
<1>9. ContentInv(q, w, c)
  <2>1. Elems(<<>>) = {} /\ Len(<<>>) = 0
    BY DEF Elems
  <2>2. Shown(q, c) = Shown(p, c)
    BY <2>1, <1>4, <1>5 DEF Shown
  <2>3. PICK h \in Nat, i \in Nat, j \in Nat, k \in Nat :
          /\ h = Len(c.content) /\ i = Len(p.delta.content) /\ j = Len(p.rejects) /\ k = NGiven(p, c)
    <3>1. c.content \in Seq([item : Item, delta : Nat])
      BY <1>1 DEF ClientType
    <3> QED BY <3>1, <1>1, GivenTypes, LenProperties
  <2>4. Len(w) = h + i + j + k
    BY <2>3 DEF Core, ContentInv
  <2>5. Len(w) = h + (i + j) + 0 + k
    BY <2>4
  <2>6. Len(w) = Len(c.content) + Len(q.delta.content) + Len(q.rejects) + NGiven(q, c)
    BY <2>1, <2>3, <2>5, <1>4, <1>5, <1>6
  <2> QED BY <2>2, <2>6, <1>5, <1>6 DEF Core, ContentInv
<1> QED BY <1>5, <1>7, <1>8, <1>9 DEF Core, q, all

(* x is s with the items of t behind it.                                   *)
Longer(S, x, s, t) ==
  /\ x \in Seq([item : S, delta : Nat]) /\ Len(x) = Len(s) + Len(t)
  /\ \A i \in 1 .. Len(s) : x[i] = s[i]
  /\ \A i \in 1 .. Len(t) : x[i + Len(s)].item = t[i]

LEMMA ItemsAre ==
  ASSUME NEW S, NEW s \in Seq([item : S, delta : Nat]), NEW t \in Seq(S), NEW d \in Nat
  PROVE  Longer(S, s \o Stamp(t, d), s, t)
<1>1. /\ Stamp(t, d) \in Seq([item : S, delta : Nat]) /\ Len(Stamp(t, d)) = Len(t)
      /\ \A i \in 1 .. Len(t) : Stamp(t, d)[i].item = t[i]
  BY StampIs
<1> DEFINE y == Stamp(t, d)
<1> HIDE DEF y
<1>2. PICK a \in Nat, b \in Nat : a = Len(s) /\ b = Len(t) /\ Len(y) = b
  BY <1>1, LenProperties DEF y
<1>3. /\ s \o y \in Seq([item : S, delta : Nat]) /\ Len(s \o y) = a + b
      /\ \A i \in 1 .. a + b : (s \o y)[i] = IF i <= a THEN s[i] ELSE y[i - a]
  <2>1. y \in Seq([item : S, delta : Nat])
    BY <1>1 DEF y
  <2>2. /\ s \o y \in Seq([item : S, delta : Nat]) /\ Len(s \o y) = Len(s) + Len(y)
        /\ \A i \in 1 .. Len(s) + Len(y) : (s \o y)[i] = IF i <= Len(s) THEN s[i] ELSE y[i - Len(s)]
    BY <2>1, ConcatProperties
  <2> QED BY <2>2, <1>2
<1>4. \A i \in 1 .. a : i \in 1 .. a + b /\ i <= a
  OBVIOUS
<1>5. \A i \in 1 .. b : i + a \in 1 .. a + b /\ ~(i + a <= a) /\ (i + a) - a = i
  OBVIOUS
<1>6. \A i \in 1 .. a : (s \o y)[i] = s[i]
  BY <1>3, <1>4
<1>7. \A i \in 1 .. b : (s \o y)[i + a].item = t[i]
  <2>1. \A i \in 1 .. b : y[i].item = t[i]
    BY <1>1, <1>2 DEF y
  <2> QED BY <1>3, <1>5, <2>1
<1> QED BY <1>2, <1>3, <1>6, <1>7 DEF y, Longer

(* What waits in the delta moves to the client.                            *)
LEMMA Delivered ==
  ASSUME NEW p, NEW o, NEW w, NEW c, Core(p, o, w, c), NEW d \in Nat
  PROVE  Core([p EXCEPT !.delta = NoDelta], o, w,
              [content |-> c.content \o Stamp(p.delta.content, d),
               calls |-> c.calls \o Stamp(p.delta.calls, d)])
<1> DEFINE q == [p EXCEPT !.delta = NoDelta]
           xs == c.content \o Stamp(p.delta.content, d)
           ys == c.calls \o Stamp(p.delta.calls, d)
           c2 == [content |-> xs, calls |-> ys]
<1>1. /\ p \in ParserType /\ c \in ClientType
      /\ p.delta.content \in Seq(Item) /\ p.delta.calls \in Seq(Call) /\ p.rejects \in Seq(Item)
      /\ c.content \in Seq([item : Item, delta : Nat]) /\ c.calls \in Seq([item : Call, delta : Nat])
  BY DEF Core, Typed, ParserType, ClientType
<1>2. PICK h \in Nat, i \in Nat, j \in Nat, a \in Nat, b \in Nat :
        /\ h = Len(c.content) /\ i = Len(p.delta.content) /\ j = Len(p.rejects)
        /\ a = Len(c.calls) /\ b = Len(p.delta.calls)
  BY <1>1, LenProperties
<1>3. /\ xs \in Seq([item : Item, delta : Nat]) /\ Len(xs) = h + i
      /\ \A m \in 1 .. h : xs[m] = c.content[m]
      /\ \A m \in 1 .. i : xs[m + h].item = p.delta.content[m]
  <2>1. Longer(Item, xs, c.content, p.delta.content)
    BY <1>1, ItemsAre
  <2> HIDE DEF xs
  <2> QED BY <2>1, <1>2 DEF Longer
<1>4. /\ ys \in Seq([item : Call, delta : Nat]) /\ Len(ys) = a + b
      /\ \A m \in 1 .. a : ys[m] = c.calls[m]
      /\ \A m \in 1 .. b : ys[m + a].item = p.delta.calls[m]
  <2>1. Longer(Call, ys, c.calls, p.delta.calls)
    BY <1>1, ItemsAre
  <2> HIDE DEF ys
  <2> QED BY <2>1, <1>2 DEF Longer
<1>5. /\ q \in ParserType /\ q.slots = p.slots /\ q.closed = p.closed /\ q.rejects = p.rejects
      /\ q.delta.content = <<>> /\ q.delta.calls = <<>>
  <2>1. NoDelta \in [content : Seq(Item), calls : Seq(Call)]
    BY DEF NoDelta
  <2> QED BY <2>1, <1>1 DEF ParserType, NoDelta
<1> HIDE DEF q, xs, ys
<1>6. c2 \in ClientType /\ c2.content = xs /\ c2.calls = ys
  BY <1>3, <1>4 DEF ClientType
<1> HIDE DEF c2
<1>7. Len(<<>>) = 0 /\ Elems(<<>>) = {}
  BY DEF Elems
<1>8. NGiven(p, c) = a + b /\ NGiven(q, c2) = a + b
  <2>1. NGiven(p, c) = a + b
    BY <1>2 DEF NGiven
  <2>2. NGiven(q, c2) = (a + b) + 0
    BY <1>4, <1>5, <1>6, <1>7 DEF NGiven
  <2> QED BY <2>1, <2>2
<1>9. Given(q, c2) = Given(p, c)
  <2>1. ASSUME NEW m \in 1 .. a + b PROVE ys[m].item = IF m <= a THEN c.calls[m].item ELSE p.delta.calls[m - a]
    <3>1. CASE m <= a
      <4>1. m \in 1 .. a
        BY <3>1
      <4> QED BY <3>1, <4>1, <1>4
    <3>2. CASE ~(m <= a)
      <4>1. m - a \in 1 .. b /\ (m - a) + a = m
        BY <3>2
      <4>2. ys[(m - a) + a].item = p.delta.calls[m - a]
        BY <4>1, <1>4
      <4> QED BY <3>2, <4>1, <4>2
    <3> QED BY <3>1, <3>2
  <2>2. Given(p, c) = [m \in 1 .. a + b |-> IF m <= a THEN c.calls[m].item ELSE p.delta.calls[m - a]]
    BY <1>2, <1>8 DEF Given
  <2>3. Given(q, c2) = [m \in 1 .. a + b |-> ys[m].item]
    <3>1. \A m \in 1 .. a + b : m <= Len(ys)
      BY <1>4
    <3>2. Given(q, c2) = [m \in 1 .. a + b |-> IF m <= Len(ys) THEN ys[m].item
                                               ELSE q.delta.calls[m - Len(ys)]]
      BY <1>6, <1>8 DEF Given
    <3> QED BY <3>1, <3>2
  <2> QED BY <2>1, <2>2, <2>3
<1>10. GivenIdx(q, c2) = GivenIdx(p, c)
  BY <1>8, <1>9 DEF GivenIdx
<1>11. Typed(q, o, w, c2) /\ SlotsInv(q, o)
  BY <1>5, <1>6 DEF Core, Typed, SlotsInv
<1>12. GivenInv(q, c2) /\ OnceInv(q, c2)
  BY <1>5, <1>8, <1>9, <1>10 DEF Core, GivenInv, OnceInv
<1>13. ContentInv(q, w, c2)
  <2>1. {xs[m].item : m \in 1 .. h + i} = {c.content[m].item : m \in 1 .. h} \union Elems(p.delta.content)
    <3>1. ASSUME NEW m \in 1 .. h + i
          PROVE  xs[m].item \in {c.content[k].item : k \in 1 .. h} \union Elems(p.delta.content)
      <4>1. CASE m <= h
        <5>1. m \in 1 .. h
          BY <4>1
        <5> QED BY <5>1, <1>3
      <4>2. CASE ~(m <= h)
        <5>1. m - h \in 1 .. i /\ (m - h) + h = m
          BY <4>2
        <5>2. xs[(m - h) + h].item = p.delta.content[m - h]
          BY <5>1, <1>3
        <5> QED BY <5>1, <5>2, <1>2 DEF Elems
      <4> QED BY <4>1, <4>2
    <3>2. ASSUME NEW m \in 1 .. h PROVE c.content[m].item \in {xs[k].item : k \in 1 .. h + i}
      <4>1. m \in 1 .. h + i
        OBVIOUS
      <4> QED BY <4>1, <1>3
    <3>3. ASSUME NEW m \in 1 .. i PROVE p.delta.content[m] \in {xs[k].item : k \in 1 .. h + i}
      <4>1. m + h \in 1 .. h + i
        OBVIOUS
      <4> QED BY <4>1, <1>3
    <3>4. Elems(p.delta.content) = {p.delta.content[m] : m \in 1 .. i}
      BY <1>2 DEF Elems
    <3> QED BY <3>1, <3>2, <3>3, <3>4
  <2>2. Shown(q, c2) = Shown(p, c)
    <3>1. Shown(q, c2) = {xs[m].item : m \in 1 .. h + i} \union Elems(q.delta.content) \union Elems(q.rejects)
      BY <1>3, <1>6 DEF Shown
    <3>2. Elems(q.delta.content) = {} /\ Elems(q.rejects) = Elems(p.rejects)
      BY <1>5, <1>7
    <3>3. Shown(p, c) = {c.content[m].item : m \in 1 .. h} \union Elems(p.delta.content) \union Elems(p.rejects)
      BY <1>2 DEF Shown
    <3> QED BY <2>1, <3>1, <3>2, <3>3
  <2>3. Len(w) = h + i + j + (a + b)
    BY <1>2, <1>8 DEF Core, ContentInv
  <2>4. Len(w) = (h + i) + 0 + j + (a + b)
    BY <2>3
  <2>5. Len(w) = Len(c2.content) + Len(q.delta.content) + Len(q.rejects) + NGiven(q, c2)
    BY <2>4, <1>2, <1>3, <1>5, <1>6, <1>7, <1>8
  <2> QED BY <2>2, <2>5, <1>5, <1>10 DEF Core, ContentInv
<1> QED BY <1>11, <1>12, <1>13 DEF Core, q, c2, xs, ys

-----------------------------------------------------------------------------
(* The steps. *)

LEMMA CoreNext ==
  ASSUME UNCHANGED hasTools, NEW p, NEW o, NEW w, NEW c, Core(p, o, w, c),
         parser' = p, callOpen' = o, written' = w, client' = c, nDeltas' \in Nat, Emptied'
  PROVE  PInv'
<1>1. \A s : Validates(s)' <=> Validates(s)
  BY DEF Validates, PropertiesOf, RequiredOf
<1>2. GivenInv(p, c)'
  BY <1>1 DEF Core, GivenInv
<1>3. Core(p, o, w, c)'
  BY <1>2 DEF Core
<1>4. Core(parser, callOpen, written, client)'
  BY <1>3 DEF Core, Typed, SlotsInv, GivenInv, OnceInv, ContentInv
<1> QED BY <1>4 DEF PInv

LEMMA OpenSlot ==
  ASSUME NEW p, NEW w, NEW c, Core(p, TRUE, w, c)
  PROVE  /\ p.slots \in Seq(Slot) /\ Len(p.slots) \in 1 .. Len(p.slots)
         /\ p.slots[Len(p.slots)] \in Slot /\ p \in ParserType
<1>1. p \in ParserType /\ p.slots \in Seq(Slot) /\ Len(p.slots) > 0
  BY DEF Core, Typed, SlotsInv, ParserType
<1>2. Len(p.slots) \in 1 .. Len(p.slots)
  BY <1>1
<1> QED BY <1>1, <1>2, ElementOfSeq

LEMMA SlotStep ==
  ASSUME PInv, (\E n \in Tools \union {Invented, Garbage} : NameEvent(n))
               \/ ArgChunk \/ (\E k \in Keys : PairCompletes(k))
  PROVE  PInv'
<1>0. PICK p, w, c : p = parser /\ w = written /\ c = client
  OBVIOUS
<1> DEFINE n == Len(p.slots)
           s == p.slots[n]
           q(t) == [p EXCEPT !.slots = [p.slots EXCEPT ![n] = t]]
<1>1. callOpen = TRUE /\ UNCHANGED <<hasTools, callOpen, written, client, nDeltas, finished>>
  <2>1. callOpen \in BOOLEAN
    BY DEF PInv, Core, Typed
  <2> QED BY <2>1 DEF NameEvent, ArgChunk, PairCompletes
<1>2. Core(p, TRUE, w, c) /\ nDeltas \in Nat /\ ~finished
  BY <1>0, <1>1 DEF PInv, Emptied
<1>3. p.slots \in Seq(Slot) /\ n \in 1 .. n /\ s \in Slot /\ p \in ParserType
  BY <1>2, OpenSlot
<1>4. \E t \in Slot : parser' = q(t)
  <2>1. CASE \E m \in Tools \union {Invented, Garbage} : NameEvent(m)
    <3>1. PICK m \in Tools \union {Invented, Garbage} : NameEvent(m)
      BY <2>1
    <3>2. parser' = q([s EXCEPT !.name = m])
      BY <3>1, <1>0, <1>3 DEF NameEvent, ParserType
    <3>3. [s EXCEPT !.name = m] \in Slot
      <4> HIDE DEF s
      <4> QED BY <1>3 DEF Slot
    <3> QED BY <3>2, <3>3
  <2>2. CASE ArgChunk
    <3>1. parser' = q([s EXCEPT !.ragged = TRUE])
      BY <2>2, <1>0, <1>3 DEF ArgChunk, ParserType
    <3>2. [s EXCEPT !.ragged = TRUE] \in Slot
      <4> HIDE DEF s
      <4> QED BY <1>3 DEF Slot
    <3> QED BY <3>1, <3>2
  <2>3. CASE \E k \in Keys : PairCompletes(k)
    <3>1. PICK k \in Keys : PairCompletes(k)
      BY <2>3
    <3>2. s.keys \union {k} \in SUBSET Keys
      <4> HIDE DEF s
      <4> QED BY <1>3 DEF Slot
    <3>3. parser' = q([s EXCEPT !.ragged = FALSE, !.keys = s.keys \union {k}])
      BY <3>1, <1>0, <1>3 DEF PairCompletes, LastOf, ParserType
    <3>4. [s EXCEPT !.ragged = FALSE, !.keys = s.keys \union {k}] \in Slot
      <4> HIDE DEF s
      <4> QED BY <1>3, <3>2 DEF Slot
    <3> QED BY <3>3, <3>4
  <2> QED BY <2>1, <2>2, <2>3
<1>5. PICK t \in Slot : parser' = q(t)
  BY <1>4
<1>6. Core(q(t), TRUE, w, c)
  BY <1>2, Touched
<1>7. Emptied'
  BY <1>1, <1>2 DEF Emptied
<1> HIDE DEF q
<1> QED BY <1>0, <1>1, <1>2, <1>5, <1>6, <1>7, CoreNext

LEMMA TextStep ==
  ASSUME PInv, TextEvent
  PROVE  PInv'
<1>0. PICK p, w, c, e : p = parser /\ w = written /\ c = client /\ e = <<"text", Len(written)>>
  OBVIOUS
<1> DEFINE q == [p EXCEPT !.delta = [content |-> Append(p.delta.content, e), calls |-> p.delta.calls]]
<1>1. callOpen = FALSE /\ UNCHANGED <<hasTools, callOpen, client, nDeltas, finished>> /\ ~finished
      /\ written' = Append(w, e) /\ parser' = [parser EXCEPT !.delta.content = Append(@, e)]
  <2>1. callOpen \in BOOLEAN
    BY DEF PInv, Core, Typed
  <2> QED BY <2>1, <1>0 DEF TextEvent
<1>2. Core(p, FALSE, w, c) /\ nDeltas \in Nat
  BY <1>0, <1>1 DEF PInv
<1>3. e \in Item /\ e \in {"text", "call", "cut"} \X Nat /\ e[1] = "text"
  <2>1. Len(w) \in Nat
    BY <1>2, LenProperties DEF Core, Typed
  <2> QED BY <2>1, <1>0 DEF Item
<1>4. parser' = q
  <2>1. p \in ParserType
    BY <1>2 DEF Core, Typed
  <2>2. p.delta \in [content : Seq(Item), calls : Seq(Call)]
    BY <2>1 DEF ParserType
  <2>3. PICK y, d : y = Append(p.delta.content, e) /\ d = p.delta
    OBVIOUS
  <2>4. [d EXCEPT !.content = y] = [content |-> y, calls |-> d.calls]
    <3>1. d \in [content : Seq(Item), calls : Seq(Call)]
      BY <2>2, <2>3
    <3> HIDE DEF q
    <3> QED BY ONLY <3>1
  <2>5. parser' = [p EXCEPT !.delta.content = y]
    BY <2>3, <1>0, <1>1
  <2>6. parser' = [p EXCEPT !.delta = [d EXCEPT !.content = y]]
    BY <2>3, <2>5
  <2> QED BY <2>3, <2>4, <2>6
<1>5. Core(q, FALSE, Append(w, e), c)
  BY <1>2, <1>3, Said
<1>6. Emptied'
  BY <1>1 DEF Emptied
<1> HIDE DEF q
<1> QED BY <1>0, <1>1, <1>2, <1>4, <1>5, <1>6, CoreNext

LEMMA StartStep ==
  ASSUME PInv, CallStarts
  PROVE  PInv'
<1>0. PICK p, w, c : p = parser /\ w = written /\ c = client
  OBVIOUS
<1> DEFINE q == [p EXCEPT !.slots = Append(p.slots, FreshSlot)]
<1>1. callOpen = FALSE /\ callOpen' = TRUE /\ UNCHANGED <<hasTools, written, client, nDeltas, finished>>
      /\ ~finished /\ parser' = q
  <2>1. callOpen \in BOOLEAN
    BY DEF PInv, Core, Typed
  <2> QED BY <2>1, <1>0 DEF CallStarts
<1>2. Core(p, FALSE, w, c) /\ nDeltas \in Nat
  BY <1>0, <1>1 DEF PInv
<1>3. Core(q, TRUE, w, c)
  BY <1>2, Started
<1>4. Emptied'
  BY <1>1 DEF Emptied
<1> HIDE DEF q
<1> QED BY <1>0, <1>1, <1>2, <1>3, <1>4, CoreNext

LEMMA EndStep ==
  ASSUME PInv, CallEnds
  PROVE  PInv'
<1>0. PICK p, w, c : p = parser /\ w = written /\ c = client
  OBVIOUS
<1> DEFINE q == HandleToolEnd(p)
           x == Append(w, <<"call", Len(p.slots)>>)
<1>1. callOpen = TRUE /\ callOpen' = FALSE /\ UNCHANGED <<hasTools, client, nDeltas, finished>>
      /\ parser' = q /\ written' = x
  <2>1. callOpen \in BOOLEAN
    BY DEF PInv, Core, Typed
  <2> QED BY <2>1, <1>0 DEF CallEnds
<1>2. Core(p, TRUE, w, c) /\ nDeltas \in Nat /\ ~finished
  BY <1>0, <1>1 DEF PInv, Emptied
<1>3. Core(q, FALSE, x, c)
  BY <1>2, Ends
<1>4. Emptied'
  BY <1>1, <1>2 DEF Emptied
<1> HIDE DEF q, x
<1> QED BY <1>0, <1>1, <1>2, <1>3, <1>4, CoreNext

LEMMA DeliverStep ==
  ASSUME UNCHANGED hasTools, NEW p, NEW o, NEW w, NEW c, c = client, Core(p, o, w, c), Deliver(p), nDeltas \in Nat,
         callOpen' = o, written' = w, finished' => ~o /\ p.rejects = <<>>
  PROVE  PInv'
<1>1. PICK d \in Nat : d = nDeltas + 1
  OBVIOUS
<1> DEFINE q == [p EXCEPT !.delta = NoDelta]
           c2 == [content |-> c.content \o Stamp(p.delta.content, d),
                  calls |-> c.calls \o Stamp(p.delta.calls, d)]
<1>2. client' = c2 /\ parser' = q /\ nDeltas' \in Nat
  BY <1>1 DEF Deliver, Stamp
<1>3. Core(q, o, w, c2)
  BY Delivered
<1>4. q.delta = NoDelta /\ q.rejects = p.rejects
  <2>1. p \in ParserType
    BY DEF Core, Typed
  <2> QED BY <2>1 DEF ParserType
<1> HIDE DEF q, c2
<1>5. Emptied'
  BY <1>2, <1>4 DEF Emptied
<1> QED BY <1>2, <1>3, <1>5, CoreNext

LEMMA DeltaStep ==
  ASSUME PInv, DeltaEnds
  PROVE  PInv'
<1>0. PICK p, o, w, c : p = parser /\ o = callOpen /\ w = written /\ c = client
  OBVIOUS
<1>1. Core(p, o, w, c) /\ nDeltas \in Nat
  BY <1>0 DEF PInv
<1>2. PICK q : q = Finalize(p, FALSE)
  OBVIOUS
<1>3. Core(q, o, w, c)
  BY <1>1, <1>2, Flushed
<1>4. Deliver(q) /\ UNCHANGED <<hasTools, callOpen, written, finished>> /\ ~finished
  BY <1>0, <1>2 DEF DeltaEnds
<1> QED BY <1>0, <1>1, <1>3, <1>4, DeliverStep

LEMMA FinishStep ==
  ASSUME PInv, FinishStreaming
  PROVE  PInv'
<1>0. PICK p, o, w, c : p = parser /\ o = callOpen /\ w = written /\ c = client
  OBVIOUS
<1>1. Core(p, o, w, c) /\ nDeltas \in Nat /\ o \in BOOLEAN
  BY <1>0 DEF PInv, Core, Typed
<1>2. PICK q, x : /\ q = (IF o THEN HandleToolEnd(p) ELSE p)
                  /\ x = (IF o THEN Append(w, <<"cut", Len(p.slots)>>) ELSE w)
  OBVIOUS
<1>3. Core(q, FALSE, x, c)
  <2>1. CASE o
    <3>1. Core(HandleToolEnd(p), FALSE, Append(w, <<"cut", Len(p.slots)>>), c)
      BY <1>1, <2>1, Ends
    <3> QED BY <2>1, <3>1, <1>2
  <2>2. CASE ~o
    <3>1. o = FALSE /\ q = p /\ x = w
      BY <1>1, <1>2, <2>2
    <3> QED BY <3>1, <1>1
  <2> QED BY <2>1, <2>2
<1>4. PICK f : f = Finalize(q, TRUE)
  OBVIOUS
<1>5. Core(f, FALSE, x, c) /\ f.rejects = <<>>
  BY <1>3, <1>4, Flushed
<1>6. Deliver(f) /\ UNCHANGED hasTools /\ callOpen' = FALSE /\ written' = x /\ finished'
  BY <1>0, <1>2, <1>4 DEF FinishStreaming
<1> QED BY <1>0, <1>1, <1>5, <1>6, DeliverStep

LEMMA ParserStarts ==
  ASSUME ParserInit
  PROVE  PInv
<1>1. /\ parser.slots = <<>> /\ parser.closed = {} /\ parser.rejects = <<>>
      /\ parser.delta.content = <<>> /\ parser.delta.calls = <<>>
      /\ client.content = <<>> /\ client.calls = <<>> /\ written = <<>> /\ callOpen = FALSE
  BY DEF ParserInit, NoDelta
<1>2. Len(<<>>) = 0 /\ 1 .. 0 = {}
  OBVIOUS
<1>3. Typed(parser, callOpen, written, client)
  <2>1. {} \in SUBSET Nat /\ \A S : <<>> \in Seq(S)
    OBVIOUS
  <2>2. [content |-> <<>>, calls |-> <<>>] \in [content : Seq(Item), calls : Seq(Call)]
    BY <2>1
  <2>3. parser \in ParserType
    BY <2>1, <2>2 DEF ParserInit, NoDelta, ParserType
  <2>4. client \in ClientType
    BY <2>1 DEF ParserInit, NoDelta, ClientType
  <2>5. written = <<>> /\ callOpen = FALSE
    BY DEF ParserInit
  <2> QED BY <2>1, <2>3, <2>4, <2>5 DEF Typed
<1>4. NGiven(parser, client) = 0
  BY <1>1, <1>2 DEF NGiven
<1>5. GivenIdx(parser, client) = {} /\ Shown(parser, client) = {} /\ Texts(written) = {}
  BY <1>1, <1>2, <1>4 DEF GivenIdx, Shown, Texts, Elems
<1>6. SlotsInv(parser, callOpen)
  BY <1>1, <1>2 DEF SlotsInv
<1>7. GivenInv(parser, client) /\ OnceInv(parser, client)
  BY <1>1, <1>2, <1>4 DEF GivenInv, OnceInv
<1>8. ContentInv(parser, written, client)
  BY <1>1, <1>2, <1>4, <1>5 DEF ContentInv
<1>9. nDeltas \in Nat /\ Emptied
  BY DEF ParserInit, Emptied
<1> QED BY <1>3, <1>6, <1>7, <1>8, <1>9 DEF Core, PInv

LEMMA ParserKeeps == PInv /\ [ParserNext]_parserVars => PInv'
<1> SUFFICES ASSUME PInv, [ParserNext]_parserVars PROVE PInv'
  OBVIOUS
<1>1. CASE ParserNext
  BY <1>1, TextStep, StartStep, SlotStep, EndStep, DeltaStep, FinishStep DEF ParserNext
<1>2. CASE UNCHANGED parserVars
  <2>1. PICK p, o, w, c : p = parser /\ o = callOpen /\ w = written /\ c = client
    OBVIOUS
  <2>2. Core(p, o, w, c) /\ nDeltas \in Nat /\ Emptied
    BY <2>1 DEF PInv
  <2>3. /\ UNCHANGED hasTools /\ parser' = p /\ callOpen' = o /\ written' = w /\ client' = c
        /\ nDeltas' \in Nat /\ Emptied'
    BY <2>1, <2>2, <1>2 DEF parserVars, Emptied
  <2> QED BY <2>2, <2>3, CoreNext
<1> QED BY <1>1, <1>2

-----------------------------------------------------------------------------
(* The theorems. *)

LEMMA ValidIsSound ==
  ASSUME NEW s \in Slot, Validates(s)
  PROVE  SoundCall(s)
BY DEF Validates, SoundCall, PropertiesOf, RequiredOf

(* What the client has is the beginning of what was given.                 *)
LEMMA ClientHas ==
  ASSUME PInv
  PROVE  /\ Len(client.calls) \in Nat /\ Len(client.calls) <= NGiven(parser, client)
         /\ \A i \in 1 .. Len(client.calls) :
              client.calls[i].item = Given(parser, client)[i] /\ Given(parser, client)[i] \in Call
<1>1. parser \in ParserType /\ client \in ClientType
  BY DEF PInv, Core, Typed
<1>2. PICK a \in Nat, b \in Nat : a = Len(client.calls) /\ b = Len(parser.delta.calls)
  BY <1>1, GivenTypes
<1>3. NGiven(parser, client) = a + b
  BY <1>2 DEF NGiven
<1>4. \A i \in 1 .. a : i \in 1 .. a + b /\ i <= a
  OBVIOUS
<1>5. \A i \in 1 .. a + b :
        Given(parser, client)[i] = IF i <= a THEN client.calls[i].item ELSE parser.delta.calls[i - a]
  BY <1>2, <1>3 DEF Given
<1>6. \A i \in 1 .. a : client.calls[i].item = Given(parser, client)[i]
  BY <1>4, <1>5
<1>7. \A i \in 1 .. a + b : Given(parser, client)[i] \in Call
  BY <1>1, <1>3, GivenTypes
<1>8. a <= a + b
  OBVIOUS
<1> QED BY <1>2, <1>3, <1>4, <1>6, <1>7, <1>8

(* At the end nothing waits: the calls given are those streamed.           *)
LEMMA AtTheEnd ==
  ASSUME PInv, finished
  PROVE  /\ Streamed = GivenIdx(parser, client) /\ NGiven(parser, client) = Len(client.calls)
         /\ parser.closed = 1 .. Len(parser.slots)
         /\ Surfaced = Shown(parser, client)
         /\ Len(parser.delta.content) = 0 /\ Len(parser.rejects) = 0
<1>1. parser.delta.content = <<>> /\ parser.delta.calls = <<>> /\ parser.rejects = <<>> /\ ~callOpen
  BY DEF PInv, Emptied, NoDelta
<1>2. Len(<<>>) = 0 /\ Elems(<<>>) = {}
  BY DEF Elems
<1>3. NGiven(parser, client) = Len(client.calls)
  BY <1>1, <1>2, ClientHas DEF NGiven
<1>4. Streamed = GivenIdx(parser, client)
  <2>1. \A i \in 1 .. Len(client.calls) : client.calls[i].item = Given(parser, client)[i]
    BY ClientHas
  <2> QED BY <2>1, <1>3 DEF Streamed, GivenIdx
<1>5. parser.closed = 1 .. Len(parser.slots)
  BY <1>1 DEF PInv, Core, SlotsInv
<1> QED BY <1>1, <1>2, <1>3, <1>4, <1>5 DEF Surfaced, Shown

(* Whatever the model writes and however its events are cut into deltas,   *)
(* the client gets each call once and whole, only if it names a tool of    *)
(* the request with keys of its schema and none required missing, and the  *)
(* result built from the slots at the end agrees.                          *)
THEOREM SoundCallsTheorem == ParserSpec => []SoundCallsOnly
<1>1. PInv => SoundCallsOnly
  <2> SUFFICES ASSUME PInv PROVE SoundCallsOnly
    OBVIOUS
  <2>1. ASSUME NEW i \in 1 .. Len(client.calls) PROVE SoundCall(client.calls[i].item.call)
    <3>1. i \in 1 .. NGiven(parser, client)
      <4>1. Len(client.calls) \in Nat /\ Len(client.calls) <= NGiven(parser, client)
            /\ NGiven(parser, client) \in Nat
        BY ClientHas, GivenTypes DEF PInv, Core, Typed
      <4> QED BY <4>1
    <3>2. client.calls[i].item = Given(parser, client)[i] /\ Given(parser, client)[i].call \in Slot
      BY ClientHas DEF Call
    <3>3. Validates(Given(parser, client)[i].call)
      BY <3>1 DEF PInv, Core, GivenInv
    <3> QED BY <3>2, <3>3, ValidIsSound
  <2>2. ASSUME NEW i \in 1 .. Len(client.calls), NEW j \in 1 .. Len(client.calls),
               client.calls[i].item.idx = client.calls[j].item.idx
        PROVE  i = j
    <3>1. i \in 1 .. NGiven(parser, client) /\ j \in 1 .. NGiven(parser, client)
      <4>1. Len(client.calls) \in Nat /\ Len(client.calls) <= NGiven(parser, client)
            /\ NGiven(parser, client) \in Nat
        BY ClientHas, GivenTypes DEF PInv, Core, Typed
      <4> QED BY <4>1
    <3>2. Given(parser, client)[i].idx = Given(parser, client)[j].idx
      BY <2>2, ClientHas
    <3> QED BY <3>1, <3>2 DEF PInv, Core, OnceInv
  <2>3. ASSUME finished PROVE Streamed = Extracted
    <3>1. /\ Streamed = GivenIdx(parser, client) /\ parser.closed = 1 .. Len(parser.slots)
      BY <2>3, AtTheEnd
    <3>2. Extracted \subseteq GivenIdx(parser, client)
      BY <3>1 DEF PInv, Core, OnceInv, Extracted
    <3>3. ASSUME NEW i \in 1 .. NGiven(parser, client)
          PROVE  Given(parser, client)[i].idx \in Extracted
      <4>1. LET g == Given(parser, client)[i] IN
              g.idx \in parser.closed /\ parser.slots[g.idx] = g.call /\ Validates(g.call)
        BY DEF PInv, Core, GivenInv
      <4> QED BY <3>1, <4>1, SlotFacts DEF Extracted
    <3>4. GivenIdx(parser, client) \subseteq Extracted
      BY <3>3 DEF GivenIdx
    <3> QED BY <3>1, <3>2, <3>4
  <2> QED BY <2>1, <2>2, <2>3 DEF SoundCallsOnly
<1> QED BY <1>1, ParserStarts, ParserKeeps, PTL DEF ParserSpec

(* At the end every text and every call that the client did not get as a   *)
(* tool call is in its content, nothing else is, and nothing is there or   *)
(* in the calls twice: as many items were given as were written.           *)
THEOREM NothingLostTheorem == ParserSpec => []NothingLost
<1>1. PInv => NothingLost
  <2> SUFFICES ASSUME PInv, finished
               PROVE  /\ Surfaced = Texts(written)
                                      \union {<<"call", i>> : i \in (1 .. Len(parser.slots)) \ Streamed}
                      /\ Len(client.content) + Len(client.calls) = Len(written)
    BY DEF NothingLost, Texts
  <2>1. /\ Streamed = GivenIdx(parser, client) /\ NGiven(parser, client) = Len(client.calls)
        /\ parser.closed = 1 .. Len(parser.slots)
        /\ Surfaced = Shown(parser, client)
        /\ Len(parser.delta.content) = 0 /\ Len(parser.rejects) = 0
    BY AtTheEnd
  <2>2. /\ Shown(parser, client) = Texts(written)
             \union {<<"call", k>> : k \in parser.closed \ GivenIdx(parser, client)}
        /\ Len(written) = Len(client.content) + Len(parser.delta.content) + Len(parser.rejects)
                            + NGiven(parser, client)
    BY DEF PInv, Core, ContentInv
  <2>3. PICK h \in Nat, a \in Nat : h = Len(client.content) /\ a = Len(client.calls)
    <3>1. client.content \in Seq([item : Item, delta : Nat])
      BY DEF PInv, Core, Typed, ClientType
    <3> QED BY <3>1, ClientHas, LenProperties
  <2>4. Len(written) = h + 0 + 0 + a
    BY <2>1, <2>2, <2>3
  <2>5. h + 0 + 0 + a = h + a
    OBVIOUS
  <2> QED BY <2>1, <2>2, <2>3, <2>4, <2>5
<1> QED BY <1>1, ParserStarts, ParserKeeps, PTL DEF ParserSpec

-----------------------------------------------------------------------------
(* The order of the content.  Of two items of which the response has both, *)
(* Before says which came first; the texts of a delta wait in one          *)
(* sequence, its rejected calls in another, and each is sorted.            *)

Before(w, x, y) == \A m, n \in 1 .. Len(w) : w[m] = x /\ w[n] = y => m < n
Sorted(w, s) == \A i, j \in 1 .. Len(s) : i < j => Before(w, s[i], s[j])

(* A text's number is its place; a call in the response is closed.         *)
Numbered(w, closed) ==
  \A m \in 1 .. Len(w) : IF w[m][1] = "text" THEN w[m][2] = m - 1 ELSE w[m][2] \in closed

(* What the client has is sorted but for the calls behind the texts of     *)
(* their delta, and it came before what waits.                             *)
InOrder(w, got, texts, rejects, closed) ==
  /\ Numbered(w, closed) /\ Sorted(w, texts) /\ Sorted(w, rejects)
  /\ \A i \in 1 .. Len(got), y \in Elems(texts) \union Elems(rejects) : Before(w, got[i].item, y)
  /\ \A i, j \in 1 .. Len(got) : i < j =>
       \/ Before(w, got[i].item, got[j].item)
       \/ got[i].delta = got[j].delta /\ got[i].item[1] = "text" /\ got[j].item[1] = "call"
  /\ \A x \in Elems(texts) : x[1] = "text"
  /\ \A x \in Elems(rejects) : x[1] = "call"

POrder == InOrder(written, client.content, parser.delta.content, parser.rejects, parser.closed)

Written == {"text", "call", "cut"} \X Nat
Got == [item : Item, delta : Nat]

LEMMA BeforeMore ==
  ASSUME NEW w \in Seq(Written), NEW e \in Written, NEW x, x # e, NEW y,
         Before(w, x, y) \/ y \notin Elems(w)
  PROVE  Before(Append(w, e), x, y)
<1> DEFINE a == Append(w, e)
<1>1. Len(w) \in Nat /\ Len(a) = Len(w) + 1 /\ a[Len(w) + 1] = e /\ \A i \in 1 .. Len(w) : a[i] = w[i]
  BY AppendIs
<1> HIDE DEF a
<1>2. ASSUME NEW m \in 1 .. Len(a), NEW n \in 1 .. Len(a), a[m] = x, a[n] = y
      PROVE  m < n
  <2>1. m \in 1 .. Len(w)
    BY <1>1, <1>2
  <2>2. CASE n = Len(w) + 1
    BY <1>1, <2>1, <2>2
  <2>3. CASE n \in 1 .. Len(w)
    <3>1. w[m] = x /\ w[n] = y
      BY <1>1, <1>2, <2>1, <2>3
    <3> QED BY <3>1, <2>1, <2>3 DEF Before, Elems
  <2> QED BY <2>2, <2>3, <1>1
<1> QED BY <1>2 DEF Before, a

LEMMA SortedMore ==
  ASSUME NEW w \in Seq(Written), NEW e \in Written, NEW s \in Seq(Item), Sorted(w, s), e \notin Elems(s)
  PROVE  /\ Sorted(Append(w, e), s)
         /\ \A y \in Item : y \notin Elems(w) => Sorted(Append(w, e), Append(s, y))
<1>1. Len(s) \in Nat /\ \A i \in 1 .. Len(s) : s[i] # e
  BY DEF Elems
<1>2. ASSUME NEW i \in 1 .. Len(s), NEW j \in 1 .. Len(s), i < j
      PROVE  Before(Append(w, e), s[i], s[j])
  BY <1>1, <1>2, BeforeMore DEF Sorted
<1>3. ASSUME NEW y \in Item, y \notin Elems(w)
      PROVE  Sorted(Append(w, e), Append(s, y))
  <2>1. PICK t, v : t = Append(s, y) /\ v = Append(w, e)
    OBVIOUS
  <2>2. Len(t) = Len(s) + 1 /\ t[Len(s) + 1] = y /\ \A i \in 1 .. Len(s) : t[i] = s[i]
    BY <2>1, AppendIs
  <2>3. ASSUME NEW i \in 1 .. Len(t), NEW j \in 1 .. Len(t), i < j
        PROVE  Before(v, t[i], t[j])
    <3>1. i \in 1 .. Len(s) /\ (j \in 1 .. Len(s) \/ j = Len(s) + 1)
      BY <2>2, <2>3, <1>1
    <3>2. CASE j \in 1 .. Len(s)
      BY <3>1, <3>2, <2>1, <2>2, <2>3, <1>2
    <3>3. CASE j = Len(s) + 1
      <4>1. t[i] # e /\ t[j] \notin Elems(w)
        BY <3>1, <3>3, <2>2, <1>1, <1>3
      <4> QED BY <4>1, <2>1, BeforeMore
    <3> QED BY <3>1, <3>2, <3>3
  <2> QED BY <2>1, <2>3 DEF Sorted
<1> QED BY <1>2, <1>3 DEF Sorted

(* An item e is written, and y, which was not there, may begin to wait.    *)
LEMMA OrderMore ==
  ASSUME NEW w \in Seq(Written), NEW e \in Written, NEW got \in Seq(Got),
         NEW texts \in Seq(Item), NEW rejects \in Seq(Item), NEW closed, NEW closed2,
         InOrder(w, got, texts, rejects, closed), closed \subseteq closed2,
         IF e[1] = "text" THEN e[2] = Len(w) ELSE e[2] \in closed2,
         \A i \in 1 .. Len(got) : got[i].item # e, e \notin Elems(texts), e \notin Elems(rejects),
         NEW y \in Item, y \notin Elems(w), NEW texts2, NEW rejects2,
         \/ texts2 = texts /\ rejects2 = rejects
         \/ texts2 = Append(texts, y) /\ rejects2 = rejects /\ y[1] = "text"
         \/ texts2 = texts /\ rejects2 = Append(rejects, y) /\ y[1] = "call"
  PROVE  InOrder(Append(w, e), got, texts2, rejects2, closed2)
<1> DEFINE v == Append(w, e)
<1>1. Len(w) \in Nat /\ Len(v) = Len(w) + 1 /\ v[Len(w) + 1] = e /\ \A i \in 1 .. Len(w) : v[i] = w[i]
  BY AppendIs
<1>2. /\ Sorted(v, texts) /\ Sorted(v, Append(texts, y)) /\ Sorted(v, rejects) /\ Sorted(v, Append(rejects, y))
      /\ Elems(Append(texts, y)) = Elems(texts) \union {y}
      /\ Elems(Append(rejects, y)) = Elems(rejects) \union {y}
  BY SortedMore, AppendIs DEF InOrder
<1>3. ASSUME NEW x, x # e, NEW z, Before(w, x, z) \/ z \notin Elems(w)
      PROVE  Before(v, x, z)
  BY <1>3, BeforeMore
<1> HIDE DEF v
<1>4. Numbered(v, closed2)
  <2>1. ASSUME NEW m \in 1 .. Len(v)
        PROVE  IF v[m][1] = "text" THEN v[m][2] = m - 1 ELSE v[m][2] \in closed2
    <3>1. CASE m = Len(w) + 1
      BY <3>1, <1>1
    <3>2. CASE m \in 1 .. Len(w)
      BY <3>2, <1>1 DEF InOrder, Numbered
    <3> QED BY <3>1, <3>2, <1>1
  <2> QED BY <2>1 DEF Numbered
<1>5. Sorted(v, texts2) /\ Sorted(v, rejects2)
  BY <1>2
<1>6. Elems(texts2) \union Elems(rejects2) \subseteq Elems(texts) \union Elems(rejects) \union {y}
  BY <1>2
<1>7. ASSUME NEW i \in 1 .. Len(got), NEW z \in Elems(texts2) \union Elems(rejects2)
      PROVE  Before(v, got[i].item, z)
  <2>1. Before(w, got[i].item, z) \/ z \notin Elems(w)
    BY <1>6 DEF InOrder
  <2> QED BY <2>1, <1>3
<1>8. ASSUME NEW i \in 1 .. Len(got), NEW j \in 1 .. Len(got), i < j
      PROVE  \/ Before(v, got[i].item, got[j].item)
             \/ got[i].delta = got[j].delta /\ got[i].item[1] = "text" /\ got[j].item[1] = "call"
  <2>1. \/ Before(w, got[i].item, got[j].item)
        \/ got[i].delta = got[j].delta /\ got[i].item[1] = "text" /\ got[j].item[1] = "call"
    BY <1>8 DEF InOrder
  <2> QED BY <2>1, <1>3
<1>9. (\A x \in Elems(texts2) : x[1] = "text") /\ (\A x \in Elems(rejects2) : x[1] = "call")
  BY <1>2 DEF InOrder
<1> QED BY <1>4, <1>5, <1>7, <1>8, <1>9 DEF InOrder, v

(* A delta goes to the client: its texts, and behind them what it rejected.*)
LEMMA OrderFlushed ==
  ASSUME NEW w \in Seq(Written), NEW got \in Seq(Got), NEW texts \in Seq(Item), NEW rejects \in Seq(Item),
         NEW closed, InOrder(w, got, texts, rejects, closed), NEW d \in Nat
  PROVE  InOrder(w, got \o Stamp(texts \o rejects, d), <<>>, <<>>, closed)
<1>1. PICK all : all = texts \o rejects
  OBVIOUS
<1>2. PICK s : s = Stamp(all, d)
  OBVIOUS
<1>3. PICK t : t = got \o s
  OBVIOUS
<1>4. PICK g \in Nat, a \in Nat, b \in Nat : g = Len(got) /\ a = Len(texts) /\ b = Len(rejects)
  BY LenProperties
<1>5. /\ all \in Seq(Item) /\ Len(all) = a + b
      /\ \A i \in 1 .. a + b : all[i] = IF i <= a THEN texts[i] ELSE rejects[i - a]
  BY <1>1, <1>4, ConcatProperties
<1>6. /\ s \in Seq(Got) /\ Len(s) = a + b
      /\ \A i \in 1 .. a + b : s[i].item = all[i] /\ s[i].delta = d
  <2>1. s \in Seq(Got) /\ Len(s) = a + b /\ \A i \in 1 .. a + b : s[i].item = all[i]
    BY <1>2, <1>5, StampIs DEF Got
  <2>2. \A i \in 1 .. a + b : s[i].delta = d
    BY <1>2, <1>5 DEF Stamp
  <2> QED BY <2>1, <2>2
<1>7. /\ Len(t) = g + (a + b)
      /\ \A i \in 1 .. g + (a + b) : t[i] = IF i <= g THEN got[i] ELSE s[i - g]
  <2>1. /\ Len(got \o s) = Len(got) + Len(s)
        /\ \A i \in 1 .. Len(got) + Len(s) : (got \o s)[i] = IF i <= Len(got) THEN got[i] ELSE s[i - Len(got)]
    BY <1>6, ConcatProperties
  <2> QED BY <2>1, <1>3, <1>4, <1>6
<1>8. ASSUME NEW i \in 1 .. a PROVE texts[i] \in Elems(texts) /\ texts[i][1] = "text"
  BY <1>4 DEF Elems, InOrder
<1>9. ASSUME NEW i \in 1 .. b PROVE rejects[i] \in Elems(rejects) /\ rejects[i][1] = "call"
  BY <1>4 DEF Elems, InOrder
<1>10. ASSUME NEW i \in 1 .. a + b
       PROVE  all[i] \in Elems(texts) \union Elems(rejects)
  <2>1. CASE i <= a
    <3>1. i \in 1 .. a
      BY <2>1
    <3> QED BY <2>1, <3>1, <1>5, <1>8
  <2>2. CASE ~(i <= a)
    <3>1. i - a \in 1 .. b
      BY <2>2
    <3> QED BY <2>2, <3>1, <1>5, <1>9
  <2> QED BY <2>1, <2>2
<1>11. ASSUME NEW i \in 1 .. a + b, NEW j \in 1 .. a + b, i < j
       PROVE  Before(w, all[i], all[j]) \/ (all[i][1] = "text" /\ all[j][1] = "call")
  <2>1. CASE j <= a
    <3>1. i \in 1 .. a /\ j \in 1 .. a /\ i <= a
      BY <2>1, <1>11
    <3>2. Before(w, texts[i], texts[j])
      BY <3>1, <1>4, <1>11 DEF InOrder, Sorted
    <3> QED BY <2>1, <3>1, <3>2, <1>5
  <2>2. CASE i <= a /\ ~(j <= a)
    <3>1. i \in 1 .. a /\ j - a \in 1 .. b
      BY <2>2
    <3> QED BY <2>2, <3>1, <1>5, <1>8, <1>9
  <2>3. CASE ~(i <= a)
    <3>1. i - a \in 1 .. b /\ j - a \in 1 .. b /\ i - a < j - a /\ ~(j <= a)
      BY <2>3, <1>11
    <3>2. Before(w, rejects[i - a], rejects[j - a])
      BY <3>1, <1>4 DEF InOrder, Sorted
    <3> QED BY <2>3, <3>1, <3>2, <1>5
  <2> QED BY <2>1, <2>2, <2>3
<1>12. ASSUME NEW i \in 1 .. Len(t), NEW j \in 1 .. Len(t), i < j
       PROVE  \/ Before(w, t[i].item, t[j].item)
              \/ t[i].delta = t[j].delta /\ t[i].item[1] = "text" /\ t[j].item[1] = "call"
  <2>1. CASE j <= g
    <3>1. i \in 1 .. g /\ j \in 1 .. g /\ i <= g
      BY <2>1, <1>7, <1>12
    <3>2. t[i] = got[i] /\ t[j] = got[j]
      BY <2>1, <3>1, <1>7
    <3> QED BY <3>1, <3>2, <1>4, <1>12 DEF InOrder
  <2>2. CASE i <= g /\ ~(j <= g)
    <3>1. i \in 1 .. g /\ j - g \in 1 .. a + b
      BY <2>2, <1>7
    <3>2. t[i] = got[i] /\ t[j].item = all[j - g]
      BY <2>2, <3>1, <1>6, <1>7
    <3> QED BY <3>1, <3>2, <1>4, <1>10 DEF InOrder
  <2>3. CASE ~(i <= g)
    <3>1. i - g \in 1 .. a + b /\ j - g \in 1 .. a + b /\ i - g < j - g /\ ~(j <= g)
      BY <2>3, <1>7, <1>12
    <3>2. t[i].item = all[i - g] /\ t[j].item = all[j - g] /\ t[i].delta = d /\ t[j].delta = d
      BY <2>3, <3>1, <1>6, <1>7
    <3> QED BY <3>1, <3>2, <1>11
  <2> QED BY <2>1, <2>2, <2>3
<1>13. Elems(<<>>) = {} /\ Sorted(w, <<>>)
  BY DEF Elems, Sorted
<1> QED BY <1>1, <1>2, <1>3, <1>12, <1>13 DEF InOrder

(* Nothing new is anywhere yet: the number of a text that comes is its     *)
(* place, that of a call that ends is its slot, which is open.             *)
LEMMA ItemIsNew ==
  ASSUME PInv, POrder, NEW e \in Written, NEW y \in Item,
         \/ e = <<"text", Len(written)>> /\ y = e
         \/ callOpen /\ e[1] # "text" /\ e[2] = Len(parser.slots) /\ y = <<"call", e[2]>>
  PROVE  /\ \A i \in 1 .. Len(client.content) : client.content[i].item # e
         /\ e \notin Elems(parser.delta.content) /\ e \notin Elems(parser.rejects)
         /\ e \notin Elems(written) /\ y \notin Elems(written)
         /\ e[1] # "text" => e[2] \notin parser.closed
<1>1. /\ Shown(parser, client) = Texts(written)
           \union {<<"call", k>> : k \in parser.closed \ GivenIdx(parser, client)}
      /\ written \in Seq(Written)
  BY DEF PInv, Core, ContentInv, Typed, Written
<1>2. Numbered(written, parser.closed) /\ Len(written) \in Nat
  BY <1>1 DEF POrder, InOrder
<1>3. e[1] # "text" => e[2] \notin parser.closed
  <2>1. ASSUME callOpen PROVE Len(parser.slots) \notin parser.closed
    <3>1. parser.closed = 1 .. Len(parser.slots) - 1 /\ Len(parser.slots) \in Nat
      BY <2>1 DEF PInv, Core, SlotsInv, Typed, ParserType
    <3> QED BY <3>1
  <2> QED BY <2>1
<1>4. e \notin Elems(written) /\ y \notin Elems(written)
  <2>1. ASSUME NEW m \in 1 .. Len(written) PROVE written[m] # e /\ written[m] # y
    <3>1. IF written[m][1] = "text" THEN written[m][2] = m - 1 ELSE written[m][2] \in parser.closed
      BY <1>2 DEF Numbered
    <3>2. CASE e = <<"text", Len(written)>> /\ y = e
      BY <3>1, <3>2, <1>2
    <3>3. CASE e[1] # "text" /\ y = <<"call", e[2]>>
      BY <3>1, <3>3, <1>3
    <3> QED BY <3>2, <3>3
  <2> QED BY <2>1 DEF Elems
<1>5. e \notin Shown(parser, client)
  <2>1. e \notin Texts(written)
    BY <1>4 DEF Texts, Elems
  <2>2. \A k \in parser.closed : e # <<"call", k>>
    BY <1>3
  <2> QED BY <1>1, <2>1, <2>2
<1> QED BY <1>3, <1>4, <1>5 DEF Shown

LEMMA OrderText ==
  ASSUME PInv, POrder, TextEvent
  PROVE  POrder'
<1>1. PICK p, w, c, e : p = parser /\ w = written /\ c = client /\ e = <<"text", Len(written)>>
  OBVIOUS
<1>2. /\ p.delta.content \in Seq(Item) /\ p.rejects \in Seq(Item) /\ c.content \in Seq(Got) /\ w \in Seq(Written)
      /\ p.delta \in [content : Seq(Item), calls : Seq(Call)] /\ p \in ParserType
  BY <1>1 DEF PInv, Core, Typed, ParserType, ClientType, Written, Got
<1>3. e \in Item /\ e \in Written /\ e[1] = "text" /\ e[2] = Len(w)
  BY <1>1, <1>2 DEF Item, Written
<1>4. parser' = [p EXCEPT !.delta.content = Append(@, e)] /\ written' = Append(w, e) /\ client' = c
  BY <1>1 DEF TextEvent
<1>5. /\ parser'.delta.content = Append(p.delta.content, e)
      /\ parser'.rejects = p.rejects /\ parser'.closed = p.closed
  BY <1>2, <1>4 DEF ParserType
<1>6. /\ \A i \in 1 .. Len(c.content) : c.content[i].item # e
      /\ e \notin Elems(p.delta.content) /\ e \notin Elems(p.rejects) /\ e \notin Elems(w)
  BY <1>1, <1>3, ItemIsNew
<1>7. InOrder(w, c.content, p.delta.content, p.rejects, p.closed)
  BY <1>1 DEF POrder
<1>8. InOrder(Append(w, e), c.content, Append(p.delta.content, e), p.rejects, p.closed)
  BY <1>2, <1>3, <1>6, <1>7, OrderMore
<1> QED BY <1>4, <1>5, <1>8 DEF POrder

(* The call that ends is written, and it waits if it was rejected.         *)
LEMMA OrderEnds ==
  ASSUME PInv, POrder, callOpen, NEW k \in {"call", "cut"}, NEW q, q = HandleToolEnd(parser)
  PROVE  InOrder(Append(written, <<k, Len(parser.slots)>>), client.content, q.delta.content, q.rejects, q.closed)
<1>1. PICK p, w, c, n, e, y : /\ p = parser /\ w = written /\ c = client /\ n = Len(parser.slots)
                              /\ e = <<k, n>> /\ y = <<"call", n>>
  OBVIOUS
<1>2. /\ p.delta.content \in Seq(Item) /\ p.rejects \in Seq(Item) /\ c.content \in Seq(Got) /\ w \in Seq(Written)
      /\ p.delta \in [content : Seq(Item), calls : Seq(Call)] /\ p \in ParserType /\ n \in Nat
  BY <1>1 DEF PInv, Core, Typed, ParserType, ClientType, Written, Got
<1>3. e \in Written /\ y \in Item /\ e[1] # "text" /\ e[2] = n /\ y[1] = "call"
  BY <1>1, <1>2 DEF Item, Written
<1>4. /\ q.closed = p.closed \union {n} /\ q.delta.content = p.delta.content
      /\ q.rejects = p.rejects \/ q.rejects = Append(p.rejects, y)
  BY <1>1, <1>2 DEF HandleToolEnd, Reject, ParserType
<1>5. /\ \A i \in 1 .. Len(c.content) : c.content[i].item # e
      /\ e \notin Elems(p.delta.content) /\ e \notin Elems(p.rejects) /\ y \notin Elems(w)
  BY <1>1, <1>3, ItemIsNew
<1>6. InOrder(w, c.content, p.delta.content, p.rejects, p.closed)
  BY <1>1 DEF POrder
<1>7. p.closed \subseteq q.closed /\ e[2] \in q.closed
  BY <1>3, <1>4
<1>8. InOrder(Append(w, e), c.content, q.delta.content, q.rejects, q.closed)
  BY <1>2, <1>3, <1>4, <1>5, <1>6, <1>7, OrderMore
<1> QED BY <1>1, <1>8

LEMMA OrderDelivered ==
  ASSUME NEW p, NEW o, NEW w, w \in Seq(Written), Core(p, o, w, client), NEW atEnd, atEnd => ~o,
         InOrder(w, client.content, p.delta.content, p.rejects, p.closed),
         Deliver(Finalize(p, atEnd)), written' = w, nDeltas \in Nat
  PROVE  POrder'
<1>1. PICK f : f = Finalize(p, atEnd)
  OBVIOUS
<1>2. PICK all, d : all = p.delta.content \o p.rejects /\ d = nDeltas + 1 /\ d \in Nat
  <2>1. nDeltas + 1 \in Nat
    OBVIOUS
  <2> QED BY <2>1
<1>3. f.rejects = <<>> /\ f.delta.content = all /\ f.closed = p.closed /\ f \in ParserType
  BY <1>1, <1>2, Flushed DEF Core, Typed
<1>4. /\ parser' = [f EXCEPT !.delta = NoDelta]
      /\ client'.content = client.content \o Stamp(all, d)
  BY <1>1, <1>2, <1>3 DEF Deliver, Stamp
<1>5. parser'.delta.content = <<>> /\ parser'.rejects = <<>> /\ parser'.closed = p.closed
  BY <1>3, <1>4 DEF ParserType, NoDelta
<1>6. p.delta.content \in Seq(Item) /\ p.rejects \in Seq(Item) /\ client.content \in Seq(Got)
  BY DEF Core, Typed, ParserType, ClientType, Got
<1>7. InOrder(w, client.content \o Stamp(all, d), <<>>, <<>>, p.closed)
  BY <1>2, <1>6, OrderFlushed
<1> QED BY <1>4, <1>5, <1>7 DEF POrder

LEMMA OrderKeeps == PInv /\ POrder /\ [ParserNext]_parserVars => POrder'
<1> SUFFICES ASSUME PInv, POrder, [ParserNext]_parserVars PROVE POrder'
  OBVIOUS
<1>1. /\ parser \in ParserType /\ written \in Seq(Written) /\ nDeltas \in Nat /\ callOpen \in BOOLEAN
      /\ Core(parser, callOpen, written, client)
      /\ InOrder(written, client.content, parser.delta.content, parser.rejects, parser.closed)
  BY DEF PInv, POrder, Core, Typed, Written
<1>2. ASSUME parser'.delta = parser.delta, parser'.rejects = parser.rejects, parser'.closed = parser.closed,
             UNCHANGED <<written, client>>
      PROVE  POrder'
  BY <1>1, <1>2 DEF POrder
<1>3. CASE TextEvent
  BY <1>3, OrderText
<1>4. CASE CallStarts
  BY <1>1, <1>2, <1>4 DEF CallStarts, ParserType
<1>5. CASE \E n \in Tools \union {Invented, Garbage} : NameEvent(n)
  BY <1>1, <1>2, <1>5 DEF NameEvent, ParserType
<1>6. CASE ArgChunk
  BY <1>1, <1>2, <1>6 DEF ArgChunk, ParserType
<1>7. CASE \E k \in Keys : PairCompletes(k)
  BY <1>1, <1>2, <1>7 DEF PairCompletes, ParserType
<1>8. CASE CallEnds
  <2>1. PICK q : q = HandleToolEnd(parser)
    OBVIOUS
  <2>2. callOpen /\ parser' = q /\ client' = client /\ written' = Append(written, <<"call", Len(parser.slots)>>)
    BY <1>8, <2>1 DEF CallEnds
  <2>3. InOrder(Append(written, <<"call", Len(parser.slots)>>), client.content, q.delta.content, q.rejects, q.closed)
    BY <2>1, <2>2, OrderEnds
  <2> QED BY <2>2, <2>3 DEF POrder
<1>9. CASE DeltaEnds
  <2>1. Deliver(Finalize(parser, FALSE)) /\ written' = written
    BY <1>9 DEF DeltaEnds
  <2> QED BY <1>1, <2>1, OrderDelivered
<1>10. CASE FinishStreaming
  <2>1. CASE callOpen
    <3>1. PICK q, x : q = HandleToolEnd(parser) /\ x = Append(written, <<"cut", Len(parser.slots)>>)
      OBVIOUS
    <3>2. Deliver(Finalize(q, TRUE)) /\ written' = x
      BY <1>10, <2>1, <3>1 DEF FinishStreaming
    <3>3. Core(parser, TRUE, written, client)
      BY <1>1, <2>1
    <3>4. Core(q, FALSE, x, client) /\ x \in Seq(Written)
      BY <3>1, <3>3, Ends DEF Core, Typed, Written
    <3>5. InOrder(x, client.content, q.delta.content, q.rejects, q.closed)
      BY <2>1, <3>1, OrderEnds
    <3> QED BY <1>1, <3>2, <3>4, <3>5, OrderDelivered
  <2>2. CASE ~callOpen
    <3>1. Deliver(Finalize(parser, TRUE)) /\ written' = written
      BY <1>10, <2>2 DEF FinishStreaming
    <3> QED BY <1>1, <2>2, <3>1, OrderDelivered
  <2> QED BY <2>1, <2>2
<1>11. CASE UNCHANGED parserVars
  BY <1>2, <1>11 DEF parserVars
<1> QED BY <1>3, <1>4, <1>5, <1>6, <1>7, <1>8, <1>9, <1>10, <1>11 DEF ParserNext

(* Wherever the deltas end, an item of the content that came later stands  *)
(* earlier only as a text before a rejected call of its own delta.         *)
THEOREM ContentOrderTheorem == ParserSpec => []ContentOrder
<1>1. ParserInit => POrder
  <2> SUFFICES ASSUME ParserInit PROVE POrder
    OBVIOUS
  <2>1. /\ parser.rejects = <<>> /\ parser.delta.content = <<>> /\ client.content = <<>> /\ written = <<>>
    BY DEF ParserInit, NoDelta
  <2>2. Len(<<>>) = 0 /\ 1 .. 0 = {}
    OBVIOUS
  <2> QED BY <2>1, <2>2 DEF POrder, InOrder, Numbered, Sorted, Elems
<1>2. PInv /\ POrder => ContentOrder
  <2> SUFFICES ASSUME PInv, POrder,
                      NEW i \in 1 .. Len(client.content), NEW j \in 1 .. Len(client.content),
                      NEW m \in 1 .. Len(written), NEW n \in 1 .. Len(written), i < j, n < m,
                      written[m] = client.content[i].item, written[n] = client.content[j].item
               PROVE  /\ client.content[i].delta = client.content[j].delta
                      /\ written[m][1] = "text" /\ written[n][1] = "call"
    BY DEF ContentOrder
  <2>1. ~Before(written, client.content[i].item, client.content[j].item)
    <3>1. ~(m < n)
      OBVIOUS
    <3> QED BY <3>1 DEF Before
  <2> QED BY <2>1 DEF POrder, InOrder
<1> QED BY <1>1, <1>2, ParserStarts, ParserKeeps, OrderKeeps, PTL DEF ParserSpec
====

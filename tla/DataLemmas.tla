---- MODULE DataLemmas ----
(***************************************************************************)
(* Lemmas about data that the proofs of several components cite: induction *)
(* over intervals and finite sets, stated with sets in place of predicates,*)
(* functions that recur over an interval, sums over a finite set, and      *)
(* division.                                                               *)
(***************************************************************************)
EXTENDS Integers, Sequences, FiniteSets, SequenceTheorems, FiniteSetTheorems,
        WellFoundedInduction, TLAPS

-----------------------------------------------------------------------------
(* Induction. *)

LEMMA Least ==
  ASSUME NEW S, S \subseteq Nat, S # {}
  PROVE  \E i \in S : \A j \in S : i <= j
<1> DEFINE R == OpToRel(<, Nat)
<1>1. IsWellFoundedOn(R, Nat)
  BY NatLessThanWellFounded
<1>2. PICK i \in S : \A j \in S : ~(<<j, i>> \in R)
  <2> HIDE DEF R
  <2> QED BY <1>1, WFMin
<1>3. ASSUME NEW j \in S PROVE i <= j
  <2>1. ~(<<j, i>> \in R)
    BY <1>2
  <2>2. <<j, i>> \in Nat \X Nat
    OBVIOUS
  <2>3. ~(j < i)
    BY <2>1, <2>2 DEF OpToRel
  <2> QED BY <2>3
<1> QED BY <1>3

LEMMA Upward ==
  ASSUME NEW S, NEW m \in Int, NEW n \in Int, m \in S, \A k \in m .. n - 1 : k \in S => k + 1 \in S
  PROVE  m .. n \subseteq S
<1> DEFINE bad == {d \in Nat : m + d \in m .. n /\ m + d \notin S}
<1>1. ASSUME bad # {} PROVE FALSE
  <2>1. PICK d \in bad : \A e \in bad : d <= e
    <3>1. bad \subseteq Nat
      OBVIOUS
    <3> HIDE DEF bad
    <3> QED BY <1>1, <3>1, Least
  <2>2. d \in Nat /\ d # 0 /\ m + d \notin S /\ m + d \in m .. n
    OBVIOUS
  <2>3. d - 1 \in Nat /\ d - 1 \notin bad /\ m + (d - 1) \in m .. n - 1
    BY <2>1, <2>2
  <2>4. m + (d - 1) \in S /\ m + (d - 1) + 1 = m + d
    BY <2>2, <2>3
  <2> QED BY <2>2, <2>3, <2>4
<1>2. ASSUME NEW k \in m .. n PROVE k \in S
  <2>1. k - m \in Nat /\ m + (k - m) = k
    OBVIOUS
  <2> QED BY <1>1, <2>1
<1> QED BY <1>2

LEMMA UpFinite ==
  ASSUME NEW S, IsFiniteSet(S), NEW F, \A T \in SUBSET S : (\A x \in T : T \ {x} \in F) => T \in F
  PROVE  SUBSET S \subseteq F
<1> DEFINE bad == {d \in Nat : \E T \in SUBSET S : Cardinality(T) = d /\ T \notin F}
<1>1. \A T \in SUBSET S : IsFiniteSet(T) /\ Cardinality(T) \in Nat
  BY FS_Subset, FS_CardinalityType
<1>2. ASSUME bad # {} PROVE FALSE
  <2>1. PICK d \in bad : \A e \in bad : d <= e
    <3>1. bad \subseteq Nat
      OBVIOUS
    <3> HIDE DEF bad
    <3> QED BY <1>2, <3>1, Least
  <2>2. PICK T \in SUBSET S : Cardinality(T) = d /\ T \notin F
    OBVIOUS
  <2>3. PICK x \in T : T \ {x} \notin F
    BY <2>2
  <2>4. Cardinality(T \ {x}) = d - 1 /\ d - 1 \in Nat /\ T \ {x} \in SUBSET S
    <3>1. IsFiniteSet(T) /\ T \ {x} \in SUBSET S
      BY <1>1
    <3>2. Cardinality(T \ {x}) = Cardinality(T) - 1
      BY <2>3, <3>1, FS_RemoveElement
    <3> QED BY <1>1, <2>2, <3>1, <3>2
  <2>5. d - 1 \in bad
    BY <2>3, <2>4
  <2> QED BY <2>1, <2>4, <2>5
<1> QED BY <1>1, <1>2

(* A function that recurs over an interval exists.                         *)
Steps(step, m, n, V) == \A x \in V, i \in m + 1 .. n : step[<<x, i>>] \in V
Recurs(g, m, n, V, c, step) ==
  g \in [m .. n -> V] /\ g[m] = c /\ \A i \in m + 1 .. n : g[i] = step[<<g[i - 1], i>>]

LEMMA Recursion ==
  ASSUME NEW m \in Int, NEW n \in Int, m <= n, NEW V, NEW c \in V, NEW step, Steps(step, m, n, V)
  PROVE  \E g : Recurs(g, m, n, V, c, step)
<1> DEFINE Goes(g, k) == g[m] = c /\ \A i \in m + 1 .. k : g[i] = step[<<g[i - 1], i>>]
           S == {k \in m .. n : \E g \in [m .. k -> V] : Goes(g, k)}
<1> USE DEF Steps
<1>1. m \in S
  <2>1. [i \in m .. m |-> c] \in [m .. m -> V] /\ Goes([i \in m .. m |-> c], m) /\ m \in m .. n
    OBVIOUS
  <2> QED BY <2>1
<1>2. ASSUME NEW k \in m .. n - 1, k \in S PROVE k + 1 \in S
  <2>1. PICK g \in [m .. k -> V] : Goes(g, k)
    BY <1>2
  <2>2. k \in m .. k /\ g[k] \in V /\ k + 1 \in m + 1 .. n /\ (k + 1) - 1 = k
    OBVIOUS
  <2> DEFINE h == [i \in m .. k + 1 |-> IF i = k + 1 THEN step[<<g[k], k + 1>>] ELSE g[i]]
  <2>3. h \in [m .. k + 1 -> V]
    BY <2>2
  <2>4. \A i \in m .. k : h[i] = g[i]
    OBVIOUS
  <2>5. h[k + 1] = step[<<g[k], k + 1>>]
    BY <2>2
  <2> HIDE DEF h
  <2>6. h[m] = c
    BY <2>1, <2>4
  <2>7. ASSUME NEW i \in m + 1 .. k + 1 PROVE h[i] = step[<<h[i - 1], i>>]
    <3>1. CASE i = k + 1
      BY <3>1, <2>2, <2>4, <2>5
    <3>2. CASE i # k + 1
      <4>1. i \in m + 1 .. k /\ i \in m .. k /\ i - 1 \in m .. k
        BY <3>2
      <4> QED BY <4>1, <2>1, <2>4
    <3> QED BY <3>1, <3>2
  <2> QED BY <2>2, <2>3, <2>6, <2>7
<1>3. m .. n \subseteq S
  <2> HIDE DEF S
  <2> QED BY <1>1, <1>2, Upward
<1>4. n \in S
  BY <1>3
<1> QED BY <1>4 DEF Recurs

(* A one-to-one image has as many elements. *)
LEMMA ImageCard ==
  ASSUME NEW S, IsFiniteSet(S), NEW f, \A x, y \in S : f[x] = f[y] => x = y
  PROVE  IsFiniteSet({f[x] : x \in S}) /\ Cardinality({f[x] : x \in S}) = Cardinality(S)
<1> DEFINE T == {f[x] : x \in S}
           g == [x \in S |-> f[x]]
<1>1. g \in Injection(S, T) /\ g \in Surjection(S, T)
  BY DEF Injection, IsInjective, Surjection
<1>2. ExistsBijection(S, T)
  BY <1>1 DEF ExistsBijection, Bijection
<1> HIDE DEF T
<1>3. IsFiniteSet(T) /\ Cardinality(T) = Cardinality(S)
  BY <1>2, FS_Bijection
<1> QED BY <1>3 DEF T

-----------------------------------------------------------------------------
(* Sequences. *)

LEMMA LenIs ==
  ASSUME NEW S, NEW n \in Nat, NEW s \in [1 .. n -> S]
  PROVE  s \in Seq(S) /\ Len(s) = n
<1>1. s \in Seq(S)
  BY SeqDef
<1>2. Len(s) \in Nat /\ DOMAIN s = 1 .. Len(s)
  BY <1>1, LenProperties
<1>3. 1 .. Len(s) = 1 .. n
  BY <1>2
<1> QED BY <1>1, <1>2, <1>3

-----------------------------------------------------------------------------
(* Sums.  Sums says what MapThenSumSet of FiniteSetsExt iterates: it takes *)
(* the elements of a set in some order, which makes no difference.         *)

Some(T) == CHOOSE x \in T : TRUE
Sums(it, S, v) ==
  /\ it \in [SUBSET S -> Int]
  /\ \A T \in SUBSET S : it[T] = IF T = {} THEN 0 ELSE v[Some(T)] + it[T \ {Some(T)}]

LEMMA SumsExist ==
  ASSUME NEW S, IsFiniteSet(S), NEW v \in [S -> Int]
  PROVE  \E it : Sums(it, S, v)
<1> DEFINE Sub(k) == {T \in SUBSET S : Cardinality(T) <= k}
           Goes(it, k) == \A T \in Sub(k) : it[T] = IF T = {} THEN 0 ELSE v[Some(T)] + it[T \ {Some(T)}]
           K == {k \in Nat : \E it \in [Sub(k) -> Int] : Goes(it, k)}
<1>1. \A T \in SUBSET S : IsFiniteSet(T) /\ Cardinality(T) \in Nat /\ Cardinality(T) <= Cardinality(S)
  BY FS_Subset, FS_CardinalityType
<1>2. \A T \in SUBSET S : T # {} => Some(T) \in T /\ Cardinality(T \ {Some(T)}) = Cardinality(T) - 1
  BY <1>1, FS_RemoveElement DEF Some
<1>3. 0 \in K
  <2>1. \A T \in Sub(0) : T = {}
    BY <1>1, FS_EmptySet
  <2>2. [T \in Sub(0) |-> 0] \in [Sub(0) -> Int] /\ Goes([T \in Sub(0) |-> 0], 0)
    BY <2>1
  <2> QED BY <2>2
<1>4. ASSUME NEW k \in Nat, k \in K PROVE k + 1 \in K
  <2>1. PICK it \in [Sub(k) -> Int] : Goes(it, k)
    BY <1>4
  <2> DEFINE h == [T \in Sub(k + 1) |-> IF T \in Sub(k) THEN it[T] ELSE v[Some(T)] + it[T \ {Some(T)}]]
  <2>2. \A T \in Sub(k + 1) : T # {} => T \ {Some(T)} \in Sub(k) /\ Some(T) \in S
    BY <1>1, <1>2
  <2>3. Sub(k) \subseteq Sub(k + 1) /\ {} \in Sub(k)
    BY <1>1, FS_EmptySet
  <2>4. \A T \in Sub(k + 1) : h[T] = IF T \in Sub(k) THEN it[T] ELSE v[Some(T)] + it[T \ {Some(T)}]
    OBVIOUS
  <2>5. \A T \in Sub(k) : h[T] = it[T]
    BY <2>3, <2>4
  <2>6. h \in [Sub(k + 1) -> Int]
    <3>1. ASSUME NEW T \in Sub(k + 1)
          PROVE  (IF T \in Sub(k) THEN it[T] ELSE v[Some(T)] + it[T \ {Some(T)}]) \in Int
      <4>1. CASE T \in Sub(k)
        BY <4>1
      <4>2. CASE T \notin Sub(k)
        <5>1. T # {}
          BY <2>3, <4>2
        <5>2. v[Some(T)] \in Int /\ it[T \ {Some(T)}] \in Int
          BY <2>2, <5>1
        <5> QED BY <4>2, <5>2
      <4> QED BY <4>1, <4>2
    <3> QED BY <3>1
  <2>7. ASSUME NEW T \in Sub(k + 1)
        PROVE  h[T] = IF T = {} THEN 0 ELSE v[Some(T)] + h[T \ {Some(T)}]
    <3>1. T # {} => h[T \ {Some(T)}] = it[T \ {Some(T)}]
      BY <2>2, <2>5
    <3>2. CASE T \in Sub(k)
      BY <2>1, <2>5, <3>1, <3>2
    <3>3. CASE T \notin Sub(k)
      <4>1. T # {}
        BY <2>3, <3>3
      <4> QED BY <2>4, <3>1, <3>3, <4>1
    <3> QED BY <3>2, <3>3
  <2> HIDE DEF h
  <2>8. Goes(h, k + 1)
    BY <2>7
  <2> HIDE DEF Goes, Sub
  <2>9. \E g \in [Sub(k + 1) -> Int] : Goes(g, k + 1)
    BY <2>6, <2>8
  <2> QED BY <2>9
<1>5. 0 .. Cardinality(S) \subseteq K
  <2>1. Cardinality(S) \in Nat
    BY <1>1
  <2>2. \A k \in 0 .. Cardinality(S) - 1 : k \in K => k + 1 \in K
    BY <1>4, <2>1
  <2> HIDE DEF K
  <2> QED BY <1>3, <2>1, <2>2, Upward
<1>6. Cardinality(S) \in Nat /\ Cardinality(S) \in 0 .. Cardinality(S) /\ Sub(Cardinality(S)) = SUBSET S
  BY <1>1
<1>7. PICK it \in [Sub(Cardinality(S)) -> Int] : Goes(it, Cardinality(S))
  BY <1>5, <1>6
<1>8. Sums(it, S, v)
  BY <1>6, <1>7 DEF Sums
<1> QED BY <1>8

(* Whatever recurs so over the subsets is a sum. *)
LEMMA SumsAre ==
  ASSUME NEW S, IsFiniteSet(S), NEW v \in [S -> Int], NEW it,
         it = [T \in SUBSET S |-> IF T = {} THEN 0 ELSE v[Some(T)] + it[T \ {Some(T)}]]
  PROVE  Sums(it, S, v)
<1> DEFINE F == {T \in SUBSET S : it[T] \in Int}
<1>1. \A T \in SUBSET S : it[T] = IF T = {} THEN 0 ELSE v[Some(T)] + it[T \ {Some(T)}]
  OBVIOUS
<1>2. ASSUME NEW T \in SUBSET S, \A x \in T : T \ {x} \in F PROVE it[T] \in Int
  <2>1. CASE T = {}
    BY <1>1, <2>1
  <2>2. CASE T # {}
    <3>1. Some(T) \in T
      BY <2>2 DEF Some
    <3>2. it[T \ {Some(T)}] \in Int /\ v[Some(T)] \in Int
      BY <1>2, <3>1
    <3>3. it[T] = v[Some(T)] + it[T \ {Some(T)}]
      BY <1>1, <2>2
    <3> QED BY <3>2, <3>3
  <2> QED BY <2>1, <2>2
<1>3. SUBSET S \subseteq F
  <2>1. \A T \in SUBSET S : (\A x \in T : T \ {x} \in F) => T \in F
    BY <1>2
  <2> HIDE DEF F
  <2> QED BY <2>1, UpFinite
<1>4. it \in [SUBSET S -> Int]
  BY <1>3
<1> QED BY <1>1, <1>4 DEF Sums

LEMMA SumSplit ==
  ASSUME NEW S, IsFiniteSet(S), NEW v \in [S -> Int], NEW it, Sums(it, S, v)
  PROVE  \A T \in SUBSET S : \A x \in T : it[T] = v[x] + it[T \ {x}]
<1> DEFINE F == {T \in SUBSET S : \A x \in T : it[T] = v[x] + it[T \ {x}]}
<1>1. ASSUME NEW T \in SUBSET S, \A x \in T : T \ {x} \in F, NEW x \in T
      PROVE  it[T] = v[x] + it[T \ {x}]
  <2>1. PICK y : y = Some(T) /\ y \in T
    BY DEF Some
  <2>2. it[T] = v[y] + it[T \ {y}]
    BY <2>1 DEF Sums
  <2>3. CASE x = y
    BY <2>2, <2>3
  <2>4. CASE x # y
    <3>1. x \in T \ {y} /\ y \in T \ {x} /\ (T \ {y}) \ {x} = (T \ {x}) \ {y}
      BY <2>1, <2>4
    <3>2. it[T \ {y}] = v[x] + it[(T \ {y}) \ {x}]
      BY <1>1, <2>1, <3>1
    <3>3. it[T \ {x}] = v[y] + it[(T \ {x}) \ {y}]
      BY <1>1, <3>1
    <3>4. PICK a \in Int, b \in Int, c \in Int : v[x] = a /\ v[y] = b /\ it[(T \ {x}) \ {y}] = c
      BY <2>1 DEF Sums
    <3>5. it[T \ {y}] = a + c /\ it[T \ {x}] = b + c
      BY <3>1, <3>2, <3>3, <3>4
    <3>6. it[T] = b + (a + c)
      BY <2>2, <3>4, <3>5
    <3>7. b + (a + c) = a + (b + c)
      OBVIOUS
    <3> QED BY <3>4, <3>5, <3>6, <3>7
  <2> QED BY <2>3, <2>4
<1>2. SUBSET S \subseteq F
  <2>1. \A T \in SUBSET S : (\A x \in T : T \ {x} \in F) => T \in F
    BY <1>1
  <2> HIDE DEF F
  <2> QED BY <2>1, UpFinite
<1> QED BY <1>2

LEMMA SumOfEqual ==
  ASSUME NEW S, IsFiniteSet(S), NEW v \in [S -> Int], NEW it, Sums(it, S, v),
         NEW c \in Int, NEW A \in SUBSET S, \A x \in A : v[x] = c
  PROVE  it[A] = c * Cardinality(A)
<1> DEFINE F == {T \in SUBSET A : it[T] = c * Cardinality(T)}
<1>1. \A T \in SUBSET A : IsFiniteSet(T) /\ Cardinality(T) \in Nat /\ T \in SUBSET S
  BY FS_Subset, FS_CardinalityType
<1>2. ASSUME NEW T \in SUBSET A, \A x \in T : T \ {x} \in F
      PROVE  it[T] = c * Cardinality(T)
  <2>1. CASE T = {}
    <3>1. it[T] = 0 /\ Cardinality(T) = 0
      BY <2>1, FS_EmptySet DEF Sums
    <3> QED BY <3>1
  <2>2. CASE T # {}
    <3>1. PICK x \in T : TRUE
      BY <2>2
    <3>2. it[T] = c + it[T \ {x}]
      BY <1>1, SumSplit
    <3>3. it[T \ {x}] = c * Cardinality(T \ {x})
      BY <1>2
    <3>4. Cardinality(T \ {x}) = Cardinality(T) - 1
      BY <1>1, FS_RemoveElement
    <3>5. PICK n \in Nat : n = Cardinality(T)
      BY <1>1
    <3>6. c + c * (n - 1) = c * n
      OBVIOUS
    <3> QED BY <3>2, <3>3, <3>4, <3>5, <3>6
  <2> QED BY <2>1, <2>2
<1>3. SUBSET A \subseteq F
  <2>1. \A T \in SUBSET A : (\A x \in T : T \ {x} \in F) => T \in F
    BY <1>2
  <2>2. IsFiniteSet(A)
    BY <1>1
  <2> HIDE DEF F
  <2> QED BY <2>1, <2>2, UpFinite
<1> QED BY <1>3

LEMMA SumOfUnion ==
  ASSUME NEW S, IsFiniteSet(S), NEW v \in [S -> Int], NEW it, Sums(it, S, v),
         NEW A \in SUBSET S, NEW B \in SUBSET S, A \cap B = {}
  PROVE  it[A \union B] = it[A] + it[B]
<1> DEFINE F == {T \in SUBSET B : it[A \union T] = it[A] + it[T]}
<1>1. ASSUME NEW T \in SUBSET B, \A x \in T : T \ {x} \in F
      PROVE  it[A \union T] = it[A] + it[T]
  <2>1. CASE T = {}
    <3>1. it[{}] = 0 /\ A \union {} = A /\ it[A] \in Int
      BY DEF Sums
    <3> QED BY <2>1, <3>1
  <2>2. CASE T # {}
    <3>1. PICK x \in T : TRUE
      BY <2>2
    <3>2. (A \union T) \ {x} = A \union (T \ {x}) /\ x \in A \union T
      BY <3>1
    <3>3. it[T] = v[x] + it[T \ {x}] /\ it[A \union T] = v[x] + it[A \union (T \ {x})]
      <4>1. T \in SUBSET S /\ A \union T \in SUBSET S
        OBVIOUS
      <4>2. it[T] = v[x] + it[T \ {x}]
        BY <4>1, SumSplit
      <4>3. it[A \union T] = v[x] + it[(A \union T) \ {x}]
        BY <3>2, <4>1, SumSplit
      <4> QED BY <3>2, <4>2, <4>3
    <3>4. it[A \union (T \ {x})] = it[A] + it[T \ {x}]
      BY <1>1
    <3>5. v[x] \in Int /\ it[A] \in Int /\ it[T \ {x}] \in Int
      BY DEF Sums
    <3> QED BY <3>3, <3>4, <3>5
  <2> QED BY <2>1, <2>2
<1>2. SUBSET B \subseteq F
  <2>1. \A T \in SUBSET B : (\A x \in T : T \ {x} \in F) => T \in F
    BY <1>1
  <2>2. IsFiniteSet(B)
    BY FS_Subset
  <2> HIDE DEF F
  <2> QED BY <2>1, <2>2, UpFinite
<1> QED BY <1>2

-----------------------------------------------------------------------------
(* Division. *)

LEMMA Divided ==
  ASSUME NEW a \in Nat, NEW b \in Nat \ {0}
  PROVE  a \div b \in Nat /\ a % b \in 0 .. b - 1 /\ a = b * (a \div b) + (a % b)
OBVIOUS

LEMMA Remainder ==
  ASSUME NEW a \in Nat, NEW b \in Nat \ {0}
  PROVE  a % b \in Nat
BY Divided

LEMMA Quotient ==
  ASSUME NEW a \in Nat, NEW b \in Nat \ {0}
  PROVE  \E q \in Nat, r \in 0 .. b - 1 : a = b * q + r /\ a \div b = q /\ a % b = r
BY Divided

LEMMA Times ==
  ASSUME NEW a \in Nat, NEW b \in Nat, NEW c \in Nat, a <= b
  PROVE  c * a <= c * b /\ c * a \in Nat
<1>1. PICK d \in Nat : b = a + d
  <2>1. b - a \in Nat /\ b = a + (b - a)
    OBVIOUS
  <2> QED BY <2>1
<1>2. c * b = c * a + c * d /\ c * d >= 0 /\ c * a \in Nat
  BY <1>1
<1> QED BY <1>2

(* Quotient and remainder are the only ones.                               *)
LEMMA DividedOnce ==
  ASSUME NEW b \in Nat \ {0}, NEW q \in Nat, NEW r \in 0 .. b - 1
  PROVE  (b * q + r) \div b = q /\ (b * q + r) % b = r
<1>1. PICK a \in Nat : a = b * q + r
  OBVIOUS
<1>2. PICK p \in Nat, s \in 0 .. b - 1 : p = a \div b /\ s = a % b /\ a = b * p + s
  BY <1>1, Divided
<1>3. ~(p < q)
  <2>1. ASSUME p < q PROVE FALSE
    <3>1. b * (p + 1) <= b * q
      BY <2>1, Times
    <3> QED BY <1>1, <1>2, <3>1
  <2> QED BY <2>1
<1>4. ~(q < p)
  <2>1. ASSUME q < p PROVE FALSE
    <3>1. b * (q + 1) <= b * p
      BY <2>1, Times
    <3> QED BY <1>1, <1>2, <3>1
  <2> QED BY <2>1
<1>5. p = q
  BY <1>3, <1>4
<1> QED BY <1>1, <1>2, <1>5
====

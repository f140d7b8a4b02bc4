---- MODULE FreeBlockQueue ----
(***************************************************************************)
(* FreeKVCacheBlockQueue of vllm/v1/core/kv_cache_utils.py: the doubly     *)
(* linked list of free KV-cache blocks between a fake head and a fake      *)
(* tail.  A step is one call, as the engine core makes them one at a time. *)
(* A loop over blocks is given by the links it leaves behind.  The block   *)
(* pool that calls the queue is not in the repository: it hands back the   *)
(* blocks it holds, each once, and asks for any block to be removed.       *)
(***************************************************************************)
EXTENDS Naturals, Sequences

CONSTANTS
  Block,        \* the blocks
  First,        \* the order of their ids: a sequence of all of them
  FakeHead, FakeTail, Null

ASSUME FakesAreNot ==
  /\ FakeHead \notin Block /\ FakeTail \notin Block /\ Null \notin Block
  /\ FakeHead # FakeTail /\ Null # FakeHead /\ Null # FakeTail
ASSUME FirstIsAll ==
  /\ First \in Seq(Block)
  /\ \A i, j \in 1 .. Len(First) : First[i] = First[j] => i = j
  /\ {First[i] : i \in 1 .. Len(First)} = Block

VARIABLES
  nextFree,     \* next_free_block
  prevFree,     \* prev_free_block
  numFree,      \* num_free_blocks
  held,         \* the blocks that the caller has
  queueCall,    \* the last call
  queueRet      \* the blocks it returned, and the exception it raised or ""

links == <<nextFree, prevFree, numFree, held>>
queueVars == <<links, queueCall, queueRet>>

Node == Block \union {FakeHead, FakeTail}

Distinct(s) == \A i, j \in DOMAIN s : s[i] = s[j] => i = j

(* Sequences of distinct blocks of a set.                                  *)
Lists(S) ==
  {s \in UNION {[1 .. n -> S] : n \in 0 .. Len(First)} : Distinct(s)}

(* The place i of a list between its neighbours.                           *)
At(l, s, r, i) == IF i = 0 THEN l ELSE IF i = Len(s) + 1 THEN r ELSE s[i]

(* The list runs from l to r along the links of f.                         *)
Chain(f, l, s, r) == \A i \in 0 .. Len(s) : f[At(l, s, r, i)] = At(l, s, r, i + 1)

(* Mutant: a block that leaves keeps its links.                            *)
KeepsLinks(f, l, s, r, gone) ==
  [x \in Node |->
     IF x = l THEN At(l, s, r, 1)
     ELSE IF \E i \in 1 .. Len(s) : s[i] = x
       THEN At(l, s, r, (CHOOSE i \in 1 .. Len(s) : s[i] = x) + 1)
     ELSE f[x]]

(* Every link of the result is the old one but for those of l, s and r,    *)
(* which now stand side by side, and of the blocks that have left.         *)
Relinked(f, l, s, r, gone) ==
  [x \in Node |->
     IF x \in gone THEN Null
     ELSE IF x = l THEN At(l, s, r, 1)
     ELSE IF \E i \in 1 .. Len(s) : s[i] = x
       THEN At(l, s, r, (CHOOSE i \in 1 .. Len(s) : s[i] = x) + 1)
     ELSE f[x]]

Backwards(s) == [i \in 1 .. Len(s) |-> s[Len(s) + 1 - i]]

(* The links between l, s and r in both directions.                        *)
Connect(l, s, r, gone) ==
  /\ nextFree' = Relinked(nextFree, l, s, r, gone)
  /\ prevFree' = Relinked(prevFree, r, Backwards(s), l, gone)

(* get_all_free_blocks: the blocks on the way from head to tail.           *)
FreeList == CHOOSE s \in [1 .. numFree -> Block] : Chain(nextFree, FakeHead, s, FakeTail)

QueueInit ==
  /\ nextFree = Relinked([x \in Node |-> Null], FakeHead, First, FakeTail, {})
  /\ prevFree = Relinked([x \in Node |-> Null], FakeTail, Backwards(First), FakeHead, {})
  /\ numFree = Len(First)
  /\ held = {}
  /\ queueCall = [op |-> "none"]
  /\ queueRet = [raised |-> "", blocks |-> <<>>]

Return(bs) == queueRet' = [raised |-> "", blocks |-> bs]
Raise(e) == queueRet' = [raised |-> e, blocks |-> <<>>] /\ UNCHANGED links

(* The blocks of s leave the list, or join it, and the counter follows.    *)
Out(s) ==
  /\ numFree' = numFree - Len(s)
  /\ held' = held \union {s[i] : i \in 1 .. Len(s)}
In(s) ==
  /\ numFree' = numFree + Len(s)
  /\ held' = held \ {s[i] : i \in 1 .. Len(s)}

popleft ==
  LET first == nextFree[FakeHead] IN
  /\ queueCall' = [op |-> "take", n |-> 1]
  /\ IF first = FakeTail
     THEN Raise(IF numFree = 0 THEN "ValueError" ELSE "AssertionError")
     ELSE /\ Connect(FakeHead, <<>>, nextFree[first], {first})
          /\ Out(<<first>>) /\ Return(<<first>>)

popleft_n(n) ==
  /\ queueCall' = [op |-> "take", n |-> n]
  /\ IF n = 0 THEN Return(<<>>) /\ UNCHANGED links
     ELSE IF numFree < n THEN Raise("AssertionError")
     ELSE \E s \in Lists(Block) :
            /\ Len(s) = n /\ nextFree[FakeHead] = s[1]
            /\ \A i \in 1 .. n - 1 : nextFree[s[i]] = s[i + 1]
            /\ Connect(FakeHead, <<>>, nextFree[s[n]], {s[i] : i \in 1 .. n})
            /\ Out(s) /\ Return(s)

(* The pool takes out a block that a request wants again.                  *)
remove(b) ==
  /\ queueCall' = [op |-> "reuse", block |-> b]
  /\ IF prevFree[b] = Null \/ nextFree[b] = Null THEN Raise("RuntimeError")
     ELSE /\ Connect(prevFree[b], <<>>, nextFree[b], {b})
          /\ Out(<<b>>) /\ Return(<<>>)

append(b) ==
  /\ queueCall' = [op |-> "last", blocks |-> <<b>>]
  /\ Connect(prevFree[FakeTail], <<b>>, FakeTail, {})
  /\ In(<<b>>) /\ Return(<<>>)

append_n(bs) ==
  /\ queueCall' = [op |-> "last", blocks |-> bs]
  /\ IF bs = <<>> THEN UNCHANGED links
     ELSE Connect(prevFree[FakeTail], bs, FakeTail, {}) /\ In(bs)
  /\ Return(<<>>)

(* Mutant: each block is put in front of the one before it.                *)
PrependsEach(bs) ==
  /\ queueCall' = [op |-> "first", blocks |-> bs]
  /\ IF bs = <<>> THEN UNCHANGED links
     ELSE Connect(FakeHead, Backwards(bs), nextFree[FakeHead], {}) /\ In(bs)
  /\ Return(<<>>)

prepend_n(bs) ==
  /\ queueCall' = [op |-> "first", blocks |-> bs]
  /\ IF bs = <<>> THEN UNCHANGED links
     ELSE Connect(FakeHead, bs, nextFree[FakeHead], {}) /\ In(bs)
  /\ Return(<<>>)

QueueNext ==
  \/ popleft
  \/ \E n \in 0 .. Len(First) + 1 : popleft_n(n)
  \/ \E b \in Block : remove(b)
  \/ \E b \in held : append(b)
  \/ \E bs \in Lists(held) : append_n(bs) \/ prepend_n(bs)

QueueSpec == QueueInit /\ [][QueueNext]_queueVars

-----------------------------------------------------------------------------
(* Properties. *)

(* The list is sound for an order s of the free blocks: the links lead     *)
(* from head to tail along s and back again, a block that is not in s has  *)
(* no links, and the counter is the length of s.                           *)
Sound(s) ==
  /\ Chain(nextFree, FakeHead, s, FakeTail)
  /\ Chain(prevFree, FakeTail, Backwards(s), FakeHead)
  /\ prevFree[FakeHead] = Null /\ nextFree[FakeTail] = Null
  /\ held = Block \ {s[i] : i \in 1 .. Len(s)}
  /\ \A b \in held : nextFree[b] = Null /\ prevFree[b] = Null
  /\ Distinct(s) /\ Len(s) = numFree

(* "num_free_blocks is out of sync with the free list" never comes about:  *)
(* some order of the free blocks makes the list sound.                     *)
QueueInv == \E s \in [1 .. numFree -> Block] : Sound(s)

Order == INSTANCE EvictionOrder WITH line <- FreeList, call <- queueCall, ret <- queueRet

(* The linked list keeps the eviction order: what is taken, and what stays *)
(* in which order, is what the line of free blocks would give.             *)
QueueIsALine == Order!Init /\ [][Order!Next]_queueVars
====

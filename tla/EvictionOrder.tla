---- MODULE EvictionOrder ----
(***************************************************************************)
(* What the free list of KV-cache blocks promises: the free blocks stand   *)
(* in one line, the next to be evicted first.  Blocks are taken from the   *)
(* front, a block that is wanted again leaves from where it stands, and    *)
(* blocks that are given back go to the end, or to the front, in the order *)
(* in which they are handed over.  Only a call for more blocks than there  *)
(* are, or for a block that is not free, is refused.                       *)
(***************************************************************************)
EXTENDS Naturals, Sequences

CONSTANT Block

VARIABLES
  line,         \* the free blocks, the next to be evicted first
  call,         \* the last call: its kind, and its number or list of blocks
  ret           \* the blocks that it returned, and the exception or ""

vars == <<line, call, ret>>

Free == {line[i] : i \in 1 .. Len(line)}

Distinct(s) == \A i, j \in 1 .. Len(s) : s[i] = s[j] => i = j

Init ==
  /\ line \in Seq(Block) /\ Distinct(line) /\ Free = Block
  /\ ret = [raised |-> "", blocks |-> <<>>]

Returns(bs) == ret' = [raised |-> "", blocks |-> bs]
Refused == ret'.raised # "" /\ line' = line

Take ==
  /\ call'.op = "take" /\ call'.n \in Nat
  /\ IF call'.n <= Len(line)
     THEN /\ line' = SubSeq(line, call'.n + 1, Len(line))
          /\ Returns(SubSeq(line, 1, call'.n))
     ELSE Refused

Reuse ==
  /\ call'.op = "reuse"
  /\ IF call'.block \in Free
     THEN \E i \in 1 .. Len(line) :
            /\ line[i] = call'.block
            /\ line' = SubSeq(line, 1, i - 1) \o SubSeq(line, i + 1, Len(line))
            /\ Returns(<<>>)
     ELSE Refused

GiveBack ==
  /\ call'.op \in {"last", "first"}
  /\ call'.blocks \in Seq(Block \ Free) /\ Distinct(call'.blocks)
  /\ line' = IF call'.op = "last" THEN line \o call'.blocks ELSE call'.blocks \o line
  /\ Returns(<<>>)

Next == Take \/ Reuse \/ GiveBack

Spec == Init /\ [][Next]_vars
====

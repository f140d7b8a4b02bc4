---- MODULE BlockHasher ----
(***************************************************************************)
(* The hashes that key the prefix cache (vllm/v1/core/kv_cache_utils.py):  *)
(* the block sizes that the groups resolve to, the hasher that a request   *)
(* calls whenever it has got tokens, and the views of the hashes at the    *)
(* block size of a group.  A hash stands for what was hashed: the hash of  *)
(* the parent, the place of the block's tokens, and the extra keys.        *)
(***************************************************************************)
EXTENDS Integers, Sequences, FiniteSets

CONSTANTS
  GroupSets,     \* the sets of groups: size, kind (attention, mamba) and
                 \* whether it takes part in prefix caching
  Units,         \* prefix_match_unit, 0 for None
  Plain,         \* the extra keys that are not of multi-modal inputs
  MaxPrompt, MaxTokens, MaxStep,  \* bounds on prompt, request and tokens of a step
  MaxInputs      \* bound on the multi-modal inputs of a request

ASSUME HasherSizes ==
  /\ {MaxPrompt, MaxTokens, MaxStep, MaxInputs} \subseteq Nat /\ Units \subseteq Nat
  /\ \A groups \in GroupSets :
       /\ IsFiniteSet(groups)
       /\ groups \subseteq [size : 1 .. MaxTokens, mamba : BOOLEAN, participates : BOOLEAN]

VARIABLES
  hashConf,      \* groups, prefix_match_unit, prefix caching on, mamba aligned
  request,       \* its prompt length, mm_features and plain extra keys
  numTokens,
  blockHashes    \* request.block_hashes

hashVars == <<hashConf, request, numTokens, blockHashes>>

Divides(d, n) == n % d = 0
Sizes(groups) == {g.size : g \in groups}
Gcd(S) == CHOOSE d \in 1 .. MaxTokens :
            /\ \A n \in S : Divides(d, n)
            /\ \A e \in 1 .. MaxTokens : (\A n \in S : Divides(e, n)) => e <= d
Lcm(S) == CHOOSE m \in 1 .. MaxTokens * MaxTokens :
            /\ \A n \in S : Divides(n, m)
            /\ \A k \in 1 .. m - 1 : \E n \in S : ~Divides(n, k)

(* resolve_kv_cache_block_sizes, for a decode context of one rank: the     *)
(* scheduler's size, and the size at which a request is hashed (0: the     *)
(* ValueError of a prefix_match_unit that does not fit).                   *)
Hashing == {g \in hashConf.groups : g.participates}
SchedulerBlockSize == Lcm(Sizes(hashConf.groups))
HashBlockSize ==
  LET sizes == Sizes(IF Hashing = {} THEN hashConf.groups ELSE Hashing)
      size == IF hashConf.unit # 0 THEN hashConf.unit ELSE Gcd(sizes)
  IN IF Cardinality(hashConf.groups) = 1 THEN SchedulerBlockSize
     ELSE IF ~hashConf.caching \/ (~hashConf.aligned /\ \E g \in hashConf.groups : g.mamba)
       THEN SchedulerBlockSize
     ELSE IF \A n \in sizes : Divides(size, n) THEN size ELSE 0

End(m) == m.offset + m.length
Mm == request.mm

(* _gen_mm_extra_hash_keys: from input k on, the inputs of the tokens from *)
(* start to end, each with its place in the block, and the input to go on  *)
(* with.                                                                   *)
MmKeys(start, end, k) ==
  LET first == IF k = -1 THEN Len(Mm) ELSE k
      stop == {i \in first .. Len(Mm) : end <= Mm[i].offset \/ end < End(Mm[i])}
      next == CHOOSE n \in stop \union {Len(Mm) + 1} : \A m \in stop : n <= m
      taken == {i \in first .. Len(Mm) : i <= next /\ Mm[i].offset < end /\ start < End(Mm[i])}
  IN IF Mm = <<>> \/ End(Mm[Len(Mm)]) <= start
     THEN [keys |-> {}, next |-> k]
     ELSE [keys |-> {<<Mm[i].id, Mm[i].offset - start>> : i \in taken}, next |-> next]

(* generate_block_hash_extra_keys, the keys other than those of the inputs:*)
(* the salt of the cache is a key of the first block only.                 *)
PlainKeys(start) == {x \in request.plain : x = <<"salt">> => start = 0}

(* Mutant: every call looks at the last input only.                        *)
HashedByLast(hashes, size, tokens) ==
  LET old == Len(hashes)
      f[b \in old .. tokens \div size] ==
        IF b = old THEN hashes
        ELSE LET start == (b - 1) * size
             IN Append(f[b - 1],
                       [from |-> start, to |-> start + size,
                        extra |-> MmKeys(start, start + size, -1).keys \union PlainKeys(start)])
  IN f[tokens \div size]

(* request_block_hasher: the hashes of the full blocks that have none yet, *)
(* chained to the last one.  A later call looks at the last input only.    *)
Hashed(hashes, size, tokens) ==
  LET old == Len(hashes)
      f[b \in old .. tokens \div size] ==
        IF b = old THEN [hashes |-> hashes, next |-> IF old > 0 THEN -1 ELSE 1]
        ELSE LET start == (b - 1) * size
                 extra == MmKeys(start, start + size, f[b - 1].next)
             IN [hashes |-> Append(f[b - 1].hashes,
                              [from |-> start, to |-> start + size,
                               extra |-> extra.keys \union PlainKeys(start)]),
                 next |-> extra.next]
  IN f[tokens \div size].hashes

(* BlockHashListWithBlockSize: the hashes at the block size of a group.    *)
View(hashes, size, target) ==
  LET scale == target \div size
  IN [i \in 1 .. Len(hashes) \div scale |-> SubSeq(hashes, 1, i * scale)]

Inputs(prompt) ==
  {s \in UNION {[1 .. n -> [id : {"a", "b"}, offset : 0 .. prompt - 1, length : 1 .. prompt]] :
                n \in 0 .. MaxInputs} :
     \A i \in 1 .. Len(s) :
       End(s[i]) <= prompt /\ (i < Len(s) => End(s[i]) <= s[i + 1].offset)}

(* A request hashes its prompt when it is made.                            *)
HasherInit ==
  /\ hashConf \in [groups : GroupSets, unit : Units, caching : BOOLEAN, aligned : BOOLEAN]
  /\ \E prompt \in 1 .. MaxPrompt : \E mm \in Inputs(prompt) :
       request \in [prompt : {prompt}, mm : {mm}, plain : SUBSET Plain]
  /\ HashBlockSize # 0
  /\ numTokens = request.prompt
  /\ blockHashes = Hashed(<<>>, HashBlockSize, numTokens)

(* A step of the engine accepts some tokens.                               *)
AppendTokens(n) ==
  /\ numTokens + n <= MaxTokens
  /\ numTokens' = numTokens + n
  /\ blockHashes' = blockHashes \o
       SubSeq(Hashed(blockHashes, HashBlockSize, numTokens'), Len(blockHashes) + 1,
              numTokens' \div HashBlockSize)
  /\ UNCHANGED <<hashConf, request>>

HasherNext == \E n \in 1 .. MaxStep : AppendTokens(n)

HasherSpec == HasherInit /\ [][HasherNext]_hashVars

-----------------------------------------------------------------------------
(* Properties. *)

InputsOf(start, end) == {i \in 1 .. Len(Mm) : Mm[i].offset < end /\ start < End(Mm[i])}

(* A block that generated tokens have completed behind a hashed one: the   *)
(* comment there expects it to hold no input but the last.                 *)
LateDouble(h) ==
  h.from > 0 /\ h.to > request.prompt /\ \E i \in InputsOf(h.from, h.to) : i < Len(Mm)

(* A hash fingerprints the prefix of n tokens: its chain covers them in    *)
(* order, names every input at its place in each block that it reaches,    *)
(* and carries the salt and the other keys.                                *)
Fingerprints(chain, n) ==
  /\ \A b \in 1 .. Len(chain) :
       /\ chain[b].from = (IF b = 1 THEN 0 ELSE chain[b - 1].to)
       /\ chain[b].extra = {<<Mm[i].id, Mm[i].offset - chain[b].from>> :
                              i \in InputsOf(chain[b].from, chain[b].to)}
                           \union (request.plain \ (IF b > 1 THEN {<<"salt">>} ELSE {}))
  /\ chain[Len(chain)].to = n

(* "each hash uniquely fingerprints the prefix ending at its boundary",    *)
(* however the tokens arrived, for every group that is looked up in the    *)
(* cache and at its own block size; but not behind a late double block.    *)
PrefixHashed ==
  hashConf.caching /\ hashConf.aligned =>
    \A g \in Hashing :
      LET view == View(blockHashes, HashBlockSize, g.size) IN
      /\ Len(view) = numTokens \div g.size
      /\ \A i \in 1 .. Len(view) :
           (\A b \in 1 .. Len(view[i]) : ~LateDouble(view[i][b])) =>
             Fingerprints(view[i], i * g.size)
====

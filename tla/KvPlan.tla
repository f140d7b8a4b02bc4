---- MODULE KvPlan ----
(***************************************************************************)
(* get_kv_cache_configs of vllm/v1/core/kv_cache_utils.py, on the path of  *)
(* the hybrid GLM model with a DFlash drafter: the groups of layers, the   *)
(* search for the longest context that fits, the admission check, and the  *)
(* tensors of each worker.  A worker is a tensor-parallel rank with all    *)
(* layers, or one of two pipeline stages.  What a group needs for a        *)
(* request of a length is given by its specification, which is not in the  *)
(* repository.                                                             *)
(***************************************************************************)
EXTENDS Integers, FiniteSets, FiniteSetsExt

CONSTANTS
  Layers,             \* the number of target layers, MLA or mamba
  Drafts,             \* the numbers of drafter layers to choose from
  Memories,           \* the amounts of memory of a worker
  Overrides,          \* num_gpu_blocks_override, 0 for None
  MaxLen,             \* the context length of the model
  MlaPage, IdxPage, DraftPage,
  AttnPages, DraftPages,  \* pages of a request by its length
  MambaPages

ASSUME KvSizes ==
  /\ {Layers, MaxLen, MlaPage, IdxPage, DraftPage, MambaPages} \subseteq Nat \ {0}
  /\ Drafts \subseteq Nat /\ Memories \subseteq Nat /\ Overrides \subseteq Nat
  /\ AttnPages \in [1 .. MaxLen -> Nat] /\ DraftPages \in [1 .. MaxLen -> Nat]
  /\ \A m, n \in 1 .. MaxLen : m <= n => AttnPages[m] <= AttnPages[n]

VARIABLES
  kvIn,         \* the configuration: kind of each layer, where the second
                \* stage begins (0: one stage), drafter layers, memory of each
                \* worker, override, and whether the length is to be fitted
  kvPhase,
  kvLen,        \* model_config.max_model_len
  kvAuto,       \* auto_fit_max
  search,       \* the binary search: its worker, left, right and result
  blocks        \* num_blocks of each worker

kvVars == <<kvIn, kvPhase, kvLen, kvAuto, search, blocks>>

Worker == {1, 2}

(* The target layers of a kind on a worker, and all of them.               *)
OfKind(k) == {i \in 1 .. Layers : kvIn.kind[i] = k}
On(w, k) == {i \in OfKind(k) : kvIn.cut = 0 \/ (i <= kvIn.cut <=> w = 1)}

CeilDiv(a, b) == (a + b - 1) \div b
Largest(S) == CHOOSE m \in S : \A n \in S : n <= m

(* Mutant: the layers of the whole model decide.                           *)
GlobalGroups == CeilDiv(Cardinality(OfKind("mamba")), Cardinality(OfKind("mla")))

(* _pp_balanced_mamba_group_count                                          *)
MambaGroups ==
  Largest({CeilDiv(Cardinality(OfKind("mamba")), Cardinality(OfKind("mla")))} \union
          {CeilDiv(Cardinality(On(w, "mamba")), Cardinality(On(w, "mla"))) :
             w \in {v \in Worker : On(v, "mamba") # {}}})

Before(S, i) == Cardinality({j \in S : j < i})
MambaGroup(i) == Before(OfKind("mamba"), i) % MambaGroups

(* The place of a layer in its group, as projected to a worker: the MLA    *)
(* layer of that place and the mamba layer share a tensor.                 *)
Slot(w, i) ==
  Before({j \in On(w, kvIn.kind[i]) :
            kvIn.kind[i] = "mamba" => MambaGroup(j) = MambaGroup(i)}, i)

(* Each tensor of a worker: the layers that share it, and its page.        *)
Tensors(w) ==
  {[page |-> MlaPage,
    by |-> {<<"mla", m>>} \union
           {<<"mamba", i>> : i \in {j \in On(w, "mamba") : Slot(w, j) = Slot(w, m)}}] :
     m \in On(w, "mla")}
  \union {[page |-> IdxPage, by |-> {<<"idx", m>>, <<"tail", m>>}] : m \in On(w, "mla")}
  \union {[page |-> DraftPage, by |-> {<<"draft", d>>}] : d \in 1 .. kvIn.drafts}

(* _harem_draft_bytes_per_block, and the bytes of a block id in all.       *)
DraftBytes == kvIn.drafts * DraftPage
PerBlock(w) == Cardinality(On(w, "mla")) * (MlaPage + IdxPage) + DraftBytes

(* _max_memory_usage_bytes_from_groups: the blocks of the attention group, *)
(* of the mamba groups and of the tail.                                    *)
TargetBlocks(len) == AttnPages[len] + MambaGroups * MambaPages + 1
Needed(w, len) == TargetBlocks(len) * PerBlock(w)

(* available_memory, as an override of the number of blocks changes it.    *)
Available(w) ==
  IF kvIn.override = 0 THEN kvIn.memory[w] ELSE kvIn.override * PerBlock(w)

Fits(w, len) == Needed(w, len) <= Available(w)

(* get_max_concurrency_for_kv_cache_config: the block ids that a request   *)
(* of a length takes from the pool, those of the draft group included.     *)
RequestBlocks(len) ==
  TargetBlocks(len) + (IF kvIn.drafts > 0 THEN DraftPages[len] ELSE 0)

KvConfigs ==
  [kind : [1 .. Layers -> {"mla", "mamba"}], cut : 0 .. Layers - 1, drafts : Drafts,
   memory : [Worker -> Memories], override : Overrides, auto : BOOLEAN]

KvInit ==
  /\ kvIn \in KvConfigs
  /\ OfKind("mla") # {} /\ OfKind("mamba") # {}
  /\ kvIn.cut > 0 => kvIn.drafts = 0
  /\ kvPhase = "group"
  /\ kvLen = MaxLen /\ kvAuto = MaxLen
  /\ search = [worker |-> 1, left |-> 1, right |-> MaxLen, result |-> 0]
  /\ blocks = [w \in Worker |-> 0]

(* A stage with mamba layers needs an MLA layer to share slots with.       *)
Group ==
  /\ kvPhase = "group"
  /\ kvPhase' = IF \E w \in Worker : On(w, "mla") = {} THEN "error"
                ELSE IF kvIn.auto THEN "fit" ELSE "check"
  /\ UNCHANGED <<kvIn, kvLen, kvAuto, search, blocks>>

(* fits(1), before the loop.                                               *)
TryOne ==
  /\ kvPhase = "fit"
  /\ kvLen' = 1
  /\ IF Fits(search.worker, 1)
     THEN /\ kvPhase' = "search"
          /\ search' = [search EXCEPT !.left = 1, !.right = MaxLen, !.result = 1]
     ELSE kvPhase' = "found" /\ search' = [search EXCEPT !.result = 0]
  /\ UNCHANGED <<kvIn, kvAuto, blocks>>

Halve ==
  LET mid == (search.left + search.right) \div 2 IN
  /\ kvPhase = "search" /\ search.left <= search.right
  /\ kvLen' = mid
  /\ search' = IF Fits(search.worker, mid)
               THEN [search EXCEPT !.result = mid, !.left = mid + 1]
               ELSE [search EXCEPT !.right = mid - 1]
  /\ UNCHANGED <<kvIn, kvPhase, kvAuto, blocks>>

SearchEnds ==
  /\ kvPhase = "search" /\ search.left > search.right
  /\ kvPhase' = "found"
  /\ UNCHANGED <<kvIn, kvLen, kvAuto, search, blocks>>

(* Mutant: the last worker decides.                                        *)
FoundByLast ==
  /\ kvPhase = "found"
  /\ kvLen' = MaxLen
  /\ kvAuto' = search.result
  /\ IF search.worker = 1 THEN kvPhase' = "fit" /\ search' = [search EXCEPT !.worker = 2]
                          ELSE kvPhase' = "fitted" /\ UNCHANGED search
  /\ UNCHANGED <<kvIn, blocks>>

(* The finally clause, and the minimum over the workers.                   *)
Found ==
  /\ kvPhase = "found"
  /\ kvLen' = MaxLen
  /\ kvAuto' = IF search.result < kvAuto THEN search.result ELSE kvAuto
  /\ IF search.worker = 1 THEN kvPhase' = "fit" /\ search' = [search EXCEPT !.worker = 2]
                          ELSE kvPhase' = "fitted" /\ UNCHANGED search
  /\ UNCHANGED <<kvIn, blocks>>

Fitted ==
  /\ kvPhase = "fitted"
  /\ IF kvAuto <= 0 THEN kvPhase' = "error" /\ UNCHANGED kvLen
     ELSE /\ kvPhase' = "check"
          /\ kvLen' = IF kvAuto >= kvLen THEN kvLen ELSE kvAuto
  /\ UNCHANGED <<kvIn, kvAuto, search, blocks>>

(* _check_enough_kv_cache_memory for every worker.                         *)
Check ==
  /\ kvPhase = "check"
  /\ kvPhase' = IF \A w \in Worker : Available(w) > 0 /\ Fits(w, kvLen)
                THEN "configure" ELSE "error"
  /\ UNCHANGED <<kvIn, kvLen, kvAuto, search, blocks>>

(* get_kv_cache_config_from_groups for every worker.                       *)
Configure ==
  /\ kvPhase = "configure"
  /\ kvPhase' = "shrink"
  /\ blocks' = [w \in Worker |->
                  IF kvIn.override = 0 THEN Available(w) \div PerBlock(w) ELSE kvIn.override]
  /\ UNCHANGED <<kvIn, kvLen, kvAuto, search>>

(* Every worker gets the number of blocks of the smallest.                 *)
Shrink ==
  /\ kvPhase = "shrink"
  /\ kvPhase' = "done"
  /\ blocks' = [w \in Worker |-> IF blocks[1] <= blocks[2] THEN blocks[1] ELSE blocks[2]]
  /\ UNCHANGED <<kvIn, kvLen, kvAuto, search>>

KvNext ==
  Group \/ TryOne \/ Halve \/ SearchEnds \/ Found \/ Fitted \/ Check \/ Configure \/ Shrink

KvSpec == KvInit /\ [][KvNext]_kvVars

-----------------------------------------------------------------------------
(* Properties. *)

TargetLayers(w) ==
  {<<t, m>> : t \in {"mla", "idx", "tail"}, m \in On(w, "mla")} \union
  {<<"mamba", i>> : i \in On(w, "mamba")}

GroupOf(layer) ==
  CASE layer[1] = "mamba" -> <<"mamba", MambaGroup(layer[2])>>
    [] layer[1] \in {"mla", "idx"} -> <<"attn">>
    [] OTHER -> <<layer[1]>>

(* The bytes of all tensors of a worker.                                   *)
TensorBytes(w) == MapThenSumSet(LAMBDA t : t.page * blocks[w], Tensors(w))

(* "tensor emission and the accounting paths can never disagree": on every *)
(* worker each layer has its tensor, layers that share one are of groups   *)
(* whose block ids are disjoint, the tensors of all blocks fit the memory, *)
(* and the workers agree on the number of blocks; and without a drafter,   *)
(* whose blocks the check forgets, these serve a request of the length.    *)
PlanSound ==
  kvPhase = "done" =>
    /\ blocks[1] = blocks[2] /\ blocks[1] > 0
    /\ \A w \in Worker :
         /\ \A l \in TargetLayers(w) : Cardinality({t \in Tensors(w) : l \in t.by}) = 1
         /\ \A t \in Tensors(w) : \A k, l \in t.by : GroupOf(k) = GroupOf(l) => k = l
         /\ TensorBytes(w) <= Available(w)
         /\ kvIn.drafts = 0 => RequestBlocks(kvLen) <= blocks[w]

(* The fitted length is the longest, up to the model's own, for which the  *)
(* accounting says that every worker has room, and a length that does not  *)
(* fit is never admitted, though the search keeps overwriting the length   *)
(* that the check then reads.                                              *)
FitIsLongest ==
  /\ kvPhase = "check" /\ kvIn.auto =>
       \A len \in 1 .. MaxLen : len <= kvLen <=> \A w \in Worker : Fits(w, len)
  /\ kvPhase = "check" /\ ~kvIn.auto => kvLen = MaxLen
  /\ kvPhase = "configure" => \A w \in Worker : Fits(w, kvLen)

(* "To serve at least one request with the model's max seq len": a plan    *)
(* that was admitted has the block ids that one such request takes.        *)
AdmittedFitsOne ==
  kvPhase = "done" => \A w \in Worker : RequestBlocks(kvLen) <= blocks[w]
====

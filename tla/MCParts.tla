---- MODULE MCParts ----
(***************************************************************************)
(* The components that share no state with one another, checked in one     *)
(* run: the initial state picks one, which takes all the steps, while the  *)
(* others stand in one initial state of theirs.  The states are the sum of *)
(* those of the components and not their product.                          *)
(***************************************************************************)
EXTENDS Fastload, FreeBlockQueue, BlockHasher, Sidecar, LinkSelection,
        MeshFlush, MCKvPlan, MCToolParser

VARIABLE active

PartNames == {"fastload", "queue", "kv", "hasher", "parser", "sidecar", "links", "flush"}

(* Four blocks; groups of one size, of sizes that divide each other as in  *)
(* the hybrid model, and of sizes that do not, with a group that is not    *)
(* hashed.                                                                 *)
MCFirst == <<"b1", "b2", "b3", "b4">>
Grp(n, m, p) == [size |-> n, mamba |-> m, participates |-> p]
MCGroups ==
  {{Grp(2, FALSE, TRUE)},
   {Grp(3, FALSE, TRUE), Grp(6, TRUE, TRUE), Grp(1, FALSE, FALSE)},
   {Grp(4, FALSE, TRUE), Grp(6, TRUE, TRUE), Grp(1, FALSE, FALSE)}}
MCPlain == {<<"salt">>}

(* A buffer of each kind of memory. *)
MCKindOf == [b \in Bufs |-> b]

(* The initial state in which a component stands that has several.         *)
Standing ==
  /\ IF active = "fastload" THEN TRUE
     ELSE build = (CHOOSE b \in Builds : TRUE) /\ man = NoManifest
  /\ IF active = "kv" THEN TRUE
     ELSE kvIn = [kind |-> [i \in 1 .. Layers |-> IF i = 1 THEN "mla" ELSE "mamba"], cut |-> 0,
                  drafts |-> 0, memory |-> [w \in Worker |-> Largest(Memories)],
                  override |-> 0, auto |-> FALSE]
  /\ IF active = "hasher" THEN TRUE
     ELSE /\ hashConf = [groups |-> {Grp(2, FALSE, TRUE)}, unit |-> 0,
                         caching |-> FALSE, aligned |-> FALSE]
          /\ request = [prompt |-> 1, mm |-> <<>>, plain |-> {}]
  /\ IF active = "parser" THEN TRUE ELSE hasTools = TRUE
  /\ IF active = "sidecar" THEN TRUE
     ELSE /\ source = [wm |-> [t \in KeptTensors \union Dropped |-> CHOOSE s \in ShardFiles : TRUE],
                       stray |-> {}]
          /\ target = NoDir
  /\ IF active = "links" THEN TRUE
     ELSE fabric = [nics |-> <<[fast |-> TRUE, reach |-> {1}]>>, addrs |-> 1, cap |-> 0]
  /\ IF active = "flush" THEN TRUE
     ELSE gdr = [ptr_cuda |-> FALSE, dmabuf_enable |-> FALSE, flush_enable |-> FALSE,
                 runtime |-> FALSE, reg_dmabuf |-> FALSE, export |-> FALSE]

PartsInit ==
  /\ active \in PartNames /\ Standing
  /\ Init /\ QueueInit /\ KvInit /\ HasherInit /\ ParserInit /\ SidecarInit /\ LinkInit
  /\ FlushInit

PartsVars ==
  <<active, vars, queueVars, kvVars, hashVars, parserVars, sidecarVars, linkVars, flushVars>>

StandStill(name, v) == active # name => UNCHANGED v

PartsNext ==
  /\ \/ active = "fastload" /\ Next
     \/ active = "queue" /\ QueueNext
     \/ active = "kv" /\ KvNext
     \/ active = "hasher" /\ HasherNext
     \/ active = "parser" /\ ParserNext
     \/ active = "sidecar" /\ SidecarNext
     \/ active = "links" /\ LinkNext
     \/ active = "flush" /\ FlushNext
  /\ StandStill("fastload", vars) /\ StandStill("queue", queueVars)
  /\ StandStill("kv", kvVars) /\ StandStill("hasher", hashVars)
  /\ StandStill("parser", parserVars)
  /\ StandStill("sidecar", sidecarVars) /\ StandStill("links", linkVars)
  /\ StandStill("flush", flushVars)
  /\ UNCHANGED active

PartsSpec == PartsInit /\ [][PartsNext]_PartsVars
====

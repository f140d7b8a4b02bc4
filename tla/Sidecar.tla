---- MODULE Sidecar ----
(***************************************************************************)
(* The target sidecar: tools/sidecar_kur.py hedef builds it once per node  *)
(* from a checkpoint, in a temporary directory that then takes the name of *)
(* the target, and at every dump boot the loader reads it through the      *)
(* index filter of yama-sidecar-dizin.py.  Between two steps of a build it *)
(* may be killed, a person may put files of his own where the target will  *)
(* be, or install another version of the tool; and when no build runs he   *)
(* tidies up and starts it again.  A tensor is its name: the bytes are     *)
(* compared by the build itself.                                           *)
(***************************************************************************)
EXTENDS Naturals, FiniteSets

CONSTANTS
  KeptTensors, Fused, Dead,  \* the tensors of the index: kept, split, dropped
  Stray,              \* a tensor of a shard that the index does not name
  ShardFiles,
  PerFile,            \* tensors of one split file (BOLME_SINIRI)
  MaxBuilds,          \* bound on the builds, each by an edited tool or not
  NoDir               \* what is not there

Parts == {<<f, i>> : f \in Fused, i \in 1 .. 3}
Dropped == Fused \union Dead
TargetTensors == KeptTensors \union Parts

(* A split file is given by the parts in it, which no shard is.            *)
ASSUME SidecarTensors ==
  /\ KeptTensors \cap Fused = {} /\ (KeptTensors \union Fused) \cap Dead = {}
  /\ Stray \notin TargetTensors \union Dropped
  /\ Parts \cap (KeptTensors \union Dropped) = {}
  /\ \A f \in SUBSET Parts : f \notin ShardFiles
  /\ Fused # {} /\ PerFile \in Nat \ {0}
  /\ IsFiniteSet(KeptTensors) /\ IsFiniteSet(Dropped) /\ IsFiniteSet(ShardFiles)
ASSUME NoDirectory ==
  NoDir \notin [splits : SUBSET SUBSET Parts, linked : SUBSET ShardFiles, config : BOOLEAN,
               index : [wm : [TargetTensors -> ShardFiles \union SUBSET Parts],
                        dropped : {Dropped}, tool : Nat], qcfg : BOOLEAN]

VARIABLES
  source,       \* weight_map of the checkpoint, and the shards with a stray tensor
  target,       \* the directory, as far as it is written
  temp,         \* <target>.kuruluyor
  buildStep,        \* the step of the build in progress
  exitCode,     \* how the last build ended
  tool,         \* the version of the builder's file, which arac_sha hashes
  ran,          \* the one that the last build has looked for (hedef_kur)
  nBuilds

sidecarVars == <<source, target, temp, buildStep, exitCode, tool, ran, nBuilds>>

EmptyDir == [splits |-> {}, linked |-> {}, config |-> FALSE, index |-> NoDir, qcfg |-> FALSE]
Foreign == [EmptyDir EXCEPT !.config = TRUE]    \* files that no build has put there

SidecarInit ==
  /\ source \in [wm : [KeptTensors \union Dropped -> ShardFiles], stray : SUBSET ShardFiles]
  /\ target \in {NoDir, EmptyDir} /\ temp = NoDir
  /\ buildStep = "none" /\ exitCode = 0 /\ tool = 1 /\ ran = 1 /\ nBuilds = 0

(* What a file holds: a shard its tensors, a split file its parts.         *)
ShardTensors(s) ==
  {t \in KeptTensors \union Dropped : source.wm[t] = s} \union (IF s \in source.stray THEN {Stray} ELSE {})
TensorsOf(f) == IF f \in ShardFiles THEN ShardTensors(f) ELSE f

Ends(code) ==
  /\ buildStep' = "none" /\ exitCode' = code
  /\ UNCHANGED <<source, target, temp, tool, ran, nBuilds>>

(* hedef_kur up to its first write: a sidecar of this source and tool is   *)
(* only verified, anything else that is there is left alone.               *)
Ours == target # NoDir /\ target.index # NoDir /\ target.index.tool = tool

BuildBegins ==
  /\ buildStep = "none" /\ nBuilds < MaxBuilds
  /\ nBuilds' = nBuilds + 1 /\ ran' = tool
  /\ IF Ours THEN buildStep' = "verify" /\ UNCHANGED <<temp, exitCode>>
     ELSE IF target \notin {NoDir, EmptyDir} \/ temp # NoDir
       THEN exitCode' = 3 /\ UNCHANGED <<buildStep, temp>>
     ELSE buildStep' = "split" /\ temp' = EmptyDir /\ UNCHANGED exitCode
  /\ UNCHANGED <<source, target, tool>>

(* bosalt: a full file of parts, or the last one.                          *)
WritesSplit ==
  LET left == Parts \ UNION temp.splits IN
  /\ buildStep = "split"
  /\ IF left = {} THEN buildStep' = "link" /\ UNCHANGED temp
     ELSE /\ \E f \in SUBSET left :
               /\ Cardinality(f) = IF Cardinality(left) < PerFile THEN Cardinality(left) ELSE PerFile
               /\ temp' = [temp EXCEPT !.splits = @ \union {f}]
          /\ UNCHANGED buildStep
  /\ UNCHANGED <<source, target, exitCode, tool, ran, nBuilds>>

LinksShards ==
  /\ buildStep = "link"
  /\ \E s \in ShardFiles \ temp.linked : temp' = [temp EXCEPT !.linked = @ \union {s}]
  /\ buildStep' = IF temp'.linked = ShardFiles THEN "config" ELSE "link"
  /\ UNCHANGED <<source, target, exitCode, tool, ran, nBuilds>>

WritesConfig ==
  /\ buildStep = "config"
  /\ temp' = [temp EXCEPT !.config = TRUE]
  /\ buildStep' = "index"
  /\ UNCHANGED <<source, target, exitCode, tool, ran, nBuilds>>

(* Mutant: the fused tensors stay in the weight_map.                       *)
IndexKeepsFused ==
  /\ buildStep = "index"
  /\ temp' = [temp EXCEPT !.index =
       [wm |-> [t \in TargetTensors \union Fused |->
                  IF t \in Parts THEN CHOOSE f \in temp.splits : t \in f ELSE source.wm[t]],
        dropped |-> Dropped, tool |-> tool]]
  /\ buildStep' = "qcfg"
  /\ UNCHANGED <<source, target, exitCode, tool, ran, nBuilds>>

(* The weight_map of what is kept and of the parts, the dropped names, and *)
(* the hash that the tool's file has by now.                               *)
WritesIndex ==
  /\ buildStep = "index"
  /\ temp' = [temp EXCEPT !.index =
       [wm |-> [t \in TargetTensors |->
                  IF t \in KeptTensors THEN source.wm[t] ELSE CHOOSE f \in temp.splits : t \in f],
        dropped |-> Dropped, tool |-> tool]]
  /\ buildStep' = "qcfg"
  /\ UNCHANGED <<source, target, exitCode, tool, ran, nBuilds>>

WritesQcfg ==
  /\ buildStep = "qcfg"
  /\ temp' = [temp EXCEPT !.qcfg = TRUE]
  /\ buildStep' = "rmdir"
  /\ UNCHANGED <<source, target, exitCode, tool, ran, nBuilds>>

(* Mutant: whatever is there is removed.                                   *)
RemovesAll ==
  /\ buildStep = "rmdir"
  /\ target' = NoDir
  /\ buildStep' = "replace"
  /\ UNCHANGED <<source, temp, exitCode, tool, ran, nBuilds>>

(* rmdir takes away an empty directory only: it raises, and the build ends *)
(* with its work in the temporary one.  So does the rename.                *)
RemovesEmpty ==
  /\ buildStep = "rmdir"
  /\ \/ /\ target \in {NoDir, EmptyDir}
        /\ target' = NoDir
        /\ buildStep' = "replace"
        /\ UNCHANGED <<source, temp, exitCode, tool, ran, nBuilds>>
     \/ target \notin {NoDir, EmptyDir} /\ Ends(1)

Replaces ==
  /\ buildStep = "replace"
  /\ \/ /\ target \in {NoDir, EmptyDir}
        /\ target' = temp /\ temp' = NoDir
        /\ buildStep' = "verify"
        /\ UNCHANGED <<source, exitCode, tool, ran, nBuilds>>
     \/ target \notin {NoDir, EmptyDir} /\ Ends(1)

Files(dir) == {dir.index.wm[t] : t \in DOMAIN dir.index.wm}

(* dogrula: the index names what the plan drops and keeps, each file is in *)
(* place and has the tensors that the index looks for in it.               *)
Verifies ==
  LET wm == target.index.wm IN
  /\ buildStep = "verify"
  /\ Ends(IF /\ target.index.dropped = Dropped
             /\ \A t \in KeptTensors : t \in DOMAIN wm /\ wm[t] = source.wm[t]
             /\ DOMAIN wm \cap Dropped = {}
             /\ \A f \in Files(target) : f \in target.linked \union target.splits
             /\ \A t \in DOMAIN wm : t \in TensorsOf(wm[t])
             /\ {t \in DOMAIN wm : wm[t] \notin ShardFiles} = Parts
             /\ target.config /\ target.qcfg
          THEN 0 ELSE 4)

BuildKilled == buildStep # "none" /\ Ends(137)

(* A person removes what a killed build has left, or what is at the target. *)
TidiesUp ==
  /\ buildStep = "none"
  /\ \/ temp' = NoDir /\ UNCHANGED target
     \/ target' = NoDir /\ UNCHANGED temp
  /\ UNCHANGED <<source, buildStep, exitCode, tool, ran, nBuilds>>

(* At any time, while a build works as well: he makes the target directory *)
(* or puts files into it, or installs another version of the tool.         *)
FillsTarget ==
  /\ target \in {NoDir, EmptyDir} /\ target' \in {EmptyDir, Foreign}
  /\ UNCHANGED <<source, temp, buildStep, exitCode, tool, ran, nBuilds>>
InstallsTool ==
  /\ tool = 1 /\ tool' = 2
  /\ UNCHANGED <<source, target, temp, buildStep, exitCode, ran, nBuilds>>

SidecarNext ==
  \/ BuildBegins \/ WritesSplit \/ LinksShards \/ WritesConfig \/ WritesIndex \/ WritesQcfg
  \/ RemovesEmpty \/ Replaces \/ Verifies \/ BuildKilled
  \/ TidiesUp \/ FillsTarget \/ InstallsTool

SidecarSpec == SidecarInit /\ [][SidecarNext]_sidecarVars

-----------------------------------------------------------------------------
(* A boot from the sidecar. *)

(* What preflight asks of the directory.                                   *)
PreflightPasses == target # NoDir /\ target.config /\ target.index # NoDir

(* The loader's iterator: every tensor of every file that the index names. *)
Iterated == UNION {TensorsOf(f) : f \in Files(target)}

(* _harem_sidecar_filter: what it passes on, and when it raises.           *)
Yielded == Iterated \cap DOMAIN target.index.wm
FilterRaises ==
  \/ \E t \in Iterated : t \notin DOMAIN target.index.wm \union target.index.dropped
  \/ Cardinality(Iterated \cap target.index.dropped) # Cardinality(target.index.dropped)

-----------------------------------------------------------------------------
(* Properties. *)

(* "the index is AUTHORITATIVE": whatever builds, killed anywhere and      *)
(* repeated, have left, a boot that preflight lets through finds every     *)
(* file it reads, and loads exactly the kept tensors and the parts or is   *)
(* refused; it is refused just when a shard that is read has a stray       *)
(* tensor or one that is not read has a dropped one, which the build's own *)
(* verification does not look at.                                          *)
BootsWhole ==
  PreflightPasses =>
    /\ target.qcfg /\ Files(target) \subseteq target.linked \union target.splits
    /\ ~FilterRaises => Yielded = TargetTensors
    /\ FilterRaises <=>
         \/ \E s \in source.stray : \E t \in KeptTensors : source.wm[t] = s
         \/ \E d \in Dropped : \A t \in KeptTensors : source.wm[t] # source.wm[d]

(* A directory that holds anything is never written to by a build, also   *)
(* when a person fills it while the build works: it stays as it is until a *)
(* person removes it.  And a build that ends well leaves a sidecar of the  *)
(* tool that it has looked for or of the one that was installed meanwhile, *)
(* never an older one's.                                                   *)
NeverOverwritten ==
  [][/\ target \notin {NoDir, EmptyDir} => target' \in {target, NoDir} /\ (target' = NoDir => buildStep = "none")
     /\ buildStep # "none" /\ buildStep' = "none" /\ exitCode' = 0 => ran <= target.index.tool
    ]_sidecarVars
====

---- MODULE Fastload ----
(***************************************************************************)
(* The fast-load sidecar of one rank (harem_fastload.py): a boot in dump   *)
(* mode loads each model from the checkpoint and writes the tensors it     *)
(* holds to shard files, listed in MANIFEST.json; a boot in load mode      *)
(* copies them back.  The target model comes first, then the drafter, and  *)
(* both share the directory and the manifest.  A boot is let in by the     *)
(* launcher, or it is a stopped container that is started again.           *)
(*                                                                         *)
(* A build stands for everything the identity covers (files of the patch   *)
(* directory and of the plugin, checkpoint, image, layout) and also names  *)
(* the tensors a normal load under it gives.  The tensors of one shard     *)
(* file are taken together, as one part.                                   *)
(***************************************************************************)
EXTENDS Integers

CONSTANTS
  Builds,       \* identities (at least two make the checks interesting)
  None,         \* a file that is not there, a model that is not listed
  Torn,         \* a file whose writing was cut short
  Rot,          \* a part whose bytes decayed on the disk
  N,            \* models of a rank, in loading order: target, drafter
  K,            \* shard files of a model
  Sample,       \* the parts HAREM_FASTLOAD_VERIFY re-hashes
  Edits,        \* whether the build may change while a rank boots
  MaxBoots,     \* bound on the boots
  MaxRot        \* bound on the parts that decay

ASSUME FastloadAssumption ==
  /\ N \in Nat \ {0} /\ K \in Nat \ {0}
  /\ Sample \subseteq 1..K
  /\ Builds # {}
  /\ {None, Torn, Rot} \intersect Builds = {}
  /\ None # Torn /\ None # Rot /\ Torn # Rot
  /\ Edits \in BOOLEAN
  /\ MaxBoots \in Nat /\ MaxRot \in Nat

VARIABLES
  build,        \* the build that is on the node now
  shard,        \* what each shard file holds
  man,          \* MANIFEST.json
  durable,      \* the manifest that a power loss cannot take back
  over,         \* the listed models that a dump started again writes over
  pc, mode,     \* the boot: what it does next, HAREM_FASTLOAD_MODE
  container,    \* the mode of the container that is there, stopped or not
  again,        \* whether this boot is a container that was started again
  code,         \* the build whose patches the prelude applied
  tag, part,    \* the model and the shard it is at
  mem,          \* the tensors the rank holds
  boots, rots   \* counters of the two bounds

disk == <<shard, man, durable, over>>
boot == <<pc, mode, container, again, code, tag, part, mem>>
vars == <<build, disk, boot, boots, rots>>

Tags   == 1..N
Shards == 1..K

Manifest == [file : {"none", "torn", "whole"}, id : Builds \union {None},
             of : [Tags -> Builds \union {None}], ledger : SUBSET Tags]

NoManifest   == [file |-> "none", id |-> None, of |-> [t \in Tags |-> None], ledger |-> {}]
TornManifest == [NoManifest EXCEPT !.file = "torn"]

(* Steps of a boot that dumps, of one that restores.                       *)
DumpPCs    == {"save", "saving", "manifest"}
RestorePCs == {"read", "verify"}
Booting    == {"model"} \union DumpPCs \union RestorePCs
PCs        == {"off", "serving", "refused"} \union Booting

TypeOK ==
  /\ build \in Builds
  /\ shard \in [Tags -> [Shards -> Builds \union {None, Torn, Rot}]]
  /\ man \in Manifest /\ durable \in Manifest /\ over \subseteq Tags
  /\ pc \in PCs /\ mode \in {"dump", "load"} /\ code \in Builds
  /\ container \in {"none", "dump", "load"} /\ again \in BOOLEAN
  /\ tag \in Tags /\ part \in Shards
  /\ mem \in [Tags -> [Shards -> Builds \union {None, Rot}]]
  /\ boots \in 0..MaxBoots /\ rots \in 0..MaxRot

Empty == [t \in Tags |-> [k \in Shards |-> None]]

(* A fresh directory, or a sidecar from before the ledger was recorded.    *)
Init ==
  /\ build \in Builds /\ code = build
  /\ \/ /\ shard = Empty
        /\ man = NoManifest
     \/ /\ shard = [t \in Tags |-> [k \in Shards |-> build]]
        /\ man = [file |-> "whole", id |-> build, of |-> [t \in Tags |-> build], ledger |-> {}]
  /\ durable = man /\ over = {}
  /\ pc = "off" /\ mode = "load" /\ container = "none" /\ again = FALSE
  /\ tag = 1 /\ part = 1 /\ mem = Empty
  /\ boots = 0 /\ rots = 0

(***************************************************************************)
(* A boot.                                                                 *)
(***************************************************************************)

(* Mutant: the launcher does not look for a manifest before a dump.        *)
StartAnyway(m) == m = "dump" \/ man.file # "none"

(* Mutant: the preflight takes a manifest for one to be overwritten.       *)
StartsFresh(m) == man.file = "none"

(* The launcher lets a dump start only without a manifest; the preflight   *)
(* lets a load start only with one.                                        *)
MayStart(m) == (m = "dump") <=> (man.file = "none")

Launch(m) ==
  /\ pc = "off" /\ boots < MaxBoots
  /\ boots' = boots + 1
  /\ mode' = m
  /\ IF MayStart(m)
       THEN pc' = "model" /\ code' = build /\ tag' = 1 /\ container' = m /\ again' = FALSE
       ELSE pc' = "refused" /\ UNCHANGED <<code, tag, container, again>>
  /\ UNCHANGED <<build, disk, part, mem, rots>>

(* The container has no restart policy, but docker start boots it again in *)
(* its mode, and nothing looks at the directory first.                     *)
StartAgain ==
  /\ pc = "off" /\ container # "none" /\ boots < MaxBoots
  /\ boots' = boots + 1
  /\ pc' = "model" /\ mode' = container /\ code' = build /\ tag' = 1 /\ again' = TRUE
  /\ UNCHANGED <<build, disk, container, part, mem, rots>>

(* Mutant: the shard counter is not reset between the two models.          *)
LoadKeepsPart ==
  /\ pc = "model" /\ mode = "dump"
  /\ pc' = "save"
  /\ mem' = [mem EXCEPT ![tag] = [k \in Shards |-> code]]
  /\ UNCHANGED <<build, disk, mode, container, again, code, tag, part, boots, rots>>

(* load_weights_hook in dump mode: a normal load under the applied code.   *)
LoadCheckpoint ==
  /\ pc = "model" /\ mode = "dump"
  /\ pc' = "save"
  /\ part' = 1
  /\ mem' = [mem EXCEPT ![tag] = [k \in Shards |-> code]]
  /\ UNCHANGED <<build, disk, mode, container, again, code, tag, boots, rots>>

(* flush: save_file truncates the shard, writes it, and fsync ends it.     *)
SaveBegins ==
  /\ pc = "save"
  /\ pc' = "saving"
  /\ shard' = [shard EXCEPT ![tag][part] = Torn]
  /\ over' = IF again /\ {man.of[tag], durable.of[tag]} # {None} THEN over \union {tag} ELSE over
  /\ UNCHANGED <<build, man, durable, mode, container, again, code, tag, part, mem, boots, rots>>

SaveEnds ==
  /\ pc = "saving"
  /\ shard' = [shard EXCEPT ![tag][part] = mem[tag][part]]
  /\ IF part = K THEN pc' = "manifest" /\ UNCHANGED part
                 ELSE pc' = "save" /\ part' = part + 1
  /\ UNCHANGED <<build, man, durable, over, mode, container, again, code, tag, mem, boots, rots>>

(* Mutant: the drafter's dump forgets the models that were listed.         *)
ForgetsModels == NoManifest

(* The manifest of the directory as _dump takes it: none when it cannot be *)
(* parsed.                                                                 *)
Parsed == IF man.file = "whole" THEN man ELSE NoManifest

(* engine_identity, hashed from the files as they are now.                 *)
Identity == build

(* The manifest with the model that was just saved: the other models stay, *)
(* the identity is computed again.                                         *)
Listing ==
  [file |-> "whole", id |-> Identity, of |-> [Parsed.of EXCEPT ![tag] = mem[tag][1]],
   ledger |-> Parsed.ledger \union {tag}]

(* After a model: the next one, or the rank serves.                        *)
NextModel ==
  IF tag = N THEN pc' = "serving" /\ UNCHANGED tag
             ELSE pc' = "model" /\ tag' = tag + 1

(* Mutant: the identity of the old manifest is not compared.               *)
ListsAnyBuild ==
  /\ pc = "manifest"
  /\ man' = Listing /\ NextModel
  /\ over' = IF durable.of[tag] \in {None, code} THEN over \ {tag} ELSE over
  /\ UNCHANGED <<build, shard, durable, mode, container, again, code, part, mem, boots, rots>>

(* The end of _dump: the models of a directory are of one build; the new   *)
(* manifest replaces the old one at once, and nothing forces it to disk.   *)
(* The model is whole again, by the manifest that survives a power loss    *)
(* too unless that one lists it for another load.                          *)
WriteManifest ==
  /\ pc = "manifest"
  /\ IF Parsed.id \in {None, Identity}
       THEN /\ man' = Listing /\ NextModel
            /\ over' = IF durable.of[tag] \in {None, code} THEN over \ {tag} ELSE over
       ELSE pc' = "refused" /\ UNCHANGED <<man, tag, over>>
  /\ UNCHANGED <<build, shard, durable, mode, container, again, code, part, mem, boots, rots>>

(* Mutant: the identity is not compared.                                   *)
AnyBuild == TRUE

(* What _restore asks of the manifest before it reads a shard.             *)
SameBuild == man.id = Identity
Ledgered  == tag \in man.ledger
Restorable ==
  /\ man.file = "whole"
  /\ SameBuild
  /\ man.of[tag] # None
  /\ Ledgered

Restore ==
  /\ pc = "model" /\ mode = "load"
  /\ pc' = IF Restorable THEN "read" ELSE "refused"
  /\ part' = 1
  /\ UNCHANGED <<build, disk, mode, container, again, code, tag, mem, boots, rots>>

(* One shard is read whole and copied over the tensors of the rank; a file *)
(* that is missing or short raises.                                        *)
Readable(s) == s \notin {None, Torn}

ReadShard ==
  /\ pc = "read"
  /\ IF Readable(shard[tag][part])
       THEN /\ mem' = [mem EXCEPT ![tag][part] = shard[tag][part]]
            /\ IF part = K THEN pc' = "verify" /\ UNCHANGED part
                           ELSE pc' = "read" /\ part' = part + 1
       ELSE pc' = "refused" /\ UNCHANGED <<mem, part>>
  /\ UNCHANGED <<build, disk, mode, container, again, code, tag, boots, rots>>

(* _verify: the sampled tensors have the hashes of the manifest.           *)
Matches == \A k \in Sample : mem[tag][k] = man.of[tag]

Verify ==
  /\ pc = "verify"
  /\ IF Matches THEN NextModel ELSE pc' = "refused" /\ UNCHANGED tag
  /\ UNCHANGED <<build, disk, mode, container, again, code, part, mem, boots, rots>>

(***************************************************************************)
(* What can happen to the rank and to its disk.                            *)
(***************************************************************************)

Off ==
  /\ pc' = "off"
  /\ mem' = Empty
  /\ UNCHANGED <<mode, container, again, code, tag, part>>

(* The container stops, by the operator, the out-of-memory killer, or a    *)
(* crash: its files stay as they are.                                      *)
Stop ==
  /\ pc # "off" /\ Off
  /\ UNCHANGED <<build, disk, boots, rots>>

(* The node loses power: shards were forced to disk, the manifest was not. *)
PowerLoss ==
  /\ man # durable /\ Off
  /\ man' \in {man, durable, TornManifest}
  /\ durable' = man'
  /\ UNCHANGED <<build, shard, over, boots, rots>>

WriteBack ==
  /\ durable # man
  /\ durable' = man
  /\ UNCHANGED <<build, shard, man, over, boot, boots, rots>>

(* The operator takes a new directory: the launcher never overwrites one.  *)
(* The container that is there, if any, belongs to the old one.            *)
NewDirectory ==
  /\ pc \notin Booting
  /\ man # NoManifest
  /\ shard' = Empty /\ man' = NoManifest /\ durable' = NoManifest
  /\ over' = {} /\ container' = "none"
  /\ UNCHANGED <<build, pc, mode, again, code, tag, part, mem, boots, rots>>

(* The patch directory is a live mount: an edit reaches a running boot.    *)
Install ==
  /\ Edits \/ pc \notin Booting
  /\ build' \in Builds \ {build}
  /\ UNCHANGED <<disk, boot, boots, rots>>

Decay ==
  /\ rots < MaxRot
  /\ rots' = rots + 1
  /\ \E t \in Tags, k \in Shards :
       /\ shard[t][k] \in Builds
       /\ shard' = [shard EXCEPT ![t][k] = Rot]
  /\ UNCHANGED <<build, man, durable, over, boot, boots>>

Load == \/ \E m \in {"dump", "load"} : Launch(m)
        \/ StartAgain \/ LoadCheckpoint \/ SaveBegins \/ SaveEnds \/ WriteManifest
        \/ Restore \/ ReadShard \/ Verify

Next == Load \/ Stop \/ PowerLoss \/ WriteBack \/ NewDirectory \/ Install \/ Decay

Spec == Init /\ [][Next]_vars

(***************************************************************************)
(* Properties.                                                             *)
(***************************************************************************)

Good(m) == m.file = "whole"

(* A listed model is on the disk in full: every shard of it holds what the *)
(* manifest says, or decayed since.                                        *)
OnDisk(m, t) == \A k \in Shards : shard[t][k] \in {m.of[t], Rot}
Whole(m) == Good(m) => \A t \in Tags \ over : m.of[t] # None => OnDisk(m, t)

(* Whatever crashes and power losses hit the dumps, and however often a    *)
(* dump is started again, a manifest that can be parsed never lists a      *)
(* model whose shard files are missing, cut short or of another load: the  *)
(* shards are synced before the manifest replaces the old one, and the     *)
(* launcher starts no dump where a manifest is.  The one exception is a    *)
(* listed model that a dump container, started again past the launcher,    *)
(* has begun to write over, until that dump lists it anew.                 *)
SidecarWhole == Whole(man)

(* "a dump boot never overwrites one" (start-tp3-main.sh): there is no     *)
(* such exception.                                                         *)
NeverWrittenOver == Good(man) => \A t \in Tags : man.of[t] # None => OnDisk(man, t)

(* What a manifest lists came from one build, the one it names, whichever  *)
(* builds have dumped into the directory: it holds as long as no build     *)
(* changes under a booting rank.                                           *)
NoDrift == Good(man) => \A t \in Tags : man.of[t] \in {None, man.id}

(* A sidecar of the build of the node, with nothing missing or decayed.    *)
Healthy ==
  /\ Good(man) /\ man.id = build /\ man.ledger = Tags
  /\ \A t \in Tags : man.of[t] = build
  /\ \A t \in Tags, k \in Shards : shard[t][k] = build

(* The refusals of a restore are never false: a rank that finds a healthy  *)
(* sidecar of its own build is not turned away at any of the checks, for   *)
(* the target or for the drafter.                                          *)
NoFalseRefusal ==
  [][pc # "refused" /\ pc' = "refused" /\ mode' = "load" => ~Healthy]_vars

(* A dump boot that gets as far as serving leaves a sidecar that lists     *)
(* every model with its ledger under the build of the node: the next boot  *)
(* in load mode has what it asks for.                                      *)
DumpLeavesSidecar ==
  [][pc # "serving" /\ pc' = "serving" /\ mode = "dump" =>
       /\ Good(man') /\ man'.id = build /\ man'.ledger = Tags
       /\ \A t \in Tags : man'.of[t] = build /\ \A k \in Shards : shard'[t][k] \in {build, Rot}]_vars

(***************************************************************************)
(* The inductive invariant.                                                *)
(***************************************************************************)

(* A manifest that is not whole lists nothing, and the durable one is      *)
(* never there when programs see none.                                     *)
Blank(m) == ~Good(m) => \A t \in Tags : m.of[t] = None

DurableBehind == durable.file # "none" => man.file # "none"

(* A dump that the launcher let in has not listed the model it is at, nor  *)
(* a later one; each has written the shards up to where it is, and listed  *)
(* the models before.                                                      *)
Dumping ==
  /\ pc \in DumpPCs => mode = "dump"
  /\ pc \in RestorePCs => mode = "load"
  /\ mode = "dump" /\ pc \in {"model"} \union DumpPCs =>
      /\ ~again => /\ man.file \in {"none", "whole"}
                   /\ \A t \in tag..N : man.of[t] = None /\ durable.of[t] = None
      /\ \A t \in 1..(tag - 1) : /\ Good(man) /\ man.of[t] = code /\ t \in man.ledger
                                 /\ \A k \in Shards : mem[t][k] = code /\ shard[t][k] \in {code, Rot}
      /\ pc \in DumpPCs => \A k \in Shards : mem[tag][k] = code
      /\ pc \in {"save", "saving"} => \A k \in 1..(part - 1) : shard[tag][k] \in {code, Rot}
      /\ pc = "manifest" => \A k \in Shards : shard[tag][k] \in {code, Rot}
      /\ again /\ (pc \in {"saving", "manifest"} \/ (pc = "save" /\ part > 1)) =>
            {man.of[tag], durable.of[tag]} = {None} \/ tag \in over

(* What the disk holds, even when builds change under a booting rank.      *)
DiskInv ==
  /\ TypeOK
  /\ Whole(man) /\ Whole(durable)
  /\ Blank(man) /\ Blank(durable)
  /\ DurableBehind
  /\ Dumping

(* One manifest is of one build.                                           *)
Uniform(m) == Good(m) => m.id \in Builds /\ \A t \in Tags : m.of[t] \in {None, m.id}

(* A restored part: the tensors of the running code, or decayed ones, but  *)
(* for a model that was written over.                                      *)
Kept(t, k) == t \in over \/ mem[t][k] \in {code, Rot}

(* What was read is on the disk, or decayed since.                         *)
Copied(k) == shard[tag][k] \in {mem[tag][k], Rot}

(* A restore has passed the checks for the model it is at, and every       *)
(* earlier model was re-hashed.                                            *)
Verified(t) == \A k \in Shards : Kept(t, k) /\ (k \in Sample => mem[t][k] = code)

Restoring ==
  mode = "load" /\ pc \in {"model"} \union RestorePCs =>
    /\ \A t \in 1..(tag - 1) : Verified(t)
    /\ pc \in RestorePCs => Good(man) /\ man.of[tag] = code
    /\ pc = "read" => \A k \in 1..(part - 1) : Kept(tag, k) /\ Copied(k)
    /\ pc = "verify" => \A k \in Shards : Kept(tag, k) /\ Copied(k)

Steady ==
  /\ pc \in Booting => build = code
  /\ pc = "serving" => \A t \in Tags, k \in Sample : mem[t][k] = code

(* What a boot relies on while no build changes under it.                  *)
IInv ==
  /\ DiskInv
  /\ Uniform(man) /\ Uniform(durable)
  /\ Restoring
  /\ Steady

(***************************************************************************)
(* A rank that boots with the sidecar does what the abstract loader does:  *)
(* it serves the weights of the code it started with, or it refuses.       *)
(***************************************************************************)

Phase == IF pc \in Booting THEN "booting" ELSE pc
Held  == IF pc = "serving" THEN mem ELSE [t \in Tags |-> <<>>]

Loader == INSTANCE WeightLoader WITH
  Models <- N, Parts <- Shards, phase <- Phase, held <- Held, spoilt <- over

(* The sidecar is no other way to weights than the checkpoint: a boot that *)
(* restores serves what a normal load under its own code would give, part  *)
(* by part, save for parts outside the sample: these may have decayed, or  *)
(* be of another load where a dump was started again over a listed model.  *)
LoaderSpec == Loader!Spec
====

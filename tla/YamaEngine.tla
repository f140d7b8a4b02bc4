---- MODULE YamaEngine ----
(***************************************************************************)
(* The anchored-patch engine (harem_yama.py) and the prelude that runs it: *)
(* a container starts, the prelude applies every patch in order, and vLLM  *)
(* starts when all of them succeeded.  A patch edits files of the vLLM     *)
(* package, some of which other patches edit too, and may add files of its *)
(* own.  By hand, one patch at a time is applied or reverted on a tree     *)
(* that is not serving.                                                    *)
(*                                                                         *)
(* The edits of one patch in one file are written together, so a file is   *)
(* known by the set of patches that are in it, each with the version of    *)
(* its definition.  The texts themselves, the anchors and the compilation  *)
(* check are taken as the definitions promise: two versions of a patch     *)
(* have different texts and the edits of two patches do not overlap.       *)
(***************************************************************************)
EXTENDS Integers, FiniteSets

CONSTANTS
  N,            \* patches, 1..N in the order of the prelude
  Files,        \* the files of the package that patches edit
  Added,        \* the files that patches add
  Edited,       \* the files each patch edits (its Duzen entries)
  Copied,       \* the files each patch adds (its Kopya entries)
  Versions,     \* versions of a definition
  None,         \* an added file that is not there
  Torn,         \* an added file whose writing was cut short
  LiveEdits,    \* whether definitions may change while the prelude runs
  MaxStarts,    \* bound on the starts of the prelude
  MaxHand,      \* bound on the runs by hand
  MaxForeign    \* bound on the changes that the engine does not know

Patches == 1..N

ASSUME YamaAssumption ==
  /\ N \in Nat \ {0}
  /\ Edited \in [Patches -> SUBSET Files] /\ Copied \in [Patches -> SUBSET Added]
  /\ \A f \in Files : \E q \in Patches : f \in Edited[q]
  /\ \A c \in Added : \E q \in Patches : c \in Copied[q]
  /\ \A q, r \in Patches : q # r => Copied[q] \intersect Copied[r] = {}
  /\ {None, Torn} \intersect Versions = {} /\ None # Torn
  /\ LiveEdits \in BOOLEAN
  /\ {MaxStarts, MaxHand, MaxForeign} \subseteq Nat

VARIABLES
  dir,          \* the version of each definition in the patch directory
  in,           \* the edits in each file, as pairs of patch and version
  foreign,      \* the files that were changed in a way no patch knows
  copy,         \* what each added file is: None, Torn, or a version
  pc,           \* idle, prelude, writing, copying, serving, stopped
  hand,         \* whether the engine runs by hand
  mod, cur,     \* the mode and the patch of the run in progress
  def,          \* the version of the patch that this run read
  todo, cdo,    \* files and copies this run has still to write
  starts, hands, changes

tree   == <<in, foreign, copy>>
engine == <<pc, hand, mod, cur, def, todo, cdo>>
counts == <<starts, hands, changes>>
vars   == <<dir, tree, engine, counts>>

Edit    == Patches \X Versions
Running == {"writing", "copying"}
Up      == {"prelude"} \union Running

TypeOK ==
  /\ dir \in [Patches -> Versions]
  /\ in \in [Files -> SUBSET Edit]
  /\ foreign \subseteq Files
  /\ copy \in [Added -> Versions \union {None, Torn}]
  /\ pc \in Up \union {"idle", "serving", "stopped"}
  /\ hand \in BOOLEAN /\ mod \in {"apply", "revert"}
  /\ cur \in 1..(N + 1) /\ def \in Versions
  /\ todo \subseteq Files /\ cdo \subseteq Added
  /\ starts \in 0..MaxStarts /\ hands \in 0..MaxHand /\ changes \in 0..MaxForeign

Pristine ==
  /\ in' = [f \in Files |-> {}]
  /\ copy' = [c \in Added |-> None]

Init ==
  /\ dir \in [Patches -> Versions]
  /\ in = [f \in Files |-> {}] /\ foreign = {} /\ copy = [c \in Added |-> None]
  /\ pc = "idle" /\ hand = FALSE /\ mod = "apply" /\ cur = 1 /\ def = dir[1]
  /\ todo = {} /\ cdo = {}
  /\ starts = 0 /\ hands = 0 /\ changes = 0

(***************************************************************************)
(* One run of the engine: calistir.                                        *)
(***************************************************************************)

(* Taking the known edits of all patches out gives the base text.          *)
Base(f) ==
  /\ f \notin foreign
  /\ \A e \in in[f] : e[2] = dir[e[1]]

(* An added file is absent or is the one of the definition.                *)
Ours(q, c) == copy[c] \in {None, dir[q]}

(* Mutant: the base is not compared, a foreign file is patched.            *)
OursOnly(q) == \A c \in Copied[q] : Ours(q, c)

(* The checks a run makes before it writes anything.                       *)
Consistent(q) ==
  /\ \A f \in Edited[q] : Base(f)
  /\ \A c \in Copied[q] : Ours(q, c)

(* Mutant: a patch whose files are as wanted is taken for done, without a  *)
(* look at the files it adds.                                              *)
LeftFiles(q, m) ==
  /\ todo' = {f \in Edited[q] : (m = "apply") = (<<q, dir[q]>> \notin in[f])}
  /\ cdo'  = {c \in Copied[q] : todo' # {} /\ (m = "apply") = (copy[c] = None)}

(* What is left to write: a part that is already as wanted is skipped.     *)
Left(q, m) ==
  /\ todo' = {f \in Edited[q] : (m = "apply") = (<<q, dir[q]>> \notin in[f])}
  /\ cdo'  = {c \in Copied[q] : (m = "apply") = (copy[c] = None)}

(* A run that refuses ends the prelude, and leaves a hand-run tree as is.  *)
Run(q, m) ==
  /\ mod' = m /\ def' = dir[q] /\ cur' = q
  /\ IF Consistent(q)
       THEN pc' = "writing" /\ Left(q, m)
       ELSE pc' = (IF hand' THEN "idle" ELSE "stopped") /\ UNCHANGED <<todo, cdo>>

(* Mutant: the text is made from the base, without the other patches.      *)
FromBase(f) == IF mod = "apply" THEN {<<cur, def>>} ELSE {}

(* Each file is replaced at once by its text with the edits of the patch.  *)
Rewritten(f) ==
  IF mod = "apply" THEN in[f] \union {<<cur, def>>} ELSE in[f] \ {<<cur, def>>}

WriteFile ==
  /\ pc = "writing"
  /\ \E f \in todo :
       /\ in' = [in EXCEPT ![f] = Rewritten(f)]
       /\ todo' = todo \ {f}
  /\ UNCHANGED <<dir, foreign, copy, pc, hand, mod, cur, def, cdo, counts>>

(* An added file is opened for writing, and holds its text when it closes; *)
(* the text is read from the directory as it is now.                       *)
CopyOpens ==
  /\ pc = "writing" /\ todo = {} /\ mod = "apply"
  /\ \E c \in cdo : copy' = [copy EXCEPT ![c] = Torn]
  /\ pc' = "copying"
  /\ UNCHANGED <<dir, in, foreign, hand, mod, cur, def, todo, cdo, counts>>

CopyCloses ==
  /\ pc = "copying"
  /\ \E c \in cdo :
       /\ copy[c] = Torn
       /\ copy' = [copy EXCEPT ![c] = dir[cur]]
       /\ cdo' = cdo \ {c}
  /\ pc' = "writing"
  /\ UNCHANGED <<dir, in, foreign, hand, mod, cur, def, todo, counts>>

Unlink ==
  /\ pc = "writing" /\ todo = {} /\ mod = "revert"
  /\ \E c \in cdo :
       /\ copy' = [copy EXCEPT ![c] = None]
       /\ cdo' = cdo \ {c}
  /\ UNCHANGED <<dir, in, foreign, pc, hand, mod, cur, def, todo, counts>>

Done == pc = "writing" /\ todo = {} /\ cdo = {}

RunEnds ==
  /\ Done
  /\ IF hand THEN pc' = "idle" /\ UNCHANGED cur
             ELSE pc' = "prelude" /\ cur' = cur + 1
  /\ UNCHANGED <<dir, tree, hand, mod, def, todo, cdo, counts>>

(***************************************************************************)
(* The prelude, and runs by hand.                                          *)
(***************************************************************************)

(* The launcher removes the old container and makes a new one, whose image *)
(* may be another one; docker start would reuse the old container's tree.  *)
Started ==
  /\ pc' = "prelude" /\ hand' = FALSE /\ cur' = 1
  /\ starts < MaxStarts /\ starts' = starts + 1
  /\ UNCHANGED <<dir, mod, def, todo, cdo, hands>>

StartNew ==
  /\ pc \in {"idle", "stopped"} /\ Started /\ Pristine
  /\ \/ foreign' = {} /\ UNCHANGED changes
     \/ /\ changes < MaxForeign /\ changes' = changes + 1
        /\ \E f \in Files : foreign' = {f}

StartAgain ==
  /\ pc \in {"idle", "stopped"} /\ Started
  /\ UNCHANGED <<tree, changes>>

NextPatch ==
  /\ pc = "prelude" /\ cur <= N
  /\ hand' = FALSE
  /\ Run(cur, "apply")
  /\ UNCHANGED <<dir, tree, counts>>

(* Mutant: the last patch of the list is not run.                          *)
OneShort(q) == q > N - 1

(* After the last patch the prelude becomes vLLM.                          *)
Last(q) == q > N

Exec ==
  /\ pc = "prelude" /\ Last(cur)
  /\ pc' = "serving"
  /\ UNCHANGED <<dir, tree, hand, mod, cur, def, todo, cdo, counts>>

ByHand ==
  /\ pc = "idle" /\ hands < MaxHand
  /\ hands' = hands + 1
  /\ hand' = TRUE
  /\ \E q \in Patches, m \in {"apply", "revert"} : Run(q, m)
  /\ UNCHANGED <<dir, tree, starts, changes>>

(***************************************************************************)
(* What happens around them.                                               *)
(***************************************************************************)

(* The container, or the run by hand, ends between two writes or in one:   *)
(* a kill, a later gate of the prelude that refuses, a dry prelude.        *)
Crash ==
  /\ pc \in Up \union {"serving"}
  /\ pc' = "idle"
  /\ UNCHANGED <<dir, tree, hand, mod, cur, def, todo, cdo, counts>>

(* Somebody edits a file of the package.                                   *)
Tamper ==
  /\ pc \in {"idle", "stopped"}
  /\ changes < MaxForeign /\ changes' = changes + 1
  /\ \E f \in Files : foreign' = foreign \union {f}
  /\ UNCHANGED <<dir, in, copy, engine, starts, hands>>

(* A definition in the patch directory, which is mounted live, changes.    *)
EditDefinition ==
  /\ LiveEdits \/ pc \notin Up
  /\ \E q \in Patches, v \in Versions : v # dir[q] /\ dir' = [dir EXCEPT ![q] = v]
  /\ UNCHANGED <<tree, engine, counts>>

Next ==
  \/ StartNew \/ StartAgain \/ NextPatch \/ Exec \/ ByHand
  \/ WriteFile \/ CopyOpens \/ CopyCloses \/ Unlink \/ RunEnds
  \/ Crash \/ Tamper \/ EditDefinition

Spec == Init /\ [][Next]_vars

(***************************************************************************)
(* Properties.                                                             *)
(***************************************************************************)

(* The tree is the pinned base with the edits of all patches, as they are  *)
(* defined now, and nothing else.                                          *)
Patched ==
  /\ foreign = {}
  /\ \A f \in Files : in[f] = {<<q, dir[q]>> : q \in {r \in Patches : f \in Edited[r]}}
  /\ \A q \in Patches : \A c \in Copied[q] : copy[c] = dir[q]

(* vLLM never starts on a half-patched stack: whatever the prelude found   *)
(* (a pristine image or another one, a tree that a crash or a run by hand  *)
(* left, files that somebody edited), the rank stops, or it starts on the  *)
(* base with exactly the edits of all patches.                             *)
ServesPatched == [][pc # "serving" /\ pc' = "serving" => Patched']_vars

(* No part of a patch is in the tree.                                      *)
Absent(q) ==
  /\ \A f \in Edited[q], v \in Versions : <<q, v>> \notin in[f]
  /\ \A c \in Copied[q] : copy[c] = None

(* The edits of a patch in the files it edits.                             *)
Of(q) == [f \in Edited[q] |-> {e \in in[f] : e[1] = q}]

(* A revert that ends leaves no part of its patch, although it shares      *)
(* files with others, and leaves every part of the other patches alone.    *)
RevertsAlone ==
  [][/\ Done /\ pc' = "idle" /\ mod = "revert" => Absent(cur)'
     /\ pc \in Running => \A q \in Patches \ {cur} : Of(q)' = Of(q)]_vars

(***************************************************************************)
(* The inductive invariant.                                                *)
(***************************************************************************)

(* A patch edits its own files, and no patch but it leaves its edits.      *)
Known == \A f \in Files : \A e \in in[f] : f \in Edited[e[1]]

(* A patch that is on: its files are the base and known edits, its own     *)
(* among them, and the files it adds are there.                            *)
On(q) ==
  /\ \A f \in Edited[q] : Base(f) /\ <<q, dir[q]>> \in in[f]
  /\ \A c \in Copied[q] : copy[c] = dir[q]

(* The prelude is past the patches before its cursor, and they stay on.    *)
Progress ==
  /\ pc \in Up /\ ~hand => \A q \in Patches : q < cur => On(q)
  /\ pc = "prelude" => ~hand

(* The run in progress: what it has no longer to write is as wanted.       *)
Halfway ==
  pc \in Running =>
    /\ cur \in Patches /\ def = dir[cur] /\ (~hand => mod = "apply")
    /\ pc = "copying" => mod = "apply"
    /\ todo \subseteq Edited[cur] /\ cdo \subseteq Copied[cur]
    /\ \A f \in Edited[cur] :
         /\ Base(f)
         /\ f \notin todo => ((mod = "apply") <=> (<<cur, def>> \in in[f]))
    /\ \A c \in Copied[cur] \ cdo : copy[c] = (IF mod = "apply" THEN def ELSE None)

(* While definitions stay as they are during a run, a tree a run works on  *)
(* is the base with known edits, some of them still to be made.            *)
IInv == TypeOK /\ Known /\ Progress /\ Halfway

(* A half-applied patch is completed: a run that refuses found a file that *)
(* somebody else changed, or the edits or copies of another version.       *)
Alien(q) ==
  \/ \E f \in Edited[q] : ~Base(f)
  \/ \E c \in Copied[q] : copy[c] \in Versions \ {dir[q]}
HalfCompletes ==
  [][pc = "prelude" /\ pc' = "stopped" => Alien(cur)]_vars
====

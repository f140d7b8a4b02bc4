---- MODULE YamaProofs ----
(***************************************************************************)
(* Proofs about the patch engine and the prelude, for any patches, any     *)
(* files they share, any versions, and any number of starts, runs by hand, *)
(* crashes and foreign edits, as long as no definition changes while a run *)
(* is in progress.                                                         *)
(***************************************************************************)
EXTENDS YamaEngine, TLAPS

USE YamaAssumption DEF Patches

LEMMA Bounds == MaxStarts \in Nat /\ MaxHand \in Nat /\ MaxForeign \in Nat /\ 1 \in Patches
OBVIOUS

LEMMA Start == Init => IInv
<1> SUFFICES ASSUME Init PROVE IInv
  OBVIOUS
<1> USE DEF Init
<1>1. in \in [Files -> SUBSET Edit] /\ copy \in [Added -> Versions \union {None, Torn}]
  OBVIOUS
<1>2. cur \in 1..(N + 1) /\ def \in Versions
  BY Bounds
<1>3. starts \in 0..MaxStarts /\ hands \in 0..MaxHand /\ changes \in 0..MaxForeign
  BY Bounds
<1>4. /\ pc \in Up \union {"idle", "serving", "stopped"} /\ hand \in BOOLEAN
      /\ mod \in {"apply", "revert"} /\ foreign \subseteq Files
      /\ todo \subseteq Files /\ cdo \subseteq Added
  OBVIOUS
<1>5. TypeOK
  BY <1>1, <1>2, <1>3, <1>4 DEF TypeOK
<1> QED BY <1>5 DEF IInv, Known, Progress, Halfway, Up, Running

(* The start of a run settles what the run has to write.                   *)
LEMMA RunTypes ==
  ASSUME TypeOK, NEW q \in Patches, NEW m \in {"apply", "revert"}, hand' \in BOOLEAN,
         Run(q, m)
  PROVE  /\ pc' \in {"writing", "idle", "stopped"} /\ mod' = m /\ def' = dir[q] /\ cur' = q
         /\ todo' \subseteq Files /\ cdo' \subseteq Added
BY DEF Run, Left, TypeOK

LEMMA TypeStep ==
  ASSUME IInv, [Next]_vars
  PROVE  TypeOK'
<1> USE DEF IInv, TypeOK, Up, Running, Edit, tree, engine, counts, vars
<1>1. CASE StartNew \/ StartAgain
  <2>1. pc' \in Up /\ hand' = FALSE /\ cur' = 1 /\ starts' \in 0..MaxStarts
        /\ UNCHANGED <<dir, mod, def, todo, cdo, hands>>
    BY <1>1, Bounds DEF StartNew, StartAgain, Started
  <2>2. in' \in [Files -> SUBSET Edit] /\ copy' \in [Added -> Versions \union {None, Torn}]
    BY <1>1 DEF StartNew, StartAgain, Pristine
  <2>3. foreign' \subseteq Files /\ changes' \in 0..MaxForeign
    BY <1>1, Bounds DEF StartNew, StartAgain
  <2>4. cur' \in 1..(N + 1)
    BY <2>1, Bounds
  <2> QED BY <2>1, <2>2, <2>3, <2>4
<1>2. CASE NextPatch
  <2>1. cur \in Patches
    BY <1>2 DEF NextPatch
  <2> QED BY <1>2, <2>1, RunTypes DEF NextPatch
<1>3. CASE ByHand
  <2>1. PICK q \in Patches, m \in {"apply", "revert"} : Run(q, m)
    BY <1>3 DEF ByHand
  <2> QED BY <1>3, <2>1, RunTypes DEF ByHand
<1>4. CASE Exec
  BY <1>4 DEF Exec
<1>5. CASE WriteFile
  <2>1. <<cur, def>> \in Edit
    BY <1>5 DEF WriteFile, Halfway
  <2>2. \A f \in Files : Rewritten(f) \in SUBSET Edit
    BY <2>1 DEF Rewritten
  <2> QED BY <1>5, <2>2 DEF WriteFile
<1>6. CASE CopyOpens
  BY <1>6 DEF CopyOpens
<1>7. CASE CopyCloses
  <2>1. dir[cur] \in Versions
    BY <1>7 DEF CopyCloses, Halfway
  <2> QED BY <1>7, <2>1 DEF CopyCloses
<1>8. CASE Unlink
  BY <1>8 DEF Unlink
<1>9. CASE RunEnds
  <2>1. cur \in 1..N
    BY <1>9 DEF RunEnds, Done, Halfway
  <2> QED BY <1>9, <2>1 DEF RunEnds
<1>10. CASE Crash \/ UNCHANGED vars
  BY <1>10 DEF Crash
<1>11. CASE Tamper
  <2>1. foreign' \subseteq Files /\ changes' \in 0..MaxForeign
    BY <1>11, Bounds DEF Tamper
  <2> QED BY <1>11, <2>1 DEF Tamper
<1>12. CASE EditDefinition
  BY <1>12 DEF EditDefinition
<1> QED BY <1>1, <1>2, <1>3, <1>4, <1>5, <1>6, <1>7, <1>8, <1>9, <1>10, <1>11, <1>12 DEF Next

(* What a run does to one file: its own edit comes or goes, no other does. *)
LEMMA WrittenFile ==
  ASSUME IInv, WriteFile
  PROVE  \E f \in todo :
           /\ in' = [in EXCEPT ![f] = Rewritten(f)] /\ todo' = todo \ {f}
           /\ f \in Edited[cur] /\ Base(f) /\ cur \in Patches /\ def = dir[cur]
           /\ \A e \in in'[f] \ in[f] : e = <<cur, def>> /\ mod = "apply"
           /\ \A e \in in[f] \ in'[f] : e = <<cur, def>> /\ mod = "revert"
           /\ (mod = "apply") <=> (<<cur, def>> \in in'[f])
<1>1. pc \in Running /\ Edited[cur] \subseteq Files /\ mod \in {"apply", "revert"}
  BY DEF WriteFile, Running, IInv, Halfway, TypeOK
<1>2. PICK f \in todo : in' = [in EXCEPT ![f] = Rewritten(f)] /\ todo' = todo \ {f}
  BY DEF WriteFile
<1>3. f \in Edited[cur] /\ Base(f) /\ cur \in Patches /\ def = dir[cur]
  BY <1>1, <1>2 DEF IInv, Halfway
<1>4. in'[f] = Rewritten(f)
  BY <1>1, <1>2, <1>3 DEF IInv, TypeOK
<1>5. CASE mod = "apply"
  <2>1. in'[f] = in[f] \union {<<cur, def>>}
    BY <1>4, <1>5 DEF Rewritten
  <2> QED BY <1>2, <1>3, <1>5, <2>1
<1>6. CASE mod = "revert"
  <2>1. in'[f] = in[f] \ {<<cur, def>>}
    BY <1>4, <1>6 DEF Rewritten
  <2> QED BY <1>2, <1>3, <1>6, <2>1
<1> QED BY <1>1, <1>5, <1>6

(* A run changes no file it does not write, and leaves written files       *)
(* based on the pinned text.                                               *)
LEMMA WrittenTree ==
  ASSUME IInv, WriteFile
  PROVE  /\ \A f \in Files : Base(f) => Base(f)'
         /\ Known'
         /\ \A q \in Patches : On(q) => On(q)' \/ mod = "revert"
<1>1. PICK f \in todo :
        /\ in' = [in EXCEPT ![f] = Rewritten(f)] /\ todo' = todo \ {f}
        /\ f \in Edited[cur] /\ Base(f) /\ cur \in Patches /\ def = dir[cur]
        /\ \A e \in in'[f] \ in[f] : e = <<cur, def>> /\ mod = "apply"
        /\ \A e \in in[f] \ in'[f] : e = <<cur, def>> /\ mod = "revert"
  BY WrittenFile
<1>2. UNCHANGED <<dir, foreign, copy>> /\ in \in [Files -> SUBSET Edit] /\ mod \in {"apply", "revert"}
  BY DEF WriteFile, IInv, TypeOK
<1>3. \A g \in Files : g # f => in'[g] = in[g]
  BY <1>1, <1>2
<1>4. \A g \in Files : Base(g) => Base(g)'
  BY <1>1, <1>2, <1>3 DEF Base
<1>5. Known'
  BY <1>1, <1>2, <1>3 DEF Known, IInv
<1>6. ASSUME NEW q \in Patches, On(q), mod = "apply" PROVE On(q)'
  <2>1. Edited[q] \subseteq Files
    OBVIOUS
  <2>2. \A g \in Edited[q] : <<q, dir[q]>> \in in'[g]
    BY <1>1, <1>3, <1>6, <2>1 DEF On
  <2> QED BY <1>2, <1>4, <1>6, <2>1, <2>2 DEF On
<1> QED BY <1>2, <1>4, <1>5, <1>6

(* Nothing a run adds or removes is of another patch.                      *)
LEMMA CopyStep ==
  ASSUME IInv, CopyOpens \/ CopyCloses \/ Unlink
  PROVE  \E c \in cdo :
           /\ c \in Copied[cur] /\ cur \in Patches /\ def = dir[cur] /\ c \in Added
           /\ \A d \in Added : d # c => copy'[d] = copy[d]
           /\ CopyOpens => cdo' = cdo
           /\ CopyCloses => cdo' = cdo \ {c} /\ copy'[c] = def
           /\ Unlink => cdo' = cdo \ {c} /\ copy'[c] = None /\ mod = "revert"
<1>1. pc \in Running /\ copy \in [Added -> Versions \union {None, Torn}]
  BY DEF CopyOpens, CopyCloses, Unlink, Running, IInv, TypeOK
<1>2. cdo \subseteq Copied[cur] /\ cur \in Patches /\ def = dir[cur] /\ cdo \subseteq Added
  BY <1>1 DEF IInv, Halfway, TypeOK
<1>3. CASE CopyOpens
  <2>1. PICK c \in cdo : copy' = [copy EXCEPT ![c] = Torn]
    BY <1>3 DEF CopyOpens
  <2> QED BY <1>1, <1>2, <1>3, <2>1 DEF CopyOpens, CopyCloses, Unlink
<1>4. CASE CopyCloses
  <2>1. PICK c \in cdo : copy' = [copy EXCEPT ![c] = dir[cur]] /\ cdo' = cdo \ {c}
    BY <1>4 DEF CopyCloses
  <2> QED BY <1>1, <1>2, <1>4, <2>1 DEF CopyOpens, CopyCloses, Unlink
<1>5. CASE Unlink
  <2>1. PICK c \in cdo : copy' = [copy EXCEPT ![c] = None] /\ cdo' = cdo \ {c}
    BY <1>5 DEF Unlink
  <2> QED BY <1>1, <1>2, <1>5, <2>1 DEF CopyOpens, CopyCloses, Unlink
<1> QED BY <1>3, <1>4, <1>5

LEMMA KnownStep ==
  ASSUME IInv, [Next]_vars
  PROVE  Known'
<1> USE DEF IInv, Known
<1>1. CASE WriteFile
  BY <1>1, WrittenTree
<1>2. CASE StartNew
  BY <1>2 DEF StartNew, Pristine
<1>3. CASE ~WriteFile /\ ~StartNew
  <2>1. UNCHANGED in
    BY <1>3 DEF Next, StartAgain, NextPatch, Exec, ByHand, CopyOpens, CopyCloses, Unlink, RunEnds,
       Crash, Tamper, EditDefinition, tree, vars
  <2> QED BY <2>1
<1> QED BY <1>1, <1>2, <1>3

(* A run that ends with a prelude's patch leaves that patch on.            *)
LEMMA DoneIsOn ==
  ASSUME IInv, Done, mod = "apply"
  PROVE  On(cur)
BY DEF IInv, Halfway, Done, Running, On

LEMMA ProgressStep ==
  ASSUME ~LiveEdits, IInv, [Next]_vars
  PROVE  Progress'
<1> USE DEF IInv, Progress, Up, Running
<1>0. cur \in 1..(N + 1)
  BY DEF TypeOK
<1>1. CASE StartNew \/ StartAgain
  BY <1>1 DEF StartNew, StartAgain, Started
<1>2. CASE NextPatch
  BY <1>2 DEF NextPatch, Run, tree, On, Base
<1>3. CASE ByHand
  BY <1>3 DEF ByHand, Run
<1>4. CASE WriteFile
  BY <1>4, WrittenTree DEF WriteFile, Halfway
<1>5. CASE CopyOpens \/ CopyCloses \/ Unlink
  <2>1. PICK c \in Copied[cur] : \A d \in Added : d # c => copy'[d] = copy[d]
    BY <1>5, CopyStep
  <2>2. pc \in Running /\ pc' \in Running /\ UNCHANGED <<dir, in, foreign, hand, cur>>
    BY <1>5 DEF CopyOpens, CopyCloses, Unlink
  <2>3. ASSUME NEW q \in Patches, q < cur, ~hand PROVE On(q)'
    <3>1. On(q) /\ cur \in Patches /\ c \notin Copied[q]
      BY <2>1, <2>2, <2>3 DEF Halfway
    <3>2. \A d \in Copied[q] : copy'[d] = copy[d]
      BY <2>1, <3>1
    <3> QED BY <2>2, <3>1, <3>2 DEF On, Base
  <2> QED BY <2>2, <2>3
<1>6. CASE RunEnds
  <2>1. UNCHANGED <<dir, tree>>
    BY <1>6 DEF RunEnds
  <2>2. CASE hand
    BY <1>6, <2>2 DEF RunEnds
  <2>3. CASE ~hand
    <3>1. On(cur) /\ cur' = cur + 1 /\ cur \in Patches /\ \A q \in Patches : q < cur => On(q)
      BY <1>6, <2>3, DoneIsOn DEF RunEnds, Done, Halfway
    <3>2. \A q \in Patches : q < cur' => On(q)
      BY <3>1
    <3> QED BY <1>6, <2>1, <2>3, <3>2 DEF RunEnds, tree, On, Base
  <2> QED BY <2>2, <2>3
<1>7. CASE Exec \/ Crash \/ Tamper
  BY <1>7 DEF Exec, Crash, Tamper, engine
<1>8. CASE EditDefinition
  BY <1>8 DEF EditDefinition, engine
<1>9. CASE UNCHANGED vars
  BY <1>9 DEF vars, tree, engine, On, Base
<1> QED BY <1>1, <1>2, <1>3, <1>4, <1>5, <1>6, <1>7, <1>8, <1>9 DEF Next

(* A run that begins has still to write exactly what is not as wanted.     *)
LEMMA RunBegins ==
  ASSUME IInv, NEW q \in Patches, NEW m \in {"apply", "revert"}, Run(q, m), hand' \in BOOLEAN,
         UNCHANGED <<dir, tree>>, ~hand' => m = "apply"
  PROVE  Halfway'
<1>1. CASE ~Consistent(q)
  BY <1>1 DEF Run, Halfway, Running
<1>2. CASE Consistent(q)
  <2>1. /\ cur' = q /\ def' = dir[q] /\ mod' = m /\ pc' = "writing"
        /\ todo' = {f \in Edited[q] : (m = "apply") = (<<q, dir[q]>> \notin in[f])}
        /\ cdo' = {c \in Copied[q] : (m = "apply") = (copy[c] = None)}
    BY <1>2 DEF Run, Left
  <2>2. UNCHANGED <<dir, in, foreign, copy>>
    BY DEF tree
  <2>3. \A f \in Edited[q] : Base(f)'
    BY <1>2, <2>2 DEF Consistent, Base
  <2>4. \A f \in Edited[q] : f \notin todo' => ((m = "apply") <=> (<<q, dir[q]>> \in in[f]))
    BY <2>1
  <2>5. \A c \in Copied[q] \ cdo' : copy[c] = (IF m = "apply" THEN dir[q] ELSE None)
    BY <1>2, <2>1 DEF Consistent, Ours
  <2> QED BY <2>1, <2>2, <2>3, <2>4, <2>5 DEF Halfway
<1> QED BY <1>1, <1>2

LEMMA HalfwayStep ==
  ASSUME ~LiveEdits, IInv, [Next]_vars
  PROVE  Halfway'
<1> USE DEF IInv, Running
<1>1. CASE NextPatch
  <2>1. cur \in Patches
    BY <1>1 DEF NextPatch, TypeOK
  <2> QED BY <1>1, <2>1, RunBegins DEF NextPatch
<1>2. CASE ByHand
  <2>1. PICK q \in Patches, m \in {"apply", "revert"} : Run(q, m)
    BY <1>2 DEF ByHand
  <2> QED BY <1>2, <2>1, RunBegins DEF ByHand
<1>3. CASE WriteFile
  <2>1. PICK f \in todo :
          /\ in' = [in EXCEPT ![f] = Rewritten(f)] /\ todo' = todo \ {f}
          /\ (mod = "apply") <=> (<<cur, def>> \in in'[f])
    BY <1>3, WrittenFile
  <2>2. /\ pc = "writing" /\ UNCHANGED <<dir, copy, pc, hand, mod, cur, def, cdo>>
    BY <1>3 DEF WriteFile
  <2>3. \A g \in Edited[cur] : g \notin todo' => ((mod = "apply") <=> (<<cur, def>> \in in'[g]))
    BY <2>1, <2>2 DEF Halfway, TypeOK
  <2>4. \A g \in Edited[cur] : Base(g)'
    BY <1>3, <2>2, WrittenTree DEF Halfway
  <2> QED BY <2>1, <2>2, <2>3, <2>4 DEF Halfway
<1>4. CASE CopyOpens \/ CopyCloses \/ Unlink
  <2>1. PICK c \in cdo :
          /\ c \in Copied[cur] /\ cur \in Patches /\ def = dir[cur] /\ c \in Added
          /\ \A d \in Added : d # c => copy'[d] = copy[d]
          /\ CopyOpens => cdo' = cdo
          /\ CopyCloses => cdo' = cdo \ {c} /\ copy'[c] = def
          /\ Unlink => cdo' = cdo \ {c} /\ copy'[c] = None /\ mod = "revert"
    BY <1>4, CopyStep
  <2>2. pc \in Running /\ UNCHANGED <<dir, in, foreign, hand, mod, cur, def, todo>>
    BY <1>4 DEF CopyOpens, CopyCloses, Unlink
  <2>3. /\ CopyCloses => mod = "apply"
        /\ pc' = "copying" => mod = "apply"
    BY <1>4 DEF CopyOpens, CopyCloses, Unlink, Halfway
  <2>4. \A d \in Copied[cur] \ cdo' : copy'[d] = (IF mod = "apply" THEN def ELSE None)
    BY <1>4, <2>1, <2>2, <2>3 DEF Halfway
  <2>5. \A f \in Edited[cur] :
          /\ Base(f)'
          /\ f \notin todo' => ((mod' = "apply") <=> (<<cur', def'>> \in in'[f]))
    BY <2>2 DEF Halfway, Base
  <2>6. todo' \subseteq Edited[cur'] /\ cdo' \subseteq Copied[cur'] /\ def' = dir'[cur']
        /\ (~hand' => mod' = "apply")
    BY <1>4, <2>1, <2>2 DEF Halfway
  <2> QED BY <2>1, <2>2, <2>3, <2>4, <2>5, <2>6 DEF Halfway
<1>5. CASE StartNew \/ StartAgain \/ Exec \/ RunEnds \/ Crash
  BY <1>5 DEF StartNew, StartAgain, Started, Exec, RunEnds, Crash, Halfway
<1>6. CASE Tamper \/ EditDefinition
  BY <1>6 DEF Tamper, EditDefinition, engine, Halfway, Up
<1>7. CASE UNCHANGED vars
  BY <1>7 DEF vars, tree, engine, Halfway, Base
<1> QED BY <1>1, <1>2, <1>3, <1>4, <1>5, <1>6, <1>7 DEF Next
LEMMA Inductive ==
  ASSUME ~LiveEdits, IInv, [Next]_vars
  PROVE  IInv'
BY TypeStep, KnownStep, ProgressStep, HalfwayStep DEF IInv

(* While a run works, what it has written is as wanted and what it has not *)
(* is known edits of the pinned base; the patches before it stay on.       *)
THEOREM Invariance ==
  ASSUME ~LiveEdits
  PROVE  Spec => []IInv
<1>1. IInv /\ [Next]_vars => IInv'
  BY Inductive
<1> QED BY <1>1, Start, PTL DEF Spec

(* When every patch is on, the tree is the base and all edits.             *)
LEMMA AllOn ==
  ASSUME TypeOK, Known, \A q \in Patches : On(q)
  PROVE  Patched
<1>1. foreign = {}
  BY DEF On, Base, TypeOK
<1>2. ASSUME NEW f \in Files
      PROVE  in[f] = {<<q, dir[q]>> : q \in {r \in Patches : f \in Edited[r]}}
  <2>1. in[f] \subseteq Edit /\ Base(f)
    BY DEF On, TypeOK
  <2>2. ASSUME NEW e \in in[f]
        PROVE  e \in {<<q, dir[q]>> : q \in {r \in Patches : f \in Edited[r]}}
    <3>1. e[1] \in Patches /\ f \in Edited[e[1]] /\ e = <<e[1], dir[e[1]]>>
      BY <2>1 DEF Edit, Base, Known
    <3> QED BY <3>1
  <2>3. ASSUME NEW q \in Patches, f \in Edited[q] PROVE <<q, dir[q]>> \in in[f]
    BY <2>3 DEF On
  <2> QED BY <2>2, <2>3
<1>3. \A q \in Patches : \A c \in Copied[q] : copy[c] = dir[q]
  BY DEF On
<1> QED BY <1>1, <1>2, <1>3 DEF Patched

LEMMA ExecIsPatched ==
  ASSUME ~LiveEdits, IInv, [Next]_vars, pc # "serving", pc' = "serving"
  PROVE  Patched'
<1>1. Exec
  BY DEF Next, StartNew, StartAgain, Started, NextPatch, ByHand, Run, WriteFile, CopyOpens, CopyCloses,
     Unlink, RunEnds, Crash, Tamper, EditDefinition, engine, vars
<1>2. \A q \in Patches : On(q)
  BY <1>1 DEF Exec, Last, IInv, Progress, Up, TypeOK
<1>3. Patched /\ UNCHANGED <<dir, in, foreign, copy>>
  BY <1>1, <1>2, AllOn DEF Exec, IInv, tree
<1> QED BY <1>3 DEF Patched

(* Whatever tree a start finds, a rank serves on the pinned base with the  *)
(* edits and files of all patches and nothing else, or it does not serve.  *)
THEOREM NeverHalfPatched ==
  ASSUME ~LiveEdits
  PROVE  Spec => ServesPatched
<1>1. IInv /\ [Next]_vars => [pc # "serving" /\ pc' = "serving" => Patched']_vars
  BY ExecIsPatched
<1> QED BY <1>1, Invariance, PTL DEF Spec, ServesPatched

LEMMA OthersStay ==
  ASSUME IInv, [Next]_vars, pc \in Running, NEW q \in Patches, q # cur
  PROVE  Of(q)' = Of(q)
<1>1. CASE WriteFile
  <2>1. PICK f \in todo :
          /\ in' = [in EXCEPT ![f] = Rewritten(f)]
          /\ \A e \in in'[f] \ in[f] : e = <<cur, def>> /\ mod = "apply"
          /\ \A e \in in[f] \ in'[f] : e = <<cur, def>> /\ mod = "revert"
    BY <1>1, WrittenFile
  <2>2. \A g \in Edited[q] : {e \in in'[g] : e[1] = q} = {e \in in[g] : e[1] = q}
    BY <2>1 DEF IInv, TypeOK
  <2> QED BY <2>2 DEF Of
<1>2. CASE ~WriteFile
  <2>1. UNCHANGED in
    BY <1>2 DEF Next, StartNew, StartAgain, NextPatch, Exec, ByHand, CopyOpens, CopyCloses, Unlink,
       RunEnds, Crash, Tamper, EditDefinition, tree, vars, Running
  <2> QED BY <2>1 DEF Of
<1> QED BY <1>1, <1>2

LEMMA RevertIsWhole ==
  ASSUME IInv, [Next]_vars, Done, pc' = "idle", mod = "revert"
  PROVE  Absent(cur)'
<1>1. UNCHANGED <<tree, cur, dir>>
  BY DEF Done, Next, StartNew, StartAgain, Started, NextPatch, Exec, ByHand, WriteFile, CopyOpens,
     CopyCloses, Unlink, RunEnds, Crash, Tamper, EditDefinition, engine, vars
<1>2. cur \in Patches /\ \A c \in Copied[cur] : copy[c] = None
  BY DEF Done, Running, IInv, Halfway
<1>3. ASSUME NEW f \in Edited[cur], NEW v \in Versions PROVE <<cur, v>> \notin in[f]
  <2>1. Base(f) /\ <<cur, dir[cur]>> \notin in[f]
    BY DEF Done, Running, IInv, Halfway
  <2> QED BY <2>1 DEF Base
<1> QED BY <1>1, <1>2, <1>3 DEF Absent, tree

(* Patches that share files come and go independently: a revert takes all  *)
(* of its patch out, and no run touches another patch's edits.             *)
THEOREM Independent ==
  ASSUME ~LiveEdits
  PROVE  Spec => RevertsAlone
<1>1. IInv /\ [Next]_vars =>
        [/\ Done /\ pc' = "idle" /\ mod = "revert" => Absent(cur)'
         /\ pc \in Running => \A q \in Patches \ {cur} : Of(q)' = Of(q)]_vars
  BY RevertIsWhole, OthersStay
<1> QED BY <1>1, Invariance, PTL DEF Spec, RevertsAlone
====

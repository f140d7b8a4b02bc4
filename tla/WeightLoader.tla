---- MODULE WeightLoader ----
(***************************************************************************)
(* What booting an engine rank promises about its weights, whatever the    *)
(* way they are loaded: it refuses, or it serves for every model the       *)
(* tensors a load from the checkpoint gives under the code it started      *)
(* with.  The exceptions are in parts that are never re-hashed: bit rot,   *)
(* and the parts of a model whose stored copy is being written anew.       *)
(***************************************************************************)
EXTENDS Integers

CONSTANTS
  Builds,       \* what decides the weights: code, checkpoint, layout
  Models,       \* how many models a rank loads
  Parts,        \* the parts of a model
  Sample,       \* the parts that a restore re-hashes
  Rot           \* what a part holds after bit rot

VARIABLES
  build,        \* the build that is on the node
  phase,        \* what the rank is doing
  code,         \* the build it was started with
  held,         \* the weights it serves with
  spoilt        \* the models whose stored copy is being written anew

vars == <<build, phase, code, held, spoilt>>

Nothing == [t \in 1..Models |-> <<>>]

(* The weights a rank may serve when it runs the code of build b.          *)
Faithful(h, b) ==
  \A t \in 1..Models, k \in Parts :
    h[t][k] = b \/ (k \notin Sample /\ (h[t][k] = Rot \/ t \in spoilt))

Init ==
  /\ build \in Builds
  /\ code \in Builds
  /\ phase = "off"
  /\ held = Nothing /\ spoilt = {}

(* The operator installs another build while no rank is starting.          *)
Install ==
  /\ phase # "booting"
  /\ build' \in Builds
  /\ UNCHANGED <<phase, code, held, spoilt>>

Start ==
  /\ phase = "off"
  /\ phase' = "booting"
  /\ code' = build
  /\ UNCHANGED <<build, held, spoilt>>

Refuse ==
  /\ phase \in {"off", "booting"}
  /\ phase' = "refused"
  /\ UNCHANGED <<build, code, held, spoilt>>

Serve ==
  /\ phase = "booting"
  /\ phase' = "serving"
  /\ Faithful(held', code)
  /\ spoilt' \subseteq spoilt
  /\ UNCHANGED <<build, code>>

Stop ==
  /\ phase # "off"
  /\ phase' = "off"
  /\ held' = Nothing
  /\ UNCHANGED <<build, code, spoilt>>

(* A rank that starts may write a stored copy anew, and ends it.           *)
Store ==
  /\ phase = "booting"
  /\ spoilt' \in SUBSET (1..Models)
  /\ UNCHANGED <<build, phase, code, held>>

(* The operator takes another place for the stored copies.                 *)
NewPlace ==
  /\ phase # "booting"
  /\ spoilt' = {}
  /\ UNCHANGED <<build, phase, code, held>>

Next == Install \/ Start \/ Refuse \/ Serve \/ Stop \/ Store \/ NewPlace

Spec == Init /\ [][Next]_vars
====

---- MODULE MCYamaEngine ----
EXTENDS YamaEngine

CONSTANTS f1, f2, c1, c2

(* Three patches as in the prelude: the first and the last edit the same   *)
(* file, as the three patches of model.py do, the second edits a file of   *)
(* its own and adds two, as the fast-loading patch does.                   *)
MCEdited == <<{f1}, {f2}, {f1}>>
MCCopied == <<{}, {c1, c2}, {}>>
====

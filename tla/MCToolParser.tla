---- MODULE MCToolParser ----
EXTENDS ToolParser

(* A tool with a required key, and one whose schema says nothing of its    *)
(* keys.                                                                   *)
MCProps == [t \in Tools |-> IF t = "Write" THEN {"path"} ELSE {}]
MCRequired == [t \in Tools |-> IF t = "Write" THEN {"path"} ELSE {}]
====

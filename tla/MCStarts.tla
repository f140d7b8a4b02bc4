---- MODULE MCStarts ----
(***************************************************************************)
(* What a start of the engine goes through on a node, the patch engine,    *)
(* and between the nodes, the kernel caches.  The two share no state: the  *)
(* initial state picks one, which takes all the steps.                     *)
(***************************************************************************)
EXTENDS MCYamaEngine, JitCaches

VARIABLE active

(* Three nodes with two directories and a kernel in each.                  *)
MCNODES == <<"head", "worker-1", "worker-2">>
MCDIRS == <<"triton", "deep_gemm">>
MCDirOf == [k \in {"k1", "k2"} |-> IF k = "k1" THEN "triton" ELSE "deep_gemm"]

StartsInit ==
  /\ active \in {"patches", "kernels"} /\ Init /\ JitInit
  /\ active = "kernels" => \A p \in Patches : dir[p] = CHOOSE v \in Versions : TRUE

StartsNext ==
  /\ \/ active = "patches" /\ Next /\ UNCHANGED jitVars
     \/ active = "kernels" /\ JitNext /\ UNCHANGED vars
  /\ UNCHANGED active

StartsSpec == StartsInit /\ [][StartsNext]_<<active, vars, jitVars>>
====

---- MODULE MCWatchdog ----
EXTENDS Watchdog, TLC

(* The two invocations run the same script and the workers get the same    *)
(* orders.                                                                 *)
Symmetry == Permutations(Peers) \union Permutations(Proc)
====

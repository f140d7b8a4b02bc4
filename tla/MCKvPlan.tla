---- MODULE MCKvPlan ----
EXTENDS KvPlan

(* Two tokens to a page of the target; the drafter has a smaller page and  *)
(* a window of four tokens.                                                *)
MCAttn == [n \in 1 .. MaxLen |-> (n + 1) \div 2]
MCDraft == [n \in 1 .. MaxLen |-> IF n < 4 THEN n ELSE 4]
====

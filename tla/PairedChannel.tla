---- MODULE PairedChannel ----
(***************************************************************************)
(* What a connection of NCCL's net interface promises: the i-th send is    *)
(* delivered into the buffer of the i-th receive, once both exist, and a   *)
(* connection that breaks delivers nothing more.                           *)
(***************************************************************************)
EXTENDS Naturals, Sequences

VARIABLES
  sent,         \* the messages handed over, in order
  wanted,       \* the number of receives posted
  got,          \* the messages delivered, the i-th to the i-th receive
  broken

vars == <<sent, wanted, got, broken>>

Init ==
  /\ sent = <<>>
  /\ wanted = 0
  /\ got = <<>>
  /\ broken = FALSE

Send ==
  /\ Len(sent') = Len(sent) + 1
  /\ sent' = Append(sent, sent'[Len(sent')])
  /\ UNCHANGED <<wanted, got, broken>>

Receive ==
  /\ wanted' = wanted + 1
  /\ UNCHANGED <<sent, got, broken>>

Deliver ==
  /\ ~broken
  /\ Len(got) < Len(sent) /\ Len(got) < wanted
  /\ got' = Append(got, sent[Len(got) + 1])
  /\ UNCHANGED <<sent, wanted, broken>>

Break ==
  /\ broken' = TRUE
  /\ UNCHANGED <<sent, wanted, got>>

Next == Send \/ Receive \/ Deliver \/ Break

Spec == Init /\ [][Next]_vars
====

---- MODULE RebootLimiter ----
(***************************************************************************)
(* What the engine watchdog promises about the reboots it takes, without   *)
(* saying how: a log of the moments at which it took the right to reboot   *)
(* the cluster, spaced by two windows, and a stop that only a person lifts; *)
(* both can go back to an earlier state with the power.                    *)
(***************************************************************************)
EXTENDS Integers, Sequences

CONSTANTS
  W1, Max1,     \* at most Max1 grants in a window of W1 time units
  W2, Max2      \* at most Max2 grants in a window of W2 time units

VARIABLES
  log,          \* the grants, as times, oldest first
  stopped       \* the alarm: no grant until a person lifts it

vars == <<log, stopped>>

(* Any m + 1 successive entries of s cover at least w time units: a window *)
(* of less than w units holds at most m of them.                           *)
Spaced(s, w, m) ==
  \A i, j \in DOMAIN s : j - i >= m => s[j] - s[i] >= w

Init ==
  /\ log = <<>>
  /\ stopped = FALSE

(* One more grant is taken, at the time that becomes the last of the log.  *)
Grant ==
  /\ ~stopped
  /\ Len(log') = Len(log) + 1
  /\ log' = Append(log, log'[Len(log')])
  /\ Spaced(log', W1, Max1)
  /\ Spaced(log', W2, Max2)
  /\ UNCHANGED stopped

Stop ==
  /\ ~stopped
  /\ stopped' = TRUE
  /\ UNCHANGED log

Resume ==
  /\ stopped
  /\ stopped' = FALSE
  /\ UNCHANGED log

(* A loss of power takes the youngest grants, and may undo a stop or the    *)
(* end of one.                                                             *)
Forget ==
  /\ \E n \in 0 .. Len(log) : log' = SubSeq(log, 1, n)
  /\ stopped' \in BOOLEAN

Next == Grant \/ Stop \/ Resume \/ Forget

Spec == Init /\ [][Next]_vars
====

SPECIFICATION Spec
CONSTANTS
  Proc = {timer}
  Timer = {timer}
  Peers = {w1, w2}
  Rank0 = head
  Free = free
  Modes = {"real"}
  FailNeeded = 2
  BootGrace = 1
  ContGrace = 1
  W1 = 2
  Max1 = 1
  W2 = 4
  Max2 = 2
  BusyMax = 3
  Exemption = TRUE
  Stallable = {}
  MaxTime = 4
  MaxFaults = 0
INVARIANT AllOrNone
CHECK_DEADLOCK FALSE

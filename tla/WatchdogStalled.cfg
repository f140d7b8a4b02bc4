SPECIFICATION FairSpec
CONSTANTS
  Proc = {timer}
  Timer = {timer}
  Peers = {w1}
  Rank0 = head
  Free = free
  Modes = {"real"}
  FailNeeded = 1
  BootGrace = 1
  ContGrace = 1
  W1 = 2
  Max1 = 1
  W2 = 4
  Max2 = 2
  BusyMax = 3
  Exemption = TRUE
  Stallable = {"docker"}
  MaxTime = 2
  MaxFaults = 0
PROPERTY HangMeansReboot
CHECK_DEADLOCK FALSE

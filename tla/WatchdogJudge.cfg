SPECIFICATION FairSpec
CONSTANTS
  Proc = {timer, person}
  Timer = {timer}
  Peers = {w1}
  Rank0 = head
  Free = free
  Modes = {"real", "dry"}
  FailNeeded = 2
  BootGrace = 1
  ContGrace = 1
  W1 = 2
  Max1 = 1
  W2 = 2
  Max2 = 2
  BusyMax = 2
  Exemption = TRUE
  Stallable = {"docker", "ssh"}
  MaxTime = 1
  MaxFaults = 0
INVARIANTS
  MaskBounded
  WorkersFirst
PROPERTIES
  ConsecutiveFailures
  AlarmStops
  HangIsHandled
CHECK_DEADLOCK FALSE

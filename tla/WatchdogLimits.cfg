SPECIFICATION Spec
CONSTANTS
  Proc = {timer, person}
  Timer = {}
  Peers = {w1}
  Rank0 = head
  Free = free
  Modes = {"real"}
  FailNeeded = 1
  BootGrace = 1
  ContGrace = 0
  W1 = 1
  Max1 = 1
  W2 = 3
  Max2 = 2
  BusyMax = 2
  Exemption = FALSE
  Stallable = {}
  MaxTime = 4
  MaxFaults = 1
SYMMETRY Symmetry
INVARIANTS
  IInv
  StampedOrders
  RateLimit
PROPERTIES
  LimiterSpec
CHECK_DEADLOCK FALSE

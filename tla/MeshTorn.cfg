SPECIFICATION Spec
CONSTANTS
  Depth = 2
  MaxReq = 2
  Sizes = {1, 2}
  Strict = TRUE
  Ascending = FALSE
  Fatal = FALSE
  MaxMsgs = 3
  MaxFaults = 0
INVARIANT
  TornRetried
CHECK_DEADLOCK FALSE

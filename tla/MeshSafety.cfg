SPECIFICATION FairSpec
CONSTANTS
  Depth = 2
  MaxReq = 2
  Sizes = {1, 2}
  Strict = TRUE
  Ascending = TRUE
  Fatal = FALSE
  MaxMsgs = 3
  MaxFaults = 1
INVARIANTS
  IInv
  WritesMeetRecvs
  NeverOverrun
  WritesFit
  Paired
PROPERTIES
  ChannelSpec
  ParkedProgress
CHECK_DEADLOCK FALSE

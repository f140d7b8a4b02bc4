SPECIFICATION StartsSpec
CONSTANTS
  f1 = f1
  f2 = f2
  c1 = c1
  c2 = c2
  N = 3
  Files = {f1, f2}
  Added = {c1, c2}
  Edited <- MCEdited
  Copied <- MCCopied
  Versions = {v1, v2}
  None = None
  Torn = Torn
  LiveEdits = FALSE
  MaxStarts = 3
  MaxHand = 2
  MaxForeign = 1
  NODES <- MCNODES
  DIRS <- MCDIRS
  Launched = {"triton"}
  DirOf <- MCDirOf
  KernelSizes = {1, 2}
  NoFile = NoFile
  NoAnswer = NoAnswer
  GateTries = 2
  MaxCompiles = 2
  MaxSyncs = 2
  MaxFailures = 1
INVARIANTS
  IInv
  IdenticalIsTrue
PROPERTIES
  ServesPatched
  RevertsAlone
  MeetEqual
  KernelsKept
CHECK_DEADLOCK FALSE

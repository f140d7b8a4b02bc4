SPECIFICATION Spec
CONSTANTS
  f1 = f1
  f2 = f2
  c1 = c1
  c2 = c2
  N = 3
  Files = {f1, f2}
  Added = {c1, c2}
  Edited <- MCEdited
  Copied <- MCCopied
  Versions = {v1, v2}
  None = None
  Torn = Torn
  LiveEdits = FALSE
  MaxStarts = 3
  MaxHand = 2
  MaxForeign = 1
PROPERTIES
  HalfCompletes
CHECK_DEADLOCK FALSE

SPECIFICATION Spec
CONSTANTS
  Builds = {b1, b2}
  None = None
  Torn = Torn
  Rot = Rot
  N = 2
  K = 2
  Sample = {2}
  Edits = FALSE
  MaxBoots = 4
  MaxRot = 1
INVARIANT NeverWrittenOver
CHECK_DEADLOCK FALSE

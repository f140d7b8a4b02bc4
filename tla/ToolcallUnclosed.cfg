SPECIFICATION ParserSpec
CONSTANTS
  Tools = {"Write", "Read"}
  Props <- MCProps
  Required <- MCRequired
  Invented = "Invented"
  Garbage = "Garbage"
  NoName = ""
  HasTools = {TRUE, FALSE}
  HAREM_GLM47_REQUIRED = TRUE
  MaxItems = 3
INVARIANT UnclosedRejected
CHECK_DEADLOCK FALSE

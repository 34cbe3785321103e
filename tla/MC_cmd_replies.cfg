CONSTANTS
  p1 = p1
  p2 = p2
  Procs <- TwoProcs
  Ops <- SplitOps
  MaxCalls = 4
  Disciplined = TRUE
  Faults = {"lost"}
CHECK_DEADLOCK FALSE
SPECIFICATION Spec
INVARIANTS
  TypeOK
  NoStaleAnswer
  NoStaleTimeout
PROPERTIES
  OwnReply

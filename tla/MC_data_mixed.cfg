CONSTANTS
  MaxSize = 2
  Sizes = {1, 2}
  MaxFrames = 1
  MaxConfigs = 2
  MaxInfos = 1
  Orderly = FALSE
  Empties = TRUE
  Stops = TRUE
  Faults = {}
SPECIFICATION Spec
INVARIANTS
  TailInRange

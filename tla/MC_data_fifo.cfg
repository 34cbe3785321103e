CONSTANTS
  MaxSize = 4
  Sizes = {2, 4}
  MaxFrames = 5
  MaxConfigs = 2
  MaxInfos = 2
  Orderly = TRUE
  Empties = FALSE
  Stops = FALSE
  Faults = {"busy", "lost"}
SPECIFICATION FairSpec
INVARIANTS
  RingOrder
PROPERTIES
  ImplementsFifo
  CardUnblocked
  FramesDelivered

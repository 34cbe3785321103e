CONSTANTS
  Asks = {1, 2}
  MaxWaits = 2
  Stores = 2
  MaxGos = 2
SPECIFICATION FairSpec
INVARIANTS
  OwnFrames
  CompleteHasAll
  FewMissed
PROPERTIES
  LoopEnds
CHECK_DEADLOCK FALSE

CONSTANTS
  BlockSize = 12
  MaxBlocks = 4
  MemSize = 30
  Align = 2
  DefaultSize = 6
  DataSizes = {0, 4, 7, 12, 13}
  Configurers = {1, 2}
  MaxConfigs = 2
  SendFails = TRUE
SPECIFICATION Spec
CHECK_DEADLOCK FALSE
INVARIANTS
  SearchEnds
  FramesApart
  SamePlace

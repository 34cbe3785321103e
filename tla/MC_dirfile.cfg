CONSTANTS
  CardSets = {{0}, {3}, {0, 1}, {0, 2}, {1, 2, 3}}
  MaxRows = 2
  MaxCols = 2
  Header = 0
  Intervals = {1, 2, 5}
  MaxFrames = 8
CHECK_DEADLOCK FALSE
SPECIFICATION DirSpec
INVARIANTS
  RoomForSample
  OwnSamples
  FramesCut

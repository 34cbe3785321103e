CONSTANTS
  Sizes = {1, 2, 3}
  MaxFrames = 4
  MaxFaulty = 3
  MaxConfigs = 3
  Faults = {"fail", "torn", "empty", "stop", "parts", "overlap"}
SPECIFICATION FairSpec
PROPERTIES
  FramesAccounted
  GrantsArrive
CHECK_DEADLOCK FALSE

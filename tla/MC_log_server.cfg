SPECIFICATION FairSpec
CONSTANTS
  Clients = {1, 2, 3}
  MaxClients = 2
  MaxMsg = 3
  Lengths = {2, 4}
  MaxLines = 1
  Faults = {"cut"}
INVARIANTS NothingLost OwnLines
PROPERTY AllReceived
CHECK_DEADLOCK FALSE

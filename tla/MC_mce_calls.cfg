SPECIFICATION Spec
CONSTANTS
  Procs = {p1}
  Params = {"both", "banked", "flipped", "virtual"}
  Desc <- Descs
  Calls <- AllCalls
  Split = 2
  Activate = 4
  DataMax = 5
  MaxAttempts = 1
  Size = 4
  MaxCalls = 2
INVARIANTS
  WriteExact
  ReadExact
  CardsInOrder
CHECK_DEADLOCK FALSE

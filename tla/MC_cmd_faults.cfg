CONSTANTS
  p1 = p1
  p2 = p2
  Procs <- TwoProcs
  Ops <- FaultOps
  MaxCalls = 2
  Disciplined = FALSE
  Faults = {"late", "slow", "torn"}
CHECK_DEADLOCK FALSE
SPECIFICATION FairSpec
INVARIANTS
  TimerGuardsChannel
  NoMissedWakeup
PROPERTIES
  NothingStuck

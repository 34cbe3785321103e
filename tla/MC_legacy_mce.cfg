SPECIFICATION FairSpec
CONSTANTS
  Users = {u1, u2}
  None = none
  MaxWrites = 1
  MaxWaits = 2
  Together = 1
  Faults = {"slow", "mute", "dead", "nak", "refuse", "close", "overlap"}
INVARIANTS ReservedOnlyWaiting OwnReply NoMissedWakeup RequestKept
PROPERTY CommandEnds
CHECK_DEADLOCK FALSE

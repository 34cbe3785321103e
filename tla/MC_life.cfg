SPECIFICATION LifeSpec
CONSTANTS
  Files = {f1, f2}
  NoFile = NoFile
INVARIANTS
  UsersCovered
  NothingLeft
  LockKept

SPECIFICATION FairSpec
CONSTANTS
  Members = {m1, m2}
  Builds = {"bare", "pooled"}
  Kinds = {"information", "WARN", "other"}
  ChanSize = 2
  MaxRecords = 3
  MaxFaults = 1
INVARIANTS
  PassedIsPrintedOrLost
  LevelInOrder
PROPERTIES
  CatchesUpUnlessBlocked
  RestartsUnlessBlocked
CHECK_DEADLOCK FALSE

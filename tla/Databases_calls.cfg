SPECIFICATION FairSpec
CONSTANTS
  None = None
  Dbs = {d1, d2}
  Calls = {c1, c2}
  MaxCrashes = 1
CONSTRAINT Scenarios
INVARIANTS DataIsKept RollbackIsComplete
PROPERTIES NothingComesBack CancelIsHeard CallsReturn
CHECK_DEADLOCK FALSE

SPECIFICATION FairSpec
CONSTANTS
  None = None
  Partial = Partial
  Deleted = Deleted
  Worlds = {w1, w2}
  DefaultWorld = w1
  Parts = {"main"}
  Keep = 1
  MaxVersion = 1
  MaxBackups = 3
  MaxDeletes = 1
  MaxTime = 3
CONSTRAINT Operations
INVARIANTS AutosaveComesBack RestoreRunsAlone PlayedWorldIsSafe ListedAreComplete
PROPERTIES NewestIsKept OperationReturns
CHECK_DEADLOCK FALSE

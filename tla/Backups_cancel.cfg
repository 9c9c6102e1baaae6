SPECIFICATION Spec
CONSTANTS
  None = None
  Partial = Partial
  Deleted = Deleted
  Worlds = {w1}
  DefaultWorld = w1
  Parts = {"main"}
  Keep = 1
  MaxVersion = 1
  MaxBackups = 2
  MaxDeletes = 0
  MaxTime = 1
INVARIANTS CancelledRestoreKeepsData
CHECK_DEADLOCK FALSE

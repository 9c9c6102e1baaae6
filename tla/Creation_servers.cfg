SPECIFICATION FairSpec
CONSTANTS
  None = None
  User = User
  Tasks = {t1, t2}
  Names = {n1, n2}
  Folders = {d1}
  FolderOf <- OneFolder
  Files = {f1, f2}
  MaxCrashes = 1
CONSTRAINT Scenarios
INVARIANTS RegisteredIsWhole PackIsVerified OneQuickServer LeavesNothing
PROPERTIES NothingIsOverwritten TaskEnds
CHECK_DEADLOCK FALSE

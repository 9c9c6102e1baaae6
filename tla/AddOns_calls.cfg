SPECIFICATION Spec
CONSTANTS
  None = None
  User = User
  Jars = {j1, j2}
  Projects = {p1, p2}
  Calls = {c1, c2}
  MaxCrashes = 1
CONSTRAINT Scenarios
INVARIANTS OneCopy RowIsOfJar
PROPERTIES JavaKeepsItsJars RowsFollowJars
CHECK_DEADLOCK FALSE

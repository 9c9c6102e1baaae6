SPECIFICATION FairSpec
CONSTANTS
  None = None
  Servers = {s1, s2}
  Ephemeral = {s2}
  Ports = {p1}
  Clients = {c1, c2}
  MaxSessions = 2
  MaxCommands = 2
  MaxTimers = 1
  MaxEdits = 0
  MaxQuits = 0
  MaxDbFailures = 1
  MaxLaunches = 0
CONSTRAINT Progress
PROPERTIES ServerLifeSpec ExitIsNoticed LocksAreReleased
CHECK_DEADLOCK FALSE

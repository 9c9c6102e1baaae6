SPECIFICATION Spec
CONSTANTS
  None = None
  Servers = {s1}
  Ephemeral = {}
  Ports = {p1}
  Clients = {c1}
  MaxSessions = 2
  MaxCommands = 3
  MaxTimers = 1
  MaxEdits = 1
  MaxQuits = 1
  MaxDbFailures = 1
  MaxLaunches = 1
CONSTRAINT Scenarios
INVARIANTS OneJavaPerServer FatalLineKillsOwnSession LogsHaveServer EntriesAreWatched
PROPERTIES QuitWaitsForServers
CHECK_DEADLOCK FALSE

SPECIFICATION FairSpec
CONSTANTS
  None = None
  Conns = {c1, c2, c3}
  Devices = {d1, d2}
  Servers = {s1, s2}
  Tokens = {t1}
  Names = {foo, bar}
  MaxCrashes = 1
CONSTRAINT Overlaps
INVARIANTS OneServerPerInstallation ReservationsPersisted
PROPERTIES SlotIsFreed
CHECK_DEADLOCK FALSE

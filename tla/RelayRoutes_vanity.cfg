SPECIFICATION Spec
CONSTANTS
  None = None
  Conns = {c1, c2, c3}
  Devices = {d1, d2}
  Servers = {s1}
  Tokens = {t1}
  Names = {foo, bar}
  MaxCrashes = 0
SYMMETRY Symmetry
INVARIANTS VanityReachesItsOwner
CHECK_DEADLOCK FALSE

SPECIFICATION FairSpec
CONSTANTS
  None = None
  Players = {p1, p2}
  Sessions = {s1, s2}
  Dials = {1, 2, 3}
  Max = 1
CONSTRAINT InOrder
INVARIANTS TunnelIsOwn NothingIsLeft
PROPERTIES SlotsSpec SlotIsReturned
CHECK_DEADLOCK FALSE

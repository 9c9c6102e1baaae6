SPECIFICATION Spec
CONSTANTS
  None = None
  Unused = Unused
  Devices = {d1, d2}
  Codes = {k1, k2, k3}
  Calls = {a, b}
  MaxRequests = 4
  MaxRevokes = 1
  MaxLaunches = 2
SYMMETRY Symmetry
INVARIANTS ReceiptsAreHonoured RetrySucceeds NoKeyIsWasted
PROPERTIES RedemptionSpec
CHECK_DEADLOCK FALSE

SPECIFICATION RefillSpec
CONSTANTS
  p1 = p1
  p2 = p2
  p3 = p3
  TERM = TERM
  INT = INT
  StopSignals = {}
  Pids = {p1, p2}
  Workers = 2
  RequestTimeout = 1
  StartupWindow = 1
  DrainGrace = 1
  BackoffBase = 1
  BackoffCap = 3
  MaxShift = 2
PROPERTIES
  PoolRefills
  HoldOnlyExpires

SPECIFICATION ServingSpec
CONSTANTS
  p1 = p1
  p2 = p2
  TERM = TERM
  INT = INT
  probe = p1
  MaxBody = 0
  StopSignals = {TERM}
  Pids = {p1}
  Workers = 1
  RequestTimeout = 1
  StartupWindow = 1
  DrainGrace = 1
  BackoffBase = 1
  BackoffCap = 1
  MaxShift = 1
INVARIANT
  OrderlyExitServed
PROPERTY
  NotCutBeforeDeadline

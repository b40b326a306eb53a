SPECIFICATION FairSpec
CONSTANTS
  p1 = p1
  p2 = p2
  p3 = p3
  TERM = TERM
  INT = INT
  StopSignals = {TERM, INT}
  Pids = {p1, p2}
  Workers = 1
  RequestTimeout = 2
  StartupWindow = 1
  DrainGrace = 1
  BackoffBase = 1
  BackoffCap = 1
  MaxShift = 1
PROPERTIES
  StopCompletes
  TimeoutEnforced
  OrphansVanish
  PromiseKept

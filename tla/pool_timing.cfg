SPECIFICATION Spec
CONSTANTS
  p1 = p1
  p2 = p2
  p3 = p3
  TERM = TERM
  INT = INT
  StopSignals = {TERM, INT}
  Pids = {p1, p2}
  Workers = 1
  RequestTimeout = 3
  StartupWindow = 2
  DrainGrace = 2
  BackoffBase = 1
  BackoffCap = 5
  MaxShift = 3
SYMMETRY Symmetry
INVARIANTS
  PoolTypeOK
  KillJustified
  WaitingIsFresh
  RecordsAreTrue

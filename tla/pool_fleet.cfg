SPECIFICATION Spec
CONSTANTS
  p1 = p1
  p2 = p2
  p3 = p3
  TERM = TERM
  INT = INT
  StopSignals = {TERM}
  Pids = {p1, p2, p3}
  Workers = 2
  RequestTimeout = 1
  StartupWindow = 1
  DrainGrace = 1
  BackoffBase = 1
  BackoffCap = 1
  MaxShift = 1
SYMMETRY Symmetry
INVARIANTS
  ChildrenTracked
  PoolBounded
  DrainReachesAll
  NoOrphanServes
PROPERTIES
  PromiseSafety

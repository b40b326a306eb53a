SPECIFICATION FairSpec
CONSTANTS
  MaxBody = 2
INVARIANTS
  TypeOK
  EndOnEveryPath
  ShutdownIffStarted
PROPERTIES
  FinishedIsOver
  DeathIsReported
  ResponsePromise
  ResponseKept

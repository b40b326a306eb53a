SPECIFICATION FairSpec
CONSTANTS
  Managers = {m1, m2}
  Inodes = {i1, i2}
  Port = Port
  None = None
INVARIANTS
  TypeOK
  ServedRestricted
  ShutdownComesLast
PROPERTIES
  OnlyOwnerUnlinks
  CloseUnlinks
  StopIsKept

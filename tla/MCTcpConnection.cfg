SPECIFICATION Spec
CONSTANTS
  MaxBytes = 6
  Lens = {1, 2, 3}
  SockBuf = 2
INVARIANTS
  TypeOK
  IntactUnlessRefused
  ShutBehindData
PROPERTY
  ShutdownCompletes
CHECK_DEADLOCK FALSE

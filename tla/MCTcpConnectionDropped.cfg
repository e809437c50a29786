SPECIFICATION Spec
CONSTANTS
  MaxBytes = 6
  Lens = {1, 2, 3}
  SockBuf = 2
INVARIANT
  NothingDropped
CHECK_DEADLOCK FALSE

SPECIFICATION Spec
CONSTANTS
  Threads = {t1}
  MaxLines = 2
  Lens = {1}
  BufSize = 3
  FlushEveryN = 1
  Null = Null
INVARIANT FatalLineWritten
CHECK_DEADLOCK FALSE

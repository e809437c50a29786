\* Buffers for one or two lines; three buffers may have to be written at once.
\* The process may end: log_fatal() aborts it.
CONSTANTS
  Threads = {t1, t2}
  MaxLines = 3
  Lens = {1, 2}
  BufSize = 3
  FlushEveryN = 1
  Null = Null
SPECIFICATION Spec
INVARIANTS
  TypeOK
  PoolBalanced
  FullBufferWakes
  NoLineLost
  NothingUnflushed
PROPERTIES
  ImplementsJournal
  EveryLineReachesFile
  FatalTerminates
CHECK_DEADLOCK FALSE

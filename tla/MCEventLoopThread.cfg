\* The program may stop: the pool is gone, pthread_create() failed, or the
\* process has been aborted.
CONSTANT
  ThreadNums = 3
SPECIFICATION Spec
INVARIANTS
  TypeOK
  AssertionsHold
  UsableUntilQuit
  ThreadOutlived
PROPERTIES
  PoolStarts
  DestructorReturns
CHECK_DEADLOCK FALSE

\* One loop, two other threads.  A loop that has stopped may do nothing more.
CONSTANTS
  Threads = {t1, t2}
  Functors = {f1, f2, f3, f4}
SPECIFICATION Spec
INVARIANTS
  TypeOK
  NoLostWakeup
  NoSleepAfterQuit
PROPERTIES
  ImplementsTaskQueue
  EveryFunctorRuns
  QuitStops
CHECK_DEADLOCK FALSE

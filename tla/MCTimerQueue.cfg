\* Two timers of 1 or 2 ms, two readings per ms, a tick every 3 readings,
\* the clock set once.
SPECIFICATION Spec
CONSTANTS
  Intervals = {1, 2}
  PerMs = 2
  Tick = 3
  MaxTimers = 2
  MaxSets = 1
  Horizon = 3
  MaxUp = 13
PROPERTIES
  RunsOnTime
  ImplementsAlarms
  EveryTimerLeaves
CHECK_DEADLOCK FALSE

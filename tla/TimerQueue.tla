------------------------------ MODULE TimerQueue ------------------------------
(***************************************************************************)
(* The TimerQueue of one loop: the heap Timers_, the timerfd that ticks at *)
(* a fixed rate, and the wall clock in which timers expire.                *)
(*                                                                         *)
(* Both run in steps of one reading of gettimeofday(); PerMs readings fall *)
(* into a millisecond, which is all that expiredTime_ keeps of them.  The  *)
(* timerfd follows CLOCK_MONOTONIC, so it does not notice when somebody    *)
(* sets the wall clock.                                                    *)
(*                                                                         *)
(* The heap is a priority queue of the library: of the timers in it one    *)
(* that expires first is on top, any of them when there are several.       *)
(***************************************************************************)
EXTENDS Integers, Sequences

CONSTANTS
  Intervals,             \* the intervals of timers, in ms (8000 in the code)
  PerMs,                 \* readings of the clock per ms (1000 in the code)
  Tick,                  \* TIMERINTERVAL, in readings
  MaxTimers,             \* bound: timers
  MaxSets,               \* bound: how often the wall clock is set
  Horizon,               \* bound: timers are added and the clock is set
                         \* before this time, and never to a later one
  MaxUp                  \* bound: the time passes up to here

ASSUME ConstantsOK ==
  /\ PerMs \in Nat \ {0} /\ Tick \in Nat \ {0}
  /\ Intervals \subseteq Nat
  /\ MaxTimers \in Nat /\ MaxSets \in Nat /\ Horizon \in Nat /\ MaxUp \in Nat

VARIABLES
  up,                    \* the time since the start, CLOCK_MONOTONIC
  wall,                  \* what gettimeofday() says
  sets,                  \* how often the wall clock has been set
  ticked,                \* timefd_ has something to read
  timers,                \* all the timers ever made: expiredTime_, and of
                         \* their making the interval, the time and sets
  heap,                  \* Timers_
  active,                \* the timers with active_
  pc,                    \* "in" the loop of handleRead(), or "out" of it
  read,                  \* its curTime, and the time and sets when it was read
  ran                    \* the timers whose callback has run, oldest first

clockVars == <<up, wall, sets>>
queueVars == <<timers, heap, active>>
vars == <<clockVars, ticked, queueVars, pc, read, ran>>

\* The milliseconds of a reading: tv_sec * 1000 + tv_usec / 1000.
Ms(time) == time \div PerMs

\* Out of handleRead() there is no curTime.
Unread == [ms |-> 0, up |-> 0, sets |-> 0]

Init ==
  /\ up = 0
  /\ wall = 0
  /\ sets = 0
  /\ ticked = FALSE
  /\ timers = <<>>
  /\ heap = {}
  /\ active = {}
  /\ pc = "out"
  /\ read = Unread
  /\ ran = <<>>

------------------------------------------------------------------------------
(* The pieces that are easiest to get wrong, each after a variant with a   *)
(* mistake one could make in it (Bug_...), which no action uses.           *)

\* Timerlarger makes of the library's heap, whose top is the largest, one
\* whose top expires first.
Bug_LatestOnTop(t) == \A u \in heap : timers[u].expired <= timers[t].expired
OnTop(t) == \A u \in heap : timers[t].expired <= timers[u].expired

\* get_expiredTime() < curTime: its millisecond must be over.
Bug_InItsMs(t) == timers[t].expired <= read.ms
Expired(t) == timers[t].expired < read.ms

\* start_timerfd() sets it_value and it_interval: the timerfd expires every
\* TIMERINTERVAL, not only the first time.
Bug_OneShot(time) == time = Tick
TimerfdExpires(time) == time % Tick = 0

------------------------------------------------------------------------------
(* The clocks (external).                                                  *)

\* Time passes.
Pass ==
  /\ up < MaxUp
  /\ up' = up + 1
  /\ wall' = wall + 1
  /\ ticked' = (ticked \/ TimerfdExpires(up'))
  /\ UNCHANGED <<sets, queueVars, pc, read, ran>>

\* Somebody sets the wall clock.
SetClock(time) ==
  /\ sets < MaxSets
  /\ up < Horizon
  /\ wall' = time
  /\ sets' = sets + 1
  /\ UNCHANGED <<up, ticked, queueVars, pc, read, ran>>

------------------------------------------------------------------------------
(* The queue.  Its loop is the only thread that uses it.                   *)

\* addTimer(), in the loop of the queue, so that addTimerInLoop() is at once.
AddTimer(interval) ==
  LET t == Len(timers) + 1 IN
  /\ pc = "out"
  /\ t <= MaxTimers
  /\ up < Horizon
  /\ timers' = Append(timers, [expired |-> Ms(wall) + interval,
                               interval |-> interval,
                               up |-> up, sets |-> sets])
  /\ heap' = heap \cup {t}
  /\ active' = active \cup {t}
  /\ UNCHANGED <<clockVars, ticked, pc, read, ran>>

\* disabled(), through a weak_ptr that reaches the timer only in the heap.
Disable(t) ==
  /\ pc = "out"
  /\ t \in heap \cap active
  /\ active' = active \ {t}
  /\ UNCHANGED <<clockVars, ticked, timers, heap, pc, read, ran>>

\* handleRead() up to its loop.
BeginRead ==
  /\ pc = "out"
  /\ ticked
  /\ ticked' = FALSE
  /\ pc' = "in"
  /\ read' = [ms |-> Ms(wall), up |-> up, sets |-> sets]
  /\ UNCHANGED <<clockVars, queueVars, ran>>

\* The top of the heap has been disabled.
DropTimer(t) ==
  /\ pc = "in"
  /\ OnTop(t)
  /\ t \notin active
  /\ heap' = heap \ {t}
  /\ UNCHANGED <<clockVars, ticked, timers, active, pc, read, ran>>

\* The top of the heap has expired: run() and pop().
RunTimer(t) ==
  /\ pc = "in"
  /\ OnTop(t)
  /\ t \in active
  /\ Expired(t)
  /\ ran' = Append(ran, t)
  /\ heap' = heap \ {t}
  /\ UNCHANGED <<clockVars, ticked, timers, active, pc, read>>

\* The heap is empty, or its top is to wait.
EndRead ==
  /\ pc = "in"
  /\ \/ heap = {}
     \/ \E t \in heap : OnTop(t) /\ t \in active /\ ~Expired(t)
  /\ pc' = "out"
  /\ read' = Unread
  /\ UNCHANGED <<clockVars, ticked, queueVars, ran>>

HandleRead ==
  \/ BeginRead
  \/ \E t \in heap : DropTimer(t) \/ RunTimer(t)
  \/ EndRead

------------------------------------------------------------------------------
Next ==
  \/ Pass
  \/ \E time \in 0 .. Horizon : SetClock(time)
  \/ \E interval \in Intervals : AddTimer(interval)
  \/ \E t \in heap : Disable(t)
  \/ HandleRead

\* Time passes, and the loop handles its timerfd.
Fairness == WF_vars(Pass) /\ WF_vars(HandleRead)

Spec == Init /\ [][Next]_vars /\ Fairness

------------------------------------------------------------------------------
Readings == [ms : Int, up : Nat, sets : Nat]
Made == [expired : Int, interval : Intervals, up : Nat, sets : Nat]

TypeOK ==
  /\ up \in Nat /\ wall \in Nat /\ sets \in Nat
  /\ ticked \in BOOLEAN
  /\ timers \in Seq(Made)
  /\ heap \subseteq DOMAIN timers /\ active \subseteq DOMAIN timers
  /\ pc \in {"in", "out"}
  /\ read \in Readings
  /\ ran \in Seq(DOMAIN timers)

\* The clock has not been set between the making of t and the reading by
\* which handleRead() judges it.
Undisturbed(t) == timers[t].sets = read.sets
Age(t) == read.up - timers[t].up

\* A timer runs on time, unless the clock was set: not before its interval
\* is over, and in the first pass of handleRead() that reads the clock a
\* millisecond or more later, whatever else is in the heap.
RunsOnTime ==
  [][ \A t \in heap : Undisturbed(t) =>
        /\ RunTimer(t) => Age(t) >= PerMs * timers[t].interval
        /\ EndRead /\ t \in active =>
             Age(t) < PerMs * (timers[t].interval + 1) ]_vars

\* Deadlines are times of the wall clock, in ms.
Times == {Ms(time) + i : time \in 0 .. MaxUp + Horizon, i \in Intervals}
ExpiredTimes == [t \in DOMAIN timers |-> timers[t].expired]

A == INSTANCE Alarms WITH
       Deadlines <- Times,
       deadline <- ExpiredTimes,
       armed <- heap \cap active,
       rang <- ran

\* The queue implements the alarms: a disabled timer never runs, any other
\* runs at most once, and they run in the order of expiredTime_, with
\* disabled ones among them and the clock set in between.
ImplementsAlarms == A!Spec

\* Every timer leaves the heap, and with it the reference to its connection:
\* a disabled one is not held for ever by those before it, and a clock that
\* is set back only delays it.
EveryTimerLeaves ==
  \A t \in 1 .. MaxTimers : (t \in heap) ~> (t \notin heap)
==============================================================================

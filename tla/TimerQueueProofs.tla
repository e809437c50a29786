-------------------------- MODULE TimerQueueProofs ---------------------------
(***************************************************************************)
(* Proofs about TimerQueue, for any intervals, ticks and bounds: its       *)
(* types, that it implements the alarms however often the clock is set,    *)
(* and that timers run on time while nobody sets it.                       *)
(***************************************************************************)
EXTENDS TimerQueue, SequenceTheorems, TLAPS

------------------------------------------------------------------------------
(* The types.                                                              *)

\* However it has been set, the wall clock is behind the latest time to which
\* it may be set plus the time that has passed: expiredTime_ is among the
\* deadlines one may ask for.
ClockInv == TypeOK /\ up <= MaxUp /\ wall <= up + Horizon

\* The types and this hold at the start.
LEMMA InitTypes == Init => ClockInv
<1> SUFFICES ASSUME Init
             PROVE  ClockInv
    OBVIOUS
<1>1. /\ timers = <<>> /\ ran = <<>> /\ read = [ms |-> 0, up |-> 0, sets |-> 0]
      /\ up = 0 /\ wall = 0 /\ sets = 0 /\ ticked = FALSE
      /\ heap = {} /\ active = {} /\ pc = "out"
    BY DEF Init, Unread
<1>2. timers \in Seq(Made) /\ ran \in Seq(DOMAIN timers)
    BY <1>1, EmptySeq
<1>3. read \in Readings
    BY <1>1 DEF Readings
<1>4. up \in Nat /\ wall \in Nat /\ sets \in Nat /\ ticked \in BOOLEAN
    BY <1>1
<1>5. heap \subseteq DOMAIN timers /\ active \subseteq DOMAIN timers
    BY <1>1
<1>6. TypeOK
    BY <1>1, <1>2, <1>3, <1>4, <1>5 DEF TypeOK
<1> QED
    BY <1>1, <1>6, ConstantsOK DEF ClockInv

\* The milliseconds of a reading are a number.
LEMMA MsType ==
  ASSUME NEW time \in Nat
  PROVE  Ms(time) \in Int
  BY ConstantsOK DEF Ms

\* A timer that is added is one, and has the next number.
LEMMA AddTypes ==
  ASSUME TypeOK, NEW interval \in Intervals, AddTimer(interval)
  PROVE  /\ timers' \in Seq(Made)
         /\ DOMAIN timers' = DOMAIN timers \cup {Len(timers) + 1}
         /\ Len(timers) + 1 \notin DOMAIN timers
<1> DEFINE timer == [expired |-> Ms(wall) + interval, interval |-> interval,
                     up |-> up, sets |-> sets]
<1>1. timers \in Seq(Made) /\ up \in Nat /\ wall \in Nat /\ sets \in Nat
    BY DEF TypeOK
<1>2. timer \in Made
    BY <1>1, MsType, ConstantsOK DEF Made
<1>3. timers' = Append(timers, timer)
    BY DEF AddTimer
<1> HIDE DEF timer
<1>4. /\ timers' \in Seq(Made)
      /\ Len(timers') = Len(timers) + 1
    BY <1>1, <1>2, <1>3, AppendProperties
<1>5. /\ Len(timers) \in Nat
      /\ DOMAIN timers = 1 .. Len(timers)
      /\ DOMAIN timers' = 1 .. Len(timers')
    BY <1>1, <1>4, LenProperties
<1> QED
    BY <1>4, <1>5

\* Every step preserves the types.
LEMMA TypeStep == TypeOK /\ [Next]_vars => TypeOK'
<1> SUFFICES ASSUME TypeOK, [Next]_vars
             PROVE  TypeOK'
    OBVIOUS
<1> USE DEF TypeOK
<1>1. CASE Pass
    BY <1>1 DEF Pass, queueVars, TimerfdExpires
<1>2. ASSUME NEW time \in 0 .. Horizon, SetClock(time)
      PROVE  TypeOK'
    BY <1>2, ConstantsOK DEF SetClock, queueVars
<1>3. ASSUME NEW interval \in Intervals, AddTimer(interval)
      PROVE  TypeOK'
  <2>1. /\ timers' \in Seq(Made)
        /\ heap' \subseteq DOMAIN timers' /\ active' \subseteq DOMAIN timers'
        /\ DOMAIN timers \subseteq DOMAIN timers'
      BY <1>3, AddTypes DEF AddTimer
  <2>2. ran' \in Seq(DOMAIN timers')
    <3>1. \A i \in 1 .. Len(ran) : ran[i] \in DOMAIN timers'
        BY <2>1, ElementOfSeq
    <3>2. ran = [i \in 1 .. Len(ran) |-> ran[i]] /\ Len(ran) \in Nat
        BY SeqDef, LenProperties
    <3>3. ran \in Seq(DOMAIN timers')
        BY <3>1, <3>2, IsASeq
    <3> QED
        BY <1>3, <3>3 DEF AddTimer
  <2> QED
      BY <1>3, <2>1, <2>2 DEF AddTimer, clockVars
<1>4. ASSUME NEW t \in heap, Disable(t)
      PROVE  TypeOK'
    BY <1>4 DEF Disable, clockVars
<1>5. CASE BeginRead
    BY <1>5, MsType DEF BeginRead, Readings, clockVars, queueVars
<1>6. ASSUME NEW t \in heap, DropTimer(t)
      PROVE  TypeOK'
    BY <1>6 DEF DropTimer, clockVars
<1>7. ASSUME NEW t \in heap, RunTimer(t)
      PROVE  TypeOK'
  <2>1. ran' \in Seq(DOMAIN timers')
      BY <1>7, AppendProperties DEF RunTimer
  <2> QED
      BY <1>7, <2>1 DEF RunTimer, clockVars
<1>8. CASE EndRead
    BY <1>8 DEF EndRead, Unread, Readings, clockVars, queueVars
<1>9. CASE UNCHANGED vars
    BY <1>9 DEF vars, clockVars, queueVars
<1> QED
    BY <1>1, <1>2, <1>3, <1>4, <1>5, <1>6, <1>7, <1>8, <1>9
    DEF Next, HandleRead

\* TypeOK holds in every reachable state: in particular the heap and the
\* active timers are timers that were made.
THEOREM TypeCorrect == Spec => []TypeOK
<1>1. Init => TypeOK
    BY InitTypes DEF ClockInv
<1> QED
    BY <1>1, TypeStep, PTL DEF Spec

------------------------------------------------------------------------------
(* The queue implements the alarms.                                        *)

\* Every step keeps it so.
LEMMA ClockInvariant == Spec => []ClockInv
<1>1. Init => ClockInv
    BY InitTypes
<1>2. ClockInv /\ [Next]_vars => ClockInv'
  <2> SUFFICES ASSUME ClockInv, [Next]_vars
               PROVE  (up <= MaxUp /\ wall <= up + Horizon)'
      BY TypeStep DEF ClockInv
  <2>1. up \in Nat /\ wall \in Nat /\ up <= MaxUp /\ wall <= up + Horizon
      BY DEF ClockInv, TypeOK
  <2>2. CASE Pass
      BY <2>1, <2>2, ConstantsOK DEF Pass
  <2>3. ASSUME NEW time \in 0 .. Horizon, SetClock(time)
        PROVE  (up <= MaxUp /\ wall <= up + Horizon)'
      BY <2>1, <2>3, ConstantsOK DEF SetClock
  <2>4. CASE UNCHANGED clockVars
      BY <2>1, <2>4 DEF clockVars
  <2> QED
      BY <2>2, <2>3, <2>4
      DEF Next, HandleRead, AddTimer, Disable, BeginRead, DropTimer, RunTimer,
          EndRead, vars
<1> QED
    BY <1>1, <1>2, PTL DEF Spec

\* The deadlines of the alarms are the expiredTime_ of the timers.
DeadlineOf(ts) == [t \in DOMAIN ts |-> ts[t].expired]

\* Another timer is another deadline.
LEMMA DeadlineOfAppend ==
  ASSUME NEW ts \in Seq(Made), NEW timer \in Made
  PROVE  /\ DeadlineOf(Append(ts, timer))
              = Append(DeadlineOf(ts), timer.expired)
         /\ Len(DeadlineOf(ts)) = Len(ts)
<1>1. /\ Len(ts) \in Nat /\ DOMAIN ts = 1 .. Len(ts)
      /\ \A t \in DOMAIN ts : ts[t].expired \in Int
  <2>1. Len(ts) \in Nat /\ DOMAIN ts = 1 .. Len(ts)
      BY LenProperties
  <2>2. ASSUME NEW t \in DOMAIN ts
        PROVE  ts[t].expired \in Int
    <3>1. ts[t] \in Made
        BY <2>1, ElementOfSeq
    <3> QED
        BY <3>1 DEF Made
  <2> QED
      BY <2>1, <2>2
<1>2. /\ DeadlineOf(ts) \in Seq(Int)
      /\ DeadlineOf(ts) = [t \in 1 .. Len(ts) |-> ts[t].expired]
    BY <1>1, IsASeq DEF DeadlineOf
<1>3. Len(DeadlineOf(ts)) = Len(ts)
    BY <1>1, <1>2, LenProperties
<1>4. timer.expired \in Int
    BY DEF Made
<1>5. /\ Append(ts, timer) \in Seq(Made)
      /\ Len(Append(ts, timer)) = Len(ts) + 1
      /\ DOMAIN Append(ts, timer) = 1 .. Len(ts) + 1
      /\ \A t \in 1 .. Len(ts) : Append(ts, timer)[t] = ts[t]
      /\ Append(ts, timer)[Len(ts) + 1] = timer
    BY <1>1, AppendProperties, LenProperties
<1>6. /\ Append(DeadlineOf(ts), timer.expired) \in Seq(Int)
      /\ Len(Append(DeadlineOf(ts), timer.expired)) = Len(ts) + 1
      /\ \A t \in 1 .. Len(ts) :
           Append(DeadlineOf(ts), timer.expired)[t] = ts[t].expired
      /\ Append(DeadlineOf(ts), timer.expired)[Len(ts) + 1] = timer.expired
    BY <1>1, <1>2, <1>3, <1>4, AppendProperties
<1>7. /\ DeadlineOf(Append(ts, timer))
           = [t \in 1 .. Len(ts) + 1 |-> Append(ts, timer)[t].expired]
      /\ \A t \in 1 .. Len(ts) + 1 : Append(ts, timer)[t].expired \in Int
    BY <1>1, <1>4, <1>5 DEF DeadlineOf
<1>8. /\ DeadlineOf(Append(ts, timer)) \in Seq(Int)
      /\ Len(DeadlineOf(Append(ts, timer))) = Len(ts) + 1
    BY <1>1, <1>7, IsASeq, LenProperties
<1>9. \A t \in 1 .. Len(ts) + 1 :
        DeadlineOf(Append(ts, timer))[t]
          = Append(DeadlineOf(ts), timer.expired)[t]
    BY <1>1, <1>5, <1>6, <1>7
<1>10. DeadlineOf(Append(ts, timer)) = Append(DeadlineOf(ts), timer.expired)
    BY <1>6, <1>8, <1>9, SeqEqual
<1> QED
    BY <1>3, <1>10

\* Every step of the queue is a step of the alarms or leaves them alone.
LEMMA StepSimulation == ClockInv /\ [Next]_vars => [A!Next]_(A!vars)
<1> SUFFICES ASSUME ClockInv, [Next]_vars
             PROVE  A!Next \/ UNCHANGED A!vars
    OBVIOUS
<1> DEFINE armed == heap \cap active
<1>0. /\ TypeOK
      /\ timers \in Seq(Made) /\ heap \subseteq DOMAIN timers
      /\ up \in Nat /\ wall \in Nat /\ up <= MaxUp /\ wall <= up + Horizon
    BY DEF ClockInv, TypeOK
<1>1. CASE \/ Pass \/ BeginRead \/ EndRead
           \/ \E time \in 0 .. Horizon : SetClock(time)
           \/ UNCHANGED vars
    BY <1>1 DEF Pass, SetClock, BeginRead, EndRead, vars, queueVars, A!vars,
                ExpiredTimes
<1>2. ASSUME NEW interval \in Intervals, AddTimer(interval)
      PROVE  A!Next
  <2> DEFINE timer == [expired |-> Ms(wall) + interval, interval |-> interval,
                       up |-> up, sets |-> sets]
  <2>1. timer \in Made
      BY <1>0, MsType, ConstantsOK DEF Made, TypeOK
  <2>2. timers' = Append(timers, timer)
      BY <1>2 DEF AddTimer
  <2>3. timer.expired \in Times
    <3>1. wall \in 0 .. MaxUp + Horizon
        BY <1>0, ConstantsOK
    <3> QED
        BY <3>1 DEF Times
  <2> HIDE DEF timer
  <2>4. /\ ExpiredTimes' = Append(ExpiredTimes, timer.expired)
        /\ Len(ExpiredTimes) = Len(timers)
    <3>1. ExpiredTimes = DeadlineOf(timers) /\ ExpiredTimes' = DeadlineOf(timers')
        BY DEF ExpiredTimes, DeadlineOf
    <3> QED
        BY <1>0, <2>1, <2>2, <3>1, DeadlineOfAppend
  <2>5. armed' = armed \cup {Len(timers) + 1}
      BY <1>2 DEF AddTimer
  <2>6. UNCHANGED ran
      BY <1>2 DEF AddTimer
  <2>7. A!Set
      BY <2>3, <2>4, <2>5, <2>6 DEF A!Set
  <2> QED
      BY <2>7 DEF A!Next
<1>3. ASSUME NEW t \in heap, Disable(t)
      PROVE  A!Next
  <2>1. /\ t \in armed
        /\ armed' = armed \ {t}
        /\ UNCHANGED <<timers, ran>>
      BY <1>3 DEF Disable
  <2>2. A!Cancel(t)
      BY <2>1 DEF A!Cancel, ExpiredTimes
  <2> QED
      BY <2>1, <2>2 DEF A!Next
<1>4. ASSUME NEW t \in heap, DropTimer(t)
      PROVE  UNCHANGED A!vars
  <2>1. armed' = armed /\ UNCHANGED <<timers, ran>>
      BY <1>4 DEF DropTimer
  <2> QED
      BY <2>1 DEF A!vars, ExpiredTimes
<1>5. ASSUME NEW t \in heap, RunTimer(t)
      PROVE  A!Next
  <2>1. /\ t \in armed
        /\ armed' = armed \ {t}
        /\ ran' = Append(ran, t)
        /\ UNCHANGED timers
      BY <1>5 DEF RunTimer
  <2>2. \A u \in armed : ExpiredTimes[t] <= ExpiredTimes[u]
      BY <1>0, <1>5 DEF RunTimer, OnTop, ExpiredTimes
  <2>3. A!Ring(t)
      BY <2>1, <2>2 DEF A!Ring, ExpiredTimes
  <2> QED
      BY <2>1, <2>3 DEF A!Next
<1> QED
    BY <1>1, <1>2, <1>3, <1>4, <1>5 DEF Next, HandleRead

\* TimerQueue implements Alarms, whatever the intervals, the tick and the
\* settings of the clock: each timer that is not disabled runs once, none
\* that is disabled does, and the earliest runs first.
THEOREM QueueIsAlarms == Spec => ImplementsAlarms
<1>1. Init => A!Init
  <2> SUFFICES ASSUME Init
               PROVE  A!Init
      OBVIOUS
  <2>1. timers = <<>> /\ heap = {} /\ ran = <<>>
      BY DEF Init
  <2>2. ExpiredTimes = <<>>
    <3>1. DOMAIN timers = 1 .. 0
        BY <2>1, EmptySeq, LenProperties
    <3>2. [t \in 1 .. 0 |-> timers[t].expired] = <<>>
        BY SMT
    <3> QED
        BY <3>1, <3>2 DEF ExpiredTimes
  <2> QED
      BY <2>1, <2>2 DEF A!Init
<1> QED
    BY <1>1, ClockInvariant, StepSimulation, PTL
    DEF Spec, ImplementsAlarms, A!Spec

------------------------------------------------------------------------------
(* Timers run on time.                                                     *)

\* A reading lies in its millisecond.
LEMMA MsBounds ==
  ASSUME NEW time \in Int
  PROVE  /\ Ms(time) \in Int
         /\ PerMs * Ms(time) <= time
         /\ time < PerMs * Ms(time) + PerMs
  BY ConstantsOK DEF Ms

\* Multiplication by PerMs keeps the order.
LEMMA TimesPerMs ==
  ASSUME NEW m \in Int, NEW n \in Int, m <= n
  PROVE  PerMs * m <= PerMs * n
  BY ConstantsOK

\* What a comparison of milliseconds says about the readings: a timer made
\* at one of them with interval i expires at the other, or does not.
LEMMA MsCompared ==
  ASSUME NEW made \in Int, NEW now \in Int, NEW i \in Nat
  PROVE  /\ Ms(made) + i < Ms(now) => now - made >= PerMs * i
         /\ ~(Ms(made) + i < Ms(now)) => now - made < PerMs * (i + 1)
<1> DEFINE m == Ms(made)
           n == Ms(now)
<1>1. /\ m \in Int /\ n \in Int /\ PerMs \in Nat \ {0}
      /\ PerMs * m <= made /\ made < PerMs * m + PerMs
      /\ PerMs * n <= now /\ now < PerMs * n + PerMs
    BY MsBounds, ConstantsOK
<1> HIDE DEF m, n
<1>2. ASSUME m + i < n
      PROVE  now - made >= PerMs * i
  <2>1. PerMs * (m + i + 1) <= PerMs * n
      BY <1>1, <1>2, TimesPerMs
  <2>2. PerMs * (m + i + 1) = PerMs * m + PerMs * i + PerMs
      BY <1>1
  <2> QED
      BY <1>1, <2>1, <2>2
<1>3. ASSUME ~(m + i < n)
      PROVE  now - made < PerMs * (i + 1)
  <2>1. PerMs * n <= PerMs * (m + i)
      BY <1>1, <1>3, TimesPerMs
  <2>2. /\ PerMs * (m + i) = PerMs * m + PerMs * i
        /\ PerMs * (i + 1) = PerMs * i + PerMs
      BY <1>1
  <2> QED
      BY <1>1, <2>1, <2>2
<1> QED
    BY <1>2, <1>3 DEF m, n

\* As long as the clock is not set, it tells when a timer was made.
MadeOnClock ==
  \A t \in heap :
    /\ timers[t].sets <= sets
    /\ timers[t].sets = sets =>
         timers[t].expired
           = Ms(wall - up + timers[t].up) + timers[t].interval

\* In handleRead(), the timers and curTime are by the same clock, if it has
\* not been set in between.
ReadOnClock ==
  pc = "in" =>
    \A t \in heap : Undisturbed(t) =>
      \E made, now \in Int :
        /\ timers[t].expired = Ms(made) + timers[t].interval
        /\ read.ms = Ms(now)
        /\ now - made = Age(t)

\* The inductive invariant of the times.
OnTimeInv == TypeOK /\ MadeOnClock /\ ReadOnClock

\* What the timers in the heap are made of.
LEMMA TimerTypes ==
  ASSUME TypeOK, NEW t \in heap
  PROVE  /\ timers[t].up \in Nat /\ timers[t].sets \in Nat
         /\ timers[t].expired \in Int
         /\ timers[t].interval \in Nat /\ timers[t].interval \in Intervals
<1>1. timers \in Seq(Made) /\ t \in 1 .. Len(timers)
    BY LenProperties DEF TypeOK
<1>2. timers[t] \in Made
    BY <1>1, ElementOfSeq
<1> QED
    BY <1>2, ConstantsOK DEF Made

\* Every step preserves it: a new timer is made by the clock of that moment,
\* curTime is read from it, and setting it makes a new clock.
LEMMA OnTimeStep == OnTimeInv /\ [Next]_vars => OnTimeInv'
<1> SUFFICES ASSUME OnTimeInv, [Next]_vars
             PROVE  MadeOnClock' /\ ReadOnClock'
    BY TypeStep DEF OnTimeInv
<1>0. /\ TypeOK /\ MadeOnClock /\ ReadOnClock
      /\ up \in Nat /\ wall \in Nat /\ sets \in Nat
    BY DEF OnTimeInv, TypeOK
<1>1. CASE Pass
  <2>1. /\ up' = up + 1 /\ wall' = wall + 1
        /\ UNCHANGED <<sets, timers, heap, pc, read>>
      BY <1>1 DEF Pass, queueVars
  <2>2. wall' - up' = wall - up
      BY <1>0, <2>1
  <2> QED
      BY <1>0, <2>1, <2>2 DEF MadeOnClock, ReadOnClock, Undisturbed, Age
<1>2. ASSUME NEW time \in 0 .. Horizon, SetClock(time)
      PROVE  MadeOnClock' /\ ReadOnClock'
  <2>1. sets' = sets + 1 /\ UNCHANGED <<timers, heap, pc, read>>
      BY <1>2 DEF SetClock, queueVars
  <2>2. \A t \in heap : timers[t].sets < sets'
      BY <1>0, <2>1, TimerTypes DEF MadeOnClock
  <2>3. MadeOnClock'
      BY <1>0, <2>1, <2>2, TimerTypes DEF MadeOnClock
  <2> QED
      BY <1>0, <2>1, <2>3 DEF ReadOnClock, Undisturbed, Age
<1>3. ASSUME NEW interval \in Intervals, AddTimer(interval)
      PROVE  MadeOnClock' /\ ReadOnClock'
  <2> DEFINE new == Len(timers) + 1
  <2>1. /\ pc' = "out" /\ heap' = heap \cup {new}
        /\ UNCHANGED <<up, wall, sets>>
      BY <1>3 DEF AddTimer, clockVars
  <2>2. /\ timers'[new] = [expired |-> Ms(wall) + interval,
                           interval |-> interval, up |-> up, sets |-> sets]
        /\ \A t \in heap : timers'[t] = timers[t]
    <3> DEFINE timer == [expired |-> Ms(wall) + interval,
                         interval |-> interval, up |-> up, sets |-> sets]
    <3>1. timers \in Seq(Made) /\ timer \in Made
        BY <1>0, MsType, ConstantsOK DEF TypeOK, Made
    <3>2. timers' = Append(timers, timer)
        BY <1>3 DEF AddTimer
    <3> HIDE DEF timer
    <3>3. /\ \A t \in 1 .. Len(timers) : timers'[t] = timers[t]
          /\ timers'[new] = timer
        BY <3>1, <3>2, AppendProperties
    <3>4. heap \subseteq 1 .. Len(timers)
        BY <1>0, <3>1, LenProperties DEF TypeOK
    <3> QED
        BY <3>3, <3>4 DEF timer
  <2>3. wall - up + up = wall
      BY <1>0
  <2>4. ASSUME NEW t \in heap'
        PROVE  /\ timers'[t].sets <= sets'
               /\ timers'[t].sets = sets' =>
                    timers'[t].expired
                      = Ms(wall' - up' + timers'[t].up) + timers'[t].interval
    <3>1. CASE t = new
        BY <1>0, <2>1, <2>2, <2>3, <3>1
    <3>2. CASE t \in heap
        BY <1>0, <2>1, <2>2, <3>2 DEF MadeOnClock
    <3> QED
        BY <2>1, <3>1, <3>2
  <2> QED
      BY <2>1, <2>4 DEF MadeOnClock, ReadOnClock
<1>4. CASE BeginRead
  <2>1. /\ read' = [ms |-> Ms(wall), up |-> up, sets |-> sets]
        /\ UNCHANGED <<up, wall, sets, timers, heap>>
      BY <1>4 DEF BeginRead, clockVars, queueVars
  <2>2. ASSUME NEW t \in heap, timers[t].sets = sets
        PROVE  \E made, now \in Int :
                 /\ timers[t].expired = Ms(made) + timers[t].interval
                 /\ Ms(wall) = Ms(now)
                 /\ now - made = up - timers[t].up
    <3> DEFINE made == wall - up + timers[t].up
    <3>1. /\ made \in Int /\ wall \in Int
          /\ wall - made = up - timers[t].up
        BY <1>0, TimerTypes
    <3>2. timers[t].expired = Ms(made) + timers[t].interval
        BY <1>0, <2>2 DEF MadeOnClock
    <3> QED
        BY <3>1, <3>2
  <2>3. ReadOnClock'
      BY <2>1, <2>2 DEF ReadOnClock, Undisturbed, Age
  <2> QED
      BY <1>0, <2>1, <2>3 DEF MadeOnClock
<1>5. ASSUME NEW t \in heap, Disable(t) \/ DropTimer(t) \/ RunTimer(t)
      PROVE  MadeOnClock' /\ ReadOnClock'
  <2>1. heap' \subseteq heap /\ UNCHANGED <<up, wall, sets, timers, pc, read>>
      BY <1>5 DEF Disable, DropTimer, RunTimer, clockVars
  <2> QED
      BY <1>0, <2>1 DEF MadeOnClock, ReadOnClock, Undisturbed, Age
<1>6. CASE EndRead
    BY <1>0, <1>6 DEF EndRead, clockVars, queueVars, MadeOnClock, ReadOnClock
<1>7. CASE UNCHANGED vars
    BY <1>0, <1>7 DEF vars, clockVars, queueVars, MadeOnClock, ReadOnClock,
                      Undisturbed, Age
<1> QED
    BY <1>1, <1>2, <1>3, <1>4, <1>5, <1>6, <1>7 DEF Next, HandleRead

\* Timers run on time, for any intervals, tick and granularity of the clock:
\* while nobody sets it, no callback runs before its interval is over, and
\* none that is a millisecond late is left by a pass of handleRead().
THEOREM QueueRunsOnTime == Spec => RunsOnTime
<1> DEFINE OnTime ==
      \A t \in heap : Undisturbed(t) =>
        /\ RunTimer(t) => Age(t) >= PerMs * timers[t].interval
        /\ EndRead /\ t \in active =>
             Age(t) < PerMs * (timers[t].interval + 1)
<1>1. Init => OnTimeInv
  <2>1. Init => TypeOK
      BY InitTypes DEF ClockInv
  <2> QED
      BY <2>1 DEF Init, OnTimeInv, MadeOnClock, ReadOnClock
<1>2. OnTimeInv => OnTime
  <2> SUFFICES ASSUME OnTimeInv, NEW t \in heap, Undisturbed(t)
               PROVE  /\ RunTimer(t) => Age(t) >= PerMs * timers[t].interval
                      /\ EndRead /\ t \in active =>
                           Age(t) < PerMs * (timers[t].interval + 1)
      OBVIOUS
  <2>1. TypeOK /\ ReadOnClock /\ timers[t].interval \in Nat
      BY TimerTypes DEF OnTimeInv
  <2>2. ASSUME pc = "in"
        PROVE  /\ Expired(t) => Age(t) >= PerMs * timers[t].interval
               /\ ~Expired(t) => Age(t) < PerMs * (timers[t].interval + 1)
    <3>1. PICK made \in Int, now \in Int :
            /\ timers[t].expired = Ms(made) + timers[t].interval
            /\ read.ms = Ms(now)
            /\ now - made = Age(t)
        BY <2>1, <2>2 DEF ReadOnClock
    <3> QED
        BY <2>1, <3>1, MsCompared DEF Expired
  <2>3. ASSUME RunTimer(t)
        PROVE  Age(t) >= PerMs * timers[t].interval
      BY <2>2, <2>3 DEF RunTimer
  <2>4. ASSUME EndRead, t \in active
        PROVE  Age(t) < PerMs * (timers[t].interval + 1)
    <3>1. PICK u \in heap : OnTop(u) /\ ~Expired(u)
        BY <2>4 DEF EndRead
    <3>2. timers[u].expired <= timers[t].expired
        BY <3>1 DEF OnTop
    <3>3. read.ms \in Int
        BY <2>1 DEF TypeOK, Readings
    <3>4. ~Expired(t)
        BY <2>1, <3>1, <3>2, <3>3, TimerTypes DEF Expired
    <3> QED
        BY <2>2, <2>4, <3>4 DEF EndRead
  <2> QED
      BY <2>3, <2>4
<1>3. Spec => []OnTimeInv
    BY <1>1, OnTimeStep, PTL DEF Spec
<1> QED
    BY <1>2, <1>3, PTL DEF RunsOnTime
==============================================================================

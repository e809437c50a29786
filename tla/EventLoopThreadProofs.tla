------------------------ MODULE EventLoopThreadProofs ------------------------
(***************************************************************************)
(* Proofs about EventLoopThread, for any number of IO threads: the types,  *)
(* that no assertion of Thread fails, that the loops of the pool can be    *)
(* used from their start until quit() has stored quit_, and that no        *)
(* EventLoopThread is destroyed under its thread.                          *)
(***************************************************************************)
EXTENDS EventLoopThread, SequenceTheorems, TLAPS

------------------------------------------------------------------------------
(* The inductive invariant.                                                *)

\* The main thread is in EventLoopThreadPool::start(), or in the destructor.
Starting == {"start", "latch", "latchWait", "cond", "condWait", "return"}
Stopping == {"destroy", "quit", "wakeup", "join", "joining"}

\* The destructor is past the pool's EventLoopThread i.
Past(i) == owner = "gone" \/ (owner \in Stopping /\ i < cur)

\* The destructor has called quit() of loop i.
Told(i) == Past(i) \/ (owner \in {"wakeup", "join", "joining"} /\ i = cur)

\* What the members of a thread say about where it is; and it leaves its loop
\* only when it has been told to, and has seen that.
ThreadAt(i) ==
  /\ started[i] <=> child[i] # "none"
  /\ tid[i] <=> child[i] \notin {"none", "tid"}
  /\ latch[i] = 1 <=> child[i] \in {"none", "tid", "count"}
  /\ loop[i] <=> child[i] \in {"enter", "while", "poll", "clear"}
  /\ quit[i] \/ child[i] \in {"clear", "return", "finished"} => Told(i)
  /\ child[i] \in {"clear", "return", "finished"} => quit[i]
ThreadInv == \A i \in Threads : ThreadAt(i)

\* In start(), the threads before cur have a loop, and those after it have
\* not been created.
StartInv ==
  owner \in Starting =>
    /\ Len(loops) = cur - 1
    /\ \A i \in Threads : /\ i < cur => loop[i]
                          /\ i > cur => child[i] = "none"
    /\ owner = "start" => child[cur] = "none"
    /\ owner \in {"latch", "latchWait"} => child[cur] # "none"
    /\ owner = "return" => loop[cur]

\* From there on all have one, and the destructor joins each before it goes
\* on to the next.
StopInv ==
  /\ owner \notin Starting =>
       /\ Len(loops) = ThreadNums
       /\ \A i \in Threads :
            child[i] \notin {"none", "tid", "count", "publish"}
  /\ owner = "gone" => cur = ThreadNums
  /\ \A i \in Threads :
       /\ Past(i) => child[i] = "finished"
       /\ joined[i] => Past(i) \/ (owner = "joining" /\ i = cur)
       /\ i \in destroyed => Past(i)

Inv ==
  /\ TypeOK /\ ThreadInv /\ StartInv /\ StopInv
  /\ \A i \in DOMAIN loops : loops[i]
  /\ AssertionsHold

\* It holds at the start.
LEMMA InitInv == Init => Inv
<1> SUFFICES ASSUME Init
             PROVE  Inv
    OBVIOUS
<1>1. 1 \in Threads /\ Threads \subseteq Nat
    BY ThreadNumsOK DEF Threads
<1>2. loops = <<>> /\ loops \in Seq(BOOLEAN) /\ Len(loops) = 0
    BY EmptySeq DEF Init
<1>3. TypeOK
  <2>1. /\ started \in [Threads -> BOOLEAN] /\ joined \in [Threads -> BOOLEAN]
        /\ tid \in [Threads -> BOOLEAN] /\ latch \in [Threads -> 0 .. 1]
        /\ loop \in [Threads -> BOOLEAN]
        /\ quit \in [Threads -> BOOLEAN] /\ edge \in [Threads -> BOOLEAN]
      BY DEF Init
  <2>2. child \in [Threads -> {"none", "tid", "count", "publish", "enter",
                               "while", "poll", "clear", "return", "finished"}]
      BY DEF Init
  <2>3. /\ owner = "start" /\ cur = 1 /\ woken = FALSE /\ destroyed = {}
        /\ failed = {}
      BY DEF Init
  <2> QED
      BY <1>1, <1>2, <2>1, <2>2, <2>3 DEF TypeOK
<1>4. ThreadInv
    BY DEF Init, ThreadInv, ThreadAt
<1>5. StartInv
    BY <1>1, <1>2 DEF Init, StartInv, Threads
<1>6. StopInv
    BY DEF Init, StopInv, Starting, Past, Stopping
<1>7. \A i \in DOMAIN loops : loops[i]
    BY <1>2, LenProperties
<1> QED
    BY <1>3, <1>4, <1>5, <1>6, <1>7 DEF Inv, AssertionsHold, Init

------------------------------------------------------------------------------
(* Its conjuncts, step by step.                                            *)

\* The types.
LEMMA TypeStep ==
  ASSUME Inv, [Next]_vars
  PROVE  TypeOK'
<1> USE DEF Inv, TypeOK, vars, ownerVars
<1>0. /\ Threads \subseteq Nat
      /\ \A n \in Threads : n < ThreadNums => n + 1 \in Threads
    BY ThreadNumsOK DEF Threads
<1>1. CASE StartThread \/ TestLatch \/ TestLoop \/ EndWait \/ Stop
  <2>1. 1 \in Threads
      BY ThreadNumsOK DEF Threads
  <2>2. CASE StartThread
      BY <2>2 DEF StartThread, Assert
  <2>3. CASE TestLatch \/ TestLoop \/ EndWait \/ Stop
      BY <2>1, <2>3 DEF TestLatch, TestLoop, EndWait, Stop, Assert
  <2> QED
      BY <1>1, <2>2, <2>3
<1>2. CASE PushLoop
  <2>1. loops' \in Seq(BOOLEAN)
      BY <1>2, AppendProperties DEF PushLoop
  <2> QED
      BY <1>0, <1>2, <2>1 DEF PushLoop, AnotherThread
<1>3. CASE DestroyThread \/ QuitLoop \/ WakeupLoop \/ Join \/ Joined
    BY <1>0, <1>3 DEF DestroyThread, QuitLoop, WakeupLoop, EdgeAfterQuit, Join,
       Joined, Destroyed, AnotherThread, Assert
<1>4. ASSUME NEW i \in Threads, CountDown(i)
      PROVE  TypeOK'
  <2>1. latch[i] = 1
      BY <1>4 DEF CountDown, From, ThreadInv, ThreadAt
  <2> QED
      BY <1>4, <2>1 DEF CountDown, From, Notified
<1>5. ASSUME NEW i \in Threads, PublishLoop(i) \/ SetTid(i) \/ EnterLoop(i)
      PROVE  TypeOK'
    BY <1>5 DEF PublishLoop, SetTid, EnterLoop, From, Notified
<1>6. ASSUME NEW i \in Threads,
             TestQuit(i) \/ PollWakeup(i) \/ ClearLoop(i) \/ EndThread(i)
               \/ PollOther(i)
      PROVE  TypeOK'
    BY <1>6 DEF TestQuit, PollWakeup, ClearLoop, EndThread, PollOther, From
<1>7. CASE UNCHANGED vars
    BY <1>7
<1> QED
    BY <1>1, <1>2, <1>3, <1>4, <1>5, <1>6, <1>7
    DEF Next, OwnerStep, ChildStep

\* A thread is where its members say, and leaves its loop only when told to.
LEMMA ThreadStep ==
  ASSUME Inv, [Next]_vars
  PROVE  ThreadInv'
<1> SUFFICES ASSUME NEW j \in Threads
             PROVE  ThreadAt(j)'
    BY DEF ThreadInv
<1>0. TypeOK /\ StopInv /\ Threads \subseteq Nat /\ ThreadAt(j)
    BY DEF Inv, ThreadInv, Threads
<1> USE DEF ThreadAt, TypeOK, vars, ownerVars, Told, Past, Stopping
<1>1. CASE StartThread
    BY <1>0, <1>1 DEF StartThread, StartInv, Starting, Inv
<1>2. CASE TestLatch \/ TestLoop \/ EndWait \/ PushLoop \/ Stop
    BY <1>0, <1>2 DEF TestLatch, TestLoop, EndWait, PushLoop, Stop
<1>3. CASE DestroyThread
    BY <1>0, <1>3 DEF DestroyThread, Destroyed, AnotherThread
<1>4. CASE QuitLoop
    BY <1>0, <1>4 DEF QuitLoop
<1>5. CASE WakeupLoop \/ Join
    BY <1>0, <1>5 DEF WakeupLoop, Join
<1>6. CASE Joined
    BY <1>0, <1>6 DEF Joined, Destroyed, AnotherThread
<1>7. ASSUME NEW i \in Threads, SetTid(i) \/ CountDown(i) \/ PublishLoop(i)
      PROVE  ThreadAt(j)'
    BY <1>0, <1>7 DEF SetTid, CountDown, PublishLoop, From
<1>8. ASSUME NEW i \in Threads, EnterLoop(i) \/ TestQuit(i) \/ PollWakeup(i)
      PROVE  ThreadAt(j)'
    BY <1>0, <1>8 DEF EnterLoop, TestQuit, PollWakeup, From
<1>9. ASSUME NEW i \in Threads, ClearLoop(i) \/ EndThread(i) \/ PollOther(i)
      PROVE  ThreadAt(j)'
    BY <1>0, <1>9 DEF ClearLoop, EndThread, PollOther, From
<1>10. CASE UNCHANGED vars
    BY <1>0, <1>10
<1> QED
    BY <1>1, <1>2, <1>3, <1>4, <1>5, <1>6, <1>7, <1>8, <1>9, <1>10
    DEF Next, OwnerStep, ChildStep

\* What the thread of an EventLoopThread may change: it is where it was, or
\* one step on.
LEMMA ChildMoves ==
  ASSUME TypeOK, NEW i \in Threads, ChildStep(i) \/ PollOther(i)
  PROVE  /\ UNCHANGED ownerVars
         /\ \E there : child' = [child EXCEPT ![i] = there]
         /\ child[i] # "none" /\ child'[i] # "none"
         /\ \A j \in Threads : j # i => loop'[j] = loop[j]
         /\ child[i] \notin {"tid", "count", "publish"} =>
              child'[i] \notin {"tid", "count", "publish"}
         /\ child[i] # "finished"
         /\ loop[i] => loop'[i] \/ child[i] = "clear"
  BY DEF TypeOK, ownerVars, ChildStep, SetTid, CountDown, PublishLoop, EnterLoop,
         TestQuit, PollWakeup, ClearLoop, EndThread, PollOther, From

\* start() leaves a loop behind for each thread before cur.
LEMMA StartStep ==
  ASSUME Inv, [Next]_vars
  PROVE  StartInv'
<1>0. /\ TypeOK /\ ThreadInv /\ StartInv /\ StopInv
      /\ Threads \subseteq Nat /\ cur \in Nat /\ ThreadNums \in Nat
    BY ThreadNumsOK DEF Inv, Threads, TypeOK
<1> USE DEF StartInv, Starting, vars, ownerVars
<1>1. CASE StartThread \/ TestLatch \/ TestLoop \/ EndWait
  <2>1. CASE StartThread
      BY <1>0, <2>1 DEF StartThread, TypeOK
  <2>2. CASE TestLatch
      BY <1>0, <2>2 DEF TestLatch
  <2>3. CASE TestLoop
      BY <1>0, <2>3 DEF TestLoop, LoopPublished
  <2>4. CASE EndWait
      BY <1>0, <2>4 DEF EndWait
  <2> QED
      BY <1>1, <2>1, <2>2, <2>3, <2>4
<1>2. CASE PushLoop
  <2>1. Len(loops') = Len(loops) + 1
      BY <1>0, <1>2, AppendProperties DEF PushLoop, TypeOK
  <2>2. CASE AnotherThread
    <3>1. /\ owner' = "start" /\ cur' = cur + 1 /\ Len(loops) = cur - 1
          /\ UNCHANGED <<child, loop>>
        BY <1>0, <1>2, <2>2 DEF PushLoop
    <3>2. cur + 1 \in Threads
        BY <1>0, <2>2 DEF AnotherThread, Threads
    <3>3. loop[cur] /\ owner = "return"
        BY <1>0, <1>2 DEF PushLoop
    <3>4. \A j \in Threads : j < cur + 1 => j < cur \/ j = cur
        BY <1>0
    <3>5. \A j \in Threads : /\ j < cur' => loop'[j]
                             /\ j > cur' => child'[j] = "none"
        BY <1>0, <3>1, <3>3, <3>4
    <3>6. Len(loops') = cur' - 1 /\ child'[cur'] = "none"
        BY <1>0, <2>1, <3>1, <3>2, <3>3
    <3> QED
        BY <3>1, <3>5, <3>6
  <2>3. CASE ~AnotherThread
      BY <1>2, <2>3 DEF PushLoop
  <2> QED
      BY <2>2, <2>3
<1>3. CASE Stop \/ DestroyThread \/ QuitLoop \/ WakeupLoop \/ Join \/ Joined
    BY <1>0, <1>3 DEF Stop, DestroyThread, QuitLoop, WakeupLoop, Join, Joined,
       Destroyed
<1>4. ASSUME NEW i \in Threads, ChildStep(i) \/ PollOther(i)
      PROVE  StartInv'
  <2> SUFFICES ASSUME owner \in Starting
               PROVE  StartInv'
      BY <1>0, <1>4, ChildMoves
  <2>1. ~Told(i) /\ child[i] # "clear"
      BY <1>0 DEF Told, Past, Stopping, ThreadInv, ThreadAt
  <2>2. \A j \in Threads : loop[j] => loop'[j]
      BY <1>0, <1>4, <2>1, ChildMoves
  <2>3. \A j \in Threads : child'[j] = "none" <=> child[j] = "none"
      BY <1>0, <1>4, ChildMoves DEF TypeOK
  <2> QED
      BY <1>0, <1>4, <2>2, <2>3, ChildMoves DEF TypeOK
<1>5. CASE UNCHANGED vars
    BY <1>0, <1>5
<1> QED
    BY <1>1, <1>2, <1>3, <1>4, <1>5 DEF Next, OwnerStep

\* The destructor leaves a finished thread behind for each before cur.
LEMMA StopStep ==
  ASSUME Inv, [Next]_vars
  PROVE  StopInv'
<1>0. /\ TypeOK /\ ThreadInv /\ StartInv /\ StopInv
      /\ Threads \subseteq Nat /\ cur \in Threads /\ ThreadNums \in Nat
      /\ \A i \in Threads : i <= ThreadNums
    BY ThreadNumsOK DEF Inv, Threads, TypeOK
<1> USE DEF StopInv, Starting, Stopping, Past, vars, ownerVars
<1>1. CASE StartThread \/ TestLatch \/ TestLoop \/ EndWait
    BY <1>0, <1>1 DEF StartThread, TestLatch, TestLoop, EndWait
<1>2. CASE PushLoop
  <2>1. CASE AnotherThread
      BY <1>0, <1>2, <2>1 DEF PushLoop
  <2>2. CASE ~AnotherThread
    <3>1. Len(loops') = ThreadNums
      <4>1. Len(loops') = Len(loops) + 1
          BY <1>0, <1>2, AppendProperties DEF PushLoop, TypeOK
      <4>2. Len(loops) = cur - 1 /\ cur = ThreadNums
          BY <1>0, <1>2, <2>2 DEF PushLoop, StartInv, AnotherThread
      <4> QED
          BY <1>0, <4>1, <4>2
    <3>2. \A j \in Threads : loop[j]
      <4>1. cur = ThreadNums
          BY <1>0, <2>2 DEF AnotherThread
      <4>2. \A j \in Threads : j < cur \/ j = cur
          BY <1>0, <4>1
      <4> QED
          BY <1>0, <1>2, <4>2 DEF PushLoop, StartInv
    <3>3. \A j \in Threads : child[j] \notin {"none", "tid", "count", "publish"}
        BY <1>0, <3>2 DEF ThreadInv, ThreadAt
    <3> QED
        BY <1>0, <1>2, <2>2, <3>1, <3>3 DEF PushLoop
  <2> QED
      BY <2>1, <2>2
<1>3. CASE Stop
  <2>1. \A j \in Threads : ~(j < 1)
      BY DEF Threads
  <2> QED
      BY <1>0, <1>3, <2>1 DEF Stop
<1>4. CASE DestroyThread
  <2>1. loop[cur]
      BY <1>0, <1>4 DEF DestroyThread, ThreadInv, ThreadAt, Told, TypeOK
  <2>2. owner' = "quit" /\ UNCHANGED <<cur, destroyed, loops, joined, child>>
      BY <1>4, <2>1 DEF DestroyThread
  <2> QED
      BY <1>0, <1>4, <2>2 DEF DestroyThread
<1>5. CASE QuitLoop \/ WakeupLoop \/ Join
    BY <1>0, <1>5 DEF QuitLoop, WakeupLoop, Join, TypeOK
<1>6. CASE Joined
  <2>1. child[cur] = "finished" /\ owner = "joining"
      BY <1>6 DEF Joined, ThreadOver
  <2>2. \A j \in Threads : j <= cur => child[j] = "finished"
      BY <1>0, <2>1
  <2>3. CASE AnotherThread
      BY <1>0, <1>6, <2>2, <2>3 DEF Joined, Destroyed
  <2>4. CASE ~AnotherThread
      BY <1>0, <1>6, <2>2, <2>4 DEF Joined, Destroyed, AnotherThread
  <2> QED
      BY <2>3, <2>4
<1>7. ASSUME NEW i \in Threads, ChildStep(i) \/ PollOther(i)
      PROVE  StopInv'
  <2>1. /\ UNCHANGED <<owner, cur, loops, joined, destroyed>>
        /\ \A j \in Threads : j # i => child'[j] = child[j]
        /\ child'[i] # "none" /\ child[i] # "finished"
        /\ child[i] \notin {"tid", "count", "publish"} =>
             child'[i] \notin {"tid", "count", "publish"}
      BY <1>0, <1>7, ChildMoves DEF TypeOK
  <2>2. ~Past(i)
      BY <1>0, <2>1
  <2> QED
      BY <1>0, <2>1, <2>2
<1>8. CASE UNCHANGED vars
    BY <1>0, <1>8
<1> QED
    BY <1>1, <1>2, <1>3, <1>4, <1>5, <1>6, <1>7, <1>8 DEF Next, OwnerStep

\* start() hands out the loops it has waited for.
LEMMA HandOutStep ==
  ASSUME Inv, [Next]_vars
  PROVE  (\A i \in DOMAIN loops : loops[i])'
<1>0. TypeOK /\ StartInv /\ \A i \in DOMAIN loops : loops[i]
    BY DEF Inv
<1>1. CASE PushLoop
  <2>1. loop[cur] = TRUE /\ loops \in Seq(BOOLEAN)
      BY <1>0, <1>1 DEF PushLoop, StartInv, Starting, TypeOK, Inv
  <2>2. loops' = Append(loops, TRUE)
      BY <1>1, <2>1 DEF PushLoop
  <2>3. /\ loops' \in Seq(BOOLEAN) /\ Len(loops') = Len(loops) + 1
        /\ \A i \in 1 .. Len(loops) : loops'[i] = loops[i]
        /\ loops'[Len(loops) + 1] = TRUE
      BY <2>1, <2>2, AppendProperties
  <2>4. /\ Len(loops) \in Nat /\ DOMAIN loops = 1 .. Len(loops)
        /\ DOMAIN loops' = 1 .. Len(loops) + 1
      BY <2>1, <2>3, LenProperties
  <2>5. \A i \in 1 .. Len(loops) + 1 : i \in 1 .. Len(loops) \/ i = Len(loops) + 1
      BY <2>4
  <2> QED
      BY <1>0, <2>1, <2>3, <2>4, <2>5
<1>2. CASE UNCHANGED loops
    BY <1>0, <1>2
<1> QED
    BY <1>0, <1>1, <1>2, ChildMoves
    DEF Next, OwnerStep, StartThread, TestLatch, TestLoop, EndWait, Stop,
        DestroyThread, QuitLoop, WakeupLoop, Join, Joined, vars, ownerVars

\* Each assertion holds where it is made.
LEMMA AssertStep ==
  ASSUME Inv, [Next]_vars
  PROVE  AssertionsHold'
<1>0. /\ TypeOK /\ ThreadInv /\ StartInv /\ StopInv /\ failed \subseteq {"wakeup"}
      /\ cur \in Threads /\ cur \in Nat
    BY DEF Inv, AssertionsHold, TypeOK, Threads
<1> USE DEF AssertionsHold, Assert
<1>1. CASE StartThread
  <2>1. ~started[cur]
      BY <1>0, <1>1 DEF StartThread, StartInv, Starting, ThreadInv, ThreadAt
  <2> QED
      BY <1>0, <1>1, <2>1 DEF StartThread
<1>2. CASE TestLatch
  <2>1. LatchDown(cur) => tid[cur]
      BY <1>0 DEF LatchDown, ThreadInv, ThreadAt
  <2> QED
      BY <1>0, <1>2, <2>1 DEF TestLatch
<1>3. CASE Join
  <2>1. started[cur]
      BY <1>0, <1>3 DEF Join, StopInv, Starting, ThreadInv, ThreadAt
  <2>2. ~joined[cur]
      BY <1>0, <1>3 DEF Join, StopInv, Past, Stopping
  <2> QED
      BY <1>0, <1>3, <2>1, <2>2 DEF Join
<1> QED
    BY <1>0, <1>1, <1>2, <1>3, ChildMoves
    DEF Next, OwnerStep, TestLoop, PushLoop, EndWait, Stop, DestroyThread,
        QuitLoop, WakeupLoop, Joined, vars, ownerVars

\* All of it holds throughout.
LEMMA Invariant == Spec => []Inv
<1>1. Inv /\ [Next]_vars => Inv'
    BY TypeStep, ThreadStep, StartStep, StopStep, HandOutStep, AssertStep DEF Inv
<1> QED
    BY <1>1, InitInv, PTL DEF Spec

------------------------------------------------------------------------------
(* What follows.                                                           *)

\* The types hold for any number of threads.
THEOREM TypeCorrect == Spec => []TypeOK
<1>1. Inv => TypeOK
    BY DEF Inv
<1> QED
    BY <1>1, Invariant, PTL

\* No assertion of Thread fails, however the threads and the main thread
\* interleave: no thread is started or joined twice, and start() finds the
\* tid when the latch opens.
THEOREM NoAssertionFails == Spec => []AssertionsHold
<1>1. Inv => AssertionsHold
    BY DEF Inv
<1> QED
    BY <1>1, Invariant, PTL

\* The loops of the pool can be used up to the store of quit_ in quit():
\* start() hands out no null pointer, a loop exists at least until then, and
\* at the wakeup() behind it unless it has seen quit_.
THEOREM LoopsUsableUntilQuit == Spec => []UsableUntilQuit
<1>1. Inv => UsableUntilQuit
  <2> SUFFICES ASSUME Inv, NEW i \in DOMAIN loops
               PROVE  /\ loops[i]
                      /\ ~Alive(i) => owner \notin {"start", "running"} /\ i <= cur
                      /\ cur = i /\ owner = "quit" => Alive(i)
                      /\ cur = i /\ owner = "wakeup" => Alive(i) \/ quit[i]
      BY DEF UsableUntilQuit
  <2>1. /\ TypeOK /\ ThreadInv /\ StartInv /\ StopInv /\ loops[i]
        /\ cur \in Nat /\ cur <= ThreadNums /\ ThreadNums \in Nat
      BY ThreadNumsOK DEF Inv, TypeOK, Threads
  <2>2. Len(loops) \in Nat /\ i \in 1 .. Len(loops)
      BY <2>1, LenProperties DEF TypeOK
  <2>3. /\ owner \in Starting => Len(loops) = cur - 1
        /\ owner \notin Starting => Len(loops) = ThreadNums
      BY <2>1 DEF StartInv, StopInv
  <2>4. /\ i \in Threads /\ i \in Nat
        /\ owner \in Starting => i < cur
      BY <2>1, <2>2, <2>3 DEF Threads
  <2>5. ThreadAt(i) /\ child[i] \in {"none", "tid", "count", "publish", "enter",
                            "while", "poll", "clear", "return", "finished"}
      BY <2>1, <2>4 DEF ThreadInv, TypeOK
  <2>6. CASE owner \in Starting
    <3>1. loop[i] /\ i < cur
        BY <2>1, <2>4, <2>6 DEF StartInv
    <3>2. Alive(i)
        BY <2>5, <3>1 DEF ThreadAt, Alive
    <3> QED
        BY <2>1, <3>2
  <2>7. CASE owner \notin Starting
    <3>1. child[i] \notin {"none", "tid", "count", "publish"}
        BY <2>1, <2>4, <2>7 DEF StopInv
    <3>2. Alive(i) \/ (Told(i) /\ quit[i])
        BY <2>5, <3>1 DEF ThreadAt, Alive
    <3>3. Told(i) => /\ owner \notin {"start", "running"} /\ i <= cur
                     /\ ~(cur = i /\ owner = "quit")
        BY <2>1, <2>4 DEF Told, Past, Stopping, StopInv, Threads
    <3> QED
        BY <2>1, <3>2, <3>3
  <2> QED
      BY <2>6, <2>7
<1> QED
    BY <1>1, Invariant, PTL

\* No EventLoopThread is destroyed before its thread has ended, which uses
\* its members up to then.
THEOREM ThreadsOutlived == Spec => []ThreadOutlived
<1>1. Inv => ThreadOutlived
    BY DEF Inv, StopInv, ThreadOutlived, TypeOK
<1> QED
    BY <1>1, Invariant, PTL
==============================================================================

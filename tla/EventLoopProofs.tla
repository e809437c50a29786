--------------------------- MODULE EventLoopProofs ---------------------------
(***************************************************************************)
(* Proofs about EventLoop, for any sets of threads and functors: its types *)
(* and flags, no lost wakeup, no sleep after quit, and that it implements  *)
(* the task queue (its safety part).                                       *)
(***************************************************************************)
EXTENDS EventLoop, SequenceTheorems, TLAPS

------------------------------------------------------------------------------
(* The types.                                                              *)

\* What the actions read of the queues stays typed.
LEMMA QueueTypes ==
  ASSUME NEW f \in Functors, NEW s \in Seq(Functors)
  PROVE  /\ Append(s, f) \in Seq(Functors)
         /\ s # <<>> => Head(s) \in Functors /\ Tail(s) \in Seq(Functors)
  BY AppendProperties, HeadTailProperties

\* Every step preserves the types and the two flags of the loop thread.
LEMMA TypeStep == TypeOK /\ [Next]_vars => TypeOK'
<1> SUFFICES ASSUME TypeOK, [Next]_vars
             PROVE  TypeOK'
    OBVIOUS
<1> USE DEF TypeOK, PCs
<1>1. CASE EnterLoop
    BY <1>1 DEF EnterLoop, queueVars
<1>2. CASE TestQuit
    BY <1>2 DEF TestQuit, queueVars, LoopingAfterTest
<1>3. CASE PollWakeup
    BY <1>3 DEF PollWakeup, queueVars
<1>4. CASE PollOther
    BY <1>4 DEF PollOther, queueVars
<1>5. CASE SwapPending
    BY <1>5, EmptySeq DEF SwapPending
<1>6. CASE RunFunctor
  <2>1. /\ Head(functors) \in Functors
        /\ Tail(functors) \in Seq(Functors)
      BY <1>6, QueueTypes, HeadTailProperties DEF RunFunctor
  <2>2. ran' \in Seq(Functors)
      BY <1>6, <2>1, QueueTypes DEF RunFunctor
  <2> QED
      BY <1>6, <2>1, <2>2 DEF RunFunctor
<1>7. CASE FunctorReturns
    BY <1>7 DEF FunctorReturns, queueVars
<1>8. CASE EndPending
    BY <1>8 DEF EndPending
<1>9. ASSUME NEW f \in Functors, QueueInOwnLoop(f)
      PROVE  TypeOK'
    BY <1>9, QueueTypes DEF QueueInOwnLoop, PushBack, OwnPushWakes, loopVars
<1>10. ASSUME NEW f \in Functors, RunInOwnLoop(f)
       PROVE  TypeOK'
    BY <1>10, QueueTypes DEF RunInOwnLoop, loopVars
<1>11. CASE QuitOwnLoop
    BY <1>11 DEF QuitOwnLoop, queueVars
<1>12. ASSUME NEW t \in Threads, NEW f \in Functors, QueueInLoop(t, f)
       PROVE  TypeOK'
    BY <1>12, QueueTypes DEF QueueInLoop, PushBack, GoesToWakeup, loopVars
<1>13. ASSUME NEW t \in Threads, Quit(t)
       PROVE  TypeOK'
    BY <1>13 DEF Quit, GoesToWakeup, queueVars
<1>14. ASSUME NEW t \in Threads, Wakeup(t)
       PROVE  TypeOK'
    BY <1>14 DEF Wakeup, loopVars, queueVars
<1>15. CASE UNCHANGED vars
    BY <1>15 DEF vars
<1> QED
    BY <1>1, <1>2, <1>3, <1>4, <1>5, <1>6, <1>7, <1>8, <1>9, <1>10, <1>11,
       <1>12, <1>13, <1>14, <1>15 DEF Next, LoopStep

\* TypeOK holds in every reachable state: looping_ and isdoPendingFunctors
\* are what the control of EventLoop::loop says they are.
THEOREM TypeCorrect == Spec => []TypeOK
<1>1. Init => TypeOK
    BY EmptySeq DEF Init, TypeOK, PCs
<1> QED
    BY <1>1, TypeStep, PTL DEF Spec

------------------------------------------------------------------------------
(* No lost wakeup.                                                         *)

\* The strengthening: from the swap in doPendingFunctors to epoll_wait, all
\* that is pushed comes with a wakeup; only while channel events are handled
\* (and when the loop has stopped) may the queue fill without one, and then
\* the swap is still to come.
QueuedWakes ==
  pc \notin {"events", "stopped"} /\ pendingFunctors # <<>> => WakeupComing

\* The inductive invariant of the wakeup.
WakeInv == TypeOK /\ QueuedWakes /\ NoSleepAfterQuit

\* Every step preserves it: pushes of other threads by the wakeup they go on
\* to, pushes of the loop's own thread by isdoPendingFunctors.
LEMMA WakeStep == WakeInv /\ [Next]_vars => WakeInv'
<1> SUFFICES ASSUME WakeInv, [Next]_vars
             PROVE  QueuedWakes' /\ NoSleepAfterQuit'
    BY TypeStep DEF WakeInv
<1> USE DEF WakeInv, QueuedWakes, NoSleepAfterQuit, WakeupComing
<1> TypeOK
    OBVIOUS
<1>1. CASE EnterLoop
    BY <1>1 DEF EnterLoop, queueVars
<1>2. CASE TestQuit
    BY <1>2 DEF TestQuit, queueVars
<1>3. CASE PollWakeup
    BY <1>3 DEF PollWakeup, queueVars
<1>4. CASE PollOther
    BY <1>4 DEF PollOther, queueVars
<1>5. CASE SwapPending
    BY <1>5 DEF SwapPending
<1>6. CASE RunFunctor
    BY <1>6 DEF RunFunctor
<1>7. CASE FunctorReturns
    BY <1>7 DEF FunctorReturns, queueVars
<1>8. CASE EndPending
    BY <1>8 DEF EndPending
<1>9. ASSUME NEW f \in Functors, QueueInOwnLoop(f)
      PROVE  QueuedWakes' /\ NoSleepAfterQuit'
    BY <1>9 DEF QueueInOwnLoop, InCallback, OwnPushWakes, loopVars, TypeOK
<1>10. ASSUME NEW f \in Functors, RunInOwnLoop(f)
       PROVE  QueuedWakes' /\ NoSleepAfterQuit'
    BY <1>10 DEF RunInOwnLoop, loopVars
<1>11. CASE QuitOwnLoop
    BY <1>11 DEF QuitOwnLoop, InCallback, queueVars
<1>12. ASSUME NEW t \in Threads, NEW f \in Functors, QueueInLoop(t, f)
       PROVE  QueuedWakes' /\ NoSleepAfterQuit'
    BY <1>12 DEF QueueInLoop, GoesToWakeup, loopVars
<1>13. ASSUME NEW t \in Threads, Quit(t)
       PROVE  QueuedWakes' /\ NoSleepAfterQuit'
    BY <1>13 DEF Quit, GoesToWakeup, queueVars
<1>14. ASSUME NEW t \in Threads, Wakeup(t)
       PROVE  QueuedWakes' /\ NoSleepAfterQuit'
    BY <1>14 DEF Wakeup, loopVars, queueVars
<1>15. CASE UNCHANGED vars
    BY <1>15 DEF vars
<1> QED
    BY <1>1, <1>2, <1>3, <1>4, <1>5, <1>6, <1>7, <1>8, <1>9, <1>10, <1>11,
       <1>12, <1>13, <1>14, <1>15 DEF Next, LoopStep

\* The inductive invariant holds throughout.
LEMMA WakeInvariant == Spec => []WakeInv
<1>1. Init => WakeInv
    BY EmptySeq
    DEF Init, WakeInv, TypeOK, PCs, QueuedWakes, NoSleepAfterQuit
<1> QED
    BY <1>1, WakeStep, PTL DEF Spec

\* No lost wakeup, for any number of threads and functors: the loop never
\* sleeps in epoll_wait on a non-empty pendingFunctors_ with no wakeup
\* coming.
THEOREM NoWakeupLost == Spec => []NoLostWakeup
<1>1. WakeInv => NoLostWakeup
    BY DEF WakeInv, QueuedWakes, NoLostWakeup
<1> QED
    BY <1>1, WakeInvariant, PTL

\* No sleep after quit(), for any number of threads.
THEOREM NoQuitLost == Spec => []NoSleepAfterQuit
<1>1. WakeInv => NoSleepAfterQuit
    BY DEF WakeInv
<1> QED
    BY <1>1, WakeInvariant, PTL

------------------------------------------------------------------------------
(* The loop implements the task queue.                                     *)

\* Facts about the queue functors \o pendingFunctors.
LEMMA ConcatAppend ==
  ASSUME NEW s \in Seq(Functors), NEW t \in Seq(Functors), NEW f \in Functors
  PROVE  s \o Append(t, f) = Append(s \o t, f)
<1>1. Append(t, f) = t \o <<f>> /\ <<f>> \in Seq(Functors)
    BY AppendIsConcat
<1>2. s \o t \in Seq(Functors)
    BY ConcatProperties
<1>3. Append(s \o t, f) = (s \o t) \o <<f>>
    BY <1>2, AppendIsConcat
<1> QED
    BY <1>1, <1>3, ConcatAssociative

\* The head of the queue is the next functor of the vector swapped out.
LEMMA ConcatHeadTail ==
  ASSUME NEW s \in Seq(Functors), NEW t \in Seq(Functors), s # <<>>
  PROVE  /\ s \o t # <<>>
         /\ Head(s \o t) = Head(s)
         /\ Tail(s \o t) = Tail(s) \o t
<1>1. /\ s \o t \in Seq(Functors)
      /\ s \o t # <<>>
    BY ConcatProperties, ConcatEqualIffEmpty
<1>2. Len(s) \in Nat \ {0} /\ Len(t) \in Nat
    BY EmptySeq, LenProperties
<1>3. /\ Len(s \o t) = Len(s) + Len(t)
      /\ \A i \in 1 .. Len(s) + Len(t) :
           (s \o t)[i] = IF i <= Len(s) THEN s[i] ELSE t[i - Len(s)]
    BY ConcatProperties
<1>4. /\ Tail(s) \in Seq(Functors)
      /\ Len(Tail(s)) = Len(s) - 1
      /\ \A i \in 1 .. Len(Tail(s)) : Tail(s)[i] = s[i + 1]
    BY HeadTailProperties
<1>5. /\ Tail(s \o t) \in Seq(Functors)
      /\ Len(Tail(s \o t)) = Len(s \o t) - 1
      /\ \A i \in 1 .. Len(Tail(s \o t)) : Tail(s \o t)[i] = (s \o t)[i + 1]
    BY <1>1, HeadTailProperties
<1>6. /\ Tail(s) \o t \in Seq(Functors)
      /\ Len(Tail(s) \o t) = Len(Tail(s)) + Len(t)
      /\ \A i \in 1 .. Len(Tail(s)) + Len(t) :
           (Tail(s) \o t)[i] = IF i <= Len(Tail(s)) THEN Tail(s)[i]
                                                  ELSE t[i - Len(Tail(s))]
    BY <1>4, ConcatProperties
<1>7. \A i \in 1 .. Len(Tail(s \o t)) : Tail(s \o t)[i] = (Tail(s) \o t)[i]
    BY <1>2, <1>3, <1>4, <1>5, <1>6
<1>8. Tail(s \o t) = Tail(s) \o t
    BY <1>2, <1>3, <1>4, <1>5, <1>6, <1>7, SeqEqual
<1>9. Head(s \o t) = Head(s)
    BY <1>1, <1>2, <1>3
<1> QED
    BY <1>1, <1>8, <1>9

\* What is in the two vectors is what is in the queue.
LEMMA ConcatElements ==
  ASSUME NEW s \in Seq(Functors), NEW t \in Seq(Functors)
  PROVE  Elements(s \o t) = Elements(s) \cup Elements(t)
<1>1. Len(s) \in Nat /\ Len(t) \in Nat
    BY LenProperties
<1>2. /\ DOMAIN s = 1 .. Len(s)
      /\ DOMAIN t = 1 .. Len(t)
      /\ DOMAIN (s \o t) = 1 .. Len(s) + Len(t)
    BY ConcatProperties, LenProperties
<1>3. \A i \in 1 .. Len(s) + Len(t) :
        (s \o t)[i] = IF i <= Len(s) THEN s[i] ELSE t[i - Len(s)]
    BY ConcatProperties
<1>4. ASSUME NEW x \in Elements(s \o t)
      PROVE  x \in Elements(s) \cup Elements(t)
  <2>1. PICK i \in 1 .. Len(s) + Len(t) : x = (s \o t)[i]
      BY <1>2, <1>4 DEF Elements
  <2>2. CASE i <= Len(s)
      BY <1>1, <1>2, <1>3, <2>1, <2>2 DEF Elements
  <2>3. CASE i > Len(s)
    <3>1. i - Len(s) \in DOMAIN t /\ x = t[i - Len(s)]
        BY <1>1, <1>2, <1>3, <2>1, <2>3
    <3> QED
        BY <3>1 DEF Elements
  <2> QED
      BY <1>1, <2>2, <2>3
<1>5. ASSUME NEW x \in Elements(s)
      PROVE  x \in Elements(s \o t)
  <2>1. PICK i \in 1 .. Len(s) : x = s[i]
      BY <1>2, <1>5 DEF Elements
  <2>2. i \in DOMAIN (s \o t) /\ x = (s \o t)[i]
      BY <1>1, <1>2, <1>3, <2>1
  <2> QED
      BY <2>2 DEF Elements
<1>6. ASSUME NEW x \in Elements(t)
      PROVE  x \in Elements(s \o t)
  <2>1. PICK i \in 1 .. Len(t) : x = t[i]
      BY <1>2, <1>6 DEF Elements
  <2>2. /\ Len(s) + i \in DOMAIN (s \o t)
        /\ x = (s \o t)[Len(s) + i]
      BY <1>1, <1>2, <1>3, <2>1
  <2> QED
      BY <2>2 DEF Elements
<1> QED
    BY <1>4, <1>5, <1>6

\* The vector that doPendingFunctors works on is empty outside of it.
QueueInv == TypeOK /\ (functors # <<>> => pc \in {"run", "body"})

\* Every step keeps it so: EndPending waits for the vector to be empty.
LEMMA QueueInvariant == Spec => []QueueInv
<1>1. Init => QueueInv
    BY EmptySeq DEF Init, QueueInv, TypeOK, PCs
<1>2. QueueInv /\ [Next]_vars => QueueInv'
  <2> SUFFICES ASSUME QueueInv, [Next]_vars
               PROVE  (functors # <<>> => pc \in {"run", "body"})'
      BY TypeStep DEF QueueInv
  <2> QED
      BY DEF QueueInv, Next, LoopStep, vars, loopVars, queueVars, EnterLoop,
             TestQuit, PollWakeup, PollOther, SwapPending, RunFunctor,
             FunctorReturns, EndPending, QueueInOwnLoop, RunInOwnLoop,
             QuitOwnLoop, QueueInLoop, Quit, Wakeup
<1> QED
    BY <1>1, <1>2, PTL DEF Spec

\* A functor is handed over in the loop exactly when it is in the task queue.
LEMMA SameHanded == TypeOK => TQ!Handed = Handed
<1> SUFFICES ASSUME TypeOK
             PROVE  TQ!Handed = Handed
    OBVIOUS
<1>1. TQ!Handed = Elements(functors \o pendingFunctors) \cup Elements(ran)
    BY DEF TQ!Handed, Elements
<1>2. Elements(functors \o pendingFunctors)
        = Elements(functors) \cup Elements(pendingFunctors)
    BY ConcatElements DEF TypeOK
<1> QED
    BY <1>1, <1>2 DEF Handed

\* Every step of the loop is a step of the task queue or leaves it alone.
LEMMA StepSimulation == QueueInv /\ [Next]_vars => [TQ!Next]_(TQ!vars)
<1> SUFFICES ASSUME QueueInv, [Next]_vars
             PROVE  TQ!Next \/ UNCHANGED TQ!vars
    OBVIOUS
<1> DEFINE queue == functors \o pendingFunctors
<1>0. /\ TypeOK
      /\ functors \in Seq(Functors) /\ pendingFunctors \in Seq(Functors)
      /\ ran \in Seq(Functors)
      /\ functors # <<>> => pc \in {"run", "body"}
    BY DEF QueueInv, TypeOK
<1>1. CASE \/ EnterLoop \/ PollWakeup \/ PollOther \/ FunctorReturns
           \/ EndPending \/ QuitOwnLoop
           \/ \E t \in Threads : Quit(t) \/ Wakeup(t)
           \/ UNCHANGED vars
  <2>1. UNCHANGED <<functors, pendingFunctors, ran>>
      BY <1>1 DEF EnterLoop, PollWakeup, PollOther, FunctorReturns, EndPending,
                  QuitOwnLoop, Quit, Wakeup, vars, loopVars, queueVars
  <2>2. (pc' # "stopped") = (pc # "stopped")
      BY <1>1 DEF EnterLoop, PollWakeup, PollOther, FunctorReturns, EndPending,
                  QuitOwnLoop, Quit, Wakeup, vars, loopVars, queueVars
  <2> QED
      BY <2>1, <2>2 DEF TQ!vars
<1>2. CASE TestQuit
  <2>1. UNCHANGED <<functors, pendingFunctors, ran>> /\ pc = "while"
      BY <1>2 DEF TestQuit, queueVars
  <2>2. CASE quit
      BY <1>2, <2>1, <2>2 DEF TestQuit, TQ!Next, TQ!Close
  <2>3. CASE ~quit
    <3>1. (pc' # "stopped") = (pc # "stopped")
        BY <1>2, <2>1, <2>3 DEF TestQuit
    <3> QED
        BY <2>1, <3>1 DEF TQ!vars
  <2> QED
      BY <2>2, <2>3
<1>3. CASE SwapPending
  <2>1. functors = <<>> /\ ran' = ran
      BY <1>0, <1>3 DEF SwapPending
  <2>2. queue = pendingFunctors /\ queue' = pendingFunctors
      BY <1>0, <1>3, <2>1, ConcatEmptySeq DEF SwapPending
  <2>3. (pc' # "stopped") = (pc # "stopped")
      BY <1>3 DEF SwapPending
  <2> QED
      BY <2>1, <2>2, <2>3 DEF TQ!vars
<1>4. CASE RunFunctor
  <2>1. /\ queue # <<>>
        /\ Head(queue) = Head(functors)
        /\ queue' = Tail(queue)
      BY <1>0, <1>4, ConcatHeadTail DEF RunFunctor
  <2>2. ran' = Append(ran, Head(queue))
      BY <1>4, <2>1 DEF RunFunctor
  <2>3. pc # "stopped" /\ (pc' # "stopped") = (pc # "stopped")
      BY <1>4 DEF RunFunctor
  <2> QED
      BY <2>1, <2>2, <2>3 DEF TQ!Next, TQ!RunNext
<1>5. ASSUME NEW f \in Functors,
             QueueInOwnLoop(f) \/ \E t \in Threads : QueueInLoop(t, f)
      PROVE  TQ!Next
  <2>1. /\ f \notin Handed
        /\ pendingFunctors' = Append(pendingFunctors, f)
        /\ UNCHANGED <<functors, ran, pc>>
      BY <1>5 DEF QueueInOwnLoop, QueueInLoop, PushBack, loopVars
  <2>2. f \notin TQ!Handed
      BY <1>0, <2>1, SameHanded
  <2>3. queue' = Append(queue, f)
      BY <1>0, <2>1, ConcatAppend
  <2>4. TQ!Submit(f)
      BY <2>1, <2>2, <2>3 DEF TQ!Submit
  <2> QED
      BY <2>4 DEF TQ!Next
<1>6. ASSUME NEW f \in Functors, RunInOwnLoop(f)
      PROVE  TQ!Next
  <2>1. /\ f \notin Handed
        /\ ran' = Append(ran, f)
        /\ UNCHANGED <<functors, pendingFunctors, pc>>
        /\ pc # "stopped"
      BY <1>6 DEF RunInOwnLoop, InCallback, loopVars
  <2>2. f \notin TQ!Handed
      BY <1>0, <2>1, SameHanded
  <2>3. TQ!RunNow(f)
      BY <2>1, <2>2 DEF TQ!RunNow
  <2> QED
      BY <2>3 DEF TQ!Next
<1> QED
    BY <1>1, <1>2, <1>3, <1>4, <1>5, <1>6 DEF Next, LoopStep

\* EventLoop implements TaskQueue, whatever the threads and functors: each
\* functor runs at most once, those queued in the order queueInLoop took
\* them, and none once the loop has stopped.
THEOREM LoopIsTaskQueue == Spec => ImplementsTaskQueue
<1>1. Init => TQ!Init
  <2> SUFFICES ASSUME Init
               PROVE  TQ!Init
      OBVIOUS
  <2>1. functors \o pendingFunctors = <<>>
      BY EmptySeq, ConcatEmptySeq DEF Init
  <2> QED
      BY <2>1 DEF Init, TQ!Init
<1> QED
    BY <1>1, QueueInvariant, StepSimulation, PTL
    DEF Spec, ImplementsTaskQueue, TQ!Spec
==============================================================================

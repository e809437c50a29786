------------------------------ MODULE EventLoop ------------------------------
(***************************************************************************)
(* One EventLoop (src/net/EventLoop.cpp): its own thread, which runs       *)
(* loop(), and other threads that hand it functors or ask it to quit.      *)
(*                                                                         *)
(* A step of the loop thread ends where another thread can observe it:     *)
(* the read of quit_, epoll_wait, the swap of pendingFunctors_ under       *)
(* mutex_.  queueInLoop() of another thread takes two steps, the push      *)
(* under mutex_ and the write to wakeupFd_, and so does quit().            *)
(*                                                                         *)
(* wakeupFd_ is registered with EPOLLET and no callback ever reads it, so  *)
(* what matters of it is the edge: every write arms it and epoll_wait      *)
(* disarms it by reporting it.                                             *)
(***************************************************************************)
EXTENDS Sequences

CONSTANTS
  Threads,               \* the threads other than the loop's own
  Functors               \* the functors; handing each one over at most once
                         \* bounds the queue

VARIABLES
  pc,                    \* where the loop thread is
  looping,               \* looping_
  quit,                  \* quit_
  isdoPendingFunctors,
  pendingFunctors,       \* pendingFunctors_, guarded by mutex_
  functors,              \* the vector doPendingFunctors swapped out, what is
                         \* left of it to run
  wakeupEdge,            \* epoll_wait has an event of wakeupFd_ to report
  wakingUp,              \* threads between a push (or quit_ = true) and wakeup
  ran                    \* functors that have started, oldest first

loopVars == <<pc, looping, quit>>
queueVars == <<isdoPendingFunctors, pendingFunctors, functors, ran>>
vars == <<pc, looping, quit, isdoPendingFunctors, pendingFunctors, functors,
          wakeupEdge, wakingUp, ran>>

\* "while" is the test of quit_, "poll" epoll_wait, "events" the loop over
\* activeChannels_, "run" and "body" doPendingFunctors between two functors
\* and inside one.
PCs == {"created", "while", "poll", "events", "run", "body", "stopped"}

Elements(s) == {s[i] : i \in DOMAIN s}

\* The functors some caller has already handed over.
Handed == Elements(ran) \cup Elements(functors) \cup Elements(pendingFunctors)

Init ==
  /\ pc = "created"
  /\ looping = FALSE
  /\ quit = FALSE
  /\ isdoPendingFunctors = FALSE
  /\ pendingFunctors = <<>>
  /\ functors = <<>>
  /\ wakeupEdge = FALSE
  /\ wakingUp = {}
  /\ ran = <<>>

------------------------------------------------------------------------------
(* The pieces of the handlers that are easiest to get wrong.  Each is      *)
(* followed through the model by a Bug_ variant, a mistake one could make  *)
(* in that line of the code; the variants are used by no action.           *)

\* looping_ when the test of quit_ is over: true, or reset after the loop.
Bug_LoopingKept == looping
LoopingAfterTest == ~quit

\* queueInLoop() on the loop's own thread writes wakeupFd_ only inside
\* doPendingFunctors: from a channel callback the swap is still to come.
Bug_OwnPushSilent == FALSE
OwnPushWakes == isdoPendingFunctors

\* pendingFunctors_.push_back(cb)
Bug_PushFront(f) == <<f>> \o pendingFunctors
PushBack(f) == Append(pendingFunctors, f)

\* Another thread that has pushed, or has set quit_, goes on to wakeup().
Bug_NoWakeup(t) == wakingUp
GoesToWakeup(t) == wakingUp \cup {t}

------------------------------------------------------------------------------
(* The loop thread.                                                        *)

\* loop() up to the first test of quit_.  It resets quit_.
EnterLoop ==
  /\ pc = "created"
  /\ pc' = "while"
  /\ looping' = TRUE
  /\ quit' = FALSE
  /\ UNCHANGED <<queueVars, wakeupEdge, wakingUp>>

\* while(!quit_)
TestQuit ==
  /\ pc = "while"
  /\ pc' = IF quit THEN "stopped" ELSE "poll"
  /\ looping' = LoopingAfterTest
  /\ UNCHANGED <<quit, queueVars, wakeupEdge, wakingUp>>

\* epoll_wait returns because wakeupFd_ was written.
PollWakeup ==
  /\ pc = "poll"
  /\ wakeupEdge
  /\ pc' = "events"
  /\ wakeupEdge' = FALSE
  /\ UNCHANGED <<looping, quit, queueVars, wakingUp>>

\* epoll_wait returns for other channels, for the timerfd or on POLLINTERVAL.
PollOther ==
  /\ pc = "poll"
  /\ pc' = "events"
  /\ UNCHANGED <<looping, quit, queueVars, wakeupEdge, wakingUp>>

\* All events handled; doPendingFunctors() takes the queue.
SwapPending ==
  /\ pc = "events"
  /\ pc' = "run"
  /\ isdoPendingFunctors' = TRUE
  /\ functors' = pendingFunctors
  /\ pendingFunctors' = <<>>
  /\ UNCHANGED <<looping, quit, wakeupEdge, wakingUp, ran>>

RunFunctor ==
  /\ pc = "run"
  /\ functors # <<>>
  /\ pc' = "body"
  /\ ran' = Append(ran, Head(functors))
  /\ functors' = Tail(functors)
  /\ UNCHANGED <<looping, quit, isdoPendingFunctors, pendingFunctors,
                 wakeupEdge, wakingUp>>

FunctorReturns ==
  /\ pc = "body"
  /\ pc' = "run"
  /\ UNCHANGED <<looping, quit, queueVars, wakeupEdge, wakingUp>>

EndPending ==
  /\ pc = "run"
  /\ functors = <<>>
  /\ pc' = "while"
  /\ isdoPendingFunctors' = FALSE
  /\ UNCHANGED <<looping, quit, pendingFunctors, functors, wakeupEdge,
                 wakingUp, ran>>

------------------------------------------------------------------------------
(* What a channel callback or a functor may do on the loop thread.         *)

InCallback == pc \in {"events", "body"}

\* queueInLoop() on the loop's own thread.
QueueInOwnLoop(f) ==
  /\ InCallback
  /\ f \notin Handed
  /\ pendingFunctors' = PushBack(f)
  /\ wakeupEdge' = (wakeupEdge \/ OwnPushWakes)
  /\ UNCHANGED <<loopVars, isdoPendingFunctors, functors, wakingUp, ran>>

\* runInLoop() on the loop's own thread calls the functor at once.
RunInOwnLoop(f) ==
  /\ InCallback
  /\ f \notin Handed
  /\ ran' = Append(ran, f)
  /\ UNCHANGED <<loopVars, isdoPendingFunctors, pendingFunctors, functors,
                 wakeupEdge, wakingUp>>

QuitOwnLoop ==
  /\ InCallback
  /\ quit' = TRUE
  /\ UNCHANGED <<pc, looping, queueVars, wakeupEdge, wakingUp>>

------------------------------------------------------------------------------
(* The other threads, at any time, before loop() starts included.          *)

\* queueInLoop(), and runInLoop() which comes to the same here: the push.
QueueInLoop(t, f) ==
  /\ t \notin wakingUp
  /\ f \notin Handed
  /\ pendingFunctors' = PushBack(f)
  /\ wakingUp' = GoesToWakeup(t)
  /\ UNCHANGED <<loopVars, isdoPendingFunctors, functors, wakeupEdge, ran>>

\* quit(): quit_ = true.
Quit(t) ==
  /\ t \notin wakingUp
  /\ quit' = TRUE
  /\ wakingUp' = GoesToWakeup(t)
  /\ UNCHANGED <<pc, looping, queueVars, wakeupEdge>>

\* wakeup(): the write to wakeupFd_ that both end with.
Wakeup(t) ==
  /\ t \in wakingUp
  /\ wakingUp' = wakingUp \ {t}
  /\ wakeupEdge' = TRUE
  /\ UNCHANGED <<loopVars, queueVars>>

------------------------------------------------------------------------------
LoopStep ==
  \/ EnterLoop \/ TestQuit \/ PollWakeup \/ SwapPending
  \/ RunFunctor \/ FunctorReturns \/ EndPending

Next ==
  \/ LoopStep
  \/ PollOther
  \/ QuitOwnLoop
  \/ \E f \in Functors : QueueInOwnLoop(f) \/ RunInOwnLoop(f)
  \/ \E t \in Threads : Quit(t) \/ Wakeup(t)
  \/ \E t \in Threads, f \in Functors : QueueInLoop(t, f)

\* The loop thread keeps running and a thread that has pushed reaches its
\* wakeup().  No fairness for PollOther: what must happen may not depend on
\* the timerfd or on POLLINTERVAL ending epoll_wait.
Fairness ==
  /\ WF_vars(LoopStep)
  /\ \A t \in Threads : WF_vars(Wakeup(t))

Spec == Init /\ [][Next]_vars /\ Fairness

------------------------------------------------------------------------------
\* Types, and the two flags of the code against the control of the loop
\* thread: looping_ is false again when loop() returns (~EventLoop asserts
\* it) and isdoPendingFunctors is up exactly while functors run.
TypeOK ==
  /\ pc \in PCs
  /\ looping \in BOOLEAN /\ (looping <=> pc \notin {"created", "stopped"})
  /\ quit \in BOOLEAN
  /\ isdoPendingFunctors \in BOOLEAN
  /\ isdoPendingFunctors <=> pc \in {"run", "body"}
  /\ pendingFunctors \in Seq(Functors)
  /\ functors \in Seq(Functors)
  /\ wakeupEdge \in BOOLEAN
  /\ wakingUp \in SUBSET Threads
  /\ ran \in Seq(Functors)

\* Something will end epoll_wait: an edge, or a thread about to make one.
WakeupComing == wakeupEdge \/ wakingUp # {}

\* No lost wakeup: the loop never sleeps in epoll_wait on a non-empty
\* pendingFunctors_ without a wakeup on its way.  It rests on the test
\* "!isInLoopThread() || isdoPendingFunctors" of queueInLoop and on the place
\* where doPendingFunctors raises the flag.
NoLostWakeup ==
  pc = "poll" /\ pendingFunctors # <<>> => WakeupComing

\* A loop told to quit while it polls is woken: the wakeup() of quit().
NoSleepAfterQuit ==
  pc = "poll" /\ quit => WakeupComing

\* The loop stops once quit() is called on a running loop, without the help
\* of a timeout.
QuitStops == (quit /\ looping) ~> (pc = "stopped")

TQ == INSTANCE TaskQueue WITH
        queue <- functors \o pendingFunctors,
        open  <- pc # "stopped"

\* The loop implements the task queue: every functor runs once, in the order
\* in which queueInLoop accepted them, across the swap of the two vectors.
ImplementsTaskQueue == TQ!Spec

\* ... and every accepted functor runs unless the loop stops.
EveryFunctorRuns == TQ!Drains
==============================================================================

--------------------------- MODULE EventLoopThread ---------------------------
(***************************************************************************)
(* The IO threads of the server (src/net/EventLoopThread,                  *)
(* EventLoopThreadPool, src/base/Thread, CountDownLatch): the main thread  *)
(* starts them one after the other, each with a loop of its own, waits     *)
(* twice for each of them (for its tid, then for its loop), and at the end *)
(* of the program quits and joins them one after the other.                *)
(*                                                                         *)
(* The two waits are loops over pthread_cond_wait under a mutex: testing   *)
(* and going to sleep are one step, and so are the change and the          *)
(* notification of the other side.  loop_ is also read and reset without   *)
(* the mutex, a step for each.  What a loop does is reduced to when it     *)
(* stops (module EventLoop).                                               *)
(*                                                                         *)
(* quit() of the main thread is two steps, the store of quit_ and the      *)
(* wakeup(), both on the EventLoop on the stack of the other thread.  That *)
(* thread may see quit_ and return in between, so that wakeup() runs on an *)
(* object that is gone.                                                    *)
(***************************************************************************)
EXTENDS Naturals, Sequences

CONSTANT ThreadNums      \* threadNums_

ASSUME ThreadNumsOK == ThreadNums \in Nat \ {0}

Threads == 1 .. ThreadNums

VARIABLES
  owner,                 \* where the main thread is
  cur,                   \* the EventLoopThread it is busy with
  woken,                 \* it waits on a condition and has been notified
  loops,                 \* loops_: whether each pointer is to a loop
  started, joined,       \* started_ and joined_ of each Thread
  tid,                   \* whether tid_ has been set
  latch,                 \* count_ of latch_
  child,                 \* where each new thread is
  loop,                  \* whether loop_ points to a loop
  quit, edge,            \* quit_ of that loop, and its wakeupFd_
  destroyed,             \* the EventLoopThreads that are gone
  failed                 \* the checks that failed: assertions of Thread, and
                         \* the one wakeup() makes of its write()

ownerVars == <<owner, cur, loops, started, joined, destroyed, failed>>
vars == <<ownerVars, woken, tid, latch, child, loop, quit, edge>>

Init ==
  /\ owner = "start"
  /\ cur = 1
  /\ woken = FALSE
  /\ loops = <<>>
  /\ started = [i \in Threads |-> FALSE]
  /\ joined = [i \in Threads |-> FALSE]
  /\ tid = [i \in Threads |-> FALSE]
  /\ latch = [i \in Threads |-> 1]
  /\ child = [i \in Threads |-> "none"]
  /\ loop = [i \in Threads |-> FALSE]
  /\ quit = [i \in Threads |-> FALSE]
  /\ edge = [i \in Threads |-> FALSE]
  /\ destroyed = {}
  /\ failed = {}

\* assert(holds) in the code called what
Assert(holds, what) == failed' = IF holds THEN failed ELSE failed \cup {what}

------------------------------------------------------------------------------
(* The pieces that are easiest to get wrong, each after a variant with a   *)
(* mistake one could make in it (Bug_...), which no action uses.           *)

\* for(int i = 0; i < threadNums_; ++i)
Bug_OneThreadMore == cur <= ThreadNums
AnotherThread == cur < ThreadNums

\* CountDownLatch::wait() goes on when the count is down.
Bug_LatchOpen(i) == TRUE
LatchDown(i) == latch[i] = 0

\* startLoop() waits for loop_.
Bug_LoopAssumed(i) == TRUE
LoopPublished(i) == loop[i]

\* countDown() and threadfunc() notify while the main thread waits.
Bug_NotNotified(i) == woken
Notified(i) == woken \/ (cur = i /\ owner \in {"latchWait", "condWait"})

\* pthread_join() returns when the thread is over.
Bug_JoinAtOnce(i) == TRUE
ThreadOver(i) == child[i] = "finished"

\* The loop on the stack of thread i exists.
Alive(i) == child[i] \in {"enter", "while", "poll", "clear", "return"}

\* quit() of another thread ends with wakeup().
Bug_NoWakeup(i) == edge
EdgeAfterQuit(i) == [edge EXCEPT ![i] = TRUE]

------------------------------------------------------------------------------
(* EventLoopThreadPool::start(), on the main thread.                       *)

\* Thread::start() up to pthread_create(), which may fail: then startLoop()
\* goes on to wait for a loop.
StartThread ==
  /\ owner = "start"
  /\ Assert(~started[cur], "start")
  /\ \/ /\ owner' = "latch"
        /\ started' = [started EXCEPT ![cur] = TRUE]
        /\ child' = [child EXCEPT ![cur] = "tid"]
     \/ /\ owner' = "cond"
        /\ UNCHANGED <<started, child>>
  /\ UNCHANGED <<cur, loops, joined, destroyed, woken, tid, latch, loop, quit,
                 edge>>

\* latch_.wait() of Thread::start(), then assert(tid_ > 0)
TestLatch ==
  /\ owner = "latch"
  /\ IF LatchDown(cur)
       THEN owner' = "cond" /\ Assert(tid[cur], "tid") /\ UNCHANGED woken
       ELSE owner' = "latchWait" /\ woken' = FALSE /\ UNCHANGED failed
  /\ UNCHANGED <<cur, loops, started, joined, destroyed, tid, latch, child,
                 loop, quit, edge>>

\* while(loop_ == nullptr) cond_.wait()
TestLoop ==
  /\ owner = "cond"
  /\ IF LoopPublished(cur)
       THEN owner' = "return" /\ UNCHANGED woken
       ELSE owner' = "condWait" /\ woken' = FALSE
  /\ UNCHANGED <<cur, loops, started, joined, destroyed, failed, tid, latch,
                 child, loop, quit, edge>>

\* pthread_cond_wait() returns and the condition is tested again.
EndWait ==
  /\ owner \in {"latchWait", "condWait"}
  /\ owner' = IF owner = "latchWait" THEN "latch" ELSE "cond"
  /\ UNCHANGED <<cur, loops, started, joined, destroyed, failed, woken, tid,
                 latch, child, loop, quit, edge>>

\* loops_.push_back() of what startLoop() returns, and the next thread.
PushLoop ==
  /\ owner = "return"
  /\ loops' = Append(loops, loop[cur])
  /\ IF AnotherThread THEN owner' = "start" /\ cur' = cur + 1
                      ELSE owner' = "running" /\ UNCHANGED cur
  /\ UNCHANGED <<started, joined, destroyed, failed, woken, tid, latch, child,
                 loop, quit, edge>>

------------------------------------------------------------------------------
(* ~EventLoopThreadPool(), which destroys the threads one after the other. *)

Stop ==
  /\ owner = "running"
  /\ owner' = "destroy"
  /\ cur' = 1
  /\ UNCHANGED <<loops, started, joined, destroyed, failed, woken, tid, latch,
                 child, loop, quit, edge>>

\* The EventLoopThread cur is destroyed.
Destroyed ==
  /\ destroyed' = destroyed \cup {cur}
  /\ IF AnotherThread THEN owner' = "destroy" /\ cur' = cur + 1
                      ELSE owner' = "gone" /\ UNCHANGED cur

\* The test of loop_ in ~EventLoopThread(); ~Thread() detaches a thread that
\* has not been joined.
DestroyThread ==
  /\ owner = "destroy"
  /\ IF loop[cur] THEN owner' = "quit" /\ UNCHANGED <<cur, destroyed>>
                  ELSE Destroyed
  /\ UNCHANGED <<loops, started, joined, failed, woken, tid, latch, child,
                 loop, quit, edge>>

\* loop_->quit(): quit_ = true ...
QuitLoop ==
  /\ owner = "quit"
  /\ owner' = "wakeup"
  /\ quit' = [quit EXCEPT ![cur] = TRUE]
  /\ UNCHANGED <<cur, loops, started, joined, destroyed, failed, woken, tid,
                 latch, child, loop, edge>>

\* ... and wakeup().  If the thread has left its loop by now, threadId_ and
\* wakeupFd_ are read from a dead object: its memory may still be as it was,
\* and the write() succeeds (no one closes wakeupFd_) or wakeup() is left
\* out, or it holds anything, and the write() fails, or the access itself.
WakeupLoop ==
  /\ owner = "wakeup"
  /\ owner' = "join"
  /\ IF Alive(cur)
       THEN edge' = EdgeAfterQuit(cur) /\ UNCHANGED failed
       ELSE failed' \in {failed, failed \cup {"wakeup"}} /\ UNCHANGED edge
  /\ UNCHANGED <<cur, loops, started, joined, destroyed, woken, tid, latch,
                 child, loop, quit>>

\* thread_.join() up to pthread_join() ...
Join ==
  /\ owner = "join"
  /\ owner' = "joining"
  /\ Assert(started[cur] /\ ~joined[cur], "join")
  /\ joined' = [joined EXCEPT ![cur] = TRUE]
  /\ UNCHANGED <<cur, loops, started, destroyed, woken, tid, latch, child,
                 loop, quit, edge>>

\* ... and from there.
Joined ==
  /\ owner = "joining"
  /\ ThreadOver(cur)
  /\ Destroyed
  /\ UNCHANGED <<loops, started, joined, failed, woken, tid, latch, child,
                 loop, quit, edge>>

------------------------------------------------------------------------------
(* A new thread: ThreadData::run_in_thread() and threadfunc().             *)

From(i, here, there) == child[i] = here /\ child' = [child EXCEPT ![i] = there]

SetTid(i) ==
  /\ From(i, "tid", "count")
  /\ tid' = [tid EXCEPT ![i] = TRUE]
  /\ UNCHANGED <<ownerVars, woken, latch, loop, quit, edge>>

CountDown(i) ==
  /\ From(i, "count", "publish")
  /\ latch' = [latch EXCEPT ![i] = @ - 1]
  /\ woken' = Notified(i)
  /\ UNCHANGED <<ownerVars, tid, loop, quit, edge>>

\* EventLoop loop; loop_ = &loop; notify_all()
PublishLoop(i) ==
  /\ From(i, "publish", "enter")
  /\ loop' = [loop EXCEPT ![i] = TRUE]
  /\ woken' = Notified(i)
  /\ UNCHANGED <<ownerVars, tid, latch, quit, edge>>

\* loop() resets quit_.
EnterLoop(i) ==
  /\ From(i, "enter", "while")
  /\ quit' = [quit EXCEPT ![i] = FALSE]
  /\ UNCHANGED <<ownerVars, woken, tid, latch, loop, edge>>

TestQuit(i) ==
  /\ From(i, "while", IF quit[i] THEN "clear" ELSE "poll")
  /\ UNCHANGED <<ownerVars, woken, tid, latch, loop, quit, edge>>

\* epoll_wait reports wakeupFd_.
PollWakeup(i) ==
  /\ From(i, "poll", "while")
  /\ edge[i]
  /\ edge' = [edge EXCEPT ![i] = FALSE]
  /\ UNCHANGED <<ownerVars, woken, tid, latch, loop, quit>>

\* epoll_wait returns for anything else.
PollOther(i) ==
  /\ From(i, "poll", "while")
  /\ UNCHANGED <<ownerVars, woken, tid, latch, loop, quit, edge>>

\* loop_ = nullptr
ClearLoop(i) ==
  /\ From(i, "clear", "return")
  /\ loop' = [loop EXCEPT ![i] = FALSE]
  /\ UNCHANGED <<ownerVars, woken, tid, latch, quit, edge>>

\* The EventLoop is destroyed and the thread ends.
EndThread(i) ==
  /\ From(i, "return", "finished")
  /\ UNCHANGED <<ownerVars, woken, tid, latch, loop, quit, edge>>

------------------------------------------------------------------------------
OwnerStep ==
  \/ StartThread \/ TestLatch \/ TestLoop \/ PushLoop
  \/ DestroyThread \/ QuitLoop \/ WakeupLoop \/ Join \/ Joined

ChildStep(i) ==
  \/ SetTid(i) \/ CountDown(i) \/ PublishLoop(i) \/ EnterLoop(i)
  \/ TestQuit(i) \/ PollWakeup(i) \/ ClearLoop(i) \/ EndThread(i)

\* A failed assertion aborts the process, and so does log_fatal() in wakeup().
\* A wait may end without being notified.
Next ==
  /\ failed = {}
  /\ \/ OwnerStep \/ EndWait \/ Stop
     \/ \E i \in Threads : ChildStep(i) \/ PollOther(i)

\* Threads run, and a wait that has been notified ends.  The program need
\* not stop, and what must happen may not rest on spurious wakeups or on
\* POLLINTERVAL.
Fairness ==
  /\ WF_vars(failed = {} /\ OwnerStep)
  /\ WF_vars(failed = {} /\ woken /\ EndWait)
  /\ \A i \in Threads : WF_vars(failed = {} /\ ChildStep(i))

Spec == Init /\ [][Next]_vars /\ Fairness

------------------------------------------------------------------------------
TypeOK ==
  /\ owner \in {"start", "latch", "latchWait", "cond", "condWait", "return",
                "running", "destroy", "quit", "wakeup", "join", "joining",
                "gone"}
  /\ cur \in Threads
  /\ woken \in BOOLEAN
  /\ loops \in Seq(BOOLEAN)
  /\ started \in [Threads -> BOOLEAN] /\ joined \in [Threads -> BOOLEAN]
  /\ tid \in [Threads -> BOOLEAN] /\ latch \in [Threads -> 0 .. 1]
  /\ child \in [Threads -> {"none", "tid", "count", "publish", "enter",
                            "while", "poll", "clear", "return", "finished"}]
  /\ loop \in [Threads -> BOOLEAN]
  /\ quit \in [Threads -> BOOLEAN] /\ edge \in [Threads -> BOOLEAN]
  /\ destroyed \subseteq Threads
  /\ failed \subseteq {"start", "tid", "join", "wakeup"}

\* No assertion of Thread fails: start() finds its tid when the latch opens,
\* no thread is started or joined twice.  (The check in wakeup() is no
\* assertion of Thread.)
AssertionsHold == failed \subseteq {"wakeup"}

\* The pointers handed out are good until quit() has stored quit_: every entry
\* of loops_ points to a loop, the loop exists while getNextLoop() may hand
\* connections to it, and the destructor stores quit_ in a loop that exists.
\* Behind the store nothing keeps the loop: when the wakeup() of quit() comes
\* it may be gone (WakeupLoop), but only if it has seen quit_ before, so
\* that a loop that needs the wakeup is there to get it.
UsableUntilQuit ==
  \A i \in DOMAIN loops :
    /\ loops[i]
    /\ ~Alive(i) => owner \notin {"start", "running"} /\ i <= cur
    /\ cur = i /\ owner = "quit" => Alive(i)
    /\ cur = i /\ owner = "wakeup" => Alive(i) \/ quit[i]

\* A thread uses the members of its EventLoopThread up to its end: the object
\* is not destroyed before.
ThreadOutlived == \A i \in destroyed : child[i] = "finished"

\* The pool starts: no notification of the two waits is lost, unless
\* pthread_create() failed.
PoolStarts ==
  <>(Len(loops) = ThreadNums \/ (owner = "condWait" /\ ~started[cur]))

\* Whenever the destructor waits in join() it gets past it: the loop it has
\* told to quit ends.  The only exception is a quit() that is lost, because it
\* came before the thread had entered loop(), which resets quit_.
DestructorReturns ==
  \A i \in Threads :
    (owner = "joining" /\ cur = i) ~> (i \in destroyed \/ ~quit[i])
==============================================================================

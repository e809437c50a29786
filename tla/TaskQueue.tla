------------------------------ MODULE TaskQueue ------------------------------
(***************************************************************************)
(* What an EventLoop promises to the threads that hand it functors: a      *)
(* functor given to queueInLoop waits in one FIFO queue and is run by the  *)
(* loop, once, after everything queued before it; runInLoop called by the  *)
(* loop's own thread runs its functor on the spot, ahead of the queue; a   *)
(* loop that has stopped runs nothing any more.                            *)
(***************************************************************************)
EXTENDS Sequences

CONSTANT Functors      \* the functors, each handed over at most once

VARIABLES
  queue,               \* accepted functors that have not started
  ran,                 \* started functors, oldest first
  open                 \* the loop has not stopped

vars == <<queue, ran, open>>

Handed == {queue[i] : i \in DOMAIN queue} \cup {ran[i] : i \in DOMAIN ran}

Init ==
  /\ queue = <<>>
  /\ ran = <<>>
  /\ open = TRUE

\* A functor joins the back of the queue; a stopped loop still accepts it.
Submit(f) ==
  /\ f \notin Handed
  /\ queue' = Append(queue, f)
  /\ UNCHANGED <<ran, open>>

\* The loop thread runs a functor of its own without queueing it.
RunNow(f) ==
  /\ open
  /\ f \notin Handed
  /\ ran' = Append(ran, f)
  /\ UNCHANGED <<queue, open>>

RunNext ==
  /\ open
  /\ queue # <<>>
  /\ ran' = Append(ran, Head(queue))
  /\ queue' = Tail(queue)
  /\ UNCHANGED open

Close ==
  /\ open
  /\ open' = FALSE
  /\ UNCHANGED <<queue, ran>>

Next ==
  \/ \E f \in Functors : Submit(f) \/ RunNow(f)
  \/ RunNext
  \/ Close

Spec == Init /\ [][Next]_vars

\* Every functor that was accepted is run, unless the loop stops: what the
\* callers of EventLoop::queueInLoop rely on.
Drains ==
  \A f \in Functors :
    (\E i \in DOMAIN queue : queue[i] = f)
      ~> (~open \/ \E i \in DOMAIN ran : ran[i] = f)
==============================================================================

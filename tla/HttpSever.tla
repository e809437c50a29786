------------------------------ MODULE HttpSever ------------------------------
(***************************************************************************)
(* The life of the connections of the server: Acceptor and TcpServer take  *)
(* them on the main loop and hand each to an IO loop, TcpConnection lives  *)
(* there, HttpSever arms a keep-alive timer for it after each request, and *)
(* the last shared_ptr to it, wherever that is, closes the socket.         *)
(*                                                                         *)
(* Each loop goes round epoll_wait, the handlers of its active channels    *)
(* and its pending functors, and the loops talk through those functors     *)
(* only (module EventLoop is about that queue and its wakeup).  A handler  *)
(* is one step: whatever it touches belongs to its own loop, except the    *)
(* functors it queues and the entry of https_ it writes under mutex_.  It  *)
(* looks its own entry up without mutex_, so that find() may miss it while *)
(* another loop writes (MayMiss).                                          *)
(*                                                                         *)
(* What the requests say is left out, except whether the next one asks for *)
(* keep-alive; so is the response (module TcpConnection).                  *)
(***************************************************************************)
EXTENDS Integers, Sequences

CONSTANTS
  ThreadNums,            \* threadNums_, the number of IO loops
  ListenQueue,           \* LISTENQUEUE, the length of the backlog
  MaxConns,              \* bound: clients
  MaxRequests,           \* bound: requests the clients send
  MaxErrors,             \* bound: errors of accept4()
  IdModulus              \* nextId_ wraps here (2^32 in the code)

ASSUME ConstantsOK ==
  /\ ThreadNums \in Nat \ {0} /\ IdModulus \in Nat \ {0}
  /\ MaxConns \in Nat /\ MaxRequests \in Nat
  /\ ListenQueue \in Nat \ {0} /\ MaxErrors \in Nat

Main == 0                            \* loop_ of TcpServer
IoLoops == 1 .. ThreadNums           \* loops_ of the pool
Loops == {Main} \cup IoLoops
Conns == 1 .. MaxConns
Names == 0 .. IdModulus - 1          \* " conn#%d"
Timers == 1 .. MaxRequests

VARIABLES
  backlog,               \* how many clients wait to be accepted: those behind
                         \* the accepted ones
  listenEdge,            \* epoll has not reported the last of them yet
  accepting,             \* the main loop is in Acceptor::handleRead()
  errors,                \* errors of accept4() other than EAGAIN
  accepted,              \* how many connections newConnection() has made
  next,                  \* next_ of EventLoopThreadPool
  connections,           \* connections_: the connection under a name, or 0
  loopOf,                \* loop_ of each TcpConnection
  state,                 \* state_, "none" before the connection is made
  registered,            \* the connections whose channel is in the epoll set
  phase,                 \* where each loop is
  active,                \* its activeChannels_ still to be handled
  ticking,               \* its timerfd is among them ("due"), or the loop is
                         \* in the handler of it ("running"), or neither
  pending, batch, done,  \* pendingFunctors_, the vector swapped out of it and
                         \* how many of that have run
  heap,                  \* Timers_ of each IO loop, the earliest first: all
                         \* timers have the same interval
  timerConn,             \* the connection the callback of a timer is bound to
  disabled,              \* timers with active_ = false
  https,                 \* https_: the timer under a name, or 0
  missed,                \* connections whose timer was there and not found
  inbox,                 \* what the socket has to read: nothing, or a request
  peer,                  \* whether the client has closed or reset ("gone" once
                         \* the error of the reset has been read)
  edge,                  \* sockets with something epoll has not reported yet
  sent,                  \* requests sent so far
  failed                 \* the assertions that failed

acceptVars == <<backlog, listenEdge, accepting, errors>>
connVars == <<accepted, next, connections, loopOf, state, registered>>
loopVars == <<phase, active, ticking, batch, done>>
timerVars == <<heap, timerConn, disabled, https, missed>>
netVars == <<inbox, peer, edge, sent>>
vars == <<acceptVars, connVars, loopVars, pending, timerVars, netVars, failed>>

\* The name a connection gets: name_ + nextId_++.
Name(c) == (c - 1) % IdModulus

Functors == [op : {"connectEstablished", "removeConnInLoop",
                   "connectDestroyed", "forceCloseInLoop"}, conn : Conns]
Functor(op, c) == [op |-> op, conn |-> c]

Elements(s) == {s[i] : i \in DOMAIN s}

\* Someone holds a shared_ptr to c: the map, a functor (a batch keeps its
\* functors until all of it has run) or the callback of a timer in the heap.
Referenced(c) ==
  \/ \E n \in Names : connections[n] = c
  \/ \E l \in Loops : \E f \in Elements(pending[l]) \cup Elements(batch[l]) :
       f.conn = c
  \/ \E l \in IoLoops : \E t \in Elements(heap[l]) : timerConn[t] = c

Init ==
  /\ backlog = 0
  /\ listenEdge = FALSE
  /\ accepting = FALSE
  /\ errors = 0
  /\ accepted = 0
  /\ next = 0
  /\ connections = [n \in Names |-> 0]
  /\ loopOf = [c \in Conns |-> Main]
  /\ state = [c \in Conns |-> "none"]
  /\ registered = {}
  /\ phase = [l \in Loops |-> "poll"]
  /\ active = [l \in Loops |-> {}]
  /\ ticking = [l \in Loops |-> "no"]
  /\ pending = [l \in Loops |-> <<>>]
  /\ batch = [l \in Loops |-> <<>>]
  /\ done = [l \in Loops |-> 0]
  /\ heap = [l \in IoLoops |-> <<>>]
  /\ timerConn = <<>>
  /\ disabled = {}
  /\ https = [n \in Names |-> 0]
  /\ missed = {}
  /\ inbox = [c \in Conns |-> "empty"]
  /\ peer = [c \in Conns |-> "open"]
  /\ edge = {}
  /\ sent = 0
  /\ failed = {}

------------------------------------------------------------------------------
(* The pieces that are easiest to get wrong, each after a variant with a   *)
(* mistake one could make in it (Bug_...), which no action uses.           *)

Open == {"kConnected", "kDisconnecting"}

\* The functor by which the main loop gives up a connection runs
\* connectDestroyed on the loop of the connection.
Bug_QueueOnMain(l, c) ==
  [pending EXCEPT ![Main] = Append(@, Functor("connectDestroyed", c))]
QueueDestroyed(l, c) ==
  [pending EXCEPT ![l] = Append(@, Functor("connectDestroyed", c))]

\* forceCloseInLoop() looks at state_ again.
Bug_AlwaysClose(c) == TRUE
StillOpen(c) == state[c] \in Open

\* forceClose() does nothing to a connection that is closed already.
Bug_ClosedAgain(c) == TRUE
Bug_ConnectedOnly(c) == state[c] = "kConnected"
ForceCloseActs(c) == state[c] \in Open

\* removeConnInLoop(): connections_.erase(conn->name()).
Bug_NotErased(c) == connections
Erased(c) == [connections EXCEPT ![Name(c)] = 0]

\* getNextLoop(): the index of the next loop.
Bug_NextLoopUnwrapped == next + 1
NextLoop == (next + 1) % ThreadNums

\* handleRead() of the acceptor calls accept4() until it has nobody left.
Bug_AcceptOne == TRUE
Drained == backlog = 0

\* handleClose() takes the channel out of the epoll set.
Bug_StaysRegistered(c) == registered
Unregistered(c) == registered \ {c}

\* removeHttpConn(): https_.erase(conn->name()).
Bug_KeepEntry(c) == https
WithoutEntry(c) == [https EXCEPT ![Name(c)] = 0]

\* onMessage() disables the timer of the previous request, if the weak_ptr
\* still reaches it.
Bug_DisableNone(c) == {}
PreviousTimer(c) ==
  {t \in {https[Name(c)]} : \E l \in IoLoops : t \in Elements(heap[l])}

\* The next functor of the batch of loop l.
NextFunctor(l) == batch[l][done[l] + 1]

\* read() returns 0: at the end of file, and after the error of a reset.
AtEnd(c) == peer[c] \in {"closed", "gone"}

\* The handler that loop m may be in by now inserts into https_ or erases from
\* it, with mutex_ held.
Writing(m) ==
  \/ /\ phase[m] = "events"
     /\ \E c \in active[m] : AtEnd(c) \/ inbox[c] = "keepAlive"
  \/ /\ phase[m] = "functors"
     /\ done[m] < Len(batch[m])
     /\ NextFunctor(m).op = "forceCloseInLoop"
     /\ StillOpen(NextFunctor(m).conn)

\* https_.find() takes no mutex: while another loop rebalances the tree it
\* may miss an entry that is there.
MayMiss(l) == \E m \in IoLoops \ {l} : Writing(m)

\* EPOLL_CTL_ADD of a socket that is readable already reports it.
Bug_EdgeLostOnAdd(c) == edge \ {c}
EdgeOnAdd(c) == edge

------------------------------------------------------------------------------
(* TcpConnection and HttpSever, what they do on the loop of connection c.  *)

\* handleClose(), with removeHttpConn() as connectionCallback_ and
\* TcpServer::removeConn() as closecallback_.
HandleClose(c) ==
  /\ failed' = IF state[c] \in Open THEN failed ELSE failed \cup {"handleClose"}
  /\ state' = [state EXCEPT ![c] = "kDisconnected"]
  /\ registered' = Unregistered(c)
  /\ https' = WithoutEntry(c)
  /\ pending' = [pending EXCEPT ![Main] =
                   Append(@, Functor("removeConnInLoop", c))]
  /\ UNCHANGED connections

\* onMessage() of a request without keep-alive ends with shutdown().
Shutdown(c) ==
  /\ state' = [state EXCEPT ![c] = IF @ = "kConnected" THEN "kDisconnecting"
                                                       ELSE @]
  /\ UNCHANGED timerVars

\* onMessage() of a request with keep-alive: a new timer takes the place of
\* the last one.
KeepAlive(l, c) ==
  LET t == Len(timerConn) + 1 IN
  /\ \/ /\ disabled' = disabled \cup PreviousTimer(c)
        /\ UNCHANGED missed
     \/ /\ MayMiss(l)
        /\ PreviousTimer(c) # {}
        /\ missed' = missed \cup {c}
        /\ UNCHANGED disabled
  /\ timerConn' = Append(timerConn, c)
  /\ heap' = [heap EXCEPT ![l] = Append(@, t)]
  /\ https' = [https EXCEPT ![Name(c)] = t]
  /\ UNCHANGED state

------------------------------------------------------------------------------
(* The rounds of a loop.                                                   *)

\* epoll_wait returns, with every edge there is and perhaps with the timerfd.
Poll(l, tick) ==
  LET ready == {c \in registered \cap edge : loopOf[c] = l} IN
  /\ phase[l] = "poll"
  /\ l = Main => tick = "no"
  /\ phase' = [phase EXCEPT ![l] = "events"]
  /\ active' = [active EXCEPT ![l] = ready]
  /\ ticking' = [ticking EXCEPT ![l] = tick]
  /\ edge' = edge \ ready
  /\ IF l = Main THEN accepting' = listenEdge /\ listenEdge' = FALSE
                  ELSE UNCHANGED <<accepting, listenEdge>>
  /\ UNCHANGED <<backlog, errors, connVars, batch, done, pending, timerVars,
                 inbox, peer, sent, failed>>

\* A turn of the loop of Acceptor::handleRead(): accept4() has the next
\* client, and newConnection() makes a connection for it.
NewConnection ==
  LET c == accepted + 1 IN
  /\ accepting
  /\ backlog > 0
  /\ backlog' = backlog - 1
  /\ accepted' = c
  /\ next' = NextLoop
  /\ loopOf' = [loopOf EXCEPT ![c] = next' + 1]
  /\ state' = [state EXCEPT ![c] = "kConnecting"]
  /\ connections' = [connections EXCEPT ![Name(c)] = c]
  /\ pending' = [pending EXCEPT ![next' + 1] =
                   Append(@, Functor("connectEstablished", c))]
  /\ UNCHANGED <<listenEdge, accepting, errors, registered, loopVars,
                 timerVars, netVars, failed>>

\* accept4() has nobody (EAGAIN) or fails (EMFILE, ...), and the loop ends.
EndAccept ==
  /\ accepting
  /\ \/ Drained /\ UNCHANGED errors
     \/ errors < MaxErrors /\ errors' = errors + 1
  /\ accepting' = FALSE
  /\ UNCHANGED <<backlog, listenEdge, connVars, loopVars, pending, timerVars,
                 netVars, failed>>

\* handleEvent() of one channel, tied to its connection: handleRead() reads
\* all there is; an end of file wins over the data before it.  Anything else
\* is a message, also an error and an event with nothing to read: onMessage()
\* finds no request in it, and shuts the connection down.
HandleEvent(l, c) ==
  /\ phase[l] = "events"
  /\ c \in active[l]
  /\ ticking[l] # "running"
  /\ active' = [active EXCEPT ![l] = @ \ {c}]
  /\ inbox' = [inbox EXCEPT ![c] = "empty"]
  /\ \/ /\ AtEnd(c)
        /\ HandleClose(c)
        /\ UNCHANGED <<heap, timerConn, disabled, missed, peer>>
     \/ /\ ~AtEnd(c)
        /\ peer' = [peer EXCEPT ![c] = IF @ = "reset" THEN "gone" ELSE @]
        /\ IF inbox[c] = "keepAlive" THEN KeepAlive(l, c) ELSE Shutdown(c)
        /\ UNCHANGED <<registered, connections, pending, failed>>
  /\ UNCHANGED <<acceptVars, accepted, next, loopOf, phase, ticking, batch,
                 done, edge, sent>>

\* The loop of TimerQueue::handleRead() over the timers of loop l, without
\* another handler in between.  A disabled one on top of the heap is popped.
DropTimer(l) ==
  /\ phase[l] = "events"
  /\ ticking[l] # "no"
  /\ heap[l] # <<>>
  /\ Head(heap[l]) \in disabled
  /\ ticking' = [ticking EXCEPT ![l] = "running"]
  /\ heap' = [heap EXCEPT ![l] = Tail(@)]
  /\ UNCHANGED <<acceptVars, connVars, phase, active, batch, done, pending,
                 timerConn, disabled, https, missed, netVars, failed>>

\* One that has expired is run, which calls forceClose(), and popped.
ExpireTimer(l) ==
  LET c == timerConn[Head(heap[l])] IN
  /\ phase[l] = "events"
  /\ ticking[l] # "no"
  /\ heap[l] # <<>>
  /\ Head(heap[l]) \notin disabled
  /\ ticking' = [ticking EXCEPT ![l] = "running"]
  /\ heap' = [heap EXCEPT ![l] = Tail(@)]
  /\ IF ForceCloseActs(c)
       THEN /\ state' = [state EXCEPT ![c] = "kDisconnecting"]
            /\ pending' = [pending EXCEPT ![l] =
                             Append(@, Functor("forceCloseInLoop", c))]
       ELSE UNCHANGED <<state, pending>>
  /\ UNCHANGED <<acceptVars, accepted, next, connections, loopOf, registered,
                 phase, active, batch, done, timerConn, disabled, https,
                 missed, netVars, failed>>

\* The heap is empty, or its first timer is to wait.
EndTimers(l) ==
  /\ phase[l] = "events"
  /\ ticking[l] # "no"
  /\ heap[l] # <<>> => Head(heap[l]) \notin disabled
  /\ ticking' = [ticking EXCEPT ![l] = "no"]
  /\ UNCHANGED <<acceptVars, connVars, phase, active, batch, done, pending,
                 timerVars, netVars, failed>>

\* doPendingFunctors() takes the queue.
BeginFunctors(l) ==
  /\ phase[l] = "events"
  /\ active[l] = {}
  /\ ticking[l] = "no"
  /\ l = Main => ~accepting
  /\ phase' = [phase EXCEPT ![l] = "functors"]
  /\ batch' = [batch EXCEPT ![l] = pending[l]]
  /\ pending' = [pending EXCEPT ![l] = <<>>]
  /\ UNCHANGED <<acceptVars, connVars, active, ticking, done, timerVars,
                 netVars, failed>>

Running(l, op) ==
  /\ phase[l] = "functors"
  /\ done[l] < Len(batch[l])
  /\ NextFunctor(l).op = op
  /\ done' = [done EXCEPT ![l] = @ + 1]
  /\ UNCHANGED <<acceptVars, accepted, next, loopOf, phase, active, ticking,
                 batch, heap, timerConn, disabled, missed, inbox, peer, sent>>

ConnectEstablished(l) ==
  LET c == NextFunctor(l).conn IN
  /\ Running(l, "connectEstablished")
  /\ failed' = IF state[c] = "kConnecting" THEN failed
               ELSE failed \cup {"connectEstablished"}
  /\ state' = [state EXCEPT ![c] = "kConnected"]
  /\ registered' = registered \cup {c}
  /\ edge' = EdgeOnAdd(c)
  /\ UNCHANGED <<connections, https, pending>>

ForceCloseInLoop(l) ==
  LET c == NextFunctor(l).conn IN
  /\ Running(l, "forceCloseInLoop")
  /\ IF StillOpen(c) THEN HandleClose(c)
       ELSE UNCHANGED <<failed, state, registered, https, pending, connections>>
  /\ UNCHANGED edge

\* On the main loop; the entry is erased by name.
RemoveConnInLoop(l) ==
  LET c == NextFunctor(l).conn IN
  /\ Running(l, "removeConnInLoop")
  /\ failed' = IF connections[Name(c)] # 0 THEN failed
               ELSE failed \cup {"removeConnInLoop"}
  /\ connections' = Erased(c)
  /\ pending' = QueueDestroyed(loopOf[c], c)
  /\ UNCHANGED <<state, registered, https, edge>>

ConnectDestroyed(l) ==
  LET c == NextFunctor(l).conn IN
  /\ Running(l, "connectDestroyed")
  /\ IF state[c] = "kConnected"
       THEN /\ state' = [state EXCEPT ![c] = "kDisconnected"]
            /\ registered' = Unregistered(c)
            /\ https' = WithoutEntry(c)
       ELSE UNCHANGED <<state, registered, https>>
  /\ UNCHANGED <<connections, pending, edge, failed>>

EndFunctors(l) ==
  /\ phase[l] = "functors"
  /\ done[l] = Len(batch[l])
  /\ phase' = [phase EXCEPT ![l] = "poll"]
  /\ batch' = [batch EXCEPT ![l] = <<>>]
  /\ done' = [done EXCEPT ![l] = 0]
  /\ UNCHANGED <<acceptVars, connVars, active, ticking, pending, timerVars,
                 netVars, failed>>

------------------------------------------------------------------------------
(* The clients (external).                                                 *)

\* A client may send, or close, before it is accepted.
Connect ==
  /\ backlog < ListenQueue
  /\ accepted + backlog < MaxConns
  /\ backlog' = backlog + 1
  /\ listenEdge' = TRUE
  /\ UNCHANGED <<accepting, errors, connVars, loopVars, pending, timerVars,
                 netVars, failed>>

Connected(c) ==
  c <= accepted + backlog /\ state[c] # "kDisconnected" /\ peer[c] = "open"

Send(c, request) ==
  /\ Connected(c)
  /\ inbox[c] = "empty"
  /\ sent < MaxRequests
  /\ sent' = sent + 1
  /\ inbox' = [inbox EXCEPT ![c] = request]
  /\ edge' = edge \cup {c}
  /\ UNCHANGED <<acceptVars, connVars, loopVars, pending, timerVars, peer,
                 failed>>

\* A FIN or a RST.
EndPeer(c, how) ==
  /\ Connected(c)
  /\ peer' = [peer EXCEPT ![c] = how]
  /\ edge' = edge \cup {c}
  /\ UNCHANGED <<acceptVars, connVars, loopVars, pending, timerVars, inbox,
                 sent, failed>>

------------------------------------------------------------------------------
Functors1(l) ==
  \/ ConnectEstablished(l) \/ ForceCloseInLoop(l)
  \/ RemoveConnInLoop(l) \/ ConnectDestroyed(l)

LoopStep(l) ==
  \/ l = Main /\ (NewConnection \/ EndAccept)
  \/ \E tick \in {"no", "due"} : Poll(l, tick)
  \/ \E c \in Conns : HandleEvent(l, c)
  \/ l # Main /\ (DropTimer(l) \/ ExpireTimer(l) \/ EndTimers(l))
  \/ BeginFunctors(l) \/ Functors1(l) \/ EndFunctors(l)

Client(c) ==
  \/ \E request \in {"keepAlive", "close"} : Send(c, request)
  \/ \E how \in {"closed", "reset"} : EndPeer(c, how)

\* A failed assertion aborts the process.
Next ==
  /\ failed = {}
  /\ \/ Connect
     \/ \E l \in Loops : LoopStep(l)
     \/ \E c \in Conns : Client(c)

\* Every loop keeps going round: its epoll_wait returns at the latest with
\* the timerfd, every second.  So the timerfd is reported again and again,
\* and each timer expires 8 s after it was made.  Nothing is assumed of the
\* clients.
Fairness ==
  /\ \A l \in Loops : WF_vars(failed = {} /\ LoopStep(l))
  /\ \A l \in IoLoops : /\ SF_vars(failed = {} /\ Poll(l, "due"))
                        /\ SF_vars(failed = {} /\ ExpireTimer(l))

Spec == Init /\ [][Next]_vars /\ Fairness

------------------------------------------------------------------------------
\* The types; accept4() is called by a handler of the main loop, a loop runs
\* no more functors than it took, and a timer in a heap has been made.
TypeOK ==
  /\ backlog \in 0 .. ListenQueue /\ accepted + backlog <= MaxConns
  /\ listenEdge \in BOOLEAN
  /\ accepting \in BOOLEAN
  /\ accepting => phase[Main] = "events"
  /\ errors \in 0 .. MaxErrors
  /\ accepted \in 0 .. MaxConns
  /\ next \in 0 .. ThreadNums - 1
  /\ connections \in [Names -> 0 .. MaxConns]
  /\ loopOf \in [Conns -> Loops]
  /\ state \in [Conns -> {"none", "kConnecting"} \cup Open \cup {"kDisconnected"}]
  /\ registered \subseteq Conns
  /\ phase \in [Loops -> {"poll", "events", "functors"}]
  /\ active \in [Loops -> SUBSET Conns]
  /\ ticking \in [Loops -> {"no", "due", "running"}]
  /\ pending \in [Loops -> Seq(Functors)]
  /\ batch \in [Loops -> Seq(Functors)]
  /\ done \in [Loops -> Nat] /\ \A l \in Loops : done[l] <= Len(batch[l])
  /\ heap \in [IoLoops -> Seq(DOMAIN timerConn)]
  /\ timerConn \in Seq(Conns)
  /\ disabled \subseteq Timers
  /\ https \in [Names -> 0 .. MaxRequests]
  /\ missed \subseteq Conns
  /\ inbox \in [Conns -> {"empty", "keepAlive", "close"}]
  /\ peer \in [Conns -> {"open", "closed", "reset", "gone"}]
  /\ edge \subseteq Conns
  /\ sent \in 0 .. MaxRequests
  /\ failed \subseteq {"handleClose", "connectEstablished", "removeConnInLoop"}

\* No assertion of the connection code fails: connectEstablished finds
\* kConnecting, handleClose an open connection however the end of file, the
\* keep-alive timer and the shutdown interleave, and removeConnInLoop an
\* entry to erase.
AssertionsHold == failed = {}

\* One loop per thread: what touches a connection, a functor or its channel,
\* runs on the loop of the connection, and what touches connections_ on the
\* main loop (the assertInLoopThread() in each of them).
RunsInOwnLoop ==
  \A l \in Loops :
    /\ \A c \in active[l] : loopOf[c] = l
    /\ \A f \in Elements(pending[l]) \cup Elements(batch[l]) :
         l = IF f.op = "removeConnInLoop" THEN Main ELSE loopOf[f.conn]

\* No dangling channel: epoll and activeChannels_ hold raw pointers to the
\* channel of a connection, so as long as one does, something owns the
\* connection.
NoDanglingChannel ==
  \A c \in Conns :
    c \in registered \cup UNION {active[l] : l \in Loops} => Referenced(c)

\* Every entry of https_ is the timer of an open connection of that name: the
\* entry goes when the connection is closed, and none is made afterwards.
EntryOfOpenConnection ==
  \A n \in Names : https[n] # 0 =>
    LET c == timerConn[https[n]] IN Name(c) = n /\ state[c] \in Open

\* At most one timer that can still fire per connection: an old deadline
\* cannot cut off a connection that has been used since, unless find() has
\* missed it because of another loop.
OneActiveTimer ==
  \A c \in Conns \ missed : \A l, m \in IoLoops :
    \A t \in Elements(heap[l]) \ disabled, u \in Elements(heap[m]) \ disabled :
      timerConn[t] = c /\ timerConn[u] = c => t = u

L == INSTANCE Lifecycle WITH
       stage <- [c \in Conns |-> IF state[c] # "none" /\ ~Referenced(c)
                                   THEN "freed" ELSE state[c]]

\* The server implements the life of a socket: its file descriptor is
\* closed by the destructor exactly when the last of the references held by
\* the map, the functors and the timers goes, which is only after the
\* connection has been taken down.
ImplementsLifecycle == L!Spec

\* A client that closes is noticed, even when it closes before its socket is
\* in the epoll set, or while it waits to be accepted; but clients behind an
\* error of accept4() are left there, and wait for another one to connect.
EndOfFileNoticed ==
  \A c \in Conns : (peer[c] = "closed") ~>
    \/ state[c] = "kDisconnected"
    \/ errors > 0 /\ c > accepted /\ ~listenEdge /\ ~accepting

\* A connection that has been closed gives its descriptor back: the timers
\* that hold it leave the heap.
ClosedFreed ==
  \A c \in Conns : (state[c] = "kDisconnected") ~> ~Referenced(c)

\* The timer of a connection's last keep-alive request closes it in the end,
\* whatever state it is in by then, unless another request arms a later one
\* in its place: a client that goes on sending keeps its connection.
KeepAliveCloses ==
  \A t \in Timers :
    (t \in DOMAIN timerConn /\ https[Name(timerConn[t])] = t)
      ~> (t \in DOMAIN timerConn
            /\ \/ state[timerConn[t]] = "kDisconnected"
               \/ https[Name(timerConn[t])] > t)

\* README: the server closes connections that are inactive for long.
InactiveClosed ==
  \A c \in Conns : (state[c] = "kConnected") ~> (state[c] = "kDisconnected")
==============================================================================

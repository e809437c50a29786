------------------------- MODULE HttpSeverLifeProofs -------------------------
(***************************************************************************)
(* Proofs about HttpSever that rest on the invariant of HttpSeverProofs:   *)
(* https_ has entries of open connections only; and, as long as no name is *)
(* given to a second connection while connections_ has it, no assertion    *)
(* fails, no channel dangles, no old keep-alive timer can fire, and the    *)
(* descriptor of a connection is closed once and last (module Lifecycle).  *)
(***************************************************************************)
EXTENDS HttpSeverProofs

------------------------------------------------------------------------------
(* The entries of https_.                                                  *)

\* What a step does to the timers.
Pops(m) ==
  /\ m \in IoLoops /\ heap[m] # <<>>
  /\ heap' = [heap EXCEPT ![m] = Tail(@)]
  /\ UNCHANGED <<timerConn, disabled, https, missed>>
Arms(m, c) ==
  /\ m \in IoLoops /\ c \in Conns /\ state[c] \in Open
  /\ inbox[c] = "keepAlive" /\ KeepAlive(m, c)

\* Closing a connection, a tick and a request with keep-alive are all there is.
LEMMA TimerSteps ==
  ASSUME ConnInv, [Next]_vars
  PROVE  \/ UNCHANGED timerVars
         \/ \E c : Closes(c) /\ UNCHANGED <<heap, timerConn, disabled, missed>>
         \/ \E m : Pops(m)
         \/ \E m, c : Arms(m, c)
<1>1. ASSUME NEW m \in IoLoops, DropTimer(m) \/ ExpireTimer(m)
      PROVE  Pops(m)
    BY <1>1 DEF DropTimer, ExpireTimer, Pops
<1>2. ASSUME NEW m \in Loops, NEW c \in Conns, HandleEvent(m, c)
      PROVE  \/ UNCHANGED timerVars
             \/ Closes(c) /\ UNCHANGED <<heap, timerConn, disabled, missed>>
             \/ Arms(m, c)
  <2>1. state[c] \in Open /\ m \in IoLoops
      BY <1>2, EventFacts
  <2> QED
      BY <1>2, <2>1 DEF HandleEvent, Shutdown, Closes, Arms
<1>3. ASSUME NEW m \in Loops, Functors1(m)
      PROVE  \/ UNCHANGED timerVars
             \/ \E c : Closes(c) /\ UNCHANGED <<heap, timerConn, disabled, missed>>
  <2> DEFINE c == NextFunctor(m).conn
  <2>1. UNCHANGED <<heap, timerConn, disabled, missed>>
      BY <1>3 DEF Functors1, ConnectEstablished, ForceCloseInLoop,
         RemoveConnInLoop, ConnectDestroyed, Running
  <2>2. CASE ForceCloseInLoop(m)
    <3>1. c \in Conns
        BY <2>2, RunFacts DEF ForceCloseInLoop
    <3> QED
        BY <2>1, <2>2, <3>1 DEF ForceCloseInLoop, StillOpen, Closes, timerVars
  <2>3. CASE ConnectEstablished(m) \/ RemoveConnInLoop(m) \/ ConnectDestroyed(m)
      BY <2>1, <2>3, DestroyedFacts
      DEF ConnectEstablished, RemoveConnInLoop, timerVars
  <2> QED
      BY <1>3, <2>2, <2>3 DEF Functors1
<1>4. ASSUME NEW m, BeginFunctors(m) \/ EndFunctors(m)
      PROVE  UNCHANGED timerVars
    BY <1>4 DEF BeginFunctors, EndFunctors
<1>5. ASSUME NEW m, NEW tick, Poll(m, tick)
      PROVE  UNCHANGED timerVars
    BY <1>5 DEF Poll
<1> QED
    BY Steps, <1>1, <1>2, <1>3, <1>4, <1>5 DEF Quiet, NewConnection

EntryInv ==
  \A n \in Names : https[n] # 0 =>
    /\ https[n] \in DOMAIN timerConn
    /\ Name(timerConn[https[n]]) = n /\ state[timerConn[https[n]]] \in Open

\* The numbers of the timers.
LEMMA TimerNumbers ==
  ASSUME ConnInv
  PROVE  /\ timerConn \in Seq(Conns) /\ Len(timerConn) \in Nat
         /\ DOMAIN timerConn = 1 .. Len(timerConn)
         /\ timerConn \in [1 .. Len(timerConn) -> Conns]
         /\ heap \in [IoLoops -> Seq(DOMAIN timerConn)]
         /\ \A l \in IoLoops : \A t \in Elements(heap[l]) :
              t \in 1 .. Len(timerConn)
<1>1. /\ timerConn \in Seq(Conns)
      /\ heap \in [IoLoops -> Seq(DOMAIN timerConn)]
    BY DEF ConnInv, TypeInv, TypeOK
<1>2. /\ Len(timerConn) \in Nat /\ DOMAIN timerConn = 1 .. Len(timerConn)
      /\ timerConn \in [1 .. Len(timerConn) -> Conns]
    BY <1>1, LenProperties
<1>3. \A l \in IoLoops : \A t \in Elements(heap[l]) : t \in 1 .. Len(timerConn)
  <2>1. \A l \in IoLoops : heap[l] \in Seq(1 .. Len(timerConn))
      BY <1>1, <1>2
  <2> QED
      BY <2>1, ElementsIn
<1> QED
    BY <1>1, <1>2, <1>3

\* A request with keep-alive makes one timer, puts it last in the heap of its
\* loop, and into the entry of the connection.
LEMMA ArmFacts ==
  ASSUME ConnInv, NEW m, NEW c, Arms(m, c)
  PROVE  LET t == Len(timerConn) + 1 IN
         /\ DOMAIN timerConn' = 1 .. t
         /\ timerConn'[t] = c
         /\ \A u \in 1 .. Len(timerConn) : timerConn'[u] = timerConn[u]
         /\ \A l \in IoLoops \ {m} : heap'[l] = heap[l]
         /\ Elements(heap'[m]) = Elements(heap[m]) \cup {t}
         /\ https' = [https EXCEPT ![Name(c)] = t]
         /\ UNCHANGED state
<1> DEFINE t == Len(timerConn) + 1
<1>0. Len(timerConn) \in Nat /\ heap \in [IoLoops -> Seq(1 .. Len(timerConn))]
    BY TimerNumbers
<1>1. /\ timerConn' = Append(timerConn, c) /\ c \in Conns /\ m \in IoLoops
      /\ heap' = [heap EXCEPT ![m] = Append(@, t)]
      /\ https' = [https EXCEPT ![Name(c)] = t] /\ UNCHANGED state
    BY DEF Arms, KeepAlive
<1>2. /\ DOMAIN timerConn' = 1 .. t /\ timerConn'[t] = c
      /\ \A u \in 1 .. Len(timerConn) : timerConn'[u] = timerConn[u]
    BY <1>1, AppendProperties, LenProperties
<1>3. heap[m] \in Seq(1 .. t)
  <2>1. 1 .. Len(timerConn) \subseteq 1 .. t
      BY <1>0
  <2>2. heap[m] \in Seq(1 .. Len(timerConn))
      BY <1>0, <1>1
  <2> QED
      BY <2>1, <2>2, SeqMonotonic
<1>4. Elements(Append(heap[m], t)) = Elements(heap[m]) \cup {t}
  <2>1. t \in 1 .. t
      BY <1>0
  <2> QED
      BY <1>3, <2>1, ElementsOf
<1>5. /\ heap'[m] = Append(heap[m], t)
      /\ \A l \in IoLoops \ {m} : heap'[l] = heap[l]
    BY <1>0, <1>1
<1> QED
    BY <1>1, <1>2, <1>4, <1>5

\* Every step keeps it: an entry goes with its connection, as HandleClose takes
\* both the state and the entry.
LEMMA EntryStep ==
  ASSUME ConnInv, EntryInv, [Next]_vars
  PROVE  EntryInv'
<1> SUFFICES ASSUME NEW n \in Names, https'[n] # 0
             PROVE  /\ https'[n] \in DOMAIN timerConn'
                    /\ Name(timerConn'[https'[n]]) = n
                    /\ state'[timerConn'[https'[n]]] \in Open
    BY DEF EntryInv, Name
<1> https \in [Names -> 0 .. MaxRequests]
    BY DEF ConnInv, TypeInv, TypeOK
<1>1. ASSUME https'[n] = https[n]
      PROVE  /\ https'[n] \in 1 .. Len(timerConn)
             /\ Name(timerConn[https'[n]]) = n
             /\ state'[timerConn[https'[n]]] \in Open
  <2> DEFINE c == timerConn[https[n]]
  <2>1. /\ https[n] \in 1 .. Len(timerConn) /\ c \in Conns
        /\ Name(c) = n /\ state[c] \in Open
      BY <1>1, TimerNumbers DEF EntryInv
  <2>2. ~Closes(c)
      BY <1>1, <2>1 DEF Closes, HandleClose, WithoutEntry
  <2>3. state'[c] \in Open
      BY <2>1, <2>2, MoveStep DEF Open
  <2> QED
      BY <1>1, <2>1, <2>3
<1>2. CASE UNCHANGED timerVars \/ \E m : Pops(m)
    BY <1>1, <1>2, TimerNumbers DEF timerVars, Pops
<1>3. ASSUME NEW c, Closes(c), UNCHANGED timerConn
      PROVE  https'[n] = https[n]
    BY <1>3 DEF Closes, HandleClose, WithoutEntry
<1>4. ASSUME NEW m, NEW c, Arms(m, c)
      PROVE  /\ https'[n] \in DOMAIN timerConn'
             /\ Name(timerConn'[https'[n]]) = n
             /\ state'[timerConn'[https'[n]]] \in Open
  <2> DEFINE t == Len(timerConn) + 1
  <2>1. /\ DOMAIN timerConn' = 1 .. t /\ timerConn'[t] = c
        /\ \A u \in 1 .. Len(timerConn) : timerConn'[u] = timerConn[u]
        /\ https' = [https EXCEPT ![Name(c)] = t]
        /\ c \in Conns /\ state'[c] \in Open /\ Len(timerConn) \in Nat
      BY <1>4, ArmFacts, TimerNumbers DEF Arms
  <2>2. CASE n = Name(c)
      BY <2>1, <2>2
  <2>3. CASE n # Name(c)
      BY <1>1, <2>1, <2>3
  <2> QED
      BY <2>2, <2>3
<1> QED
    BY TimerSteps, <1>1, <1>2, <1>3, <1>4, TimerNumbers

\* It holds throughout.
LEMMA EntryInvariant == Spec => [](ConnInv /\ EntryInv)
<1>1. Init => EntryInv
    BY DEF Init, EntryInv
<1> QED
    BY <1>1, EntryStep, ConnInvariant, PTL DEF Spec

\* https_ has entries of open connections only, each under the name of its
\* connection, for any number of loops and connections: removeHttpConn()
\* erases the entry, and nothing puts one back for a closed connection.
THEOREM EntriesOfOpen == Spec => []EntryOfOpenConnection
<1>1. EntryInv => EntryOfOpenConnection
    BY DEF EntryInv, EntryOfOpenConnection
<1> QED
    BY <1>1, EntryInvariant, PTL

------------------------------------------------------------------------------
(* The names of the connections.                                           *)

\* newConnection() does not take a name that connections_ has.  (nextId_ has 32
\* bits.  When it comes back to the name of a connection that is not removed yet,
\* this is lost from connections_, and what follows does not hold.)
FreeName == NewConnection => connections[Name(accepted + 1)] = 0
NamesFree == [][FreeName]_vars

\* An open connection, one on its way there, and one that is to be removed is
\* in connections_ under its name.
Alive(c) == state[c] \in {"kConnecting"} \cup Open
AliveMapped == \A c \in Conns : Alive(c) => connections[Name(c)] = c
RemovedMapped ==
  \A f \in Elements(Todo(Main)) :
    f.op = "removeConnInLoop" => connections[Name(f.conn)] = f.conn
MapInv == AliveMapped /\ RemovedMapped /\ AssertionsHold

\* Who writes connections_.
Makes(c) ==
  /\ NewConnection /\ c = accepted + 1 /\ c \in Conns
  /\ connections' = [connections EXCEPT ![Name(c)] = c]
Removes(c) ==
  /\ RemoveConnInLoop(Main) /\ Running(Main, "removeConnInLoop")
  /\ c = NextFunctor(Main).conn /\ c \in Conns
  /\ connections' = [connections EXCEPT ![Name(c)] = 0]

\* A new connection is the next one, and connections_ has it.
LEMMA NewConnectionMakes ==
  ASSUME ConnInv, [Next]_vars, NewConnection
  PROVE  Makes(accepted + 1)
<1>1. accepted' = accepted + 1 /\ accepted \in Nat /\ accepted' <= MaxConns
    BY TypeStep DEF NewConnection, ConnInv, TypeInv, TypeOK
<1>2. accepted + 1 \in Conns
    BY <1>1, ConstantsOK DEF Conns
<1> QED
    BY <1>2 DEF Makes, NewConnection

\* It has not been in use.
LEMMA MadeWasNone ==
  ASSUME ConnInv, NEW c, Makes(c)
  PROVE  state[c] = "none"
<1>1. accepted \in Nat /\ c = accepted + 1 /\ c \in Conns
    BY DEF Makes, ConnInv, TypeInv, TypeOK
<1> QED
    BY <1>1 DEF ConnInv, StateInv, MadeInv

\* Nobody else writes connections_.
LEMMA MapSteps ==
  ASSUME ConnInv, [Next]_vars
  PROVE  UNCHANGED connections \/ \E c : Makes(c) \/ Removes(c)
<1>1. ASSUME NewConnection
      PROVE  Makes(accepted + 1)
    BY <1>1, NewConnectionMakes
<1>2. ASSUME NEW m \in Loops, Functors1(m)
      PROVE  UNCHANGED connections \/ \E c : Removes(c)
  <2>1. CASE RemoveConnInLoop(m)
    <3>1. Running(m, "removeConnInLoop")
        BY <2>1 DEF RemoveConnInLoop
    <3>2. m = Main /\ NextFunctor(m).conn \in Conns
        BY <3>1, RunFacts
    <3>3. Removes(NextFunctor(m).conn)
        BY <2>1, <3>1, <3>2 DEF Removes, RemoveConnInLoop, Erased
    <3> QED
        BY <3>3
  <2> QED
      BY <1>2, <2>1, DestroyedFacts
      DEF Functors1, ConnectEstablished, ForceCloseInLoop, HandleClose
<1>3. ASSUME NEW m \in Loops, NEW c \in Conns, HandleEvent(m, c)
      PROVE  UNCHANGED connections
    BY <1>3 DEF HandleEvent, HandleClose
<1>4. ASSUME NEW m, BeginFunctors(m) \/ EndFunctors(m)
      PROVE  UNCHANGED connections
    BY <1>4 DEF BeginFunctors, EndFunctors, connVars
<1>5. ASSUME NEW m, NEW tick, Poll(m, tick)
      PROVE  UNCHANGED connections
    BY <1>5 DEF Poll, connVars
<1>6. ASSUME NEW m \in IoLoops, DropTimer(m) \/ ExpireTimer(m)
      PROVE  UNCHANGED connections
    BY <1>6 DEF DropTimer, ExpireTimer, connVars
<1> QED
    BY Steps, <1>1, <1>2, <1>3, <1>4, <1>5, <1>6 DEF Quiet, connVars

\* Its name has been free.
LEMMA MadeIsFree ==
  ASSUME ConnInv, [FreeName]_vars, NEW c, Makes(c)
  PROVE  connections[Name(c)] = 0
<1>1. accepted' = accepted + 1 /\ accepted \in Nat
    BY DEF Makes, NewConnection, ConnInv, TypeInv, TypeOK
<1>2. ~UNCHANGED vars
    BY <1>1 DEF vars, connVars
<1> QED
    BY <1>2 DEF FreeName, Makes

\* An open connection stays in the map: an erasure is for another name.
LEMMA AliveStep ==
  ASSUME ConnInv, MapInv, [Next]_vars, [FreeName]_vars
  PROVE  AliveMapped'
<1> SUFFICES ASSUME NEW c \in Conns, state'[c] \in {"kConnecting"} \cup Open
             PROVE  connections'[Name(c)] = c
    BY DEF AliveMapped, Alive, Open, Name
<1> /\ connections \in [Names -> 0 .. MaxConns] /\ Name(c) \in Names /\ c # 0
    /\ AliveMapped /\ RemovedMapped
    BY LoopsAndNames DEF ConnInv, TypeInv, TypeOK, MapInv
<1>1. ASSUME NEW d, Makes(d)
      PROVE  connections'[Name(c)] = c
  <2>1. CASE c = d
      BY <1>1, <2>1 DEF Makes
  <2>2. CASE c # d
    <3>1. state[c] \in {"kConnecting"} \cup Open
        BY <1>1, <2>2 DEF Makes, NewConnection, ConnInv, TypeInv, TypeOK
    <3>2. connections[Name(c)] = c
        BY <3>1 DEF AliveMapped, Alive
    <3>3. connections[Name(d)] = 0
        BY <1>1, MadeIsFree
    <3> QED
        BY <1>1, <3>2, <3>3 DEF Makes
  <2> QED
      BY <2>1, <2>2
<1>2. ASSUME NEW d, Removes(d)
      PROVE  connections'[Name(c)] = c
  <2>1. /\ state[d] = "kDisconnected" /\ UNCHANGED state /\ d \in Conns
        /\ connections[Name(d)] = d
    <3>1. Running(Main, "removeConnInLoop")
        BY <1>2 DEF Removes
    <3> QED
        BY <1>2, <3>1, RunFacts, LoopsAndNames
        DEF Removes, Timely, RemoveConnInLoop, RemovedMapped
  <2>2. c # d
      BY <2>1 DEF Open
  <2>3. connections[Name(c)] = c
      BY <2>1 DEF AliveMapped, Alive
  <2> QED
      BY <1>2, <2>1, <2>2, <2>3 DEF Removes
<1>3. CASE UNCHANGED connections /\ ~NewConnection
  <2>1. state[c] \in {"kConnecting"} \cup Open
      BY <1>3, MoveStep DEF Open
  <2> QED
      BY <1>3, <2>1 DEF AliveMapped, Alive
<1>4. CASE NewConnection
  <2>1. \E d : Makes(d)
      BY <1>4, NewConnectionMakes
  <2> QED
      BY <1>1, <2>1
<1> QED
    BY MapSteps, <1>1, <1>2, <1>3, <1>4

\* A connection to be removed stays in the map until then, since it is removed
\* once (SingleInv).
LEMMA RemovedStep ==
  ASSUME ConnInv, MapInv, [Next]_vars, [FreeName]_vars
  PROVE  RemovedMapped'
<1> SUFFICES ASSUME NEW f, f \in Elements(Todo(Main)'),
                    f.op = "removeConnInLoop"
             PROVE  connections'[Name(f.conn)] = f.conn
    BY DEF RemovedMapped, Name
<1> /\ connections \in [Names -> 0 .. MaxConns] /\ TypeOK
    /\ Todo(Main) \in Seq(Functors) /\ Main \in Loops
    BY LoopsAndNames, TodoTypes DEF ConnInv, TypeInv, TypeOK
\* Its connection was in the map before.
<1>1. /\ f \in Functors /\ f.conn \in Conns
      /\ connections[Name(f.conn)] = f.conn
      /\ ~\E c : Makes(c) /\ c = f.conn
  <2>1. CASE f \in Elements(Todo(Main))
    <3>1. f \in Functors /\ f.conn \in Conns /\ state[f.conn] = "kDisconnected"
        BY <2>1, TodoTypes DEF ConnInv, StateInv, TimelyInv, Timely, Functors
    <3>2. ASSUME NEW c, Makes(c)
          PROVE  state[c] = "none"
        BY <3>2, MadeWasNone
    <3> QED
        BY <2>1, <3>1, <3>2 DEF MapInv, RemovedMapped
  <2>2. CASE f \notin Elements(Todo(Main))
    <3>1. PICK g \in Functors : Pushed(Main, g) /\ PushedWhen(g)
      <4>1. ~(Todo(Main)' = Todo(Main)) /\ ~Ran(Main)
          BY <2>2, ElementsOf DEF Ran
      <4> QED
          BY <4>1, TodoStep DEF Queued
    <3>2. f = g
      <4>1. Todo(Main)' = Append(Todo(Main), g)
          BY <3>1 DEF Pushed
      <4>2. Elements(Append(Todo(Main), g)) = Elements(Todo(Main)) \cup {g}
          BY ElementsOf
      <4> QED
          BY <2>2, <4>1, <4>2
    <3>3. PICK c \in Conns : state[c] \in Open /\ f = Functor("removeConnInLoop", c)
        BY <3>1, <3>2 DEF PushedWhen, Functor
    <3>4. ASSUME NEW d, Makes(d)
          PROVE  state[d] = "none"
        BY <3>4, MadeWasNone
    <3> QED
        BY <3>1, <3>2, <3>3, <3>4
        DEF MapInv, AliveMapped, Alive, Functor, Open
  <2> QED
      BY <2>1, <2>2
<1>2. CASE UNCHANGED connections
    BY <1>1, <1>2
<1>3. ASSUME NEW c, Makes(c)
      PROVE  connections'[Name(f.conn)] = f.conn
  <2>1. Name(c) # Name(f.conn) /\ c \in Conns
      BY <1>1, <1>3, MadeIsFree, LoopsAndNames DEF Makes
  <2> QED
      BY <1>1, <1>3, <2>1, LoopsAndNames DEF Makes
<1>4. ASSUME NEW c, Removes(c)
      PROVE  connections'[Name(f.conn)] = f.conn
  <2>1. /\ NextFunctor(Main) \in Functors /\ c = NextFunctor(Main).conn
        /\ NextFunctor(Main).op = "removeConnInLoop" /\ c \in Conns
    <3>1. Running(Main, "removeConnInLoop")
        BY <1>4 DEF Removes
    <3> QED
        BY <1>4, <3>1, RunFacts DEF Removes
  <2>2. /\ Todo(Main) # <<>> /\ Head(Todo(Main)) = NextFunctor(Main)
        /\ Todo(Main)' = Tail(Todo(Main))
    <3>1. Running(Main, "removeConnInLoop")
        BY <1>4 DEF Removes
    <3>2. loopOf[c] # Main /\ loopOf[c] \in Loops
        BY <1>4, <3>1, RunFacts, LoopsAndNames DEF Removes
    <3>3. pending'[Main] = pending[Main]
        BY <1>4, <3>2 DEF Removes, RemoveConnInLoop, QueueDestroyed, TypeOK
    <3> QED
        BY <3>1, <3>3, TodoRun DEF Ran
  <2>3. NextFunctor(Main) # f
    <3>1. Single(Todo(Main))
        BY DEF ConnInv, StateInv, SingleInv
    <3> QED
        BY <2>1, <2>2, <3>1, SingleTail DEF Once
  <2>4. c # f.conn
      BY <1>1, <2>1, <2>3 DEF Functors
  <2>5. Name(c) # Name(f.conn)
    <3>1. NextFunctor(Main) \in Elements(Todo(Main))
        BY <1>4, RunFacts DEF Removes
    <3>2. connections[Name(c)] = c
        BY <2>1, <3>1 DEF MapInv, RemovedMapped
    <3> QED
        BY <1>1, <2>4, <3>2
  <2> QED
      BY <1>1, <1>4, <2>1, <2>5, LoopsAndNames DEF Removes
<1> QED
    BY MapSteps, <1>2, <1>3, <1>4

\* No step fails an assertion.
LEMMA AssertStep ==
  ASSUME ConnInv, MapInv, [Next]_vars
  PROVE  AssertionsHold'
<1> failed = {}
    BY DEF MapInv, AssertionsHold
<1> SUFFICES failed' = {}
    BY DEF AssertionsHold
<1>1. ASSUME NEW c, state[c] \in Open, HandleClose(c)
      PROVE  failed' = {}
    BY <1>1 DEF HandleClose
<1>2. ASSUME NEW m \in Loops, NEW c \in Conns, HandleEvent(m, c)
      PROVE  failed' = {}
    BY <1>1, <1>2, EventFacts DEF HandleEvent
<1>3. ASSUME NEW m \in Loops, Functors1(m)
      PROVE  failed' = {}
  <2> DEFINE f == NextFunctor(m)
  <2>1. CASE ConnectEstablished(m)
    <3>1. state[f.conn] = "kConnecting"
        BY <2>1, RunFacts DEF ConnectEstablished, Timely
    <3> QED
        BY <2>1, <3>1 DEF ConnectEstablished
  <2>2. CASE ForceCloseInLoop(m)
      BY <1>1, <2>2 DEF ForceCloseInLoop, StillOpen
  <2>3. CASE RemoveConnInLoop(m)
    <3>1. /\ m = Main /\ f \in Elements(Todo(m)) /\ f.op = "removeConnInLoop"
          /\ f.conn \in Conns
        BY <2>3, RunFacts DEF RemoveConnInLoop
    <3>2. connections[Name(f.conn)] # 0
        BY <3>1, LoopsAndNames DEF MapInv, RemovedMapped
    <3> QED
        BY <2>3, <3>2 DEF RemoveConnInLoop
  <2>4. CASE ConnectDestroyed(m)
      BY <2>4, DestroyedFacts
  <2> QED
      BY <1>3, <2>1, <2>2, <2>3, <2>4 DEF Functors1
<1>4. ASSUME NEW m, BeginFunctors(m) \/ EndFunctors(m)
      PROVE  failed' = {}
    BY <1>4 DEF BeginFunctors, EndFunctors
<1>5. ASSUME NEW m, NEW tick, Poll(m, tick)
      PROVE  failed' = {}
    BY <1>5 DEF Poll
<1>6. ASSUME NEW m \in IoLoops, DropTimer(m) \/ ExpireTimer(m)
      PROVE  failed' = {}
    BY <1>6 DEF DropTimer, ExpireTimer
<1> QED
    BY Steps, <1>2, <1>3, <1>4, <1>5, <1>6 DEF Quiet, NewConnection

\* All of it holds throughout.
LEMMA MapInvariant == Spec /\ NamesFree => [](ConnInv /\ MapInv)
<1>1. Init => MapInv
  <2> SUFFICES ASSUME Init
               PROVE  MapInv
      OBVIOUS
  <2>1. Todo(Main) = <<>>
      BY EmptySeq, RestOfNothing, LoopsAndNames DEF Init, Todo
  <2> QED
      BY <2>1, NoElements
      DEF Init, MapInv, AliveMapped, Alive, RemovedMapped, AssertionsHold, Open
<1>2. ConnInv /\ MapInv /\ [Next]_vars /\ [FreeName]_vars => MapInv'
    BY AliveStep, RemovedStep, AssertStep DEF MapInv
<1> QED
    BY <1>1, <1>2, ConnInvariant, PTL DEF Spec, NamesFree

\* No assertion of the connection code fails, for any number of loops and of
\* connections, however their ends interleave, as long as names are free.
THEOREM NoAssertionFails == Spec /\ NamesFree => []AssertionsHold
<1>1. MapInv => AssertionsHold
    BY DEF MapInv
<1> QED
    BY <1>1, MapInvariant, PTL

\* While epoll or activeChannels_ has a channel, connections_ has its
\* connection.
LEMMA ChannelsMapped ==
  ASSUME ConnInv, AliveMapped
  PROVE  NoDanglingChannel
<1> SUFFICES ASSUME NEW c \in Conns,
                    c \in registered \cup UNION {active[l] : l \in Loops}
             PROVE  Referenced(c)
    BY DEF NoDanglingChannel
<1>1. c \in registered
    BY DEF ConnInv, StateInv, ActiveInv
<1>2. Alive(c)
    BY <1>1 DEF ConnInv, StateInv, RegisteredInv, Alive
<1>3. connections[Name(c)] = c /\ Name(c) \in Names
    BY <1>2, LoopsAndNames DEF AliveMapped
<1> QED
    BY <1>3 DEF Referenced

\* No channel dangles, for any number of loops and of connections, as
\* long as names are free.
THEOREM ChannelsOwned == Spec /\ NamesFree => []NoDanglingChannel
<1>1. ConnInv /\ MapInv => NoDanglingChannel
    BY ChannelsMapped DEF MapInv
<1> QED
    BY <1>1, MapInvariant, PTL

------------------------------------------------------------------------------
(* Old timers.                                                             *)

\* A timer in a heap that has not been disabled.
Live(l, t) == t \in Elements(heap[l]) \ disabled

\* The live timer of an open connection is the one in its entry, where the
\* next onMessage() finds it, unless find() missed one before.
CurrentTimer ==
  \A c \in Conns \ missed : \A l \in IoLoops : \A t \in Elements(heap[l]) :
    Live(l, t) /\ timerConn[t] = c /\ state[c] \in Open => https[Name(c)] = t

\* Timers are armed on open connections.
TimersOfOpened ==
  \A t \in DOMAIN timerConn : state[timerConn[t]] \in Open \cup {"kDisconnected"}

TimerInv == TimersOfOpened /\ CurrentTimer /\ OneActiveTimer

\* A timer is armed on an open connection, which may be closed later.
LEMMA OpenedStep ==
  ASSUME ConnInv, TimersOfOpened, [Next]_vars
  PROVE  TimersOfOpened'
<1> SUFFICES ASSUME NEW t \in DOMAIN timerConn'
             PROVE  state'[timerConn'[t]] \in Open \cup {"kDisconnected"}
    BY DEF TimersOfOpened, Open
<1> /\ DOMAIN timerConn = 1 .. Len(timerConn) /\ Len(timerConn) \in Nat
    /\ timerConn \in [1 .. Len(timerConn) -> Conns]
    BY TimerNumbers
<1>1. ASSUME NEW u \in 1 .. Len(timerConn)
      PROVE  state'[timerConn[u]] \in Open \cup {"kDisconnected"}
  <2>1. /\ timerConn[u] \in Conns
        /\ state[timerConn[u]] \in Open \cup {"kDisconnected"}
      BY DEF TimersOfOpened
  <2> QED
      BY <2>1, MoveStep DEF Open
<1>2. CASE timerConn' = timerConn
    BY <1>1, <1>2
<1>3. ASSUME NEW m, NEW c, Arms(m, c)
      PROVE  state'[timerConn'[t]] \in Open \cup {"kDisconnected"}
  <2>1. /\ DOMAIN timerConn' = 1 .. Len(timerConn) + 1
        /\ timerConn'[Len(timerConn) + 1] = c
        /\ \A u \in 1 .. Len(timerConn) : timerConn'[u] = timerConn[u]
        /\ state'[c] \in Open
      BY <1>3, ArmFacts DEF Arms
  <2> QED
      BY <1>1, <2>1
<1> QED
    BY TimerSteps, <1>2, <1>3 DEF timerVars, Pops

\* A timer that is live after a step was so before, or is the new one.
LEMMA LiveStep ==
  ASSUME ConnInv, [Next]_vars, NEW l \in IoLoops, NEW t, Live(l, t)'
  PROVE  \/ /\ Live(l, t) /\ t \in Elements(heap[l])
            /\ t \in 1 .. Len(timerConn) /\ timerConn'[t] = timerConn[t]
         \/ \E c : /\ Arms(l, c) /\ t = Len(timerConn) + 1
                   /\ timerConn'[t] = c
<1> /\ heap \in [IoLoops -> Seq(DOMAIN timerConn)] /\ Len(timerConn) \in Nat
    /\ t \in Elements(heap[l]) => t \in 1 .. Len(timerConn)
    BY TimerNumbers
<1>1. CASE UNCHANGED <<heap, timerConn, disabled>>
    BY <1>1 DEF Live
<1>2. ASSUME NEW m, Pops(m)
      PROVE  Live(l, t) /\ timerConn'[t] = timerConn[t]
  <2>1. Elements(Tail(heap[m])) \subseteq Elements(heap[m])
      BY <1>2, ElementsOf DEF Pops
  <2> QED
      BY <1>2, <2>1 DEF Pops, Live
<1>3. ASSUME NEW m, NEW c, Arms(m, c), disabled \subseteq disabled'
      PROVE  \/ Live(l, t) /\ timerConn'[t] = timerConn[t]
             \/ l = m /\ t = Len(timerConn) + 1 /\ timerConn'[t] = c
  <2>1. /\ timerConn'[Len(timerConn) + 1] = c
        /\ \A u \in 1 .. Len(timerConn) : timerConn'[u] = timerConn[u]
        /\ \A k \in IoLoops \ {m} : heap'[k] = heap[k]
        /\ Elements(heap'[m]) = Elements(heap[m]) \cup {Len(timerConn) + 1}
      BY <1>3, ArmFacts
  <2>2. CASE t \in Elements(heap[l])
      BY <1>3, <2>1, <2>2 DEF Live
  <2>3. CASE t \notin Elements(heap[l])
      BY <2>1, <2>3 DEF Live
  <2> QED
      BY <2>2, <2>3
<1>4. ASSUME NEW m, NEW c, Arms(m, c)
      PROVE  disabled \subseteq disabled'
    BY <1>4 DEF Arms, KeepAlive
<1> QED
    BY TimerSteps, <1>1, <1>2, <1>3, <1>4 DEF timerVars, Pops, Live

\* Arming a timer leaves no live one that was found.
LEMMA ArmDisables ==
  ASSUME ConnInv, TimerInv, NEW m, NEW c, Arms(m, c), c \notin missed',
         NEW l \in IoLoops, NEW t, Live(l, t), timerConn[t] = c
  PROVE  t \in disabled'
<1>1. c \in Conns /\ state[c] \in Open
    BY DEF Arms
<1>2. c \notin missed /\ disabled' = disabled \cup PreviousTimer(c)
    BY DEF Arms, KeepAlive
<1>3. https[Name(c)] = t
    BY <1>1, <1>2 DEF TimerInv, CurrentTimer, Live
<1>4. t \in PreviousTimer(c)
    BY <1>3 DEF PreviousTimer, Live
<1> QED
    BY <1>2, <1>4

\* A connection whose timer find() has missed stays among these.
LEMMA MissedStep ==
  ASSUME ConnInv, [Next]_vars
  PROVE  missed \subseteq missed'
<1>1. ASSUME NEW m, NEW c, Arms(m, c)
      PROVE  missed \subseteq missed'
    BY <1>1 DEF Arms, KeepAlive
<1> QED
    BY <1>1, TimerSteps DEF timerVars, Pops

\* Connections that are open at once have different names.
LEMMA OpenDiffer ==
  ASSUME AliveMapped, NEW c \in Conns, state[c] \in Open,
         NEW d \in Conns, state[d] \in Open, Name(c) = Name(d)
  PROVE  c = d
    BY DEF AliveMapped, Alive

\* A live timer is in the entry: the one before it has been disabled.
LEMMA CurrentStep ==
  ASSUME ConnInv, AliveMapped, TimerInv, [Next]_vars
  PROVE  CurrentTimer'
<1> SUFFICES ASSUME NEW c \in Conns, c \notin missed', NEW l \in IoLoops,
                    NEW t, Live(l, t)', timerConn'[t] = c, state'[c] \in Open
             PROVE  https'[Name(c)] = t
    BY DEF CurrentTimer, Name, Open
<1> https \in [Names -> 0 .. MaxRequests] /\ Name(c) \in Names
    BY LoopsAndNames DEF ConnInv, TypeInv, TypeOK
<1>1. ASSUME NEW d, Arms(l, d), t = Len(timerConn) + 1, timerConn'[t] = d
      PROVE  https'[Name(c)] = t
    BY <1>1, ArmFacts
<1>2. CASE Live(l, t) /\ timerConn[t] = c /\ t \in Elements(heap[l])
  <2>1. state[c] \in Open
    <3>1. state[c] \notin Open => state[c] = "kConnecting"
        BY MoveStep DEF Open
    <3>2. state[c] # "kConnecting"
        BY <1>2, TimerNumbers DEF TimerInv, TimersOfOpened, Open
    <3> QED
        BY <3>1, <3>2
  <2>2. https[Name(c)] = t
      BY <1>2, <2>1, MissedStep DEF TimerInv, CurrentTimer
  <2>3. ASSUME NEW d, Closes(d)
        PROVE  https'[Name(c)] = https[Name(c)]
    <3>1. d \in Conns /\ d # c /\ state[d] \in Open
        BY <2>3 DEF Closes, HandleClose, Open, ConnInv, TypeInv, TypeOK
    <3>2. Name(d) # Name(c)
        BY <2>1, <3>1, OpenDiffer
    <3> QED
        BY <2>3, <3>2 DEF Closes, HandleClose, WithoutEntry
  <2>4. ASSUME NEW m, NEW d, Arms(m, d)
        PROVE  https'[Name(c)] = https[Name(c)]
    <3>1. /\ d \in Conns /\ state[d] \in Open
          /\ https' = [https EXCEPT ![Name(d)] = Len(timerConn) + 1]
        BY <2>4, ArmFacts DEF Arms
    <3>2. d # c
        BY <1>2, <2>4, ArmDisables DEF Live
    <3>3. Name(d) # Name(c)
        BY <2>1, <3>1, <3>2, OpenDiffer
    <3> QED
        BY <3>1, <3>3
  <2> QED
      BY TimerSteps, <2>2, <2>3, <2>4 DEF timerVars, Pops
<1> QED
    BY LiveStep, <1>1, <1>2

\* Two live timers of a connection would both be in its entry.
LEMMA OneActiveStep ==
  ASSUME ConnInv, TimerInv, [Next]_vars
  PROVE  OneActiveTimer'
<1> SUFFICES ASSUME NEW c \in Conns, c \notin missed',
                    NEW l \in IoLoops, NEW t, Live(l, t)', timerConn'[t] = c,
                    NEW m \in IoLoops, NEW u, Live(m, u)', timerConn'[u] = c
             PROVE  t = u
    BY DEF OneActiveTimer, Live
<1>1. \/ Live(l, t) /\ timerConn[t] = c
      \/ Arms(l, c) /\ t = Len(timerConn) + 1
    BY LiveStep
<1>2. \/ Live(m, u) /\ timerConn[u] = c
      \/ Arms(m, c) /\ u = Len(timerConn) + 1
    BY LiveStep
<1>3. CASE Live(l, t) /\ timerConn[t] = c /\ Live(m, u) /\ timerConn[u] = c
    BY <1>3, MissedStep DEF TimerInv, OneActiveTimer, Live
<1>4. ~(Live(l, t) /\ timerConn[t] = c /\ Arms(m, c))
    BY ArmDisables DEF Live
<1>5. ~(Live(m, u) /\ timerConn[u] = c /\ Arms(l, c))
    BY ArmDisables DEF Live
<1> QED
    BY <1>1, <1>2, <1>3, <1>4, <1>5

\* At most one keep-alive timer of a connection can still fire, for any number
\* of loops and of connections, as long as names are free, unless find() missed the
\* last one: a deadline that a later request has put off does not come.
THEOREM OldTimersOff == Spec /\ NamesFree => []OneActiveTimer
<1>1. Init => TimerInv
  <2> SUFFICES ASSUME Init
               PROVE  TimerInv
      OBVIOUS
  <2>1. DOMAIN timerConn = {}
      BY EmptySeq, LenProperties DEF Init
  <2> QED
      BY <2>1, NoElements
      DEF Init, TimerInv, TimersOfOpened, CurrentTimer, OneActiveTimer
<1>2. ConnInv /\ MapInv /\ TimerInv /\ [Next]_vars => TimerInv'
    BY OpenedStep, CurrentStep, OneActiveStep DEF TimerInv, MapInv
<1>3. TimerInv => OneActiveTimer
    BY DEF TimerInv
<1> QED
    BY <1>1, <1>2, <1>3, MapInvariant, PTL DEF Spec

------------------------------------------------------------------------------
(* The life of a connection.  What refers to a closed connection after a   *)
(* step: connections_, a functor or a timer has referred to it before, and *)
(* the functor that takes the place of another is for the same connection. *)

Closed(c) == c \in Conns /\ state[c] = "kDisconnected"

\* From connections_ ...
LEMMA MapFrom ==
  ASSUME ConnInv, [Next]_vars, NEW c, Closed(c), NEW n \in Names,
         connections'[n] = c
  PROVE  Referenced(c)
<1> connections \in [Names -> 0 .. MaxConns] /\ c # 0
    BY LoopsAndNames DEF ConnInv, TypeInv, TypeOK, Closed
<1>1. CASE UNCHANGED connections
    BY <1>1 DEF Referenced
<1>2. ASSUME NEW d, Makes(d)
      PROVE  connections[n] = c
  <2>1. c # d
      BY <1>2, MadeWasNone DEF Closed
  <2> QED
      BY <1>2, <2>1 DEF Makes
<1>3. ASSUME NEW d, Removes(d)
      PROVE  connections[n] = c
    BY <1>3 DEF Removes
<1> QED
    BY MapSteps, <1>1, <1>2, <1>3 DEF Referenced

\* ... from a timer ...
LEMMA HeapFrom ==
  ASSUME ConnInv, [Next]_vars, NEW c, Closed(c), NEW l \in IoLoops,
         NEW t, t \in Elements(heap'[l]), timerConn'[t] = c
  PROVE  Referenced(c)
<1> /\ heap \in [IoLoops -> Seq(DOMAIN timerConn)] /\ Len(timerConn) \in Nat
    /\ t \in Elements(heap[l]) => t \in 1 .. Len(timerConn)
    BY TimerNumbers
<1>1. CASE UNCHANGED <<heap, timerConn>>
    BY <1>1 DEF Referenced
<1>2. ASSUME NEW m, Pops(m)
      PROVE  t \in Elements(heap[l]) /\ timerConn[t] = c
  <2>1. Elements(Tail(heap[m])) \subseteq Elements(heap[m])
      BY <1>2, ElementsOf DEF Pops
  <2> QED
      BY <1>2, <2>1 DEF Pops
<1>3. ASSUME NEW m, NEW d, Arms(m, d)
      PROVE  t \in Elements(heap[l]) /\ timerConn[t] = c
  <2>1. /\ timerConn'[Len(timerConn) + 1] = d
        /\ \A u \in 1 .. Len(timerConn) : timerConn'[u] = timerConn[u]
        /\ \A k \in IoLoops \ {m} : heap'[k] = heap[k]
        /\ Elements(heap'[m]) = Elements(heap[m]) \cup {Len(timerConn) + 1}
        /\ c # d
      BY <1>3, ArmFacts DEF Arms, Closed, Open
  <2> QED
      BY <2>1
<1> QED
    BY TimerSteps, <1>1, <1>2, <1>3 DEF timerVars, Referenced

\* ... and from a functor.
LEMMA QueueFrom ==
  ASSUME ConnInv, [Next]_vars, NEW c, Closed(c), NEW l \in Loops,
         NEW f, f \in Elements(pending'[l]) \cup Elements(batch'[l]),
         f.conn = c
  PROVE  Referenced(c)
<1> DEFINE Held(k) == Elements(pending[k]) \cup Elements(batch[k])
<1> /\ pending \in [Loops -> Seq(Functors)] /\ batch \in [Loops -> Seq(Functors)]
    /\ Closed(c) /\ state[c] = "kDisconnected" /\ c \in Conns
    BY DEF ConnInv, TypeInv, TypeOK, Closed
<1>1. ASSUME NEW k \in Loops, NEW g \in Held(k), g.conn = c
      PROVE  Referenced(c)
    BY <1>1 DEF Referenced
<1>2. CASE f \in Held(l)
    BY <1>1, <1>2
\* One functor is pushed, on one loop.
<1>3. ASSUME NEW m \in Loops, NEW g \in Functors, g.conn # c,
             pending' = [pending EXCEPT ![m] = Append(@, g)], batch' = batch
      PROVE  f \in Held(l)
  <2>1. Elements(Append(pending[m], g)) = Elements(pending[m]) \cup {g}
      BY ElementsOf
  <2> QED
      BY <1>3, <2>1
<1>4. ASSUME pending' = pending, batch' = batch
      PROVE  f \in Held(l)
    BY <1>4
<1>5. ASSUME NewConnection
      PROVE  f \in Held(l)
  <2> DEFINE d == accepted + 1
  <2>1. d \in Conns /\ d # c
      BY <1>5, NewConnectionMakes, MadeWasNone DEF Makes
  <2>2. next' + 1 \in Loops
    <3>1. next' \in 0 .. ThreadNums - 1
        BY TypeStep DEF TypeOK, ConnInv
    <3> QED
        BY <3>1, LoopsAndNames
  <2>3. /\ Functor("connectEstablished", d) \in Functors
        /\ Functor("connectEstablished", d).conn = d
      BY <2>1 DEF Functor, Functors
  <2> QED
      BY <1>3, <1>5, <2>1, <2>2, <2>3 DEF NewConnection, loopVars
<1>6. ASSUME NEW d \in Conns, state[d] \in Open, HandleClose(d), batch' = batch
      PROVE  f \in Held(l)
  <2>1. /\ Functor("removeConnInLoop", d) \in Functors
        /\ Functor("removeConnInLoop", d).conn = d /\ d # c
      BY <1>6 DEF Functor, Functors, Open
  <2> QED
      BY <1>3, <1>6, <2>1, LoopsAndNames DEF HandleClose
<1>7. ASSUME NEW m \in Loops, NEW d \in Conns, HandleEvent(m, d)
      PROVE  f \in Held(l)
    BY <1>4, <1>6, <1>7, EventFacts DEF HandleEvent
<1>8. ASSUME NEW m \in IoLoops, DropTimer(m) \/ ExpireTimer(m)
      PROVE  f \in Held(l)
  <2> DEFINE d == timerConn[Head(heap[m])]
  <2>1. CASE ExpireTimer(m) /\ ForceCloseActs(d)
    <3>1. d \in Conns /\ d # c
        BY <2>1, TopFacts DEF ExpireTimer, ForceCloseActs, Open
    <3>2. /\ Functor("forceCloseInLoop", d) \in Functors
          /\ Functor("forceCloseInLoop", d).conn = d
        BY <3>1 DEF Functor, Functors
    <3> QED
        BY <1>3, <2>1, <3>1, <3>2, LoopsAndNames DEF ExpireTimer
  <2> QED
      BY <1>4, <1>8, <2>1 DEF DropTimer, ExpireTimer
<1>9. ASSUME NEW m \in Loops, BeginFunctors(m) \/ EndFunctors(m)
      PROVE  f \in Held(l)
  <2>1. CASE BeginFunctors(m)
      BY <2>1, NoElements DEF BeginFunctors
  <2>2. CASE EndFunctors(m)
      BY <2>2, NoElements DEF EndFunctors, loopVars
  <2> QED
      BY <1>9, <2>1, <2>2
<1>10. ASSUME NEW m \in Loops, Functors1(m), f \notin Held(l)
       PROVE  Referenced(c)
  <2> DEFINE g == NextFunctor(m)
  <2>1. batch' = batch
      BY <1>10 DEF Functors1, ConnectEstablished, ForceCloseInLoop,
         RemoveConnInLoop, ConnectDestroyed, Running
  <2>2. CASE ForceCloseInLoop(m)
    <3>1. g.conn \in Conns
        BY <2>2, RunFacts DEF ForceCloseInLoop
    <3> QED
        BY <1>4, <1>6, <1>10, <2>1, <2>2, <3>1 DEF ForceCloseInLoop, StillOpen
  <2>3. CASE RemoveConnInLoop(m)
    <3> DEFINE h == Functor("connectDestroyed", g.conn)
    <3>1. /\ g \in Held(m) /\ g.conn \in Conns /\ loopOf[g.conn] \in Loops
          /\ h \in Functors /\ h.conn = g.conn
        BY <2>3, RunFacts, LoopsAndNames DEF RemoveConnInLoop, Functor, Functors
    <3>2. g.conn = c
        BY <1>3, <1>10, <2>1, <2>3, <3>1 DEF RemoveConnInLoop, QueueDestroyed
    <3> QED
        BY <1>1, <3>1, <3>2
  <2>4. CASE ConnectEstablished(m)
      BY <1>4, <1>10, <2>1, <2>4 DEF ConnectEstablished
  <2>5. CASE ConnectDestroyed(m)
      BY <1>4, <1>10, <2>1, <2>5 DEF ConnectDestroyed
  <2> QED
      BY <1>10, <2>2, <2>3, <2>4, <2>5 DEF Functors1
<1>11. ASSUME Quiet \/ \E m \in Loops, tick \in {"no", "due"} : Poll(m, tick)
       PROVE  f \in Held(l)
    BY <1>4, <1>11 DEF Quiet, Poll
<1> QED
    BY Steps, <1>2, <1>5, <1>7, <1>8, <1>9, <1>10, <1>11

\* A closed connection whose last reference is gone stays freed.
LEMMA FreedForGood ==
  ASSUME ConnInv, [Next]_vars, NEW c, Closed(c), Referenced(c)'
  PROVE  Referenced(c)
<1>1. CASE \E n \in Names : connections'[n] = c
    BY <1>1, MapFrom
<1>2. CASE \E l \in Loops :
             \E f \in Elements(pending'[l]) \cup Elements(batch'[l]) : f.conn = c
    BY <1>2, QueueFrom
<1>3. CASE \E l \in IoLoops : \E t \in Elements(heap'[l]) : timerConn'[t] = c
    BY <1>3, HeapFrom
<1> QED
    BY <1>1, <1>2, <1>3 DEF Referenced

\* An open connection, or one on its way there, is referred to.
LEMMA AliveReferenced ==
  ASSUME AliveMapped, NEW c \in Conns, Alive(c)
  PROVE  Referenced(c)
<1>1. connections[Name(c)] = c /\ Name(c) \in Names
    BY LoopsAndNames DEF AliveMapped
<1> QED
    BY <1>1 DEF Referenced

\* The stage of a connection in module Lifecycle.
Stage(c) ==
  IF state[c] # "none" /\ ~Referenced(c) THEN "freed" ELSE state[c]

\* A step takes a connection one stage on, or leaves it where it is.
LEMMA StageStep ==
  ASSUME ConnInv, MapInv, [Next]_vars, [FreeName]_vars, NEW c \in Conns
  PROVE  /\ Stage(c)' \in L!Stages
         /\ Stage(c)' # Stage(c) => <<Stage(c), Stage(c)'>> \in L!Follows
<1>1. AliveMapped /\ AliveMapped'
    BY AliveStep DEF MapInv
<1>2. Alive(c) => Referenced(c)
    BY <1>1, AliveReferenced
<1>3. state'[c] \in {"kConnecting"} \cup Open => Referenced(c)'
  <2> SUFFICES ASSUME state'[c] \in {"kConnecting"} \cup Open
               PROVE  Referenced(c)'
      OBVIOUS
  <2>1. connections'[Name(c)] = c /\ Name(c) \in Names
      BY <1>1, LoopsAndNames DEF AliveMapped, Alive, Name, Open
  <2> QED
      BY <2>1 DEF Referenced
<1>4. Closes(c) => Referenced(c)'
  <2> SUFFICES ASSUME Closes(c)
               PROVE  Referenced(c)'
      OBVIOUS
  <2>1. connections[Name(c)] = c /\ Name(c) \in Names
      BY <1>1, LoopsAndNames DEF AliveMapped, Alive, Closes
  <2>2. connections' = connections
      BY DEF Closes, HandleClose
  <2> QED
      BY <2>1, <2>2 DEF Referenced
<1>5. /\ state[c] \in {"none", "kConnecting"} \cup Open \cup {"kDisconnected"}
      /\ state'[c] \in {"none", "kConnecting"} \cup Open \cup {"kDisconnected"}
  <2>1. TypeOK /\ TypeOK'
      BY TypeStep DEF ConnInv, TypeInv
  <2>2. state[c] \in {"none", "kConnecting"} \cup Open \cup {"kDisconnected"}
      BY <2>1 DEF TypeOK
  <2> QED
      BY <2>2, MoveStep DEF Open
<1>6. Stage(c)' = IF state'[c] # "none" /\ ~Referenced(c)'
                    THEN "freed" ELSE state'[c]
    BY DEF Stage
<1>7. CASE state[c] = "kDisconnected"
  <2>1. state'[c] = "kDisconnected"
      BY <1>7, MoveStep DEF Open
  <2>2. Referenced(c)' => Referenced(c)
      BY <1>7, FreedForGood DEF Closed
  <2> QED
      BY <1>6, <1>7, <2>1, <2>2 DEF Stage, L!Stages, L!Follows
<1>8. CASE state[c] # "kDisconnected"
  <2>1. Stage(c) = state[c]
      BY <1>2, <1>5, <1>8 DEF Stage, Alive
  <2>2. Stage(c)' = state'[c]
      BY <1>3, <1>4, <1>5, <1>6, <1>8, MoveStep DEF Open
  <2> QED
      BY <1>5, <1>8, <2>1, <2>2, MoveStep DEF Open, L!Stages, L!Follows
<1> QED
    BY <1>7, <1>8

\* So a step is one of Lifecycle.
LEMMA StepSimulation ==
  ASSUME ConnInv, MapInv, [Next]_vars, [FreeName]_vars
  PROVE  L!Next
<1>1. \A c \in Conns :
        /\ Stage(c)' \in L!Stages
        /\ Stage(c)' # Stage(c) => <<Stage(c), Stage(c)'>> \in L!Follows
    BY StageStep
<1> QED
    BY <1>1 DEF L!Next, Stage

\* The server implements the life of a socket, for any number of loops and of
\* connections, as long as names are free: each connection goes through its states
\* in one direction, and its descriptor is closed once, after it has been
\* taken down and when nothing refers to it, and stays closed.
THEOREM SocketLives == Spec /\ NamesFree => ImplementsLifecycle
<1>1. Init => L!Init
    BY DEF Init, L!Init
<1>2. ConnInv /\ MapInv /\ [Next]_vars /\ [FreeName]_vars => L!Next
    BY StepSimulation
<1> QED
    BY <1>1, <1>2, MapInvariant, PTL
    DEF Spec, NamesFree, ImplementsLifecycle, L!Spec

------------------------------------------------------------------------------
(* When names are free.                                                    *)

\* There are names enough for all connections.
NoWrap == MaxConns <= IdModulus

\* The remainder of a number below the modulus.
LEMMA SmallRemainder ==
  ASSUME NEW n \in Nat, NEW m \in Nat \ {0}, n < m
  PROVE  n % m = n
  OBVIOUS

\* Different connections then have different names.
LEMMA NamesDiffer ==
  ASSUME NoWrap, NEW c \in Conns, NEW d \in Conns, Name(c) = Name(d)
  PROVE  c = d
<1>1. \A b \in Conns : Name(b) = b - 1
  <2>1. TAKE b \in Conns
  <2>2. b - 1 \in Nat /\ b - 1 < IdModulus
      BY ConstantsOK DEF NoWrap, Conns
  <2> QED
      BY <2>2, SmallRemainder, ConstantsOK DEF Name
<1> QED
    BY <1>1, LoopsAndNames

\* connections_ has connections that were made, under their names.
UnderName ==
  \A n \in Names : connections[n] # 0 =>
    connections[n] \in 1 .. accepted /\ Name(connections[n]) = n

\* Every step keeps that.
LEMMA UnderNameStep ==
  ASSUME ConnInv, UnderName, [Next]_vars
  PROVE  UnderName'
<1> /\ connections \in [Names -> 0 .. MaxConns]
    /\ accepted \in Nat /\ accepted' \in Nat /\ accepted <= accepted'
    BY GivenForGood DEF ConnInv, TypeInv, TypeOK
<1> SUFFICES ASSUME NEW n \in Names, connections'[n] # 0
             PROVE  connections'[n] \in 1 .. accepted' /\ Name(connections'[n]) = n
    BY DEF UnderName, Name
<1>1. CASE connections'[n] = connections[n]
    BY <1>1 DEF UnderName
<1>2. ASSUME NEW c, Makes(c)
      PROVE  \/ connections'[n] = connections[n]
             \/ n = Name(c) /\ connections'[n] = c
    BY <1>2 DEF Makes
<1>3. ASSUME NEW c, Makes(c)
      PROVE  c \in 1 .. accepted'
    BY <1>3 DEF Makes, NewConnection
<1>4. ASSUME NEW c, Removes(c)
      PROVE  connections'[n] = connections[n]
    BY <1>4 DEF Removes
<1> QED
    BY MapSteps, <1>1, <1>2, <1>3, <1>4

\* With as many names as connections newConnection() always finds its name
\* free, so what is proved above holds, whatever else happens.
THEOREM EnoughNames ==
  ASSUME NoWrap
  PROVE  Spec => NamesFree
<1>1. Init => UnderName
    BY DEF Init, UnderName
<1>2. ASSUME ConnInv, UnderName, [Next]_vars
      PROVE  FreeName
  <2> SUFFICES ASSUME NewConnection, connections[Name(accepted + 1)] # 0
               PROVE  FALSE
      BY DEF FreeName
  <2> DEFINE c == accepted + 1
             d == connections[Name(c)]
  <2>1. c \in Conns /\ Name(c) \in Names /\ accepted \in Nat
    <3>1. Makes(c)
        BY <1>2, NewConnectionMakes
    <3>2. c \in Conns /\ accepted \in Nat
        BY <1>2, <3>1 DEF Makes, ConnInv, TypeInv, TypeOK
    <3> QED
        BY <3>2, LoopsAndNames
  <2>2. d \in 1 .. accepted /\ Name(d) = Name(c)
      BY <1>2, <2>1 DEF UnderName
  <2>3. d \in Conns /\ d # c
      BY <2>1, <2>2, ConstantsOK DEF Conns
  <2> QED
      BY <2>1, <2>2, <2>3, NamesDiffer
<1>3. ConnInv /\ UnderName /\ [Next]_vars => [FreeName]_vars
    BY <1>2
<1>4. ConnInv /\ UnderName /\ [Next]_vars => UnderName'
    BY UnderNameStep
<1> QED
    BY <1>1, <1>3, <1>4, ConnInvariant, PTL DEF Spec, NamesFree

==============================================================================

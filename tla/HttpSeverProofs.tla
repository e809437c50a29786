--------------------------- MODULE HttpSeverProofs ---------------------------
(***************************************************************************)
(* Proofs about HttpSever, for any number of IO loops, clients and         *)
(* requests: the types, and that everything runs on the loop it belongs    *)
(* to.  ConnInv, proved last, adds how the state of a connection goes with *)
(* the functors that are queued for it; HttpSeverLifeProofs rests on it.   *)
(***************************************************************************)
EXTENDS HttpSever, FiniteSetTheorems, SequenceTheorems, TLAPS

------------------------------------------------------------------------------
(* Constants and data.                                                     *)

\* A name of a connection is a name; and getNextLoop() gives an IO loop.
LEMMA Remainder ==
  ASSUME NEW n \in Nat, NEW m \in Nat \ {0}
  PROVE  n % m \in 0 .. m - 1
  OBVIOUS

\* The elements of a sequence are of its type.
LEMMA ElementsIn ==
  ASSUME NEW S, NEW s \in Seq(S)
  PROVE  \A e \in Elements(s) : e \in S
<1>1. s \in [1 .. Len(s) -> S]
    BY LenProperties
<1> QED
    BY <1>1 DEF Elements

\* What the numbers of loops, connections and names are.
LEMMA LoopsAndNames ==
  /\ Main \in Loops /\ Main \notin IoLoops /\ IoLoops \subseteq Loops
  /\ \A c \in Conns : c \in Nat \ {0} /\ Name(c) \in Names
  /\ \A n \in Nat : (n + 1) % ThreadNums \in 0 .. ThreadNums - 1
  /\ \A n \in 0 .. ThreadNums - 1 : n + 1 \in IoLoops
<1>1. \A c \in Conns : c - 1 \in Nat /\ c \in Nat \ {0}
    BY ConstantsOK DEF Conns
<1>2. \A c \in Conns : Name(c) \in Names
    BY <1>1, Remainder, ConstantsOK DEF Name, Names
<1>3. \A n \in Nat : (n + 1) % ThreadNums \in 0 .. ThreadNums - 1
    BY Remainder, ConstantsOK
<1> QED
    BY <1>1, <1>2, <1>3, ConstantsOK DEF Main, Loops, IoLoops

------------------------------------------------------------------------------
(* Types.                                                                  *)

\* The requests that wait to be read.
Waiting == {c \in Conns : inbox[c] # "empty"}

\* Of the requests sent, some armed a timer and some wait to be read: so no
\* more timers are made than requests sent.  And a loop has active channels,
\* or a batch, in its phase for them only.
TypeInv ==
  /\ TypeOK
  /\ Len(timerConn) + Cardinality(Waiting) <= sent
  /\ \A l \in Loops :
       /\ phase[l] # "events" => active[l] = {}
       /\ phase[l] # "functors" => batch[l] = <<>> /\ done[l] = 0

\* They hold at the start.
LEMMA InitTypes == Init => TypeInv
<1> SUFFICES ASSUME Init
             PROVE  TypeInv
    OBVIOUS
<1> USE DEF Init
<1>1. /\ \A S : <<>> \in Seq(S)
      /\ Len(<<>>) = 0
    BY EmptySeq
<1>2. /\ backlog \in 0 .. ListenQueue /\ accepted + backlog <= MaxConns
      /\ errors \in 0 .. MaxErrors /\ accepted \in 0 .. MaxConns
      /\ next \in 0 .. ThreadNums - 1 /\ sent \in 0 .. MaxRequests
    BY ConstantsOK
<1>3. /\ connections \in [Names -> 0 .. MaxConns]
      /\ loopOf \in [Conns -> Loops]
      /\ https \in [Names -> 0 .. MaxRequests]
    BY LoopsAndNames, ConstantsOK
<1>4. /\ pending \in [Loops -> Seq(Functors)]
      /\ batch \in [Loops -> Seq(Functors)]
      /\ done \in [Loops -> Nat] /\ \A l \in Loops : done[l] <= Len(batch[l])
      /\ heap \in [IoLoops -> Seq(DOMAIN timerConn)]
      /\ timerConn \in Seq(Conns)
    BY <1>1
<1>5. TypeOK
  <2>1. /\ state \in [Conns -> {"none", "kConnecting"} \cup Open
                                 \cup {"kDisconnected"}]
        /\ phase \in [Loops -> {"poll", "events", "functors"}]
        /\ active \in [Loops -> SUBSET Conns]
        /\ ticking \in [Loops -> {"no", "due", "running"}]
        /\ inbox \in [Conns -> {"empty", "keepAlive", "close"}]
        /\ peer \in [Conns -> {"open", "closed", "reset", "gone"}]
      OBVIOUS
  <2>2. /\ listenEdge \in BOOLEAN /\ accepting = FALSE
        /\ registered = {} /\ disabled = {} /\ missed = {} /\ edge = {}
        /\ failed = {}
      OBVIOUS
  <2> HIDE DEF Init
  <2> QED
      BY <1>2, <1>3, <1>4, <2>1, <2>2 DEF TypeOK
<1>6. Waiting = {}
    BY DEF Waiting
<1>7. Len(timerConn) + Cardinality(Waiting) <= sent
    BY <1>1, <1>6, FS_EmptySet
<1> QED
    BY <1>5, <1>7 DEF TypeInv

\* What the queues hold, and the next functor of a batch.
LEMMA FunctorTypes ==
  ASSUME TypeOK
  PROVE  /\ \A c \in Conns : /\ Functor("connectEstablished", c) \in Functors
                             /\ Functor("removeConnInLoop", c) \in Functors
                             /\ Functor("connectDestroyed", c) \in Functors
                             /\ Functor("forceCloseInLoop", c) \in Functors
         /\ \A l \in Loops, f \in Functors :
              [pending EXCEPT ![l] = Append(@, f)] \in [Loops -> Seq(Functors)]
         /\ \A l \in Loops : done[l] < Len(batch[l]) =>
              NextFunctor(l) \in Functors /\ NextFunctor(l).conn \in Conns
<1>1. ASSUME NEW l \in Loops, NEW f \in Functors
      PROVE  [pending EXCEPT ![l] = Append(@, f)] \in [Loops -> Seq(Functors)]
  <2>1. pending[l] \in Seq(Functors) /\ pending \in [Loops -> Seq(Functors)]
      BY DEF TypeOK
  <2>2. Append(pending[l], f) \in Seq(Functors)
      BY <2>1, AppendProperties
  <2> QED
      BY <2>1, <2>2
<1>2. ASSUME NEW l \in Loops, done[l] < Len(batch[l])
      PROVE  NextFunctor(l) \in Functors /\ NextFunctor(l).conn \in Conns
  <2>1. batch[l] \in Seq(Functors) /\ done[l] \in Nat
      BY DEF TypeOK
  <2>2. Len(batch[l]) \in Nat
      BY <2>1, LenProperties
  <2>3. done[l] + 1 \in 1 .. Len(batch[l])
      BY <1>2, <2>1, <2>2
  <2>4. batch[l][done[l] + 1] \in Functors
      BY <2>1, <2>3, ElementOfSeq
  <2> QED
      BY <2>4 DEF NextFunctor, Functors
<1> QED
    BY <1>1, <1>2 DEF Functor, Functors

\* What handleClose() changes stays typed.
LEMMA CloseTypes ==
  ASSUME TypeOK, NEW c \in Conns, HandleClose(c)
  PROVE  /\ failed' \subseteq {"handleClose", "connectEstablished",
                               "removeConnInLoop"}
         /\ state' \in [Conns -> {"none", "kConnecting"} \cup Open
                                   \cup {"kDisconnected"}]
         /\ registered' \subseteq Conns
         /\ https' \in [Names -> 0 .. MaxRequests]
         /\ pending' \in [Loops -> Seq(Functors)]
         /\ connections' = connections
<1>1. pending' \in [Loops -> Seq(Functors)]
    BY FunctorTypes, LoopsAndNames DEF HandleClose
<1>2. Name(c) \in Names /\ 0 \in 0 .. MaxRequests
    BY LoopsAndNames, ConstantsOK
<1> QED
    BY <1>1, <1>2 DEF TypeOK, HandleClose, Unregistered, WithoutEntry

\* The backlog can be counted.
LEMMA WaitingFinite == IsFiniteSet(Waiting) /\ Cardinality(Waiting) \in Nat
<1>1. IsFiniteSet(Conns) /\ Waiting \in SUBSET Conns
    BY FS_Interval, ConstantsOK DEF Waiting, Conns
<1> QED
    BY <1>1, FS_Subset, FS_CardinalityType

\* The timer a request with keep-alive makes is one of the requests sent.
LEMMA TimerTypes ==
  ASSUME TypeInv, NEW l \in Loops, NEW c \in Conns, inbox[c] = "keepAlive",
         KeepAlive(l, c)
  PROVE  /\ Len(timerConn') = Len(timerConn) + 1
         /\ Len(timerConn') <= sent
         /\ timerConn' \in Seq(Conns)
         /\ heap' \in [IoLoops -> Seq(DOMAIN timerConn')]
         /\ disabled' \subseteq Timers
         /\ https' \in [Names -> 0 .. MaxRequests]
         /\ missed' \subseteq Conns
<1> USE DEF TypeInv, TypeOK
<1>1. Len(timerConn) \in Nat /\ DOMAIN timerConn = 1 .. Len(timerConn)
    BY LenProperties
<1>2. IsFiniteSet(Waiting) /\ Cardinality(Waiting) \in Nat
    BY WaitingFinite
<1>3. Cardinality(Waiting) # 0
  <2>1. c \in Waiting
      BY DEF Waiting
  <2> QED
      BY <1>2, <2>1, FS_EmptySet
<1>4. Len(timerConn) + 1 <= sent
    BY <1>1, <1>2, <1>3
<1>5. /\ timerConn' \in Seq(Conns) /\ Len(timerConn') = Len(timerConn) + 1
      /\ DOMAIN timerConn' = 1 .. Len(timerConn) + 1
    BY AppendProperties, LenProperties DEF KeepAlive
<1>6. heap' \in [IoLoops -> Seq(DOMAIN timerConn')]
  <2>1. \A m \in IoLoops : heap[m] \in Seq(DOMAIN timerConn')
      BY <1>1, <1>5, SeqMonotonic
  <2>2. l \in IoLoops =>
          Append(heap[l], Len(timerConn) + 1) \in Seq(DOMAIN timerConn')
      BY <1>1, <1>5, <2>1, AppendProperties
  <2>3. heap' = [heap EXCEPT ![l] = Append(@, Len(timerConn) + 1)]
      BY DEF KeepAlive
  <2>4. \A m \in IoLoops : heap'[m] \in Seq(DOMAIN timerConn')
      BY <2>1, <2>2, <2>3
  <2>5. heap' = [m \in IoLoops |-> heap'[m]]
      BY <2>3
  <2> QED
      BY <2>4, <2>5
<1>7. \A t \in PreviousTimer(c) : t \in Timers
  <2>1. \A m \in IoLoops : \A t \in Elements(heap[m]) :
          t \in 1 .. Len(timerConn)
      BY <1>1, ElementsIn
  <2> QED
      BY <1>1, <1>4, <2>1, ConstantsOK DEF PreviousTimer, Timers
<1>8. https' \in [Names -> 0 .. MaxRequests]
  <2>1. Len(timerConn) + 1 \in 0 .. MaxRequests
      BY <1>1, <1>4, ConstantsOK
  <2> QED
      BY <2>1 DEF KeepAlive
<1> QED
    BY <1>4, <1>5, <1>6, <1>7, <1>8 DEF KeepAlive

\* The types, by action: first what a loop does in epoll_wait and accept4(),
\* then its handlers, timers and functors, then the clients.
LEMMA TypeStep ==
  ASSUME TypeInv, [Next]_vars
  PROVE  TypeOK'
<1> USE DEF TypeOK
<1> TypeOK
    BY DEF TypeInv
<1>0. CASE UNCHANGED vars
    BY <1>0 DEF vars, acceptVars, connVars, loopVars, timerVars, netVars
<1>1. CASE Connect
    BY <1>1, ConstantsOK
    DEF Connect, acceptVars, connVars, loopVars, timerVars, netVars
<1>2. ASSUME NEW c \in Conns, Client(c)
      PROVE  TypeOK'
  <2>1. ASSUME NEW request \in {"keepAlive", "close"}, Send(c, request)
        PROVE  TypeOK'
      BY <2>1, ConstantsOK
      DEF Send, acceptVars, connVars, loopVars, timerVars, netVars
  <2>2. ASSUME NEW how \in {"closed", "reset"}, EndPeer(c, how)
        PROVE  TypeOK'
      BY <2>2
      DEF EndPeer, acceptVars, connVars, loopVars, timerVars, netVars
  <2> QED
      BY <1>2, <2>1, <2>2 DEF Client
<1>3. CASE NewConnection
  <2>1. /\ backlog' \in 0 .. ListenQueue /\ accepted' + backlog' <= MaxConns
        /\ accepted' \in 0 .. MaxConns /\ accepted' = accepted + 1
        /\ accepted + 1 \in Conns
      BY <1>3, ConstantsOK DEF NewConnection, Conns
  <2>2. next' \in 0 .. ThreadNums - 1 /\ next' + 1 \in Loops
      BY <1>3, LoopsAndNames, ConstantsOK DEF NewConnection, NextLoop
  <2>3. pending' \in [Loops -> Seq(Functors)]
      BY <1>3, <2>1, <2>2, FunctorTypes DEF NewConnection
  <2>4. /\ loopOf' \in [Conns -> Loops]
        /\ state' \in [Conns -> {"none", "kConnecting"} \cup Open
                                  \cup {"kDisconnected"}]
        /\ connections' \in [Names -> 0 .. MaxConns]
      BY <1>3, <2>1, <2>2 DEF NewConnection
  <2> QED
      BY <1>3, <2>1, <2>2, <2>3, <2>4
      DEF NewConnection, loopVars, timerVars, netVars
<1>4. CASE EndAccept
  <2>1. errors' \in 0 .. MaxErrors /\ accepting' = FALSE
      BY <1>4, ConstantsOK DEF EndAccept
  <2> QED
      BY <1>4, <2>1 DEF EndAccept, connVars, loopVars, timerVars, netVars
<1>5. ASSUME NEW l \in Loops, NEW tick \in {"no", "due"}, Poll(l, tick)
      PROVE  TypeOK'
  <2>1. /\ phase' \in [Loops -> {"poll", "events", "functors"}]
        /\ phase'[l] = "events"
        /\ active' \in [Loops -> SUBSET Conns]
        /\ ticking' \in [Loops -> {"no", "due", "running"}]
        /\ edge' \subseteq Conns
      BY <1>5 DEF Poll
  <2>2. CASE l = Main
    <3>1. accepting' \in BOOLEAN /\ listenEdge' \in BOOLEAN
        BY <1>5, <2>2, Zenon DEF Poll
    <3> QED
        BY <1>5, <2>1, <2>2, <3>1 DEF Poll, connVars, timerVars
  <2>3. CASE l # Main
    <3>1. accepting' => phase'[Main] = "events"
        BY <1>5, <2>3, LoopsAndNames DEF Poll
    <3> QED
        BY <1>5, <2>1, <2>3, <3>1 DEF Poll, connVars, timerVars
  <2> QED
      BY <2>2, <2>3
<1>6. ASSUME NEW l \in Loops, NEW c \in Conns, HandleEvent(l, c)
      PROVE  TypeOK'
  <2>1. /\ active' \in [Loops -> SUBSET Conns]
        /\ inbox' \in [Conns -> {"empty", "keepAlive", "close"}]
        /\ peer' \in [Conns -> {"open", "closed", "reset", "gone"}]
        /\ UNCHANGED <<acceptVars, accepted, next, loopOf, phase, ticking,
                       batch, done, edge, sent>>
      BY <1>6 DEF HandleEvent
  <2>2. CASE HandleClose(c) /\ UNCHANGED <<heap, timerConn, disabled, missed>>
      BY <2>1, <2>2, CloseTypes DEF acceptVars
  <2>3. CASE inbox[c] = "keepAlive" /\ KeepAlive(l, c)
               /\ UNCHANGED <<registered, connections, pending, failed>>
    <3>1. UNCHANGED state
        BY <2>3 DEF KeepAlive
    <3> QED
        BY <2>1, <2>3, <3>1, TimerTypes DEF acceptVars
  <2>4. CASE Shutdown(c)
               /\ UNCHANGED <<registered, connections, pending, failed>>
    <3>1. state' \in [Conns -> {"none", "kConnecting"} \cup Open
                                 \cup {"kDisconnected"}]
        BY <2>4 DEF Shutdown, Open
    <3> QED
        BY <2>1, <2>4, <3>1 DEF Shutdown, timerVars, acceptVars
  <2> QED
      BY <1>6, <2>2, <2>3, <2>4 DEF HandleEvent
<1>7. ASSUME NEW l \in IoLoops, DropTimer(l)
      PROVE  TypeOK'
  <2>1. heap' \in [IoLoops -> Seq(DOMAIN timerConn)]
      BY <1>7, HeadTailProperties DEF DropTimer
  <2> QED
      BY <1>7, <2>1, LoopsAndNames DEF DropTimer, acceptVars, connVars, netVars
<1>8. ASSUME NEW l \in IoLoops, ExpireTimer(l)
      PROVE  TypeOK'
  <2>1. heap' \in [IoLoops -> Seq(DOMAIN timerConn)]
      BY <1>8, HeadTailProperties DEF ExpireTimer
  <2>2. timerConn[Head(heap[l])] \in Conns
    <3>1. heap[l] \in Seq(DOMAIN timerConn) /\ heap[l] # <<>>
        BY <1>8 DEF ExpireTimer
    <3>2. Head(heap[l]) \in DOMAIN timerConn
        BY <3>1, HeadTailProperties
    <3> QED
        BY <3>2, LenProperties
  <2>3. /\ pending' \in [Loops -> Seq(Functors)]
        /\ state' \in [Conns -> {"none", "kConnecting"} \cup Open
                                  \cup {"kDisconnected"}]
        /\ ticking' \in [Loops -> {"no", "due", "running"}]
    <3>1. l \in Loops
        BY LoopsAndNames
    <3>2. CASE ForceCloseActs(timerConn[Head(heap[l])])
      <4>1. pending' \in [Loops -> Seq(Functors)]
        <5>1. [pending EXCEPT ![l] =
                 Append(@, Functor("forceCloseInLoop", timerConn[Head(heap[l])]))]
                \in [Loops -> Seq(Functors)]
            BY <2>2, <3>1, FunctorTypes
        <5> QED
            BY <1>8, <3>2, <5>1 DEF ExpireTimer
      <4> QED
          BY <1>8, <2>2, <3>2, <4>1 DEF ExpireTimer, Open
    <3>3. CASE ~ForceCloseActs(timerConn[Head(heap[l])])
        BY <1>8, <3>3 DEF ExpireTimer
    <3> QED
        BY <3>2, <3>3
  <2> QED
      BY <1>8, <2>1, <2>3 DEF ExpireTimer, acceptVars, netVars
<1>9. ASSUME NEW l \in IoLoops, EndTimers(l)
      PROVE  TypeOK'
    BY <1>9 DEF EndTimers, acceptVars, connVars, loopVars, timerVars, netVars
<1>10. ASSUME NEW l \in Loops, BeginFunctors(l)
       PROVE  TypeOK'
  <2>1. /\ batch' \in [Loops -> Seq(Functors)]
        /\ pending' \in [Loops -> Seq(Functors)]
      BY <1>10, EmptySeq DEF BeginFunctors
  <2>2. /\ phase' \in [Loops -> {"poll", "events", "functors"}]
        /\ accepting => phase'[Main] = "events"
    <3>1. phase' = [phase EXCEPT ![l] = "functors"] /\ (l = Main => ~accepting)
        BY <1>10 DEF BeginFunctors
    <3> QED
        BY <3>1
  <2>3. done[l] = 0 /\ Len(batch'[l]) \in Nat
      BY <1>10, <2>1, LenProperties DEF BeginFunctors, TypeInv
  <2>4. \A m \in Loops : done[m] <= Len(batch'[m])
      BY <1>10, <2>3 DEF BeginFunctors
  <2> QED
      BY <1>10, <2>1, <2>2, <2>4
      DEF BeginFunctors, acceptVars, connVars, timerVars, netVars
<1>11. ASSUME NEW l \in Loops, Functors1(l)
       PROVE  TypeOK'
  <2> DEFINE c == NextFunctor(l).conn
  <2>1. PICK op \in {"connectEstablished", "forceCloseInLoop",
                     "removeConnInLoop", "connectDestroyed"} : Running(l, op)
      BY <1>11 DEF Functors1, ConnectEstablished, ForceCloseInLoop,
         RemoveConnInLoop, ConnectDestroyed
  <2>2. c \in Conns /\ Name(c) \in Names
      BY <2>1, FunctorTypes, LoopsAndNames DEF Running
  <2>3. /\ done' \in [Loops -> Nat]
        /\ \A m \in Loops : done'[m] <= Len(batch[m])
    <3>1. batch[l] \in Seq(Functors) /\ Len(batch[l]) \in Nat
        BY LenProperties
    <3> QED
        BY <2>1, <3>1 DEF Running
  <2>4. UNCHANGED <<acceptVars, accepted, next, loopOf, phase, active, ticking,
                   batch, heap, timerConn, disabled, missed, inbox, peer, sent>>
      BY <2>1 DEF Running
  <2>5. CASE HandleClose(c) /\ UNCHANGED edge
      BY <2>2, <2>3, <2>4, <2>5, CloseTypes DEF acceptVars
  <2>6. CASE UNCHANGED <<failed, state, registered, https, pending,
                        connections, edge>>
      BY <2>3, <2>4, <2>6 DEF acceptVars
  <2>7. CASE ConnectEstablished(l)
    <3>1. /\ state' \in [Conns -> {"none", "kConnecting"} \cup Open
                                 \cup {"kDisconnected"}]
          /\ registered' \subseteq Conns /\ edge' = edge
          /\ failed' \subseteq {"handleClose", "connectEstablished",
                                "removeConnInLoop"}
        BY <2>2, <2>7 DEF ConnectEstablished, EdgeOnAdd, Open
    <3> QED
        BY <2>3, <2>4, <2>7, <3>1 DEF ConnectEstablished, acceptVars
  <2>8. CASE RemoveConnInLoop(l)
    <3>1. /\ connections' \in [Names -> 0 .. MaxConns]
          /\ pending' \in [Loops -> Seq(Functors)]
          /\ failed' \subseteq {"handleClose", "connectEstablished",
                                "removeConnInLoop"}
      <4>1. 0 \in 0 .. MaxConns
          BY ConstantsOK
      <4> QED
          BY <2>2, <2>8, <4>1, FunctorTypes
          DEF RemoveConnInLoop, Erased, QueueDestroyed
    <3> QED
        BY <2>3, <2>4, <2>8, <3>1 DEF RemoveConnInLoop, acceptVars
  <2>9. CASE ConnectDestroyed(l)
    <3>1. 0 \in 0 .. MaxRequests
        BY ConstantsOK
    <3>2. /\ state' \in [Conns -> {"none", "kConnecting"} \cup Open
                                 \cup {"kDisconnected"}]
          /\ registered' \subseteq Conns
          /\ https' \in [Names -> 0 .. MaxRequests]
      <4>1. CASE state[c] = "kConnected"
        <5>1. /\ state' = [state EXCEPT ![c] = "kDisconnected"]
              /\ registered' = registered \ {c}
              /\ https' = [https EXCEPT ![Name(c)] = 0]
            BY <2>9, <4>1 DEF ConnectDestroyed, Unregistered, WithoutEntry
        <5> QED
            BY <2>2, <3>1, <5>1
      <4>2. CASE state[c] # "kConnected"
          BY <2>9, <4>2 DEF ConnectDestroyed
      <4> QED
          BY <4>1, <4>2
    <3> QED
        BY <2>3, <2>4, <2>9, <3>2 DEF ConnectDestroyed, acceptVars
  <2> QED
      BY <1>11, <2>5, <2>6, <2>7, <2>8, <2>9 DEF Functors1, ForceCloseInLoop
<1>12. ASSUME NEW l \in Loops, EndFunctors(l)
       PROVE  TypeOK'
  <2>1. /\ batch' \in [Loops -> Seq(Functors)]
        /\ done' \in [Loops -> Nat]
        /\ \A m \in Loops : done'[m] <= Len(batch'[m])
      BY <1>12, EmptySeq DEF EndFunctors
  <2> QED
      BY <1>12, <2>1
      DEF EndFunctors, acceptVars, connVars, timerVars, netVars
<1>13. ASSUME NEW l \in Loops, LoopStep(l)
       PROVE  TypeOK'
  <2>1. l # Main => l \in IoLoops
      BY DEF Loops
  <2> QED
      BY <1>13, <2>1, <1>3, <1>4, <1>5, <1>6, <1>7, <1>8, <1>9, <1>10, <1>11,
         <1>12 DEF LoopStep
<1> HIDE DEF TypeOK
<1> QED
    BY <1>0, <1>1, <1>2, <1>13 DEF Next

\* The requests are counted by the clients and by handleEvent() only.
LEMMA CountStep ==
  ASSUME TypeInv, [Next]_vars
  PROVE  Len(timerConn') + Cardinality(Waiting') <= sent'
<1> /\ Len(timerConn) \in Nat /\ sent \in Nat
    /\ Len(timerConn) + Cardinality(Waiting) <= sent
    BY LenProperties DEF TypeInv, TypeOK
<1> IsFiniteSet(Waiting) /\ Cardinality(Waiting) \in Nat
    BY WaitingFinite
<1> inbox \in [Conns -> {"empty", "keepAlive", "close"}]
    BY DEF TypeInv, TypeOK
<1>1. ASSUME NEW l \in Loops, NEW c \in Conns, HandleEvent(l, c)
      PROVE  Len(timerConn') + Cardinality(Waiting') <= sent'
  <2>1. Waiting' = Waiting \ {c} /\ sent' = sent
      BY <1>1 DEF HandleEvent, Waiting
  <2>2. Cardinality(Waiting') =
          IF c \in Waiting THEN Cardinality(Waiting) - 1 ELSE Cardinality(Waiting)
      BY <2>1, FS_RemoveElement
  <2>3. CASE timerConn' = timerConn
      BY <2>1, <2>2, <2>3
  <2>4. CASE inbox[c] = "keepAlive" /\ KeepAlive(l, c)
    <3>1. Len(timerConn') = Len(timerConn) + 1
        BY <2>4, TimerTypes
    <3>2. c \in Waiting
        BY <2>4 DEF Waiting
    <3> QED
        BY <2>1, <2>2, <3>1, <3>2
  <2> QED
      BY <1>1, <2>3, <2>4 DEF HandleEvent, Shutdown, timerVars
<1>2. ASSUME NEW c \in Conns, NEW request \in {"keepAlive", "close"},
             Send(c, request)
      PROVE  Len(timerConn') + Cardinality(Waiting') <= sent'
  <2>1. /\ Waiting' = Waiting \cup {c} /\ c \notin Waiting
        /\ sent' = sent + 1 /\ timerConn' = timerConn
      BY <1>2 DEF Send, Waiting, timerVars
  <2>2. Cardinality(Waiting') = Cardinality(Waiting) + 1
      BY <2>1, FS_AddElement
  <2> QED
      BY <2>1, <2>2
<1>3. CASE UNCHANGED <<timerConn, inbox, sent>>
    BY <1>3 DEF Waiting
<1>4. ASSUME NEW l \in Loops, LoopStep(l)
      PROVE  \/ UNCHANGED <<timerConn, inbox, sent>>
             \/ \E c \in Conns : HandleEvent(l, c)
  <2>1. ASSUME Functors1(l)
        PROVE  UNCHANGED <<timerConn, inbox, sent>>
      BY <2>1 DEF Functors1, ConnectEstablished, ForceCloseInLoop,
         RemoveConnInLoop, ConnectDestroyed, Running
  <2>2. ASSUME DropTimer(l) \/ ExpireTimer(l) \/ EndTimers(l)
        PROVE  UNCHANGED <<timerConn, inbox, sent>>
      BY <2>2 DEF DropTimer, ExpireTimer, EndTimers, netVars, timerVars
  <2>3. ASSUME NewConnection \/ EndAccept
        PROVE  UNCHANGED <<timerConn, inbox, sent>>
      BY <2>3 DEF NewConnection, EndAccept, netVars, timerVars
  <2>4. ASSUME NEW tick \in {"no", "due"}, Poll(l, tick)
        PROVE  UNCHANGED <<timerConn, inbox, sent>>
      BY <2>4 DEF Poll, timerVars
  <2>5. ASSUME BeginFunctors(l) \/ EndFunctors(l)
        PROVE  UNCHANGED <<timerConn, inbox, sent>>
      BY <2>5 DEF BeginFunctors, EndFunctors, netVars, timerVars
  <2> QED
      BY <1>4, <2>1, <2>2, <2>3, <2>4, <2>5 DEF LoopStep
<1>5. ASSUME NEW c \in Conns, NEW how \in {"closed", "reset"}, EndPeer(c, how)
      PROVE  UNCHANGED <<timerConn, inbox, sent>>
    BY <1>5 DEF EndPeer, timerVars
<1>6. ASSUME Connect \/ UNCHANGED vars
      PROVE  UNCHANGED <<timerConn, inbox, sent>>
    BY <1>6 DEF Connect, vars, timerVars, netVars
<1> QED
    BY <1>1, <1>2, <1>3, <1>4, <1>5, <1>6 DEF Next, Client

\* A step that leaves the connections, their functors and their timers alone:
\* the clients, the end of accept4() or of handleRead() of the timers.
Quiet == UNCHANGED <<connVars, phase, active, batch, done, pending, timerVars,
                     failed>>

\* The steps of the server by what they change.
LEMMA Steps ==
  ASSUME [Next]_vars
  PROVE  \/ Quiet
         \/ NewConnection
         \/ \E l \in IoLoops : DropTimer(l) \/ ExpireTimer(l)
         \/ \E l \in Loops :
              \/ \E tick \in {"no", "due"} : Poll(l, tick)
              \/ \E c \in Conns : HandleEvent(l, c)
              \/ BeginFunctors(l) \/ Functors1(l) \/ EndFunctors(l)
<1>1. ASSUME Connect \/ EndAccept \/ UNCHANGED vars
      PROVE  Quiet
    BY <1>1 DEF Connect, EndAccept, vars, loopVars, Quiet
<1>2. ASSUME NEW l, EndTimers(l)
      PROVE  Quiet
    BY <1>2 DEF EndTimers, Quiet
<1>3. ASSUME NEW c, NEW request, Send(c, request)
      PROVE  Quiet
    BY <1>3 DEF Send, loopVars, Quiet
<1>4. ASSUME NEW c, NEW how, EndPeer(c, how)
      PROVE  Quiet
    BY <1>4 DEF EndPeer, loopVars, Quiet
<1>5. \A l \in Loops : l # Main => l \in IoLoops
    BY DEF Loops
<1> QED
    BY <1>1, <1>2, <1>3, <1>4, <1>5 DEF Next, LoopStep, Client

\* What a loop holds outside the phase for it.
LEMMA PhaseStep ==
  ASSUME TypeInv, [Next]_vars, NEW l \in Loops
  PROVE  /\ phase'[l] # "events" => active'[l] = {}
         /\ phase'[l] # "functors" => batch'[l] = <<>> /\ done'[l] = 0
<1> USE DEF TypeInv, TypeOK
<1>1. CASE Quiet
    BY <1>1 DEF Quiet
<1>2. CASE NewConnection
    BY <1>2 DEF NewConnection, loopVars
<1>3. ASSUME NEW m \in IoLoops, DropTimer(m) \/ ExpireTimer(m)
      PROVE  UNCHANGED <<phase, active, batch, done>>
    BY <1>3 DEF DropTimer, ExpireTimer
<1>4. ASSUME NEW m \in Loops, NEW tick \in {"no", "due"}, Poll(m, tick)
      PROVE  /\ phase'[l] # "events" => active'[l] = {}
             /\ phase'[l] # "functors" => batch'[l] = <<>> /\ done'[l] = 0
    BY <1>4 DEF Poll
<1>5. ASSUME NEW m \in Loops, NEW c \in Conns, HandleEvent(m, c)
      PROVE  /\ phase'[l] # "events" => active'[l] = {}
             /\ phase'[l] # "functors" => batch'[l] = <<>> /\ done'[l] = 0
    BY <1>5 DEF HandleEvent
<1>6. ASSUME NEW m \in Loops, BeginFunctors(m) \/ EndFunctors(m)
      PROVE  /\ phase'[l] # "events" => active'[l] = {}
             /\ phase'[l] # "functors" => batch'[l] = <<>> /\ done'[l] = 0
  <2>1. CASE BeginFunctors(m)
      BY <2>1 DEF BeginFunctors
  <2>2. CASE EndFunctors(m)
      BY <2>2 DEF EndFunctors
  <2> QED
      BY <1>6, <2>1, <2>2
<1>7. ASSUME NEW m \in Loops, NEW op, Running(m, op)
      PROVE  /\ phase'[l] # "events" => active'[l] = {}
             /\ phase'[l] # "functors" => batch'[l] = <<>> /\ done'[l] = 0
    BY <1>7 DEF Running
<1>8. ASSUME NEW m \in Loops, Functors1(m)
      PROVE  \E op : Running(m, op)
    BY <1>8 DEF Functors1, ConnectEstablished, ForceCloseInLoop,
       RemoveConnInLoop, ConnectDestroyed
<1> QED
    BY Steps, <1>1, <1>2, <1>3, <1>4, <1>5, <1>6, <1>7, <1>8

\* Every step preserves the types.
LEMMA TypesKept == TypeInv /\ [Next]_vars => TypeInv'
  BY TypeStep, CountStep, PhaseStep DEF TypeInv

\* They hold throughout.
LEMMA TypeInvariant == Spec => []TypeInv
  BY InitTypes, TypesKept, PTL DEF Spec

\* The types, for any number of loops, clients and requests; of the timers
\* in particular, that no more are made than requests sent.
THEOREM TypeCorrect == Spec => []TypeOK
<1>1. TypeInv => TypeOK
    BY DEF TypeInv
<1> QED
    BY <1>1, TypeInvariant, PTL

------------------------------------------------------------------------------
(* Everything on its own loop.                                             *)

\* The elements after an append, and without the head.
LEMMA ElementsOf ==
  ASSUME NEW S, NEW s \in Seq(S)
  PROVE  /\ \A x \in S : Elements(Append(s, x)) = Elements(s) \cup {x}
         /\ s # <<>> => /\ Elements(Tail(s)) \subseteq Elements(s)
                        /\ Head(s) \in Elements(s)
<1>1. Len(s) \in Nat /\ DOMAIN s = 1 .. Len(s)
    BY LenProperties
<1>2. ASSUME NEW x \in S
      PROVE  Elements(Append(s, x)) = Elements(s) \cup {x}
  <2>1. /\ DOMAIN Append(s, x) = 1 .. Len(s) + 1
        /\ \A i \in 1 .. Len(s) : Append(s, x)[i] = s[i]
        /\ Append(s, x)[Len(s) + 1] = x
      BY AppendProperties, LenProperties
  <2> QED
      BY <1>1, <2>1 DEF Elements
<1>3. ASSUME s # <<>>
      PROVE  /\ Elements(Tail(s)) \subseteq Elements(s)
             /\ Head(s) \in Elements(s)
  <2>1. /\ DOMAIN Tail(s) = 1 .. Len(s) - 1
        /\ \A i \in 1 .. Len(s) - 1 : Tail(s)[i] = s[i + 1]
      BY <1>3, HeadTailProperties, LenProperties
  <2>2. Head(s) = s[1] /\ 1 \in DOMAIN s
      BY <1>1, <1>3, EmptySeq
  <2> QED
      BY <1>1, <2>1, <2>2 DEF Elements
<1> QED
    BY <1>2, <1>3

\* The empty sequence has none.
LEMMA NoElements == Elements(<<>>) = {}
  BY EmptySeq, LenProperties DEF Elements

\* The functor that runs is in the batch.
LEMMA NextInBatch ==
  ASSUME TypeOK, NEW l \in Loops, done[l] < Len(batch[l])
  PROVE  NextFunctor(l) \in Elements(batch[l])
<1>1. /\ batch[l] \in Seq(Functors) /\ done[l] \in Nat
    BY DEF TypeOK
<1> QED
    BY <1>1, LenProperties DEF NextFunctor, Elements

\* Connection c, or functor f, is one of loop l.
OwnConn(l, c) == c <= accepted /\ loopOf[c] = l
OwnFunctor(l, f) ==
  /\ f.conn <= accepted
  /\ l = IF f.op = "removeConnInLoop" THEN Main ELSE loopOf[f.conn]

\* The same after a step.
ConnKept(l, c) == c <= accepted' /\ loopOf'[c] = l
FunctorKept(l, f) ==
  /\ f.conn <= accepted'
  /\ l = IF f.op = "removeConnInLoop" THEN Main ELSE loopOf'[f.conn]

\* A connection is given a loop when it is made, for good, and what a loop
\* holds is for connections that have been given to it.
GivenInv ==
  /\ \A c \in Conns : c <= accepted => loopOf[c] \in IoLoops
  /\ \A c \in registered : c <= accepted
ActiveOwn == \A l \in Loops : \A c \in active[l] : OwnConn(l, c)
FunctorsOwn ==
  \A l \in Loops : \A f \in Elements(pending[l]) \cup Elements(batch[l]) :
    OwnFunctor(l, f)
TimersOwn ==
  \A l \in IoLoops : \A t \in Elements(heap[l]) : OwnConn(l, timerConn[t])
OwnLoopInv == GivenInv /\ ActiveOwn /\ FunctorsOwn /\ TimersOwn

\* Only a new connection is given a loop.
LEMMA AcceptedStep ==
  ASSUME [Next]_vars
  PROVE  \/ UNCHANGED <<accepted, loopOf>>
         \/ NewConnection /\ accepted' = accepted + 1
<1>1. ASSUME NEW l, DropTimer(l) \/ ExpireTimer(l)
      PROVE  UNCHANGED <<accepted, loopOf>>
    BY <1>1 DEF DropTimer, ExpireTimer, connVars
<1>2. ASSUME NEW l, NEW tick, Poll(l, tick)
      PROVE  UNCHANGED <<accepted, loopOf>>
    BY <1>2 DEF Poll, connVars
<1>3. ASSUME NEW l, BeginFunctors(l) \/ EndFunctors(l)
      PROVE  UNCHANGED <<accepted, loopOf>>
    BY <1>3 DEF BeginFunctors, EndFunctors, connVars
<1>4. ASSUME NEW l, NEW c, HandleEvent(l, c)
      PROVE  UNCHANGED <<accepted, loopOf>>
    BY <1>4 DEF HandleEvent
<1>5. ASSUME NEW l, Functors1(l)
      PROVE  UNCHANGED <<accepted, loopOf>>
    BY <1>5 DEF Functors1, ConnectEstablished, ForceCloseInLoop,
       RemoveConnInLoop, ConnectDestroyed, Running
<1> QED
    BY <1>1, <1>2, <1>3, <1>4, <1>5, Steps DEF Quiet, NewConnection, connVars

\* What belongs to a loop goes on belonging to it.
LEMMA GivenForGood ==
  ASSUME TypeInv, [Next]_vars
  PROVE  /\ accepted \in Nat /\ accepted' \in Nat /\ accepted <= accepted'
         /\ \A c \in Conns : c <= accepted => loopOf'[c] = loopOf[c]
         /\ \A l, c : c \in Conns /\ OwnConn(l, c) => ConnKept(l, c)
         /\ \A l, f : f \in Functors /\ OwnFunctor(l, f) => FunctorKept(l, f)
<1>1. accepted \in Nat /\ loopOf \in [Conns -> Loops]
    BY DEF TypeInv, TypeOK
<1>2. CASE NewConnection
  <2>1. /\ accepted' = accepted + 1
        /\ loopOf' = [loopOf EXCEPT ![accepted + 1] = next' + 1]
      BY <1>2 DEF NewConnection
  <2>2. \A c \in Conns : c <= accepted => c # accepted + 1
      BY <1>1, LoopsAndNames
  <2>3. \A c \in Conns : c <= accepted => loopOf'[c] = loopOf[c]
      BY <1>1, <2>1, <2>2
  <2>4. \A c \in Conns : c <= accepted => c <= accepted'
      BY <1>1, <2>1, LoopsAndNames
  <2> QED
      BY <1>1, <2>1, <2>3, <2>4 
      DEF OwnConn, OwnFunctor, ConnKept, FunctorKept, Functors
<1>3. ASSUME accepted' = accepted, loopOf' = loopOf
      PROVE  /\ \A l, c : OwnConn(l, c) => ConnKept(l, c)
             /\ \A l, f : OwnFunctor(l, f) => FunctorKept(l, f)
    BY <1>3 DEF OwnConn, OwnFunctor, ConnKept, FunctorKept
<1>4. CASE UNCHANGED <<accepted, loopOf>>
    BY <1>1, <1>3, <1>4
<1> QED
    BY <1>2, <1>4, AcceptedStep

\* It holds at the start.
LEMMA InitOwn == Init => OwnLoopInv
<1> SUFFICES ASSUME Init
             PROVE  OwnLoopInv
    OBVIOUS
<1>1. \A c \in Conns : ~(c <= accepted)
    BY LoopsAndNames DEF Init
<1> QED
    BY <1>1, NoElements, LoopsAndNames
    DEF Init, OwnLoopInv, GivenInv, ActiveOwn, FunctorsOwn, TimersOwn

\* A connection made is given an IO loop.
LEMMA GivenStep ==
  ASSUME TypeInv, OwnLoopInv, [Next]_vars
  PROVE  GivenInv'
<1> USE DEF GivenInv
<1> GivenInv /\ accepted \in Nat /\ registered \subseteq Conns
    BY DEF OwnLoopInv, TypeInv, TypeOK
<1>1. ASSUME NEW c \in Conns, c <= accepted'
      PROVE  loopOf'[c] \in IoLoops
  <2>1. CASE NewConnection /\ c = accepted + 1
    <3>1. next' + 1 \in IoLoops
        BY <2>1, LoopsAndNames, ConstantsOK
        DEF NewConnection, NextLoop, TypeInv, TypeOK
    <3> QED
        BY <2>1, <3>1 DEF NewConnection, TypeInv, TypeOK
  <2>2. CASE c <= accepted
      BY <2>2, GivenForGood
  <2>3. accepted' = accepted \/ (NewConnection /\ accepted' = accepted + 1)
      BY AcceptedStep
  <2> QED
      BY <1>1, <2>1, <2>2, <2>3, LoopsAndNames
<1>2. \A c \in registered' : c <= accepted
  <2>1. ASSUME NEW l \in Loops, ConnectEstablished(l)
        PROVE  \A c \in registered' : c <= accepted
    <3>1. NextFunctor(l).conn <= accepted
        BY <2>1, NextInBatch
        DEF ConnectEstablished, Running, OwnLoopInv, FunctorsOwn, OwnFunctor,
            TypeInv
    <3> QED
        BY <2>1, <3>1 DEF ConnectEstablished
  <2>2. ASSUME NEW l \in Loops,
               ForceCloseInLoop(l) \/ RemoveConnInLoop(l) \/ ConnectDestroyed(l)
        PROVE  registered' \subseteq registered
      BY <2>2 DEF ForceCloseInLoop, RemoveConnInLoop, ConnectDestroyed,
         HandleClose, Unregistered
  <2>3. ASSUME NEW l \in Loops, NEW c \in Conns, HandleEvent(l, c)
        PROVE  registered' \subseteq registered
      BY <2>3 DEF HandleEvent, HandleClose, Unregistered
  <2>4. ASSUME NEW l \in Loops, BeginFunctors(l) \/ EndFunctors(l)
        PROVE  registered' = registered
      BY <2>4 DEF BeginFunctors, EndFunctors, connVars
  <2>5. ASSUME NEW l \in Loops, NEW tick, Poll(l, tick)
        PROVE  registered' = registered
      BY <2>5 DEF Poll, connVars
  <2>6. ASSUME NEW l \in IoLoops, DropTimer(l) \/ ExpireTimer(l)
        PROVE  registered' = registered
      BY <2>6 DEF DropTimer, ExpireTimer, connVars
  <2> QED
      BY Steps, <2>1, <2>2, <2>3, <2>4, <2>5, <2>6
      DEF Quiet, connVars, NewConnection, Functors1
<1>3. \A c \in registered' : c \in Nat
    BY TypeStep, LoopsAndNames DEF TypeOK
<1>4. \A c \in registered' : c <= accepted'
    BY <1>2, <1>3, GivenForGood
<1> QED
    BY <1>1, <1>4

\* Channels become active in epoll_wait only.
LEMMA ActiveFrom ==
  ASSUME TypeInv, [Next]_vars, NEW l \in Loops, NEW c, c \in active'[l],
         c \notin active[l]
  PROVE  \E tick \in {"no", "due"} : Poll(l, tick)
<1> active \in [Loops -> SUBSET Conns]
    BY DEF TypeInv, TypeOK
<1>1. ASSUME NEW m \in Loops, NEW tick, Poll(m, tick)
      PROVE  m = l
    BY <1>1 DEF Poll
<1>2. ASSUME NEW m \in Loops, NEW d \in Conns, HandleEvent(m, d)
      PROVE  FALSE
    BY <1>2 DEF HandleEvent
<1>3. ASSUME active' = active
      PROVE  FALSE
    BY <1>3
<1>4. ASSUME NEW m, DropTimer(m) \/ ExpireTimer(m)
      PROVE  active' = active
    BY <1>4 DEF DropTimer, ExpireTimer
<1>5. ASSUME NEW m, BeginFunctors(m) \/ EndFunctors(m)
      PROVE  active' = active
    BY <1>5 DEF BeginFunctors, EndFunctors
<1>6. ASSUME NEW m, Functors1(m)
      PROVE  active' = active
    BY <1>6 DEF Functors1, ConnectEstablished, ForceCloseInLoop,
       RemoveConnInLoop, ConnectDestroyed, Running
<1> QED
    BY Steps, <1>1, <1>2, <1>3, <1>4, <1>5, <1>6
    DEF Quiet, NewConnection, loopVars

\* epoll tells a loop of its own channels only.
LEMMA ActiveStep ==
  ASSUME TypeInv, OwnLoopInv, [Next]_vars
  PROVE  ActiveOwn'
<1> SUFFICES ASSUME NEW l \in Loops, NEW c, c \in active'[l]
             PROVE  OwnConn(l, c)
  <2>1. \A l \in Loops : active'[l] \subseteq Conns
      BY TypeStep DEF TypeOK
  <2> QED
      BY <2>1, GivenForGood DEF ActiveOwn, OwnConn, ConnKept
<1> active \in [Loops -> SUBSET Conns]
    BY DEF TypeInv, TypeOK
<1>1. CASE c \in active[l]
    BY <1>1 DEF OwnLoopInv, ActiveOwn
<1>2. CASE \E tick \in {"no", "due"} : Poll(l, tick)
  <2>1. c \in registered /\ loopOf[c] = l
      BY <1>2 DEF Poll
  <2> QED
      BY <2>1 DEF OwnConn, OwnLoopInv, GivenInv
<1> QED
    BY <1>1, <1>2, ActiveFrom

\* What a step may add to a queue or a batch.
LEMMA FunctorsStep ==
  ASSUME TypeInv, OwnLoopInv, [Next]_vars
  PROVE  FunctorsOwn'
<1> DEFINE Held(l) == Elements(pending[l]) \cup Elements(batch[l])
<1> pending \in [Loops -> Seq(Functors)] /\ batch \in [Loops -> Seq(Functors)]
    BY DEF TypeInv, TypeOK
<1>1. ASSUME NEW l \in Loops, NEW f, f \in Held(l)
      PROVE  f \in Functors /\ OwnFunctor(l, f) /\ FunctorKept(l, f)
  <2>1. f \in Functors
      BY <1>1, ElementsIn
  <2> QED
      BY <1>1, <2>1, GivenForGood DEF OwnLoopInv, FunctorsOwn
<1>2. SUFFICES ASSUME NEW l \in Loops, NEW f, f \in Held(l)', f \notin Held(l)
               PROVE  FunctorKept(l, f)
    BY <1>1 DEF FunctorsOwn, OwnFunctor, FunctorKept
\* One functor is pushed, on one loop.
<1>3. ASSUME NEW m \in Loops, NEW g \in Functors, FunctorKept(m, g),
             pending' = [pending EXCEPT ![m] = Append(@, g)], batch' = batch
      PROVE  FunctorKept(l, f)
  <2>1. Elements(Append(pending[m], g)) = Elements(pending[m]) \cup {g}
      BY ElementsOf
  <2> QED
      BY <1>2, <1>3, <2>1
<1>4. ASSUME pending' = pending, batch' = batch
      PROVE  FALSE
    BY <1>2, <1>4
<1>5. ASSUME NewConnection
      PROVE  FunctorKept(l, f)
  <2> DEFINE c == accepted + 1
  <2>1. c \in Conns /\ next' + 1 \in IoLoops /\ next' + 1 \in Loops
    <3>1. accepted' <= MaxConns /\ accepted \in Nat /\ accepted' = c
        BY <1>5, TypeStep DEF NewConnection, TypeInv, TypeOK
    <3>2. c \in Conns
        BY <3>1, ConstantsOK DEF Conns
    <3>3. next' \in 0 .. ThreadNums - 1
        BY TypeStep DEF TypeOK
    <3> QED
        BY <3>2, <3>3, LoopsAndNames
  <2>2. loopOf'[c] = next' + 1 /\ accepted' = c
      BY <1>5, <2>1 DEF NewConnection, TypeInv, TypeOK
  <2>3. /\ Functor("connectEstablished", c) \in Functors
        /\ FunctorKept(next' + 1, Functor("connectEstablished", c))
      BY <2>1, <2>2, LoopsAndNames DEF FunctorKept, Functor, Functors
  <2> QED
      BY <1>3, <1>5, <2>1, <2>3 DEF NewConnection, loopVars
<1>6. ASSUME NEW m \in Loops, NEW c \in Conns, OwnConn(m, c), HandleClose(c),
             batch' = batch
      PROVE  FunctorKept(l, f)
  <2>1. /\ Functor("removeConnInLoop", c) \in Functors
        /\ FunctorKept(Main, Functor("removeConnInLoop", c))
    <3>1. ConnKept(m, c)
        BY <1>6, GivenForGood
    <3> QED
        BY <3>1 DEF FunctorKept, ConnKept, Functor, Functors
  <2> QED
      BY <1>3, <1>6, <2>1, LoopsAndNames DEF HandleClose
<1>7. ASSUME NEW m \in Loops, NEW c \in Conns, HandleEvent(m, c)
      PROVE  FunctorKept(l, f)
  <2>1. OwnConn(m, c)
      BY <1>7 DEF HandleEvent, OwnLoopInv, ActiveOwn
  <2> QED
      BY <1>4, <1>6, <1>7, <2>1 DEF HandleEvent
<1>8. ASSUME NEW m \in IoLoops, DropTimer(m) \/ ExpireTimer(m)
      PROVE  FunctorKept(l, f)
  <2>1. CASE UNCHANGED <<pending, batch>>
      BY <1>4, <2>1
  <2> DEFINE c == timerConn[Head(heap[m])]
  <2>2. CASE ExpireTimer(m) /\ ForceCloseActs(c)
    <3>1. heap[m] \in Seq(DOMAIN timerConn) /\ heap[m] # <<>>
        BY <2>2 DEF ExpireTimer, TypeInv, TypeOK
    <3>2. Head(heap[m]) \in Elements(heap[m]) /\ Head(heap[m]) \in DOMAIN timerConn
        BY <3>1, ElementsOf, HeadTailProperties
    <3>3. OwnConn(m, c) /\ c \in Conns
      <4>1. timerConn \in [1 .. Len(timerConn) -> Conns]
          BY LenProperties DEF TypeInv, TypeOK
      <4> QED
          BY <3>2, <4>1 DEF OwnLoopInv, TimersOwn
    <3>4. /\ Functor("forceCloseInLoop", c) \in Functors
          /\ FunctorKept(m, Functor("forceCloseInLoop", c))
      <4>1. ConnKept(m, c)
          BY <3>3, GivenForGood
      <4> QED
          BY <3>3, <4>1 DEF FunctorKept, ConnKept, Functor, Functors
    <3> QED
        BY <1>3, <2>2, <3>4, LoopsAndNames DEF ExpireTimer
  <2> QED
      BY <1>8, <2>1, <2>2 DEF DropTimer, ExpireTimer
<1>9. ASSUME NEW m \in Loops, BeginFunctors(m) \/ EndFunctors(m)
      PROVE  FALSE
  <2>1. CASE BeginFunctors(m)
      BY <1>2, <2>1, NoElements DEF BeginFunctors
  <2>2. CASE EndFunctors(m)
      BY <1>2, <2>2, NoElements DEF EndFunctors, loopVars
  <2> QED
      BY <1>9, <2>1, <2>2
<1>10. ASSUME NEW m \in Loops, Functors1(m)
       PROVE  FunctorKept(l, f)
  <2> DEFINE g == NextFunctor(m)
  <2>1. /\ g \in Held(m) /\ g \in Functors /\ g.conn \in Conns
        /\ OwnFunctor(m, g) /\ FunctorKept(m, g) /\ batch' = batch
    <3>1. done[m] < Len(batch[m]) /\ batch' = batch
        BY <1>10 DEF Functors1, ConnectEstablished, ForceCloseInLoop,
           RemoveConnInLoop, ConnectDestroyed, Running
    <3>2. g \in Held(m)
        BY <3>1, NextInBatch DEF TypeInv
    <3> QED
        BY <3>1, <3>2, <1>1 DEF Functors
  <2>2. CASE ForceCloseInLoop(m)
    <3>1. OwnConn(m, g.conn)
        BY <2>1, <2>2 DEF ForceCloseInLoop, Running, OwnFunctor, OwnConn
    <3> QED
        BY <1>4, <1>6, <2>1, <2>2, <3>1 DEF ForceCloseInLoop
  <2>3. CASE RemoveConnInLoop(m)
    <3> DEFINE h == Functor("connectDestroyed", g.conn)
    <3>1. h \in Functors /\ loopOf[g.conn] \in Loops
        BY <2>1 DEF Functor, Functors, TypeInv, TypeOK
    <3>2. OwnFunctor(loopOf[g.conn], h)
        BY <2>1 DEF OwnFunctor, Functor
    <3>3. FunctorKept(loopOf[g.conn], h)
        BY <3>1, <3>2, GivenForGood
    <3> QED
        BY <1>3, <2>1, <2>3, <3>1, <3>3 DEF RemoveConnInLoop, QueueDestroyed
  <2>4. CASE ConnectEstablished(m) \/ ConnectDestroyed(m)
      BY <1>4, <2>1, <2>4 DEF ConnectEstablished, ConnectDestroyed
  <2> QED
      BY <1>10, <2>2, <2>3, <2>4 DEF Functors1
<1>11. ASSUME Quiet \/ \E m \in Loops, tick \in {"no", "due"} : Poll(m, tick)
       PROVE  FALSE
    BY <1>4, <1>11 DEF Quiet, Poll
<1> QED
    BY Steps, <1>5, <1>7, <1>8, <1>9, <1>10, <1>11

\* A timer is made on the loop of its connection.
LEMMA TimersStep ==
  ASSUME TypeInv, OwnLoopInv, [Next]_vars
  PROVE  TimersOwn'
<1> SUFFICES ASSUME NEW l \in IoLoops, NEW t, t \in Elements(heap'[l])
             PROVE  ConnKept(l, timerConn'[t])
    BY DEF TimersOwn, OwnConn, ConnKept
<1> /\ timerConn \in Seq(Conns) /\ heap \in [IoLoops -> Seq(DOMAIN timerConn)]
    /\ Len(timerConn) \in Nat /\ DOMAIN timerConn = 1 .. Len(timerConn)
    /\ timerConn \in [1 .. Len(timerConn) -> Conns]
    BY LenProperties DEF TypeInv, TypeOK
<1>1. ASSUME t \in Elements(heap[l])
      PROVE  ConnKept(l, timerConn[t]) /\ t \in 1 .. Len(timerConn)
  <2>1. t \in 1 .. Len(timerConn)
      BY <1>1, ElementsIn
  <2>2. timerConn[t] \in Conns /\ OwnConn(l, timerConn[t])
      BY <1>1, <2>1 DEF OwnLoopInv, TimersOwn
  <2> QED
      BY <2>1, <2>2, GivenForGood
<1>2. CASE UNCHANGED <<heap, timerConn>>
    BY <1>1, <1>2
<1>3. ASSUME NEW m \in IoLoops, DropTimer(m) \/ ExpireTimer(m)
      PROVE  ConnKept(l, timerConn'[t])
  <2>1. /\ heap[m] # <<>> /\ timerConn' = timerConn
        /\ heap' = [heap EXCEPT ![m] = Tail(@)]
      BY <1>3 DEF DropTimer, ExpireTimer
  <2>2. Elements(Tail(heap[m])) \subseteq Elements(heap[m])
      BY <2>1, ElementsOf
  <2>3. t \in Elements(heap[l])
      BY <2>1, <2>2
  <2> QED
      BY <1>1, <2>1, <2>3
<1>4. ASSUME NEW m \in Loops, NEW c \in Conns, HandleEvent(m, c), KeepAlive(m, c)
      PROVE  ConnKept(l, timerConn'[t])
  <2> DEFINE u == Len(timerConn) + 1
  <2>1. /\ timerConn' = Append(timerConn, c)
        /\ heap' = [heap EXCEPT ![m] = Append(@, u)]
      BY <1>4 DEF KeepAlive
  <2>2. /\ timerConn'[u] = c
        /\ \A v \in 1 .. Len(timerConn) : timerConn'[v] = timerConn[v]
      BY <2>1, AppendProperties
  <2>3. CASE t \in Elements(heap[l])
      BY <1>1, <2>2, <2>3
  <2>4. CASE t \notin Elements(heap[l])
    <3>1. l = m /\ t = u
      <4>1. l = m
          BY <2>1, <2>4
      <4>2. heap[l] \in Seq(1 .. u)
        <5>1. 1 .. Len(timerConn) \subseteq 1 .. u
            OBVIOUS
        <5> QED
            BY <5>1, SeqMonotonic
      <4>3. Elements(Append(heap[l], u)) = Elements(heap[l]) \cup {u}
          BY <4>2, ElementsOf
      <4> QED
          BY <2>1, <2>4, <4>1, <4>3
    <3>2. OwnConn(m, c)
        BY <1>4 DEF HandleEvent, OwnLoopInv, ActiveOwn
    <3> QED
        BY <2>2, <3>1, <3>2, GivenForGood
  <2> QED
      BY <2>3, <2>4
<1>5. ASSUME NEW m \in Loops, NEW c \in Conns, HandleEvent(m, c)
      PROVE  UNCHANGED <<heap, timerConn>> \/ KeepAlive(m, c)
    BY <1>5 DEF HandleEvent, Shutdown, timerVars
<1>6. ASSUME NEW m, BeginFunctors(m) \/ EndFunctors(m) \/ Functors1(m)
      PROVE  UNCHANGED <<heap, timerConn>>
    BY <1>6 DEF BeginFunctors, EndFunctors, timerVars, Functors1,
       ConnectEstablished, ForceCloseInLoop, RemoveConnInLoop,
       ConnectDestroyed, Running
<1>7. ASSUME NEW m, NEW tick, Poll(m, tick)
      PROVE  UNCHANGED <<heap, timerConn>>
    BY <1>7 DEF Poll, timerVars
<1> QED
    BY Steps, <1>2, <1>3, <1>4, <1>5, <1>6, <1>7
    DEF Quiet, NewConnection, timerVars

\* It holds throughout.
LEMMA OwnLoopInvariant == Spec => [](TypeInv /\ OwnLoopInv)
<1>1. TypeInv /\ OwnLoopInv /\ [Next]_vars => OwnLoopInv'
    BY GivenStep, ActiveStep, FunctorsStep, TimersStep DEF OwnLoopInv
<1> QED
    BY <1>1, InitTypes, InitOwn, TypesKept, PTL DEF Spec

\* One loop per thread, for any number of loops: a handler finds the
\* connection of its channel, and a functor its connection or connections_,
\* on the thread they belong to, so no assertInLoopThread() fails.
THEOREM EverythingInOwnLoop == Spec => []RunsInOwnLoop
<1>1. OwnLoopInv => RunsInOwnLoop
    BY DEF OwnLoopInv, ActiveOwn, FunctorsOwn, OwnConn, OwnFunctor, RunsInOwnLoop
<1> QED
    BY <1>1, OwnLoopInvariant, PTL

------------------------------------------------------------------------------
(* What a loop has still to do.                                            *)

\* The functors of batch b behind the first d, and those of queue p.
Rest(b, d, p) == SubSeq(b, d + 1, Len(b)) \o p

\* When nothing has been swapped out, or all of it has been run.
LEMMA RestOfNothing ==
  ASSUME NEW b \in Seq(Functors), NEW p \in Seq(Functors)
  PROVE  Rest(b, Len(b), p) = p /\ Rest(<<>>, 0, p) = p /\ Rest(p, 0, <<>>) = p
<1>1. SubSeq(b, Len(b) + 1, Len(b)) = <<>>
    BY LenProperties, SubSeqEmpty
<1>2. SubSeq(<<>>, 0 + 1, Len(<<>>)) = <<>>
    BY EmptySeq, SubSeqEmpty
<1>3. SubSeq(p, 0 + 1, Len(p)) = p
    BY SubSeqFull
<1> QED
    BY <1>1, <1>2, <1>3, ConcatEmptySeq DEF Rest

\* The rest is a sequence of functors of both vectors.
LEMMA RestTypes ==
  ASSUME NEW b \in Seq(Functors), NEW p \in Seq(Functors), NEW d \in Nat
  PROVE  /\ SubSeq(b, d + 1, Len(b)) \in Seq(Functors)
         /\ Rest(b, d, p) \in Seq(Functors)
         /\ \A f \in Elements(Rest(b, d, p)) : f \in Elements(p) \cup Elements(b)
<1> DEFINE s == SubSeq(b, d + 1, Len(b))
<1>1. Len(b) \in Nat /\ b \in [1 .. Len(b) -> Functors] /\ DOMAIN b = 1 .. Len(b)
    BY LenProperties
<1>2. \A i \in d + 1 .. Len(b) : b[i] \in Functors
    BY <1>1
<1>3. /\ s \in Seq(Functors)
      /\ Len(s) = IF d + 1 <= Len(b) THEN Len(b) - (d + 1) + 1 ELSE 0
      /\ \A i \in 1 .. Len(b) - (d + 1) + 1 : s[i] = b[d + 1 + i - 1]
    BY <1>1, <1>2, SubSeqProperties
<1>4. \A i \in 1 .. Len(s) : s[i] \in Elements(b)
  <2>1. TAKE i \in 1 .. Len(s)
  <2>2. i \in 1 .. Len(b) - (d + 1) + 1 /\ d + 1 + i - 1 \in 1 .. Len(b)
      BY <1>1, <1>3
  <2> QED
      BY <1>1, <1>3, <2>2 DEF Elements
<1>5. /\ s \o p \in Seq(Functors) /\ Len(s \o p) = Len(s) + Len(p)
      /\ \A i \in 1 .. Len(s) + Len(p) :
           (s \o p)[i] = IF i <= Len(s) THEN s[i] ELSE p[i - Len(s)]
    BY <1>3, ConcatProperties
<1>6. \A i \in 1 .. Len(s) + Len(p) : (s \o p)[i] \in Elements(p) \cup Elements(b)
  <2>1. TAKE i \in 1 .. Len(s) + Len(p)
  <2>2. Len(s) \in Nat /\ Len(p) \in Nat /\ DOMAIN p = 1 .. Len(p)
      BY <1>3, LenProperties
  <2> HIDE DEF s
  <2>3. CASE i <= Len(s)
    <3>1. i \in 1 .. Len(s)
        BY <2>2, <2>3
    <3> QED
        BY <1>4, <1>5, <2>3, <3>1
  <2>4. CASE ~(i <= Len(s))
    <3>1. i - Len(s) \in DOMAIN p
        BY <2>2, <2>4
    <3> QED
        BY <1>5, <2>4, <3>1 DEF Elements
  <2> QED
      BY <2>3, <2>4
<1>7. DOMAIN (s \o p) = 1 .. Len(s) + Len(p)
    BY <1>5, LenProperties
<1> QED
    BY <1>3, <1>5, <1>6, <1>7 DEF Rest, Elements

\* A push adds to its end.
LEMMA RestPush ==
  ASSUME NEW b \in Seq(Functors), NEW p \in Seq(Functors), NEW d \in Nat,
         NEW g \in Functors
  PROVE  Rest(b, d, Append(p, g)) = Append(Rest(b, d, p), g)
<1> DEFINE s == SubSeq(b, d + 1, Len(b))
<1>1. s \in Seq(Functors) /\ s \o p \in Seq(Functors)
    BY RestTypes, ConcatProperties
<1>2. Append(p, g) = p \o <<g>> /\ <<g>> \in Seq(Functors)
    BY AppendIsConcat
<1>3. Append(s \o p, g) = (s \o p) \o <<g>>
    BY <1>1, AppendIsConcat
<1>4. (s \o p) \o <<g>> = s \o (p \o <<g>>)
  <2> HIDE DEF s
  <2> QED
      BY <1>1, <1>2, ConcatAssociative
<1> QED
    BY <1>2, <1>3, <1>4 DEF Rest

\* Running a functor takes its head.
LEMMA RestRun ==
  ASSUME NEW b \in Seq(Functors), NEW p \in Seq(Functors), NEW d \in Nat,
         d < Len(b)
  PROVE  /\ Rest(b, d, p) # <<>>
         /\ Head(Rest(b, d, p)) = b[d + 1]
         /\ Tail(Rest(b, d, p)) = Rest(b, d + 1, p)
<1> DEFINE x == b[d + 1]
           r == SubSeq(b, d + 2, Len(b))
<1>1. Len(b) \in Nat /\ d + 1 \in 1 .. Len(b) /\ Len(b) \in d + 1 .. Len(b)
    BY LenProperties
<1>2. x \in Functors /\ <<x>> \in Seq(Functors)
    BY <1>1, ElementOfSeq
<1>3. SubSeq(b, d + 1, Len(b)) = <<x>> \o r
  <2>1. SubSeq(b, d + 1, Len(b)) = <<b[d + 1]>> \o SubSeq(b, d + 1 + 1, Len(b))
      BY <1>1, SubSeqRecursiveFirst
  <2>2. d + 1 + 1 = d + 2
      OBVIOUS
  <2> QED
      BY <2>1, <2>2
<1>4. Rest(b, d + 1, p) = r \o p /\ r \in Seq(Functors)
  <2>1. d + 1 \in Nat /\ d + 1 + 1 = d + 2
      OBVIOUS
  <2>2. SubSeq(b, d + 1 + 1, Len(b)) \in Seq(Functors)
      BY <2>1, RestTypes
  <2> QED
      BY <2>1, <2>2 DEF Rest
<1>5. Rest(b, d, p) = <<x>> \o (r \o p)
  <2>1. Rest(b, d, p) = (<<x>> \o r) \o p
      BY <1>3 DEF Rest
  <2> HIDE DEF r
  <2> QED
      BY <1>2, <1>4, <2>1, ConcatAssociative
<1>6. r \o p \in Seq(Functors)
    BY <1>4, ConcatProperties
<1>7. ASSUME NEW s \in Seq(Functors)
      PROVE  /\ <<x>> \o s # <<>> /\ Head(<<x>> \o s) = x
             /\ Tail(<<x>> \o s) = s
  <2>1. /\ <<x>> \o s \in Seq(Functors) /\ Len(<<x>> \o s) = 1 + Len(s)
        /\ \A i \in 1 .. 1 + Len(s) :
             (<<x>> \o s)[i] = IF i <= 1 THEN <<x>>[i] ELSE s[i - 1]
      BY <1>2, ConcatProperties
  <2>2. Len(s) \in Nat
      BY LenProperties
  <2>3. <<x>> \o s # <<>>
      BY <2>1, <2>2, EmptySeq
  <2>4. Head(<<x>> \o s) = x
      BY <2>1, <2>2, <2>3
  <2>5. /\ Tail(<<x>> \o s) \in Seq(Functors) /\ Len(Tail(<<x>> \o s)) = Len(s)
        /\ \A i \in 1 .. Len(s) : Tail(<<x>> \o s)[i] = (<<x>> \o s)[i + 1]
      BY <2>1, <2>2, <2>3, HeadTailProperties
  <2>6. \A i \in 1 .. Len(s) : Tail(<<x>> \o s)[i] = s[i]
      BY <2>1, <2>2, <2>5
  <2> QED
      BY <2>3, <2>4, <2>5, <2>6, SeqEqual
<1> QED
    BY <1>4, <1>5, <1>6, <1>7

\* Functors that a connection has one of in its life.
Once == {"connectEstablished", "removeConnInLoop"}
Single(s) ==
  \A i, j \in DOMAIN s : s[i].op \in Once /\ s[i] = s[j] => i = j

\* Such a functor may be queued when it is not there yet ...
LEMMA SingleAppend ==
  ASSUME NEW s \in Seq(Functors), NEW g \in Functors, Single(s),
         g.op \in Once => g \notin Elements(s)
  PROVE  Single(Append(s, g))
<1> DEFINE a == Append(s, g)
<1>1. Len(s) \in Nat /\ DOMAIN s = 1 .. Len(s)
    BY LenProperties
<1>2. /\ DOMAIN a = 1 .. Len(s) + 1 /\ a[Len(s) + 1] = g
      /\ \A i \in 1 .. Len(s) : a[i] = s[i]
    BY AppendProperties, LenProperties
<1> HIDE DEF a
<1>3. SUFFICES ASSUME NEW i \in DOMAIN a, NEW j \in DOMAIN a,
                      a[i].op \in Once, a[i] = a[j], i < j
               PROVE  FALSE
    BY <1>1, <1>2 DEF Single, a
<1>4. i \in 1 .. Len(s)
    BY <1>1, <1>2, <1>3
<1>5. CASE j = Len(s) + 1
    BY <1>1, <1>2, <1>3, <1>4, <1>5 DEF Elements
<1>6. CASE j \in 1 .. Len(s)
    BY <1>1, <1>2, <1>3, <1>4, <1>6 DEF Single
<1> QED
    BY <1>1, <1>2, <1>5, <1>6

\* ... and does not remain once it has been taken.
LEMMA SingleTail ==
  ASSUME NEW s \in Seq(Functors), s # <<>>, Single(s)
  PROVE  /\ Single(Tail(s))
         /\ Head(s).op \in Once => Head(s) \notin Elements(Tail(s))
<1> DEFINE t == Tail(s)
<1>1. Len(s) \in Nat /\ DOMAIN s = 1 .. Len(s) /\ Len(s) # 0
    BY LenProperties, EmptySeq
<1>2. DOMAIN t = 1 .. Len(s) - 1 /\ \A i \in 1 .. Len(s) - 1 : t[i] = s[i + 1]
    BY HeadTailProperties, LenProperties
<1>3. Head(s) = s[1]
    BY <1>1
<1> HIDE DEF t
<1>4. Single(t)
    BY <1>1, <1>2 DEF Single
<1>5. Head(s).op \in Once => Head(s) \notin Elements(t)
    BY <1>1, <1>2, <1>3 DEF Single, Elements
<1> QED
    BY <1>4, <1>5 DEF t

Todo(l) == Rest(batch[l], done[l], pending[l])

\* How a queue moves on: something is pushed, or the next functor runs.
Pushed(l, g) == g \in Functors /\ Todo(l)' = Append(Todo(l), g)
Ran(l) ==
  /\ \E op \in {"connectEstablished", "forceCloseInLoop", "removeConnInLoop",
                "connectDestroyed"} : Running(l, op)
  /\ Todo(l) # <<>> /\ Head(Todo(l)) = NextFunctor(l)
  /\ Todo(l)' = Tail(Todo(l))

\* What is still to be run is a sequence of functors.
LEMMA TodoTypes ==
  ASSUME TypeOK, NEW l \in Loops
  PROVE  /\ batch[l] \in Seq(Functors) /\ pending[l] \in Seq(Functors)
         /\ done[l] \in Nat /\ Todo(l) \in Seq(Functors)
         /\ \A f \in Elements(Todo(l)) :
              f \in Functors /\ f \in Elements(pending[l]) \cup Elements(batch[l])
<1>1. batch[l] \in Seq(Functors) /\ pending[l] \in Seq(Functors) /\ done[l] \in Nat
    BY DEF TypeOK
<1> QED
    BY <1>1, RestTypes, ElementsIn DEF Todo

\* Queueing a functor is a push on one loop.
LEMMA TodoPush ==
  ASSUME TypeOK, NEW m \in Loops, NEW g \in Functors,
         pending' = [pending EXCEPT ![m] = Append(@, g)]
  PROVE  /\ \A l \in Loops \ {m} :
              batch'[l] = batch[l] /\ done'[l] = done[l] => Todo(l)' = Todo(l)
         /\ batch'[m] = batch[m] /\ done'[m] = done[m] => Pushed(m, g)
<1>1. \A l \in Loops : pending'[l] =
        IF l = m THEN Append(pending[m], g) ELSE pending[l]
    BY DEF TypeOK
<1>2. Rest(batch[m], done[m], Append(pending[m], g)) = Append(Todo(m), g)
    BY TodoTypes, RestPush DEF Todo
<1> QED
    BY <1>1, <1>2 DEF Todo, Pushed

\* A functor that runs is taken from one loop.
LEMMA TodoRun ==
  ASSUME TypeOK, NEW m \in Loops,
         NEW op \in {"connectEstablished", "forceCloseInLoop",
                     "removeConnInLoop", "connectDestroyed"},
         Running(m, op)
  PROVE  /\ batch' = batch /\ \A l \in Loops \ {m} : done'[l] = done[l]
         /\ \A l \in Loops \ {m} : pending'[l] = pending[l] => Todo(l)' = Todo(l)
         /\ pending'[m] = pending[m] => Ran(m)
<1>1. /\ batch' = batch /\ \A l \in Loops \ {m} : done'[l] = done[l]
      /\ done'[m] = done[m] + 1 /\ done[m] < Len(batch[m])
    BY DEF Running, TypeOK
<1>2. /\ Todo(m) # <<>> /\ Head(Todo(m)) = NextFunctor(m)
      /\ Tail(Todo(m)) = Rest(batch[m], done[m] + 1, pending[m])
    BY <1>1, TodoTypes, RestRun DEF Todo, NextFunctor
<1> QED
    BY <1>1, <1>2 DEF Todo, Ran

------------------------------------------------------------------------------
(* The states of the connections, and who is to do something about them.   *)

\* How far the connection of a functor has come when it is still to run.
Timely(f) ==
  /\ f.op = "connectEstablished" => state[f.conn] = "kConnecting"
  /\ f.op \in {"removeConnInLoop", "connectDestroyed"} =>
       state[f.conn] = "kDisconnected"

MadeInv == \A c \in Conns : state[c] = "none" <=> c > accepted
RegisteredInv == registered = {c \in Conns : state[c] \in Open}
ActiveInv == \A l \in Loops : active[l] \subseteq registered
TimelyInv == \A l \in Loops : \A f \in Elements(Todo(l)) : Timely(f)
SingleInv == \A l \in Loops : Single(Todo(l))
StateInv == MadeInv /\ RegisteredInv /\ ActiveInv /\ TimelyInv /\ SingleInv

ConnInv == TypeInv /\ OwnLoopInv /\ StateInv

\* The functor a loop runs.
LEMMA RunFacts ==
  ASSUME ConnInv, NEW m \in Loops,
         NEW op \in {"connectEstablished", "forceCloseInLoop",
                     "removeConnInLoop", "connectDestroyed"},
         Running(m, op)
  PROVE  LET f == NextFunctor(m) IN
         /\ f \in Functors /\ f.op = op /\ f.conn \in Conns
         /\ f \in Elements(Todo(m)) /\ f \in Elements(batch[m])
         /\ Timely(f) /\ OwnFunctor(m, f)
         /\ loopOf[f.conn] \in IoLoops
         /\ IF op = "removeConnInLoop" THEN m = Main ELSE m = loopOf[f.conn]
<1> DEFINE f == NextFunctor(m)
<1> TypeOK
    BY DEF ConnInv, TypeInv
<1>1. done[m] < Len(batch[m]) /\ f.op = op
    BY DEF Running
<1>2. f \in Functors /\ f.conn \in Conns /\ f \in Elements(batch[m])
    BY <1>1, FunctorTypes, NextInBatch
<1>3. OwnFunctor(m, f)
    BY <1>2 DEF ConnInv, OwnLoopInv, FunctorsOwn
<1>4. loopOf[f.conn] \in IoLoops
    BY <1>2, <1>3 DEF OwnFunctor, ConnInv, OwnLoopInv, GivenInv
<1>5. f \in Elements(Todo(m))
  <2>1. Todo(m) # <<>> /\ Head(Todo(m)) = f
      BY <1>1, TodoTypes, RestRun DEF Todo, NextFunctor
  <2> QED
      BY <2>1, TodoTypes, ElementsOf
<1>6. Timely(f)
    BY <1>5 DEF ConnInv, StateInv, TimelyInv
<1> QED
    BY <1>1, <1>2, <1>3, <1>4, <1>5, <1>6 DEF OwnFunctor

\* The timer on top of a heap.
LEMMA TopFacts ==
  ASSUME ConnInv, NEW m \in IoLoops, heap[m] # <<>>
  PROVE  /\ Head(heap[m]) \in Elements(heap[m])
         /\ timerConn[Head(heap[m])] \in Conns
         /\ OwnConn(m, timerConn[Head(heap[m])])
<1>1. heap[m] \in Seq(DOMAIN timerConn)
    BY DEF ConnInv, TypeInv, TypeOK
<1>2. Head(heap[m]) \in Elements(heap[m]) /\ Head(heap[m]) \in DOMAIN timerConn
    BY <1>1, ElementsOf, HeadTailProperties
<1>3. timerConn \in [1 .. Len(timerConn) -> Conns]
    BY LenProperties DEF ConnInv, TypeInv, TypeOK
<1> QED
    BY <1>2, <1>3 DEF ConnInv, OwnLoopInv, TimersOwn

\* An event of a channel finds its connection open.
LEMMA EventFacts ==
  ASSUME ConnInv, NEW m \in Loops, NEW c \in Conns, HandleEvent(m, c)
  PROVE  state[c] \in Open /\ OwnConn(m, c) /\ m \in IoLoops
<1>1. c \in active[m]
    BY DEF HandleEvent
<1> QED
    BY <1>1 DEF ConnInv, StateInv, ActiveInv, RegisteredInv, OwnLoopInv,
       ActiveOwn, GivenInv, OwnConn

\* What is pushed: connectEstablished for a new connection, removeConnInLoop
\* when one is closed, connectDestroyed when it is removed, forceCloseInLoop
\* for an open one.
PushedWhen(g) ==
  \/ NewConnection /\ g = Functor("connectEstablished", accepted + 1)
  \/ \E c \in Conns : /\ state[c] \in Open /\ HandleClose(c)
                      /\ g = Functor("removeConnInLoop", c)
  \/ \E m \in Loops, c \in Conns :
       /\ RemoveConnInLoop(m) /\ c = NextFunctor(m).conn
       /\ g = Functor("connectDestroyed", c)
  \/ \E c \in Conns : state[c] \in Open /\ g = Functor("forceCloseInLoop", c)

Queued(l) ==
  \/ Todo(l)' = Todo(l)
  \/ Ran(l)
  \/ \E g \in Functors : Pushed(l, g) /\ PushedWhen(g)

\* A step changes what a loop has to do in one of these ways.
LEMMA TodoStep ==
  ASSUME ConnInv, [Next]_vars, NEW l \in Loops
  PROVE  Queued(l)
<1> TypeInv /\ TypeOK /\ OwnLoopInv /\ StateInv
    BY DEF ConnInv, TypeInv
<1>1. ASSUME UNCHANGED <<pending, batch, done>>
      PROVE  Queued(l)
    BY <1>1 DEF Queued, Todo
<1>2. CASE NewConnection
  <2> DEFINE g == Functor("connectEstablished", accepted + 1)
  <2>1. next' + 1 \in Loops /\ accepted + 1 \in Conns
    <3>1. next' \in 0 .. ThreadNums - 1 /\ accepted' \in 0 .. MaxConns
        BY TypeStep DEF TypeOK
    <3>2. accepted' = accepted + 1 /\ accepted \in Nat
        BY <1>2 DEF NewConnection, TypeOK
    <3> QED
        BY <3>1, <3>2, LoopsAndNames, ConstantsOK DEF Conns
  <2>2. /\ pending' = [pending EXCEPT ![next' + 1] = Append(@, g)]
        /\ UNCHANGED <<batch, done>> /\ g \in Functors
      BY <1>2, <2>1, FunctorTypes DEF NewConnection, loopVars
  <2>3. Todo(l)' = Todo(l) \/ Pushed(l, g)
      BY <2>1, <2>2, TodoPush
  <2> QED
      BY <1>2, <2>3 DEF Queued, PushedWhen, Pushed
<1>3. ASSUME NEW m \in IoLoops, DropTimer(m) \/ ExpireTimer(m)
      PROVE  Queued(l)
  <2>1. CASE UNCHANGED <<pending, batch, done>>
      BY <1>1, <2>1
  <2> DEFINE c == timerConn[Head(heap[m])]
             g == Functor("forceCloseInLoop", c)
  <2>2. CASE ExpireTimer(m) /\ ForceCloseActs(c)
    <3>1. c \in Conns /\ g \in Functors /\ m \in Loops
        BY <2>2, TopFacts, FunctorTypes, LoopsAndNames DEF ExpireTimer
    <3>2. /\ pending' = [pending EXCEPT ![m] = Append(@, g)]
          /\ UNCHANGED <<batch, done>> /\ state[c] \in Open
        BY <2>2 DEF ExpireTimer, ForceCloseActs
    <3>3. Todo(l)' = Todo(l) \/ Pushed(l, g)
        BY <3>1, <3>2, TodoPush
    <3> QED
        BY <3>1, <3>2, <3>3 DEF Queued, PushedWhen, Pushed
  <2> QED
      BY <1>3, <2>1, <2>2 DEF DropTimer, ExpireTimer
<1>4. ASSUME NEW c \in Conns, state[c] \in Open, HandleClose(c),
             UNCHANGED <<batch, done>>
      PROVE  Queued(l)
  <2> DEFINE g == Functor("removeConnInLoop", c)
  <2>1. g \in Functors /\ pending' = [pending EXCEPT ![Main] = Append(@, g)]
      BY <1>4, FunctorTypes DEF HandleClose
  <2>2. Todo(l)' = Todo(l) \/ Pushed(l, g)
      BY <1>4, <2>1, TodoPush, LoopsAndNames
  <2> QED
      BY <1>4, <2>2 DEF Queued, PushedWhen, Pushed
<1>5. ASSUME NEW m \in Loops, NEW c \in Conns, HandleEvent(m, c)
      PROVE  Queued(l)
    BY <1>1, <1>4, <1>5, EventFacts DEF HandleEvent
<1>6. ASSUME NEW m \in Loops, NEW tick, Poll(m, tick)
      PROVE  Queued(l)
    BY <1>1, <1>6 DEF Poll
<1>7. ASSUME NEW m \in Loops, BeginFunctors(m)
      PROVE  Todo(l)' = Todo(l)
  <2>1. /\ batch[m] = <<>> /\ done[m] = 0
        /\ pending[m] \in Seq(Functors) /\ batch[m] \in Seq(Functors)
      BY <1>7 DEF BeginFunctors, TypeInv, TypeOK
  <2>2. /\ batch'[m] = pending[m] /\ pending'[m] = <<>> /\ done'[m] = 0
        /\ \A k \in Loops \ {m} : /\ batch'[k] = batch[k]
                                  /\ pending'[k] = pending[k]
                                  /\ done'[k] = done[k]
      BY <1>7, <2>1 DEF BeginFunctors, TypeOK
  <2>3. Todo(m)' = Todo(m)
      BY <2>1, <2>2, RestOfNothing DEF Todo
  <2> QED
      BY <2>2, <2>3 DEF Todo
<1>8. ASSUME NEW m \in Loops, EndFunctors(m)
      PROVE  Todo(l)' = Todo(l)
  <2>1. pending[m] \in Seq(Functors) /\ batch[m] \in Seq(Functors)
      BY DEF TypeOK
  <2>2. /\ batch'[m] = <<>> /\ pending' = pending /\ done'[m] = 0
        /\ done[m] = Len(batch[m])
        /\ \A k \in Loops \ {m} : batch'[k] = batch[k] /\ done'[k] = done[k]
      BY <1>8 DEF EndFunctors, TypeOK
  <2>3. Todo(m)' = Todo(m)
      BY <2>1, <2>2, RestOfNothing DEF Todo
  <2> QED
      BY <2>2, <2>3 DEF Todo
<1>9. ASSUME NEW m \in Loops, Functors1(m)
      PROVE  Queued(l)
  <2> DEFINE c == NextFunctor(m).conn
  <2>1. ASSUME NEW op \in {"connectEstablished", "forceCloseInLoop",
                           "removeConnInLoop", "connectDestroyed"},
               Running(m, op), UNCHANGED pending
        PROVE  Queued(l)
      BY <2>1, TodoRun DEF Queued, PushedWhen, Pushed
  <2>2. CASE ForceCloseInLoop(m) /\ StillOpen(c)
    <3> DEFINE g == Functor("removeConnInLoop", c)
    <3>1. /\ Running(m, "forceCloseInLoop") /\ HandleClose(c)
          /\ state[c] \in Open
        BY <2>2 DEF ForceCloseInLoop, StillOpen
    <3>2. c \in Conns /\ m \in IoLoops
        BY <3>1, RunFacts
    <3>3. g \in Functors /\ pending' = [pending EXCEPT ![Main] = Append(@, g)]
        BY <3>1, <3>2, FunctorTypes DEF HandleClose
    <3>4. /\ batch' = batch /\ \A k \in Loops \ {m} : done'[k] = done[k]
          /\ \A k \in Loops \ {m} : pending'[k] = pending[k] => Todo(k)' = Todo(k)
          /\ pending'[m] = pending[m] => Ran(m)
        BY <3>1, TodoRun
    <3>5. pending'[m] = pending[m] /\ Main # m
        BY <3>2, <3>3, LoopsAndNames DEF TypeOK
    <3>6. CASE l = m
        BY <3>4, <3>5, <3>6 DEF Queued, PushedWhen, Pushed
    <3>7. CASE l = Main
      <4>1. Pushed(Main, g)
          BY <3>3, <3>4, <3>5, TodoPush, LoopsAndNames
      <4> QED
          BY <3>1, <3>2, <3>7, <4>1 DEF Queued, PushedWhen, Pushed
    <3>8. CASE l # m /\ l # Main
      <4>1. Todo(l)' = Todo(l)
          BY <3>3, <3>4, <3>8, TodoPush, LoopsAndNames
      <4> QED
          BY <4>1 DEF Queued, PushedWhen, Pushed
    <3> QED
        BY <3>6, <3>7, <3>8
  <2>3. CASE RemoveConnInLoop(m)
    <3> DEFINE g == Functor("connectDestroyed", c)
               k == loopOf[c]
    <3>1. Running(m, "removeConnInLoop")
        BY <2>3 DEF RemoveConnInLoop
    <3>2. c \in Conns /\ m = Main /\ k \in Loops /\ k # m
        BY <3>1, RunFacts, LoopsAndNames
    <3>3. g \in Functors /\ pending' = [pending EXCEPT ![k] = Append(@, g)]
        BY <2>3, <3>2, FunctorTypes DEF RemoveConnInLoop, QueueDestroyed
    <3>4. /\ batch' = batch /\ \A n \in Loops \ {m} : done'[n] = done[n]
          /\ \A n \in Loops \ {m} : pending'[n] = pending[n] => Todo(n)' = Todo(n)
          /\ pending'[m] = pending[m] => Ran(m)
        BY <3>1, TodoRun
    <3>5. CASE l = m
        BY <3>2, <3>3, <3>4, <3>5 DEF Queued, PushedWhen, Pushed, TypeOK
    <3>6. CASE l = k
      <4>1. Pushed(k, g)
          BY <3>2, <3>3, <3>4, TodoPush
      <4> QED
        <5>1. PushedWhen(g)
            BY <2>3, <3>2 DEF PushedWhen
        <5> QED
            BY <3>3, <3>6, <4>1, <5>1 DEF Queued
    <3>7. CASE l # m /\ l # k
      <4>1. Todo(l)' = Todo(l)
          BY <3>2, <3>3, <3>4, <3>7, TodoPush
      <4> QED
          BY <4>1 DEF Queued, PushedWhen, Pushed
    <3> QED
        BY <3>5, <3>6, <3>7
  <2> QED
      BY <1>9, <2>1, <2>2, <2>3
      DEF Functors1, ForceCloseInLoop, ConnectEstablished, ConnectDestroyed
<1> QED
    BY Steps, <1>1, <1>2, <1>3, <1>5, <1>6, <1>7, <1>8, <1>9 DEF Quiet, Queued

\* The steps that move a connection on.
Closes(c) == c \in Conns /\ state[c] \in Open /\ HandleClose(c)
Shuts(c) ==
  /\ c \in Conns /\ state[c] \in Open
  /\ state' = [state EXCEPT ![c] = "kDisconnecting"]
  /\ UNCHANGED registered
Establishes(m, c) ==
  /\ m \in Loops /\ c \in Conns /\ state[c] = "kConnecting"
  /\ c = NextFunctor(m).conn /\ ConnectEstablished(m)

\* connectDestroyed() finds a connection that is closed already.
LEMMA DestroyedFacts ==
  ASSUME ConnInv, NEW m \in Loops, ConnectDestroyed(m)
  PROVE  UNCHANGED <<state, registered, https, connections, pending, failed>>
<1>1. Running(m, "connectDestroyed")
    BY DEF ConnectDestroyed
<1>2. state[NextFunctor(m).conn] = "kDisconnected"
    BY <1>1, RunFacts DEF Timely
<1> QED
    BY <1>2 DEF ConnectDestroyed

\* The steps by what they do to the states of connections.
LEMMA StateSteps ==
  ASSUME ConnInv, [Next]_vars
  PROVE  \/ UNCHANGED <<state, registered>>
         \/ NewConnection
         \/ \E c : Closes(c)
         \/ \E c : Shuts(c)
         \/ \E m, c : Establishes(m, c)
<1> /\ TypeInv /\ TypeOK
    /\ state \in [Conns -> {"none", "kConnecting"} \cup Open
                             \cup {"kDisconnected"}]
    BY DEF ConnInv, TypeInv, TypeOK
<1>1. ASSUME NEW m \in IoLoops, DropTimer(m) \/ ExpireTimer(m)
      PROVE  UNCHANGED <<state, registered>> \/ \E c : Shuts(c)
  <2> DEFINE c == timerConn[Head(heap[m])]
  <2>1. CASE ExpireTimer(m) /\ ForceCloseActs(c)
    <3>1. c \in Conns
        BY <2>1, TopFacts DEF ExpireTimer
    <3>2. Shuts(c)
        BY <2>1, <3>1 DEF ExpireTimer, ForceCloseActs, Shuts
    <3> QED
        BY <3>2
  <2> QED
      BY <1>1, <2>1 DEF DropTimer, ExpireTimer, connVars
<1>2. ASSUME NEW m \in Loops, NEW c \in Conns, HandleEvent(m, c)
      PROVE  UNCHANGED <<state, registered>> \/ Closes(c) \/ Shuts(c)
  <2>1. state[c] \in Open
      BY <1>2, EventFacts
  <2>2. CASE HandleClose(c)
      BY <2>1, <2>2 DEF Closes
  <2>3. CASE Shutdown(c) /\ UNCHANGED registered
    <3>1. state' = [state EXCEPT ![c] = "kDisconnecting"]
        BY <2>1, <2>3 DEF Shutdown, Open
    <3> QED
        BY <2>1, <2>3, <3>1 DEF Shuts
  <2>4. CASE KeepAlive(m, c) /\ UNCHANGED registered
      BY <2>4 DEF KeepAlive
  <2> QED
      BY <1>2, <2>2, <2>3, <2>4 DEF HandleEvent
<1>3. ASSUME NEW m \in Loops, Functors1(m)
      PROVE  \/ UNCHANGED <<state, registered>>
             \/ \E c : Closes(c) \/ Establishes(m, c)
  <2> DEFINE c == NextFunctor(m).conn
  <2>1. CASE ConnectEstablished(m)
    <3>1. Running(m, "connectEstablished")
        BY <2>1 DEF ConnectEstablished
    <3>2. c \in Conns /\ state[c] = "kConnecting"
        BY <3>1, RunFacts DEF Timely
    <3>3. Establishes(m, c)
        BY <2>1, <3>2 DEF Establishes
    <3> QED
        BY <3>3
  <2>2. CASE ForceCloseInLoop(m)
    <3>1. Running(m, "forceCloseInLoop")
        BY <2>2 DEF ForceCloseInLoop
    <3>2. c \in Conns
        BY <3>1, RunFacts
    <3> QED
        BY <2>2, <3>2 DEF ForceCloseInLoop, StillOpen, Closes
  <2>3. CASE RemoveConnInLoop(m)
      BY <2>3 DEF RemoveConnInLoop
  <2>4. CASE ConnectDestroyed(m)
      BY <2>4, DestroyedFacts
  <2> QED
      BY <1>3, <2>1, <2>2, <2>3, <2>4 DEF Functors1
<1>4. ASSUME NEW m, BeginFunctors(m) \/ EndFunctors(m)
      PROVE  UNCHANGED <<state, registered>>
    BY <1>4 DEF BeginFunctors, EndFunctors, connVars
<1>5. ASSUME NEW m, NEW tick, Poll(m, tick)
      PROVE  UNCHANGED <<state, registered>>
    BY <1>5 DEF Poll, connVars
<1> QED
    BY Steps, <1>1, <1>2, <1>3, <1>4, <1>5 DEF Quiet, connVars

\* One stage at a time.
LEMMA MoveStep ==
  ASSUME ConnInv, [Next]_vars, NEW c \in Conns
  PROVE  \/ state'[c] = state[c]
         \/ /\ NewConnection /\ c = accepted + 1
            /\ state[c] = "none" /\ state'[c] = "kConnecting"
         \/ /\ \E m : Establishes(m, c)
            /\ state[c] = "kConnecting" /\ state'[c] = "kConnected"
         \/ state[c] = "kConnected" /\ state'[c] = "kDisconnecting"
         \/ Closes(c) /\ state[c] \in Open /\ state'[c] = "kDisconnected"
<1> state \in [Conns -> {"none", "kConnecting"} \cup Open \cup {"kDisconnected"}]
    BY DEF ConnInv, TypeInv, TypeOK
<1>1. CASE NewConnection
  <2>1. state' = [state EXCEPT ![accepted + 1] = "kConnecting"]
      BY <1>1 DEF NewConnection
  <2>2. CASE c = accepted + 1
    <3>1. accepted \in Nat
        BY DEF ConnInv, TypeInv, TypeOK
    <3>2. c > accepted
        BY <2>2, <3>1
    <3>3. state[c] = "none"
        BY <3>2 DEF ConnInv, StateInv, MadeInv
    <3> QED
        BY <1>1, <2>1, <2>2, <3>3
  <2> QED
      BY <2>1, <2>2
<1>2. ASSUME NEW d, Closes(d)
      PROVE  state'[c] = state[c] \/ (c = d /\ state'[c] = "kDisconnected")
    BY <1>2 DEF Closes, HandleClose
<1>3. ASSUME NEW d, Shuts(d)
      PROVE  state'[c] = state[c]
             \/ (state[c] = "kConnected" /\ state'[c] = "kDisconnecting")
    BY <1>3 DEF Shuts, Open
<1>4. ASSUME NEW m, NEW d, Establishes(m, d)
      PROVE  state'[c] = state[c] \/ (c = d /\ state'[c] = "kConnected")
    BY <1>4 DEF Establishes, ConnectEstablished
<1> QED
    BY StateSteps, <1>1, <1>2, <1>3, <1>4 DEF Closes, Establishes

\* The connections accepted are those made.
LEMMA MadeStep ==
  ASSUME ConnInv, [Next]_vars
  PROVE  MadeInv'
<1> SUFFICES ASSUME NEW c \in Conns
             PROVE  state'[c] = "none" <=> c > accepted'
    BY DEF MadeInv
<1>1. /\ accepted \in Nat /\ c \in Nat
      /\ state[c] = "none" <=> c > accepted
    BY LoopsAndNames DEF ConnInv, TypeInv, TypeOK, StateInv, MadeInv
<1>2. CASE NewConnection
  <2>1. /\ accepted' = accepted + 1
        /\ state' = [state EXCEPT ![accepted + 1] = "kConnecting"]
      BY <1>2 DEF NewConnection
  <2>2. CASE c = accepted + 1
    <3>1. state'[c] = "kConnecting"
        BY <2>1, <2>2 DEF ConnInv, TypeInv, TypeOK
    <3> QED
        BY <1>1, <2>1, <2>2, <3>1
  <2>3. CASE c # accepted + 1
    <3>1. state'[c] = state[c]
        BY <2>1, <2>3 DEF ConnInv, TypeInv, TypeOK
    <3> QED
        BY <1>1, <2>1, <2>3, <3>1
  <2> QED
      BY <2>2, <2>3
<1>3. CASE ~NewConnection
  <2>1. accepted' = accepted
      BY <1>3, AcceptedStep
  <2>2. state'[c] = "none" <=> state[c] = "none"
      BY <1>3, MoveStep DEF Open
  <2> QED
      BY <1>1, <2>1, <2>2
<1> QED
    BY <1>2, <1>3

\* A channel is registered as long as its connection is open.
LEMMA RegisteredStep ==
  ASSUME ConnInv, [Next]_vars
  PROVE  RegisteredInv'
<1> /\ state \in [Conns -> {"none", "kConnecting"} \cup Open
                             \cup {"kDisconnected"}]
    /\ registered = {c \in Conns : state[c] \in Open}
    BY DEF ConnInv, TypeInv, TypeOK, StateInv, RegisteredInv
<1> SUFFICES registered' = {c \in Conns : state'[c] \in Open}
    BY DEF RegisteredInv
<1>1. CASE UNCHANGED <<state, registered>>
    BY <1>1
<1>2. CASE NewConnection
  <2> DEFINE d == accepted + 1
  <2>1. state' = [state EXCEPT ![d] = "kConnecting"] /\ registered' = registered
      BY <1>2 DEF NewConnection
  <2>2. d \in Conns => state[d] \notin Open
    <3>1. accepted \in Nat /\ d > accepted
        BY DEF ConnInv, TypeInv, TypeOK
    <3> QED
        BY <3>1 DEF ConnInv, StateInv, MadeInv, Open
  <2> HIDE DEF d
  <2> QED
      BY <2>1, <2>2 DEF Open
<1>3. ASSUME NEW c, Closes(c)
      PROVE  registered' = {d \in Conns : state'[d] \in Open}
  <2>1. /\ state' = [state EXCEPT ![c] = "kDisconnected"]
        /\ registered' = registered \ {c}
      BY <1>3 DEF Closes, HandleClose, Unregistered
  <2> QED
      BY <2>1 DEF Open
<1>4. ASSUME NEW c, Shuts(c)
      PROVE  registered' = {d \in Conns : state'[d] \in Open}
    BY <1>4 DEF Shuts, Open
<1>5. ASSUME NEW m, NEW c, Establishes(m, c)
      PROVE  registered' = {d \in Conns : state'[d] \in Open}
  <2>1. /\ state' = [state EXCEPT ![c] = "kConnected"]
        /\ registered' = registered \cup {c} /\ c \in Conns
      BY <1>5 DEF Establishes, ConnectEstablished
  <2> QED
      BY <2>1 DEF Open
<1> QED
    BY StateSteps, <1>1, <1>2, <1>3, <1>4, <1>5

\* A loop handles only channels that are registered still.
LEMMA ActiveInvStep ==
  ASSUME ConnInv, [Next]_vars
  PROVE  ActiveInv'
<1> SUFFICES ASSUME NEW l \in Loops, NEW d, d \in active'[l]
             PROVE  d \in registered'
    BY DEF ActiveInv
<1> active \in [Loops -> SUBSET Conns]
    BY DEF ConnInv, TypeInv, TypeOK
<1>1. CASE \E tick \in {"no", "due"} : Poll(l, tick)
    BY <1>1 DEF Poll, connVars
<1>2. CASE ~\E tick \in {"no", "due"} : Poll(l, tick)
  <2>1. d \in active[l] /\ d \in registered /\ OwnConn(l, d)
    <3>1. d \in active[l]
        BY <1>2, ActiveFrom DEF ConnInv
    <3> QED
        BY <3>1 DEF ConnInv, StateInv, ActiveInv, OwnLoopInv, ActiveOwn
  <2>2. CASE registered \subseteq registered'
      BY <2>1, <2>2
  <2>3. ASSUME NEW m \in Loops, NEW c \in Conns, HandleEvent(m, c)
        PROVE  d \in registered'
    <3>1. OwnConn(m, c) /\ active' = [active EXCEPT ![m] = @ \ {c}]
        BY <2>3, EventFacts DEF HandleEvent
    <3>2. d # c
        BY <2>1, <3>1 DEF OwnConn
    <3>3. registered \ {c} \subseteq registered'
        BY <2>3 DEF HandleEvent, HandleClose, Unregistered
    <3> QED
        BY <2>1, <3>2, <3>3
  <2>4. ASSUME NEW m \in Loops, ForceCloseInLoop(m)
        PROVE  d \in registered'
    <3> DEFINE c == NextFunctor(m).conn
    <3>1. Running(m, "forceCloseInLoop")
        BY <2>4 DEF ForceCloseInLoop
    <3>2. m = loopOf[c]
        BY <3>1, RunFacts
    <3>3. active[m] = {}
        BY <3>1 DEF Running, ConnInv, TypeInv
    <3>4. d # c
        BY <2>1, <3>2, <3>3 DEF OwnConn
    <3>5. registered \ {c} \subseteq registered'
        BY <2>4 DEF ForceCloseInLoop, HandleClose, Unregistered
    <3> QED
        BY <2>1, <3>4, <3>5
  <2>5. ASSUME NEW m \in Loops,
               ConnectEstablished(m) \/ RemoveConnInLoop(m) \/ ConnectDestroyed(m)
        PROVE  registered \subseteq registered'
      BY <2>5, DestroyedFacts DEF ConnectEstablished, RemoveConnInLoop
  <2>6. ASSUME NEW m, BeginFunctors(m) \/ EndFunctors(m)
        PROVE  registered' = registered
      BY <2>6 DEF BeginFunctors, EndFunctors, connVars
  <2>7. ASSUME NEW m, NEW tick, Poll(m, tick)
        PROVE  registered' = registered
      BY <2>7 DEF Poll, connVars
  <2>8. ASSUME NEW m \in IoLoops, DropTimer(m) \/ ExpireTimer(m)
        PROVE  registered' = registered
      BY <2>8 DEF DropTimer, ExpireTimer, connVars
  <2> QED
      BY Steps, <2>2, <2>3, <2>4, <2>5, <2>6, <2>7, <2>8
      DEF Quiet, connVars, NewConnection, Functors1
<1> QED
    BY <1>1, <1>2

\* A functor stays timely until it has run, and what is pushed is.
LEMMA TimelyStep ==
  ASSUME ConnInv, [Next]_vars
  PROVE  TimelyInv'
<1> SUFFICES ASSUME NEW l \in Loops, NEW f, f \in Elements(Todo(l)')
             PROVE  /\ f.op = "connectEstablished" =>
                         state'[f.conn] = "kConnecting"
                    /\ f.op \in {"removeConnInLoop", "connectDestroyed"} =>
                         state'[f.conn] = "kDisconnected"
    BY DEF TimelyInv, Timely
<1> TypeOK /\ state \in [Conns -> {"none", "kConnecting"} \cup Open
                                    \cup {"kDisconnected"}]
    BY DEF ConnInv, TypeInv, TypeOK
\* It was there before; when connectEstablished runs, it is there no more.
<1>1. CASE f \in Elements(Todo(l))
  <2>1. /\ f \in Functors /\ Timely(f) /\ f.conn \in Conns
        /\ f \in Elements(pending[l]) \cup Elements(batch[l])
    <3>1. f \in Functors /\ f \in Elements(pending[l]) \cup Elements(batch[l])
        BY <1>1, TodoTypes
    <3> QED
        BY <1>1, <3>1 DEF ConnInv, StateInv, TimelyInv, Functors
  <2>2. ASSUME f.op \in {"removeConnInLoop", "connectDestroyed"}
        PROVE  state'[f.conn] = "kDisconnected"
    <3>1. state[f.conn] = "kDisconnected"
        BY <2>1, <2>2 DEF Timely
    <3> QED
        BY <2>1, <3>1, MoveStep DEF Open
  <2>3. ASSUME f.op = "connectEstablished"
        PROVE  state'[f.conn] = "kConnecting"
    <3>1. state[f.conn] = "kConnecting"
        BY <2>1, <2>3 DEF Timely
    <3>2. ASSUME NEW m, Establishes(m, f.conn)
          PROVE  FALSE
      <4>1. Running(m, "connectEstablished") /\ m \in Loops
          BY <3>2 DEF Establishes, ConnectEstablished
      <4>2. /\ NextFunctor(m) \in Functors
            /\ NextFunctor(m).op = "connectEstablished"
            /\ m = loopOf[NextFunctor(m).conn]
            /\ NextFunctor(m).conn = f.conn
          BY <3>2, <4>1, RunFacts DEF Establishes
      <4>3. NextFunctor(m) = f
          BY <2>1, <2>3, <4>2 DEF Functors
      <4>4. m = l
          BY <2>1, <2>3, <4>2, <4>3 DEF ConnInv, OwnLoopInv, FunctorsOwn, OwnFunctor
      <4>5. pending' = pending
          BY <3>2 DEF Establishes, ConnectEstablished
      <4>6. Ran(l)
          BY <4>1, <4>4, <4>5, TodoRun
      <4>7. /\ Todo(l) \in Seq(Functors) /\ Todo(l) # <<>> /\ Single(Todo(l))
            /\ Head(Todo(l)) = f /\ Todo(l)' = Tail(Todo(l))
          BY <4>3, <4>4, <4>6, TodoTypes DEF Ran, ConnInv, StateInv, SingleInv
      <4> QED
          BY <2>3, <4>7, SingleTail DEF Once
    <3> QED
        BY <2>1, <3>1, <3>2, MoveStep DEF Open
  <2> QED
      BY <2>2, <2>3
<1>2. CASE f \notin Elements(Todo(l))
  <2>1. PICK g \in Functors : /\ Todo(l)' = Append(Todo(l), g)
                              /\ Pushed(l, g)
                              /\ PushedWhen(g)
    <3>1. ~(Todo(l)' = Todo(l)) /\ ~Ran(l)
        BY <1>2, TodoTypes, ElementsOf DEF Ran
    <3> QED
        BY <3>1, TodoStep DEF Queued, Pushed
  <2>2. f = g
    <3>1. Elements(Append(Todo(l), g)) = Elements(Todo(l)) \cup {g}
        BY TodoTypes, ElementsOf
    <3> QED
        BY <1>2, <2>1, <3>1
  <2>3. CASE NewConnection /\ g = Functor("connectEstablished", accepted + 1)
    <3>1. accepted + 1 \in Conns
        BY <2>3 DEF Functor, Functors
    <3>2. state'[accepted + 1] = "kConnecting"
        BY <2>3, <3>1 DEF NewConnection
    <3> QED
        BY <2>2, <2>3, <3>2 DEF Functor
  <2>4. ASSUME NEW c \in Conns, state[c] \in Open, HandleClose(c),
               g = Functor("removeConnInLoop", c)
        PROVE  state'[f.conn] = "kDisconnected" /\ f.op # "connectEstablished"
      BY <2>2, <2>4 DEF HandleClose, Functor
  <2>5. ASSUME NEW m \in Loops, NEW c \in Conns, RemoveConnInLoop(m),
               c = NextFunctor(m).conn, g = Functor("connectDestroyed", c)
        PROVE  state'[f.conn] = "kDisconnected" /\ f.op # "connectEstablished"
    <3>1. Running(m, "removeConnInLoop") /\ UNCHANGED state
        BY <2>5 DEF RemoveConnInLoop
    <3>2. state[c] = "kDisconnected"
        BY <2>5, <3>1, RunFacts DEF Timely
    <3> QED
        BY <2>2, <2>5, <3>1, <3>2 DEF Functor
  <2>6. ASSUME NEW c \in Conns, g = Functor("forceCloseInLoop", c)
        PROVE  f.op = "forceCloseInLoop"
      BY <2>2, <2>6 DEF Functor
  <2> QED
      BY <2>1, <2>3, <2>4, <2>5, <2>6, <2>2 DEF PushedWhen, Functor
<1> QED
    BY <1>1, <1>2

\* What there is one of is pushed once.
LEMMA SingleStep ==
  ASSUME ConnInv, [Next]_vars
  PROVE  SingleInv'
<1> SUFFICES ASSUME NEW l \in Loops
             PROVE  Single(Todo(l)')
    BY DEF SingleInv, Single
<1> Todo(l) \in Seq(Functors) /\ Single(Todo(l)) /\ TypeOK
    BY TodoTypes DEF ConnInv, StateInv, SingleInv, TypeInv
<1>1. CASE Todo(l)' = Todo(l)
    BY <1>1
<1>2. CASE Ran(l)
    BY <1>2, SingleTail DEF Ran
<1>3. ASSUME NEW g \in Functors, Todo(l)' = Append(Todo(l), g), PushedWhen(g)
      PROVE  Single(Todo(l)')
  <2>1. \A f \in Elements(Todo(l)) : f.conn <= accepted /\ Timely(f)
      BY TodoTypes
      DEF ConnInv, OwnLoopInv, FunctorsOwn, OwnFunctor, StateInv, TimelyInv
  <2>2. CASE NewConnection /\ g = Functor("connectEstablished", accepted + 1)
    <3>1. accepted \in Nat /\ g.conn = accepted + 1
        BY <2>2 DEF Functor, ConnInv, TypeInv, TypeOK
    <3>2. g \notin Elements(Todo(l))
        BY <2>1, <3>1
    <3> QED
        BY <1>3, <3>2, SingleAppend
  <2>3. ASSUME NEW c \in Conns, state[c] \in Open,
               g = Functor("removeConnInLoop", c)
        PROVE  Single(Todo(l)')
    <3>1. g \notin Elements(Todo(l))
        BY <2>1, <2>3 DEF Timely, Functor, Open
    <3> QED
        BY <1>3, <3>1, SingleAppend
  <2>4. CASE g.op \notin Once
      BY <1>3, <2>4, SingleAppend
  <2> QED
      BY <1>3, <2>2, <2>3, <2>4 DEF PushedWhen, Functor, Once
<1> QED
    BY <1>1, <1>2, <1>3, TodoStep DEF Queued, Pushed

\* It holds at the start.
LEMMA InitState == Init => StateInv
<1> SUFFICES ASSUME Init
             PROVE  StateInv
    OBVIOUS
<1>1. \A c \in Conns : c > 0
    BY LoopsAndNames
<1>2. \A l \in Loops : Todo(l) = <<>>
    BY EmptySeq, RestOfNothing DEF Init, Todo
<1>3. Single(<<>>)
    BY EmptySeq, LenProperties DEF Single
<1>4. MadeInv /\ RegisteredInv /\ ActiveInv
    BY <1>1 DEF Init, MadeInv, RegisteredInv, ActiveInv, Open
<1> QED
    BY <1>2, <1>3, <1>4, NoElements DEF StateInv, TimelyInv, SingleInv

\* The whole invariant holds throughout.
LEMMA ConnInvariant == Spec => []ConnInv
<1>1. ConnInv /\ [Next]_vars => ConnInv'
  <2> SUFFICES ASSUME ConnInv, [Next]_vars
               PROVE  ConnInv'
      OBVIOUS
  <2>1. TypeInv' /\ OwnLoopInv'
      BY TypesKept, GivenStep, ActiveStep, FunctorsStep, TimersStep
      DEF ConnInv, OwnLoopInv
  <2>2. StateInv'
      BY MadeStep, RegisteredStep, ActiveInvStep, TimelyStep, SingleStep
      DEF StateInv
  <2> QED
      BY <2>1, <2>2 DEF ConnInv
<1>2. Init => ConnInv
    BY InitTypes, InitOwn, InitState DEF ConnInv
<1> QED
    BY <1>1, <1>2, PTL DEF Spec

==============================================================================

---------------------------- MODULE TcpConnection ----------------------------
(***************************************************************************)
(* The sending half of one TcpConnection and its outbuffer, on the loop    *)
(* the connection belongs to, against the send buffer of its socket.       *)
(*                                                                         *)
(* write() returns -1 when the socket has no room or is broken.  The code  *)
(* keeps the result in a size_t, so that -1 is the largest number there    *)
(* is: handleWrite() takes it for bytes written and passes it on to        *)
(* retrive(int), which moves readIndex_ back by one; sendInLoop() takes it *)
(* for more than the message.  readIndex is an Int here, for the size_t it *)
(* is modulo 2^64: the only operations on it are + and -.                  *)
(***************************************************************************)
EXTENDS Integers, Sequences

CONSTANTS
  MaxBytes,              \* bound: the bytes of all messages
  Lens,                  \* the lengths of a message
  SockBuf                \* the size of the send buffer of the socket

ASSUME SizesOK == /\ MaxBytes \in Nat /\ SockBuf \in Nat \ {0}
                  /\ Lens \subseteq Nat \ {0}

VARIABLES
  state,                 \* state_
  pc,                    \* "handleWrite" inside sendInLoop(), before its call
  asked,                 \* bytes handed to send(); byte n is the number n
  data,                  \* outbuffer up to writeIndex_
  readIndex,             \* readIndex_ of outbuffer
  sent,                  \* the bytes the socket has taken, oldest first
  shut,                  \* ::shutdown(sockfd_, SHUT_WR) has been called
  room,                  \* free space of the send buffer
  noSpace,               \* a write has found too little of it
  edge,                  \* epoll has EPOLLOUT to report
  reset,                 \* the client has reset the connection
  refused                \* a write() has returned -1

bufVars == <<data, readIndex>>
sockVars == <<room, noSpace, edge, reset>>
vars == <<state, pc, asked, bufVars, sent, shut, sockVars, refused>>

\* A byte from before the beginning of the vector.
Junk == 0

Init ==
  /\ state = "kConnected"
  /\ pc = "idle"
  /\ asked = 0
  /\ data = <<>>
  /\ readIndex = 0
  /\ sent = <<>>
  /\ shut = FALSE
  /\ room = SockBuf
  /\ noSpace = FALSE
  /\ edge = FALSE
  /\ reset = FALSE
  /\ refused = FALSE

------------------------------------------------------------------------------
(* outbuffer.                                                              *)

readableBytes == Len(data) - readIndex

\* What write() finds at readbegin().
readable ==
  [i \in 1 .. readableBytes |->
     IF readIndex + i < 1 THEN Junk ELSE data[readIndex + i]]

------------------------------------------------------------------------------
(* The pieces that are easiest to get wrong, each after a variant with a   *)
(* mistake one could make in it (Bug_...), which no action uses.           *)

\* shutdownInLoop() waits for outbuffer to be empty.
Bug_ShutAtOnce == TRUE
MayShut == readableBytes = 0

\* The part of a message not written yet: append(msg + writen, len - writen).
Bug_RestFromStart(msg, n) == SubSeq(msg, 1, Len(msg) - n)
Rest(msg, n) == SubSeq(msg, n + 1, Len(msg))

\* handleWrite() calls shutdownInLoop() when it has emptied outbuffer and
\* state_ is kDisconnecting.
Bug_NeverShut == FALSE
ShutWhenEmpty == state = "kDisconnecting"

\* outbuffer.init() once all is written.
Bug_IndexKept(n) == readIndex + n
IndexAfterLast(n) == 0

------------------------------------------------------------------------------
(* The socket (external).                                                  *)

\* write() of len bytes takes n of them, or refuses (-1).
Accepts(len, n) ==
  /\ ~reset
  /\ n \in 1 .. len /\ n <= room
  /\ room' = room - n
  /\ noSpace' = (noSpace \/ n < len)
  /\ UNCHANGED <<edge, reset, refused>>

Refuses ==
  /\ reset \/ room = 0
  /\ noSpace' = TRUE
  /\ refused' = TRUE
  /\ UNCHANGED <<room, edge, reset>>

\* The client reads and the send buffer drains; epoll reports it if a write
\* had run out of space.
Drain ==
  /\ ~reset
  /\ room < SockBuf
  /\ \E n \in 1 .. SockBuf - room : room' = room + n
  /\ edge' = (edge \/ noSpace)
  /\ noSpace' = FALSE
  /\ UNCHANGED <<state, pc, asked, bufVars, sent, shut, reset, refused>>

Reset ==
  /\ ~reset
  /\ reset' = TRUE
  /\ edge' = TRUE
  /\ UNCHANGED <<state, pc, asked, bufVars, sent, shut, room, noSpace,
                 refused>>

------------------------------------------------------------------------------
(* TcpConnection.                                                          *)

\* send() and sendInLoop() of the next len bytes, up to handleWrite().
Send(len) ==
  LET msg == [i \in 1 .. len |-> asked + i] IN
  /\ pc = "idle"
  /\ state = "kConnected"
  /\ asked + len <= MaxBytes
  /\ asked' = asked + len
  /\ \/ /\ readableBytes = 0
        /\ \E n \in 1 .. len :
             /\ Accepts(len, n)
             /\ sent' = sent \o SubSeq(msg, 1, n)
             /\ data' = data \o Rest(msg, n)
             /\ pc' = IF n < len THEN "handleWrite" ELSE "idle"
     \/ /\ readableBytes = 0             \* writen is not less than len
        /\ Refuses
        /\ UNCHANGED <<pc, data, sent>>
     \/ /\ readableBytes # 0
        /\ data' = data \o msg
        /\ pc' = "handleWrite"
        /\ UNCHANGED <<sent, sockVars, refused>>
  /\ UNCHANGED <<state, readIndex, shut>>

\* EPOLLOUT, which epoll reports for its own edge and along with any other
\* event of a socket that has room.
EpollOut ==
  /\ pc = "idle"
  /\ state # "kDisconnected"
  /\ IF reset THEN edge ELSE room > 0
  /\ pc' = "handleWrite"
  /\ edge' = FALSE
  /\ UNCHANGED <<state, asked, bufVars, sent, shut, room, noSpace, reset,
                 refused>>

\* handleWrite(): n = write(...) bytes of outbuffer.
HandleWrite ==
  /\ pc = "handleWrite"
  /\ pc' = "idle"
  /\ \/ /\ readableBytes > 0
        /\ \E n \in 1 .. readableBytes :
             /\ Accepts(readableBytes, n)
             /\ sent' = sent \o SubSeq(readable, 1, n)
             /\ IF n = readableBytes
                  THEN /\ data' = <<>>
                       /\ readIndex' = IndexAfterLast(n)
                       /\ shut' = (shut \/ ShutWhenEmpty)
                  ELSE /\ readIndex' = readIndex + n
                       /\ UNCHANGED <<data, shut>>
     \/ /\ readableBytes > 0
        /\ Refuses
        /\ readIndex' = readIndex - 1    \* retrive(-1)
        /\ UNCHANGED <<data, sent, shut>>
     \/ /\ readableBytes = 0
        /\ UNCHANGED <<bufVars, sent, shut, sockVars, refused>>
  /\ UNCHANGED <<state, asked>>

\* shutdown(), and shutdownInLoop() at once.
Shutdown ==
  /\ pc = "idle"
  /\ state = "kConnected"
  /\ state' = "kDisconnecting"
  /\ shut' = MayShut
  /\ UNCHANGED <<pc, asked, bufVars, sent, sockVars, refused>>

\* forceClose(), whose forceCloseInLoop() is still to come.
ForceClose ==
  /\ pc = "idle"
  /\ state = "kConnected"
  /\ state' = "kDisconnecting"
  /\ UNCHANGED <<pc, asked, bufVars, sent, shut, sockVars, refused>>

\* handleClose(), for the end of file of the client or for forceClose().
HandleClose ==
  /\ pc = "idle"
  /\ state # "kDisconnected"
  /\ state' = "kDisconnected"
  /\ UNCHANGED <<pc, asked, bufVars, sent, shut, sockVars, refused>>

------------------------------------------------------------------------------
Next ==
  \/ \E len \in Lens : Send(len)
  \/ EpollOut \/ HandleWrite \/ Shutdown \/ ForceClose \/ HandleClose
  \/ Drain \/ Reset

\* The loop goes on, and handles the events it is due; a client that stays
\* reads what it is sent.
Fairness ==
  /\ WF_vars(HandleWrite)
  /\ WF_vars(edge /\ EpollOut)
  /\ WF_vars(Drain)

Spec == Init /\ [][Next]_vars /\ Fairness

------------------------------------------------------------------------------
TypeOK ==
  /\ state \in {"kConnected", "kDisconnecting", "kDisconnected"}
  /\ pc \in {"idle", "handleWrite"}
  /\ asked \in 0 .. MaxBytes
  /\ data \in Seq(1 .. MaxBytes)
  /\ readIndex \in Int /\ readIndex <= Len(data)
  /\ sent \in Seq(0 .. MaxBytes)
  /\ shut \in BOOLEAN /\ noSpace \in BOOLEAN /\ edge \in BOOLEAN
  /\ reset \in BOOLEAN /\ refused \in BOOLEAN
  /\ room \in 0 .. SockBuf

\* As long as write() takes something each time it is called, the client is
\* sent what the server asked to send, byte for byte, and outbuffer holds the
\* rest, across partial writes and several messages.
IntactUnlessRefused ==
  ~refused => sent \o readable = [i \in 1 .. asked |-> i]

\* The sending side is shut only behind all that was buffered: no response
\* is cut off by shutdown(), and none is sent after it.
ShutBehindData == shut => readableBytes = 0 /\ state # "kConnected"

\* A connection that is to be shut down is, when its data is out, unless it
\* is closed or the client resets it.
ShutdownCompletes ==
  (state = "kDisconnecting" /\ readableBytes > 0)
    ~> (shut \/ state = "kDisconnected" \/ reset)

------------------------------------------------------------------------------
(* What a comment of the code says and the code does not do.               *)

\* Buffer.h: what the socket does not take is kept in the Buffer, and written
\* the next time.
NothingDropped == ~reset => asked <= Len(sent) + readableBytes
==============================================================================

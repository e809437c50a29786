----------------------------- MODULE HttpRequest -----------------------------
(***************************************************************************)
(* The requests of one connection: inbuffer, the parser of HttpSever over  *)
(* it (parse_main), and what onMessage() makes of the result.  All of it   *)
(* runs on the loop of the connection; the client may send, in pieces and  *)
(* ahead of the answers, at any time.                                      *)
(*                                                                         *)
(* What is sent is a sequence of cells: the text of a line, the end of a   *)
(* line, a piece of a body.  A read takes any number of them, so that a    *)
(* request, or a line, may arrive in parts.  A cell has the number of the  *)
(* request it belongs to, which the parser does not look at.               *)
(*                                                                         *)
(* inbuffer keeps what was once in it: bytes beyond writeIndex_ stay until *)
(* something is written over them.  Beyond data the vector is zero.        *)
(***************************************************************************)
EXTENDS Integers, Sequences, FiniteSets

CONSTANTS
  Requests,              \* what a client may send, each a sequence of kinds
  BodyLen,               \* the Content-Length it gives
  MaxRequests            \* bound: requests of the client

\* The kinds of a cell.  "get" is a request line, "keep" the header
\* Connection: keep-alive, "len" a Content-Length, "other" any other header,
\* "junk" a text that is none of these, "crlf" and "lf" end a line, "nul" is
\* what the parser leaves of an end of line.
Kinds == {"get", "keep", "len", "other", "junk", "crlf", "lf", "body", "nul"}

ASSUME ConstantsOK ==
  /\ Requests \subseteq Seq(Kinds \ {"nul"}) \ {<<>>}
  /\ BodyLen \in Nat \ {0} /\ MaxRequests \in Nat

\* Where a request ends: only its first cell can be a request line, and behind
\* an empty line there is at most a body, as long as a Content-Length above it
\* says.
ASSUME RequestsFramed ==
  \A r \in Requests :
    /\ \A i \in DOMAIN r : r[i] = "get" => i = 1
    /\ \A e \in DOMAIN r : e > 1 /\ r[e - 1] = "crlf" /\ r[e] = "crlf" =>
         \/ Len(r) = e
         \/ /\ Len(r) <= e + BodyLen
            /\ \E i \in 2 .. e : r[i - 1] = "crlf" /\ r[i] = "len"

\* What a request is made of: a request line or junk first; then a bare "\n",
\* which stops the parser, or an empty line, and behind that a body of just the
\* length a Content-Length above it says; and a Connection: keep-alive is a line
\* of its own, with no bare "\n" behind it.
ASSUME RequestsWhole ==
  \A r \in Requests :
    /\ \A i \in DOMAIN r : i = 1 <=> r[i] \in {"get", "junk"}
    /\ \/ \E i \in DOMAIN r : r[i] = "lf"
       \/ \E e \in 2 .. Len(r) : r[e - 1] = "crlf" /\ r[e] = "crlf"
    /\ \A e \in 2 .. Len(r) : r[e - 1] = "crlf" /\ r[e] = "crlf" =>
         /\ \A i \in e + 1 .. Len(r) : r[i] = "body"
         /\ (\E i \in 2 .. e : r[i - 1] = "crlf" /\ r[i] = "len") =>
              Len(r) = e + BodyLen
    /\ \A i \in DOMAIN r : r[i] = "keep" =>
         /\ i < Len(r) /\ r[i - 1] \in {"crlf", "lf"} /\ r[i + 1] = "crlf"
         /\ \A j \in i .. Len(r) : r[j] # "lf"

VARIABLES
  stream,                \* the cells the client has sent
  ends,                  \* where each of its requests ends in stream
  got,                   \* how much of stream has been read
  data,                  \* buffer_ of inbuffer
  writeIndex, readIndex, checkIndex,
  pc,                    \* "idle", or in onMessage(): "parse", "respond"
  checkstate, lineStatus,          \* of parse_main()
  contentLength, linger, current,  \* of its HttpData, and the number of the
                                   \* request whose line it has parsed
  ret,                   \* what parse_main() has returned
  state,                 \* state_
  answers,               \* the responses sent
  moved,                 \* init() has found unread bytes
  whole,                 \* each read has ended at the end of a request
  single                 \* each read has brought one request

clientVars == <<stream, ends>>
bufVars == <<data, writeIndex, readIndex, checkIndex>>
parseVars == <<checkstate, lineStatus, contentLength, linger, current>>
connVars == <<state, answers>>
readVars == <<got, whole, single>>
vars == <<clientVars, readVars, bufVars, pc, parseVars, ret, connVars, moved>>

Init ==
  /\ stream = <<>>
  /\ ends = <<>>
  /\ got = 0
  /\ data = <<>>
  /\ writeIndex = 0
  /\ readIndex = 0
  /\ checkIndex = 0
  /\ pc = "idle"
  /\ checkstate = "REQUESTLINE"
  /\ lineStatus = "LINE_OK"
  /\ contentLength = 0
  /\ linger = FALSE
  /\ current = 0
  /\ ret = "OPEN_REQUEST"
  /\ state = "kConnected"
  /\ answers = <<>>
  /\ moved = FALSE
  /\ whole = TRUE
  /\ single = TRUE

------------------------------------------------------------------------------
(* inbuffer and its lines.                                                 *)

Nul == [kind |-> "nul", req |-> 0]

\* findLine() searches to the end of the vector.
LineEnds ==
  {p \in readIndex + 1 .. Len(data) : data[p].kind \in {"crlf", "lf"}}
LineEnd == CHOOSE p \in LineEnds : \A q \in LineEnds : p <= q

\* parse_line() returns LINE_OK; a line that ends without '\r' is LINE_BAD.
LineOk == LineEnds # {} /\ data[LineEnd].kind = "crlf"

\* LINE_OK has put NULs over the end of the line.
DataAfterLine == [data EXCEPT ![LineEnd] = Nul]

\* The string at checkPeek(), then.
Text ==
  LET start == checkIndex + 1
      nul == CHOOSE p \in start .. LineEnd :
               /\ DataAfterLine[p].kind = "nul"
               /\ \A q \in start .. p - 1 : DataAfterLine[q].kind # "nul"
  IN SubSeq(data, start, nul - 1)
TextIs(kind) == Text # <<>> /\ Text[1].kind = kind

------------------------------------------------------------------------------
(* The pieces that are easiest to get wrong, each after a variant with a   *)
(* mistake one could make in it (Bug_...), which no action uses.           *)

\* parse_request_content(): readend() >= checkPeek() + m_content_length.
Bug_BodyShort == writeIndex + 1 >= checkIndex + contentLength
BodyRead == writeIndex >= checkIndex + contentLength

\* init() resets checkInex_ with the other indices.
Bug_CheckKept == checkIndex
CheckAfterInit == 0

\* The next line is parsed behind the last: buff.checkFinish().
Bug_NotFinished == checkIndex
CheckFinish == LineEnd

------------------------------------------------------------------------------
(* The client (external).                                                  *)

Send(request) ==
  LET n == Len(ends) + 1 IN
  /\ n <= MaxRequests
  /\ stream' = stream \o [i \in DOMAIN request |->
                            [kind |-> request[i], req |-> n]]
  /\ ends' = Append(ends, Len(stream'))
  /\ UNCHANGED <<readVars, bufVars, pc, parseVars, ret, connVars, moved>>

------------------------------------------------------------------------------
(* handleRead() and onMessage().                                           *)

\* readfd() finds k cells, and onMessage() begins with a new HttpData.
HandleRead(k) ==
  /\ pc = "idle"
  /\ got + k <= Len(stream)
  /\ got' = got + k
  /\ whole' = (whole /\ \E n \in DOMAIN ends : got' = ends[n])
  /\ single' = (single /\ whole' /\
                Cardinality({n \in DOMAIN ends : ends[n] \in got + 1 .. got'}) = 1)
  /\ data' = SubSeq(data, 1, writeIndex) \o SubSeq(stream, got + 1, got')
               \o SubSeq(data, writeIndex + k + 1, Len(data))
  /\ writeIndex' = writeIndex + k
  /\ pc' = "parse"
  /\ checkstate' = "REQUESTLINE"
  /\ lineStatus' = "LINE_OK"
  /\ contentLength' = 0
  /\ linger' = FALSE
  /\ current' = 0
  /\ UNCHANGED <<clientVars, readIndex, checkIndex, ret, connVars, moved>>

\* do_request() finds a file to send, or does not: NO_REQUEST,
\* FORBIDDEN_REQUEST and, for a directory, BAD_REQUEST are one outcome here,
\* "NO_FILE", as they differ only in the wording of the answer.  The
\* BAD_REQUEST with which the parser itself rejects a request is told apart
\* from it, as "MALFORMED".
DoRequest ==
  /\ ret' \in {"FILE_REQUEST", "NO_FILE"}
  /\ pc' = "respond"

\* One line of parse_main().
TakeLine ==
  /\ pc = "parse"
  /\ LineOk
  /\ data' = DataAfterLine
  /\ readIndex' = LineEnd
  /\ checkIndex' = CheckFinish
  /\ UNCHANGED <<clientVars, readVars, writeIndex, lineStatus, connVars, moved>>

ParseRequestLine ==
  /\ checkstate = "REQUESTLINE"
  /\ TakeLine
  /\ current' = IF Text = <<>> THEN 0 ELSE Text[1].req
  /\ IF TextIs("get")
       THEN /\ checkstate' = "HEADER"
            /\ UNCHANGED <<pc, ret>>
       ELSE /\ ret' = "MALFORMED"
            /\ pc' = "respond"
            /\ UNCHANGED checkstate
  /\ UNCHANGED <<contentLength, linger>>

ParseHeader ==
  /\ checkstate = "HEADER"
  /\ TakeLine
  /\ Text # <<>>
  /\ linger' = (linger \/ (TextIs("keep") /\ Len(Text) = 1))
  /\ contentLength' = IF TextIs("len") THEN BodyLen ELSE contentLength
  /\ UNCHANGED <<pc, checkstate, current, ret>>

\* The empty line.
ParseEndOfHeader ==
  /\ checkstate = "HEADER"
  /\ TakeLine
  /\ Text = <<>>
  /\ IF contentLength = 0
       THEN DoRequest /\ UNCHANGED checkstate
       ELSE checkstate' = "CONTENT" /\ UNCHANGED <<pc, ret>>
  /\ UNCHANGED <<contentLength, linger, current>>

\* The body.  When it is incomplete, the loop goes on as long as parse_line()
\* finds a line in it; nothing takes the body out of the buffer.  A NUL is
\* written behind the body, over a byte of the vector.  (When the body ends
\* where the vector does, the byte is one past its end: that undefined write
\* is left out, and so is a Content-Length that is negative or overflows.)
ParseContent ==
  LET lined == lineStatus # "LINE_OK"
      buf == IF lined THEN DataAfterLine ELSE data
      after == checkIndex + contentLength + 1
  IN
  /\ pc = "parse"
  /\ checkstate = "CONTENT"
  /\ lined => LineOk
  /\ readIndex' = IF lined THEN LineEnd ELSE readIndex
  /\ IF BodyRead
       THEN /\ data' = IF after <= Len(buf) THEN [buf EXCEPT ![after] = Nul]
                                            ELSE buf
            /\ checkIndex' = readIndex'
            /\ DoRequest
            /\ UNCHANGED lineStatus
       ELSE /\ data' = buf
            /\ lineStatus' = "LINE_INCOMPLETE"
            /\ UNCHANGED <<checkIndex, pc, ret>>
  /\ UNCHANGED <<clientVars, readVars, writeIndex, checkstate, contentLength,
                 linger, current, connVars, moved>>

\* No line, or one that is bad.
ParseNoLine ==
  /\ pc = "parse"
  /\ ~(checkstate = "CONTENT" /\ lineStatus = "LINE_OK")
  /\ ~LineOk
  /\ ret' = "OPEN_REQUEST"
  /\ pc' = "respond"
  /\ UNCHANGED <<clientVars, readVars, bufVars, parseVars, connVars, moved>>

\* do_response() and send(), which sends nothing once state_ has changed.
Responded ==
  IF state = "kConnected" /\ ret # "OPEN_REQUEST"
    THEN Append(answers, [req |-> current, code |-> ret, linger |-> linger,
                          got |-> got])
    ELSE answers

\* Without keep-alive: shutdown(), and inbuffer stays as it is.
RespondAndShutdown ==
  /\ pc = "respond"
  /\ ~linger
  /\ answers' = Responded
  /\ state' = "kDisconnecting"
  /\ pc' = "idle"
  /\ UNCHANGED <<clientVars, readVars, bufVars, parseVars, ret, moved>>

\* init() moves what has not been read to the front.  When findLine() has
\* gone past writeIndex_, the range it copies ends before it begins, and what
\* happens is undefined.
InitBuffer ==
  LET unread == writeIndex - readIndex IN
  /\ readIndex' = 0
  /\ checkIndex' = CheckAfterInit
  /\ moved' = (moved \/ unread # 0)
  /\ IF unread < 0 THEN UNCHANGED <<data, writeIndex>>
     ELSE /\ writeIndex' = unread
          /\ data' =
               IF unread = 0 /\ writeIndex = Len(data) THEN <<>>
               ELSE [i \in DOMAIN data |->
                       IF i <= unread THEN data[readIndex + i]
                       ELSE IF unread = 0 /\ i <= writeIndex THEN Nul
                       ELSE data[i]]

\* With keep-alive.
RespondAndKeep ==
  /\ pc = "respond"
  /\ linger
  /\ answers' = Responded
  /\ InitBuffer
  /\ pc' = IF readIndex <= writeIndex THEN "idle" ELSE "undefined"
  /\ UNCHANGED <<clientVars, readVars, parseVars, ret, state>>

------------------------------------------------------------------------------
ParseMain ==
  \/ ParseRequestLine \/ ParseHeader \/ ParseEndOfHeader
  \/ ParseContent \/ ParseNoLine

Next ==
  \/ \E request \in Requests : Send(request)
  \/ \E k \in 1 .. Len(stream) : HandleRead(k)
  \/ ParseMain
  \/ RespondAndShutdown \/ RespondAndKeep

Spec == Init /\ [][Next]_vars

------------------------------------------------------------------------------
Cells == [kind : Kinds, req : 0 .. MaxRequests]
Codes == {"FILE_REQUEST", "NO_FILE", "MALFORMED"}

\* Types; and the indices are in order, up to the first time that init() has
\* found unread bytes.
TypeOK ==
  /\ stream \in Seq(Cells)
  /\ ends \in Seq(1 .. Len(stream))
  /\ got \in 0 .. Len(stream)
  /\ data \in Seq(Cells)
  /\ checkIndex <= readIndex /\ writeIndex <= Len(data)
  /\ moved \/ readIndex <= writeIndex
  /\ pc \in {"idle", "parse", "respond", "undefined"}
  /\ pc = "undefined" => moved
  /\ checkstate \in {"REQUESTLINE", "HEADER", "CONTENT"}
  /\ lineStatus \in {"LINE_OK", "LINE_INCOMPLETE"}
  /\ contentLength \in {0, BodyLen}
  /\ linger \in BOOLEAN
  /\ current \in 0 .. MaxRequests
  /\ ret \in Codes \cup {"OPEN_REQUEST"}
  /\ state \in {"kConnected", "kDisconnecting"}
  /\ answers \in Seq([req : 0 .. MaxRequests, code : Codes, linger : BOOLEAN,
                      got : Nat])
  /\ moved \in BOOLEAN /\ whole \in BOOLEAN /\ single \in BOOLEAN

\* Request n has a cell of that kind.
Has(n, kind) == \E i \in DOMAIN stream : stream[i] = [kind |-> kind, req |-> n]

\* A kept request with a body, which stays in the buffer behind it.
BodyKept == \E n \in DOMAIN ends : Has(n, "keep") /\ Has(n, "body")

\* As long as each read ends at the end of a request, and no kept request has
\* a body, the answers are those of the requests, one for each and in order,
\* the parser has rejected just the malformed ones (do_request() may answer
\* 400 to others), and an answer without keep-alive is the last; and if each
\* read brings just one request, it is answered at once, and nothing but such
\* an answer, or an end of line without '\r', ends the connection.
AnswersInOrder ==
  whole /\ ~BodyKept =>
    /\ \A i \in DOMAIN answers :
         /\ answers[i].req = i
         /\ answers[i].code = "MALFORMED" <=> Has(i, "junk")
         /\ answers[i].linger <=> Has(i, "keep") /\ ~Has(i, "junk")
         /\ ~answers[i].linger /\ pc = "idle" =>
              i = Len(answers) /\ state = "kDisconnecting"
    /\ single /\ pc = "idle" =>
         LET n == Len(answers) IN
         IF state = "kConnected" THEN got = IF n = 0 THEN 0 ELSE ends[n]
         ELSE (n > 0 /\ ~answers[n].linger) \/ Has(n + 1, "lf")

\* No request is answered, other than by the parser that rejects it, before
\* all of it has been read, body included, however it is cut, up to the first
\* time that init() has found unread bytes: until then findLine() finds no
\* line behind writeIndex_.
NotBeforeComplete ==
  ~moved => \A i \in DOMAIN answers :
    answers[i].code # "MALFORMED" => answers[i].got >= ends[answers[i].req]

------------------------------------------------------------------------------
(* What a comment of the code says and the code does not do.               *)

\* Buffer.h: an incomplete message waits in the Buffer until a read makes it
\* complete, and only then it is processed.
WaitsForWhole ==
  state = "kDisconnecting" => got >= ends[1]
==============================================================================

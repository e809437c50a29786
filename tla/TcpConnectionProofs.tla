-------------------------- MODULE TcpConnectionProofs --------------------------
(***************************************************************************)
(* Proofs about TcpConnection, for messages of any lengths, however many,  *)
(* and a send buffer of any size: the types, what the client is sent as    *)
(* long as write() takes something, and that the sending side is shut only *)
(* behind what was buffered.                                               *)
(***************************************************************************)
EXTENDS TcpConnection, SequenceTheorems, TLAPS

------------------------------------------------------------------------------
(* The sequences of bytes.                                                 *)

\* A function on 1 .. n is a sequence.
LEMMA FunctionSeq ==
  ASSUME NEW S, NEW n \in Nat, NEW f \in [1 .. n -> S]
  PROVE  f \in Seq(S) /\ Len(f) = n
<1>1. f \in Seq(S)
    BY SeqDef
<1>2. Len(f) \in Nat /\ 1 .. Len(f) = 1 .. n
    BY <1>1, LenProperties
<1> QED
    BY <1>1, <1>2

\* The next len bytes that are handed to send().
Message(len) == [i \in 1 .. len |-> asked + i]

\* They are the next bytes.
LEMMA Messages ==
  ASSUME TypeOK, NEW len \in Nat \ {0}, asked + len <= MaxBytes
  PROVE  /\ asked \in Nat /\ asked + len \in 0 .. MaxBytes
         /\ Message(len) \in Seq(1 .. MaxBytes) /\ Len(Message(len)) = len
         /\ \A i \in 1 .. len : Message(len)[i] = asked + i
<1>1. asked \in Nat /\ MaxBytes \in Nat /\ asked + len \in 0 .. MaxBytes
    BY SizesOK DEF TypeOK
<1>2. Message(len) \in [1 .. len -> 1 .. MaxBytes]
    BY <1>1 DEF Message
<1>3. Message(len) \in Seq(1 .. MaxBytes) /\ Len(Message(len)) = len
    BY <1>2, FunctionSeq
<1> QED
    BY <1>1, <1>3 DEF Message

\* What is written of a sequence at first, and the rest of it.
LEMMA Parts ==
  ASSUME NEW S, NEW s \in Seq(S), NEW n \in 1 .. Len(s)
  PROVE  /\ SubSeq(s, 1, n) \in Seq(S) /\ Len(SubSeq(s, 1, n)) = n
         /\ \A i \in 1 .. n : SubSeq(s, 1, n)[i] = s[i]
         /\ Rest(s, n) \in Seq(S) /\ Len(Rest(s, n)) = Len(s) - n
         /\ \A i \in 1 .. Len(s) - n : Rest(s, n)[i] = s[n + i]
<1>0. Len(s) \in Nat /\ \A i \in 1 .. Len(s) : s[i] \in S
    BY LenProperties, ElementOfSeq
<1>1. /\ SubSeq(s, 1, n) \in Seq(S) /\ Len(SubSeq(s, 1, n)) = n
      /\ \A i \in 1 .. n : SubSeq(s, 1, n)[i] = s[i]
  <2>1. \A i \in 1 .. n : s[i] \in S
      BY <1>0
  <2>2. /\ SubSeq(s, 1, n) \in Seq(S)
        /\ Len(SubSeq(s, 1, n)) = IF 1 <= n THEN n - 1 + 1 ELSE 0
        /\ \A i \in 1 .. n - 1 + 1 : SubSeq(s, 1, n)[i] = s[1 + i - 1]
      BY <2>1, SubSeqProperties
  <2> QED
      BY <2>2
<1>2. /\ Rest(s, n) \in Seq(S) /\ Len(Rest(s, n)) = Len(s) - n
      /\ \A i \in 1 .. Len(s) - n : Rest(s, n)[i] = s[n + i]
  <2> DEFINE r == SubSeq(s, n + 1, Len(s))
  <2>1. \A i \in n + 1 .. Len(s) : s[i] \in S
      BY <1>0
  <2>2. n + 1 \in Int /\ Len(s) \in Int
      BY <1>0
  <2>3. /\ r \in Seq(S)
        /\ Len(r) = IF n + 1 <= Len(s) THEN Len(s) - (n + 1) + 1 ELSE 0
        /\ \A i \in 1 .. Len(s) - (n + 1) + 1 : r[i] = s[n + 1 + i - 1]
      BY <2>1, <2>2, SubSeqProperties
  <2> QED
      BY <1>0, <2>3 DEF Rest
<1> QED
    BY <1>1, <1>2

\* What write() finds in outbuffer.
LEMMA Buffered ==
  ASSUME TypeOK
  PROVE  /\ Len(data) \in Nat /\ readIndex \in Int /\ readableBytes \in Nat
         /\ Len(data) = readIndex + readableBytes
         /\ readable \in Seq(0 .. MaxBytes) /\ Len(readable) = readableBytes
         /\ readIndex >= 0 =>
              \A i \in 1 .. readableBytes : readable[i] = data[readIndex + i]
<1>1. /\ data \in Seq(1 .. MaxBytes) /\ Len(data) \in Nat /\ readIndex \in Int
      /\ readIndex <= Len(data) /\ MaxBytes \in Nat
    BY LenProperties, SizesOK DEF TypeOK
<1>2. readableBytes \in Nat /\ Len(data) = readIndex + readableBytes
    BY <1>1 DEF readableBytes
<1>3. \A i \in 1 .. readableBytes :
        readIndex + i >= 1 => data[readIndex + i] \in 1 .. MaxBytes
    BY <1>1, <1>2, ElementOfSeq
<1>4. readable \in [1 .. readableBytes -> 0 .. MaxBytes]
    BY <1>1, <1>2, <1>3 DEF readable, Junk
<1>5. readable \in Seq(0 .. MaxBytes) /\ Len(readable) = readableBytes
    BY <1>2, <1>4, FunctionSeq
<1> QED
    BY <1>1, <1>2, <1>5 DEF readable

------------------------------------------------------------------------------
(* Types.                                                                  *)

\* What write() changes stays typed ...
LEMMA SocketTypes ==
  ASSUME TypeOK, NEW len \in Nat, NEW n, Accepts(len, n) \/ Refuses
  PROVE  /\ room' \in 0 .. SockBuf /\ noSpace' \in BOOLEAN
         /\ edge' \in BOOLEAN /\ reset' \in BOOLEAN /\ refused' \in BOOLEAN
<1>1. room \in 0 .. SockBuf /\ SockBuf \in Nat
    BY SizesOK DEF TypeOK
<1>2. CASE Accepts(len, n)
    BY <1>1, <1>2 DEF TypeOK, Accepts
<1>3. CASE Refuses
    BY <1>1, <1>3 DEF TypeOK, Refuses
<1> QED
    BY <1>2, <1>3

\* ... and what send() changes ...
LEMMA SendTypes ==
  ASSUME TypeOK, NEW len \in Lens, Send(len)
  PROVE  TypeOK'
<1> DEFINE msg == Message(len)
<1>1. len \in Nat \ {0} /\ asked + len <= MaxBytes
    BY SizesOK DEF Send
<1>2. /\ msg \in Seq(1 .. MaxBytes) /\ Len(msg) = len
      /\ asked' \in 0 .. MaxBytes /\ MaxBytes \in Nat
    BY <1>1, Messages, SizesOK DEF Send
<1>3. /\ data \in Seq(1 .. MaxBytes) /\ Len(data) \in Nat /\ readIndex \in Int
      /\ readIndex <= Len(data) /\ sent \in Seq(0 .. MaxBytes)
    BY LenProperties DEF TypeOK
<1>4. /\ state' \in {"kConnected", "kDisconnecting", "kDisconnected"}
      /\ pc' \in {"idle", "handleWrite"} /\ shut' \in BOOLEAN
    BY DEF Send, TypeOK
<1>5. /\ room' \in 0 .. SockBuf /\ noSpace' \in BOOLEAN
      /\ edge' \in BOOLEAN /\ reset' \in BOOLEAN /\ refused' \in BOOLEAN
  <2>1. CASE UNCHANGED <<sockVars, refused>>
      BY <2>1 DEF TypeOK, sockVars
  <2> QED
      BY <1>1, <2>1, SocketTypes DEF Send
\* What outbuffer is given is behind what it has.
<1>6. ASSUME NEW s \in Seq(1 .. MaxBytes), data' = data \o s,
             UNCHANGED readIndex
      PROVE  data' \in Seq(1 .. MaxBytes) /\ readIndex' <= Len(data')
    BY <1>3, <1>6, ConcatProperties, LenProperties
<1>7. /\ data' \in Seq(1 .. MaxBytes)
      /\ readIndex' \in Int /\ readIndex' <= Len(data')
      /\ sent' \in Seq(0 .. MaxBytes)
  <2>0. UNCHANGED readIndex
      BY DEF Send
  <2>1. ASSUME NEW n \in 1 .. len,
               sent' = sent \o SubSeq(msg, 1, n), data' = data \o Rest(msg, n)
        PROVE  /\ data' \in Seq(1 .. MaxBytes) /\ readIndex' <= Len(data')
               /\ sent' \in Seq(0 .. MaxBytes)
    <3>1. /\ SubSeq(msg, 1, n) \in Seq(1 .. MaxBytes)
          /\ Rest(msg, n) \in Seq(1 .. MaxBytes)
        BY <1>2, Parts
    <3>2. SubSeq(msg, 1, n) \in Seq(0 .. MaxBytes)
      <4>1. 1 .. MaxBytes \subseteq 0 .. MaxBytes
          OBVIOUS
      <4> QED
          BY <3>1, <4>1, SeqMonotonic
    <3> QED
        BY <1>3, <1>6, <2>0, <2>1, <3>1, <3>2, ConcatProperties
  <2>2. CASE data' = data \o msg /\ UNCHANGED sent
      BY <1>2, <1>3, <1>6, <2>0, <2>2
  <2>3. CASE UNCHANGED <<data, sent>>
      BY <1>3, <2>0, <2>3
  <2> QED
      BY <1>3, <2>0, <2>1, <2>2, <2>3 DEF Send, Message
<1> QED
    BY <1>2, <1>4, <1>5, <1>7 DEF TypeOK

\* ... and what handleWrite() changes.
LEMMA WriteTypes ==
  ASSUME TypeOK, HandleWrite
  PROVE  TypeOK'
<1>1. /\ data \in Seq(1 .. MaxBytes) /\ Len(data) \in Nat /\ readIndex \in Int
      /\ readIndex <= Len(data) /\ sent \in Seq(0 .. MaxBytes)
      /\ readableBytes \in Nat /\ Len(data) = readIndex + readableBytes
      /\ readable \in Seq(0 .. MaxBytes) /\ Len(readable) = readableBytes
    BY Buffered DEF TypeOK
<1>2. /\ state' \in {"kConnected", "kDisconnecting", "kDisconnected"}
      /\ pc' \in {"idle", "handleWrite"} /\ asked' \in 0 .. MaxBytes
      /\ shut' \in BOOLEAN
    BY DEF HandleWrite, TypeOK, ShutWhenEmpty
<1>3. /\ room' \in 0 .. SockBuf /\ noSpace' \in BOOLEAN
      /\ edge' \in BOOLEAN /\ reset' \in BOOLEAN /\ refused' \in BOOLEAN
  <2>1. CASE UNCHANGED <<sockVars, refused>>
      BY <2>1 DEF TypeOK, sockVars
  <2> QED
      BY <1>1, <2>1, SocketTypes DEF HandleWrite
<1>4. /\ data' \in Seq(1 .. MaxBytes)
      /\ readIndex' \in Int /\ readIndex' <= Len(data')
      /\ sent' \in Seq(0 .. MaxBytes)
  <2>1. ASSUME NEW n \in 1 .. readableBytes,
               sent' = sent \o SubSeq(readable, 1, n)
        PROVE  sent' \in Seq(0 .. MaxBytes)
    <3>1. SubSeq(readable, 1, n) \in Seq(0 .. MaxBytes)
        BY <1>1, Parts
    <3> QED
        BY <1>1, <2>1, <3>1, ConcatProperties
  <2>2. sent' \in Seq(0 .. MaxBytes)
      BY <1>1, <2>1 DEF HandleWrite
  <2>3. CASE data' = <<>> /\ readIndex' = 0
    <3>1. <<>> \in Seq(1 .. MaxBytes) /\ Len(<<>>) = 0
        BY EmptySeq
    <3> QED
        BY <2>2, <2>3, <3>1
  <2>4. ASSUME NEW n \in 1 .. readableBytes, UNCHANGED data,
               readIndex' = readIndex + n
        PROVE  readIndex' \in Int /\ readIndex' <= Len(data')
      BY <1>1, <2>4
  <2>5. CASE UNCHANGED data /\ readIndex' = readIndex - 1
      BY <1>1, <2>2, <2>5
  <2>6. CASE UNCHANGED <<data, readIndex>>
      BY <1>1, <2>2, <2>6
  <2>7. \/ data' = <<>> /\ readIndex' = 0
        \/ /\ UNCHANGED data
           /\ \E n \in 1 .. readableBytes : readIndex' = readIndex + n
        \/ UNCHANGED data /\ readIndex' = readIndex - 1
        \/ UNCHANGED <<data, readIndex>>
      BY DEF HandleWrite, IndexAfterLast, bufVars
  <2> QED
      BY <1>1, <2>2, <2>3, <2>4, <2>5, <2>6, <2>7
<1> QED
    BY <1>2, <1>3, <1>4 DEF TypeOK

\* Every step preserves the types.
LEMMA TypeStep ==
  ASSUME TypeOK, [Next]_vars
  PROVE  TypeOK'
<1>1. CASE EpollOut
    BY <1>1 DEF EpollOut, TypeOK, bufVars
<1>2. CASE Shutdown \/ ForceClose \/ HandleClose
    BY <1>2 DEF Shutdown, ForceClose, HandleClose, MayShut, TypeOK, bufVars,
       sockVars
<1>3. CASE Drain \/ Reset
  <2>1. room' \in 0 .. SockBuf
      BY <1>3, SizesOK DEF Drain, Reset, TypeOK
  <2> QED
      BY <1>3, <2>1 DEF Drain, Reset, TypeOK, bufVars
<1>4. CASE UNCHANGED vars
    BY <1>4 DEF vars, TypeOK, bufVars, sockVars
<1> QED
    BY SendTypes, WriteTypes, <1>1, <1>2, <1>3, <1>4 DEF Next

\* The types, for messages of any lengths and any send buffer: outbuffer is
\* never read beyond its end, although readIndex_ may be moved back before
\* its beginning.
THEOREM TypeCorrect == Spec => []TypeOK
<1>1. Init => TypeOK
  <2>1. 0 \in 0 .. MaxBytes /\ SockBuf \in 0 .. SockBuf
      BY SizesOK
  <2>2. <<>> \in Seq(1 .. MaxBytes) /\ <<>> \in Seq(0 .. MaxBytes) /\ Len(<<>>) = 0
      BY EmptySeq
  <2> SUFFICES ASSUME Init
               PROVE  TypeOK
      OBVIOUS
  <2>3. /\ data \in Seq(1 .. MaxBytes) /\ sent \in Seq(0 .. MaxBytes)
        /\ readIndex \in Int /\ readIndex <= Len(data)
      BY <2>2 DEF Init
  <2>4. asked \in 0 .. MaxBytes /\ room \in 0 .. SockBuf
      BY <2>1 DEF Init
  <2> QED
      BY <2>3, <2>4 DEF Init, TypeOK
<1> QED
    BY <1>1, TypeStep, PTL DEF Spec

------------------------------------------------------------------------------
(* The end of what is sent.                                                *)

\* A step that shuts the sending side finds outbuffer empty, and nothing is
\* put into it afterwards.
LEMMA ShutStep ==
  ASSUME TypeOK, ShutBehindData, [Next]_vars
  PROVE  ShutBehindData'
<1>0. Len(<<>>) = 0
    BY EmptySeq
<1>1. ASSUME NEW len, Send(len)
      PROVE  ~shut'
    BY <1>1 DEF Send, ShutBehindData
<1>2. CASE HandleWrite
  <2>1. CASE shut
    <3>1. readableBytes = 0 /\ state # "kConnected"
        BY <2>1 DEF ShutBehindData
    <3>2. UNCHANGED <<data, readIndex, state>>
        BY <1>2, <3>1 DEF HandleWrite, bufVars
    <3> QED
        BY <3>1, <3>2 DEF ShutBehindData, readableBytes
  <2>2. CASE ~shut /\ shut'
    <3>1. /\ data' = <<>> /\ readIndex' = 0
          /\ state = "kDisconnecting" /\ UNCHANGED state
        BY <1>2, <2>2 DEF HandleWrite, ShutWhenEmpty, IndexAfterLast
    <3> QED
        BY <1>0, <3>1 DEF ShutBehindData, readableBytes
  <2> QED
      BY <2>1, <2>2 DEF ShutBehindData
<1>3. CASE Shutdown
    BY <1>3 DEF Shutdown, MayShut, ShutBehindData, readableBytes, bufVars
<1>4. CASE EpollOut \/ ForceClose \/ HandleClose \/ Drain \/ Reset
    BY <1>4 DEF EpollOut, ForceClose, HandleClose, Drain, Reset, ShutBehindData,
       readableBytes, bufVars
<1>5. CASE UNCHANGED vars
    BY <1>5 DEF vars, ShutBehindData, readableBytes, bufVars
<1> QED
    BY <1>1, <1>2, <1>3, <1>4, <1>5 DEF Next, ShutBehindData

\* The sending side is shut only when outbuffer is empty and nothing is sent
\* any more, for any messages, partial writes and refused ones.
THEOREM ShutLast == Spec => []ShutBehindData
<1>1. Init => ShutBehindData
    BY DEF Init, ShutBehindData
<1> QED
    BY <1>1, ShutStep, TypeCorrect, PTL DEF Spec

------------------------------------------------------------------------------
(* What the client is sent.                                                *)

\* Byte n is the n-th of what the socket has taken, or is in outbuffer behind
\* readIndex_ at the place that follows from that.
Intact ==
  /\ readIndex >= 0
  /\ Len(sent) + (Len(data) - readIndex) = asked
  /\ \A i \in 1 .. Len(sent) : sent[i] = i
  /\ \A j \in 1 .. Len(data) :
       readIndex < j => data[j] = Len(sent) + (j - readIndex)
IntactInv == ~refused => Intact

\* send(): what write() does not take is put behind what is waiting.
LEMMA SendIntact ==
  ASSUME TypeOK, Intact, NEW len \in Lens, Send(len), ~refused'
  PROVE  Intact'
<1> DEFINE msg == Message(len)
<1>1. len \in Nat \ {0} /\ asked' = asked + len /\ asked + len <= MaxBytes
    BY SizesOK DEF Send
<1>2. /\ asked \in Nat /\ msg \in Seq(1 .. MaxBytes) /\ Len(msg) = len
      /\ \A i \in 1 .. len : msg[i] = asked + i
    BY <1>1, Messages
<1>3. /\ data \in Seq(1 .. MaxBytes) /\ Len(data) \in Nat /\ readIndex \in Nat
      /\ readableBytes \in Nat /\ Len(data) = readIndex + readableBytes
      /\ sent \in Seq(0 .. MaxBytes) /\ Len(sent) \in Nat
    BY Buffered, LenProperties DEF TypeOK, Intact
<1>4. readIndex' = readIndex
    BY DEF Send
<1>5. /\ \A i \in 1 .. Len(sent) : sent[i] = i
      /\ \A j \in 1 .. Len(data) :
           readIndex < j => data[j] = Len(sent) + (j - readIndex)
    BY DEF Intact
<1> HIDE DEF msg
<1>6. /\ len \in Nat \ {0} /\ asked \in Nat /\ Len(data) \in Nat
      /\ readIndex \in Nat /\ Len(sent) \in Nat
      /\ Len(data) = readIndex + readableBytes
    BY <1>1, <1>2, <1>3
<1>7. asked = Len(sent) + (Len(data) - readIndex)
    BY DEF Intact
<1>8. CASE readableBytes # 0
  <2>1. data' = data \o msg /\ sent' = sent
      BY <1>8 DEF Send, Message, msg
  <2>2. /\ Len(data') = Len(data) + len
        /\ \A j \in 1 .. Len(data) + len :
             data'[j] = IF j <= Len(data) THEN data[j] ELSE msg[j - Len(data)]
      BY <1>2, <1>3, <2>1, ConcatProperties
  <2>3. ASSUME NEW j \in 1 .. Len(data) + len, readIndex < j
        PROVE  data'[j] = Len(sent) + (j - readIndex)
    <3>1. CASE j <= Len(data)
        BY <1>1, <1>3, <1>5, <2>2, <2>3, <3>1
    <3>2. CASE j > Len(data)
      <4>1. j - Len(data) \in 1 .. len /\ ~(j <= Len(data))
          BY <1>1, <1>3, <3>2
      <4>2. data'[j] = asked + (j - Len(data))
          BY <1>2, <2>2, <4>1
      <4> QED
          BY <1>6, <1>7, <4>1, <4>2
    <3> QED
        BY <1>1, <1>3, <3>1, <3>2
  <2>4. Len(sent) + (Len(data) + len - readIndex) = asked + len
      BY <1>6, <1>7
  <2> QED
      BY <1>1, <1>3, <1>4, <1>5, <2>1, <2>2, <2>3, <2>4 DEF Intact
<1>9. CASE readableBytes = 0
  <2>1. PICK n \in 1 .. len :
               /\ sent' = sent \o SubSeq(msg, 1, n)
               /\ data' = data \o Rest(msg, n)
      BY <1>9 DEF Send, Message, Refuses, msg
  <2>2. n \in 1 .. Len(msg) /\ msg \in Seq(1 .. MaxBytes)
      BY <1>2
  <2>3. /\ SubSeq(msg, 1, n) \in Seq(1 .. MaxBytes)
        /\ Len(SubSeq(msg, 1, n)) = n
        /\ \A i \in 1 .. n : SubSeq(msg, 1, n)[i] = msg[i]
        /\ Rest(msg, n) \in Seq(1 .. MaxBytes)
        /\ Len(Rest(msg, n)) = Len(msg) - n
        /\ \A i \in 1 .. Len(msg) - n : Rest(msg, n)[i] = msg[n + i]
      BY <2>2, Parts
  <2>4. SubSeq(msg, 1, n) \in Seq(0 .. MaxBytes)
    <3>1. 1 .. MaxBytes \subseteq 0 .. MaxBytes
        BY SizesOK
    <3> QED
        BY <2>3, <3>1, SeqMonotonic
  <2> DEFINE first == SubSeq(msg, 1, n)
             rest == Rest(msg, n)
  <2> HIDE DEF first, rest
  <2>5. /\ Len(sent') = Len(sent) + n
        /\ \A i \in 1 .. Len(sent) + n :
             sent'[i] = IF i <= Len(sent) THEN sent[i] ELSE first[i - Len(sent)]
    <3>1. sent' = sent \o first /\ first \in Seq(0 .. MaxBytes) /\ Len(first) = n
        BY <2>1, <2>3, <2>4 DEF first
    <3> QED
        BY <1>3, <3>1, ConcatProperties
  <2>6. /\ Len(data') = Len(data) + (len - n)
        /\ \A j \in 1 .. Len(data) + (len - n) :
             data'[j] = IF j <= Len(data) THEN data[j] ELSE rest[j - Len(data)]
    <3>1. /\ data' = data \o rest /\ rest \in Seq(1 .. MaxBytes)
          /\ Len(rest) = len - n
        BY <1>2, <2>1, <2>3 DEF rest
    <3> QED
        BY <1>3, <3>1, ConcatProperties
  <2>7. Len(sent) = asked /\ Len(data) = readIndex
      BY <1>3, <1>9, <1>6, <1>7
  <2>8. ASSUME NEW i \in 1 .. Len(sent) + n
        PROVE  sent'[i] = i
    <3>1. CASE i <= Len(sent)
        BY <1>3, <1>5, <2>5, <3>1
    <3>2. CASE i > Len(sent)
      <4>1. /\ i - Len(sent) \in 1 .. n /\ i - Len(sent) \in 1 .. len
            /\ ~(i <= Len(sent))
          BY <1>1, <1>3, <3>2
      <4>2. sent'[i] = asked + (i - Len(sent))
          BY <1>2, <2>3, <2>5, <4>1 DEF first
      <4> QED
          BY <1>2, <2>7, <4>2
    <3> QED
        BY <1>3, <3>1, <3>2
  <2>9. ASSUME NEW j \in 1 .. Len(data) + (len - n), readIndex < j
        PROVE  data'[j] = Len(sent) + n + (j - readIndex)
    <3>1. /\ j - Len(data) \in 1 .. len - n /\ n + (j - Len(data)) \in 1 .. len
          /\ ~(j <= Len(data))
        BY <1>1, <1>3, <2>7, <2>9
    <3>2. data'[j] = asked + (n + (j - Len(data)))
        BY <1>2, <2>3, <2>6, <3>1 DEF rest
    <3> QED
        BY <1>1, <1>2, <2>7, <3>1, <3>2
  <2>10. Len(sent) + n + (Len(data) + (len - n) - readIndex) = asked + len
      BY <1>6, <2>7
  <2>11. \A j \in 1 .. Len(data') :
           readIndex' < j => data'[j] = Len(sent') + (j - readIndex')
      BY <1>1, <1>3, <1>4, <2>5, <2>6, <2>9
  <2>12. Len(sent') + (Len(data') - readIndex') = asked'
    <3>1. /\ Len(sent') = Len(sent) + n /\ Len(data') = Len(data) + (len - n)
          /\ readIndex' = readIndex /\ asked' = asked + len
        BY <1>1, <1>4, <2>5, <2>6
    <3> QED
        BY <1>6, <2>10, <3>1
  <2> QED
      BY <1>3, <1>4, <2>5, <2>8, <2>11, <2>12 DEF Intact
<1> QED
    BY <1>8, <1>9

\* handleWrite(): what write() takes is taken off the front.
LEMMA WriteIntact ==
  ASSUME TypeOK, Intact, HandleWrite, ~refused'
  PROVE  Intact'
<1>1. /\ data \in Seq(1 .. MaxBytes) /\ Len(data) \in Nat /\ readIndex \in Nat
      /\ sent \in Seq(0 .. MaxBytes) /\ Len(sent) \in Nat
      /\ readableBytes \in Nat /\ Len(data) = readIndex + readableBytes
      /\ readable \in Seq(0 .. MaxBytes) /\ Len(readable) = readableBytes
      /\ \A i \in 1 .. readableBytes : readable[i] = data[readIndex + i]
      /\ asked' = asked /\ asked \in Nat
    BY Buffered, LenProperties, SizesOK DEF TypeOK, Intact, HandleWrite
<1>2. /\ \A i \in 1 .. Len(sent) : sent[i] = i
      /\ \A j \in 1 .. Len(data) :
           readIndex < j => data[j] = Len(sent) + (j - readIndex)
    BY DEF Intact
<1>3. /\ Len(data) \in Nat /\ readIndex \in Nat /\ Len(sent) \in Nat
      /\ readableBytes \in Nat /\ Len(data) = readIndex + readableBytes
      /\ asked' = asked /\ asked = Len(sent) + (Len(data) - readIndex)
    BY <1>1 DEF Intact
<1>4. CASE readableBytes = 0
  <2>1. UNCHANGED <<data, readIndex, sent, asked>>
      BY <1>4 DEF HandleWrite, bufVars
  <2> QED
      BY <2>1 DEF Intact
<1>5. ASSUME NEW n \in 1 .. readableBytes,
             sent' = sent \o SubSeq(readable, 1, n),
             IF n = readableBytes THEN data' = <<>> /\ readIndex' = 0
                                  ELSE data' = data /\ readIndex' = readIndex + n
      PROVE  Intact'
  <2> DEFINE first == SubSeq(readable, 1, n)
  <2>1. /\ first \in Seq(0 .. MaxBytes) /\ Len(first) = n
        /\ \A i \in 1 .. n : first[i] = readable[i]
      BY <1>1, Parts
  <2> HIDE DEF first
  <2>2. /\ Len(sent') = Len(sent) + n
        /\ \A i \in 1 .. Len(sent) + n :
             sent'[i] = IF i <= Len(sent) THEN sent[i] ELSE first[i - Len(sent)]
    <3>1. /\ sent' = sent \o first /\ sent \in Seq(0 .. MaxBytes)
          /\ first \in Seq(0 .. MaxBytes) /\ Len(first) = n
        BY <1>1, <1>5, <2>1 DEF first
    <3> QED
        BY <3>1, ConcatProperties
  <2>3. ASSUME NEW i \in 1 .. Len(sent) + n
        PROVE  sent'[i] = i
    <3>1. CASE i <= Len(sent)
        BY <1>2, <1>3, <2>2, <3>1
    <3>2. CASE i > Len(sent)
      <4> DEFINE k == i - Len(sent)
      <4>1. /\ k \in 1 .. n /\ k \in 1 .. readableBytes /\ ~(i <= Len(sent))
            /\ i = Len(sent) + k
          BY <1>1, <3>2
      <4>2. sent'[i] = first[k]
          BY <2>2, <4>1
      <4> HIDE DEF k
      <4>3. sent'[i] = data[readIndex + k]
          BY <1>1, <2>1, <4>1, <4>2
      <4>4. /\ readIndex + k \in 1 .. Len(data) /\ readIndex < readIndex + k
            /\ Len(sent) + ((readIndex + k) - readIndex) = Len(sent) + k
          BY <1>1, <4>1
      <4> QED
          BY <1>2, <4>1, <4>3, <4>4
    <3> QED
        BY <1>1, <3>1, <3>2
  <2>4. CASE n = readableBytes
    <3>1. data' = <<>> /\ readIndex' = 0 /\ Len(<<>>) = 0
        BY <1>5, <2>4, EmptySeq
    <3>2. Len(sent') = asked
        BY <1>3, <2>2, <2>4
    <3>3. Len(sent') + (Len(data') - readIndex') = asked'
        BY <1>3, <3>1, <3>2
    <3>4. \A i \in 1 .. Len(sent') : sent'[i] = i
        BY <2>2, <2>3
    <3> QED
        BY <3>1, <3>3, <3>4 DEF Intact
  <2>5. CASE n # readableBytes
    <3>1. data' = data /\ readIndex' = readIndex + n
        BY <1>5, <2>5
    <3>2. ASSUME NEW j \in 1 .. Len(data), readIndex + n < j
          PROVE  data[j] = Len(sent) + n + (j - (readIndex + n))
        BY <1>2, <1>3, <3>2
    <3>3. /\ Len(sent) + n + (Len(data) - (readIndex + n)) = asked
          /\ readIndex + n >= 0
        BY <1>3
    <3>4. \A i \in 1 .. Len(sent') : sent'[i] = i
        BY <2>2, <2>3
    <3> QED
        BY <1>3, <2>2, <3>1, <3>2, <3>3, <3>4 DEF Intact
  <2> QED
      BY <2>4, <2>5
<1>6. CASE readableBytes # 0
    BY <1>1, <1>5, <1>6 DEF HandleWrite, Refuses, IndexAfterLast
<1> QED
    BY <1>4, <1>6

\* Every step keeps it, unless a write is refused.
LEMMA IntactStep ==
  ASSUME TypeOK, IntactInv, [Next]_vars
  PROVE  IntactInv'
<1> SUFFICES ASSUME ~refused'
             PROVE  Intact'
    BY DEF IntactInv
<1>1. Intact
  <2>1. refused => refused'
      BY DEF Next, Send, EpollOut, HandleWrite, Shutdown, ForceClose,
         HandleClose, Drain, Reset, Accepts, Refuses, vars
  <2> QED
      BY <2>1 DEF IntactInv
<1>2. CASE EpollOut \/ Shutdown \/ ForceClose \/ HandleClose \/ Drain \/ Reset
    BY <1>1, <1>2 DEF EpollOut, Shutdown, ForceClose, HandleClose, Drain, Reset,
       Intact, bufVars
<1>3. CASE UNCHANGED vars
    BY <1>1, <1>3 DEF vars, Intact, bufVars
<1> QED
    BY <1>1, SendIntact, WriteIntact, <1>2, <1>3 DEF Next

\* What was sent and what waits are then all the bytes asked for, in order.
LEMMA IntactBytes ==
  ASSUME TypeOK, Intact
  PROVE  sent \o readable = [i \in 1 .. asked |-> i]
<1>1. /\ sent \in Seq(0 .. MaxBytes) /\ Len(sent) \in Nat
      /\ readable \in Seq(0 .. MaxBytes) /\ Len(readable) = readableBytes
      /\ readableBytes \in Nat /\ asked = Len(sent) + readableBytes
      /\ asked \in 0 .. MaxBytes /\ MaxBytes \in Nat
      /\ \A i \in 1 .. readableBytes : readable[i] = Len(sent) + i
  <2>1. /\ sent \in Seq(0 .. MaxBytes) /\ Len(sent) \in Nat
        /\ asked \in 0 .. MaxBytes /\ MaxBytes \in Nat
      BY LenProperties, SizesOK DEF TypeOK
  <2>2. /\ Len(data) \in Nat /\ readIndex \in Nat /\ readableBytes \in Nat
        /\ Len(data) = readIndex + readableBytes
        /\ readable \in Seq(0 .. MaxBytes) /\ Len(readable) = readableBytes
        /\ \A i \in 1 .. readableBytes : readable[i] = data[readIndex + i]
      BY Buffered DEF Intact
  <2>3. asked = Len(sent) + readableBytes
      BY <2>1, <2>2 DEF Intact
  <2>4. ASSUME NEW i \in 1 .. readableBytes
        PROVE  readable[i] = Len(sent) + i
    <3>1. readIndex + i \in 1 .. Len(data) /\ readIndex < readIndex + i
        BY <2>2
    <3>2. data[readIndex + i] = Len(sent) + ((readIndex + i) - readIndex)
        BY <3>1 DEF Intact
    <3> QED
        BY <2>1, <2>2, <3>2
  <2> QED
      BY <2>1, <2>2, <2>3, <2>4
<1> DEFINE s == sent \o readable
           t == [i \in 1 .. asked |-> i]
<1>2. /\ s \in Seq(0 .. MaxBytes) /\ Len(s) = asked
      /\ \A i \in 1 .. asked :
           s[i] = IF i <= Len(sent) THEN sent[i] ELSE readable[i - Len(sent)]
    BY <1>1, ConcatProperties
<1>3. t \in [1 .. asked -> 0 .. MaxBytes] /\ \A i \in 1 .. asked : t[i] = i
    BY <1>1
<1>4. t \in Seq(0 .. MaxBytes) /\ Len(t) = asked
    BY <1>1, <1>3, FunctionSeq
<1>5. ASSUME NEW i \in 1 .. asked
      PROVE  s[i] = i
  <2>1. CASE i <= Len(sent)
      BY <1>1, <1>2, <2>1 DEF Intact
  <2>2. CASE i > Len(sent)
    <3>1. i - Len(sent) \in 1 .. readableBytes
        BY <1>1, <2>2
    <3> QED
        BY <1>1, <1>2, <2>2, <3>1
  <2> QED
      BY <1>1, <2>1, <2>2
<1> HIDE DEF s, t
<1>6. s = t
    BY <1>2, <1>3, <1>4, <1>5, SeqEqual
<1> QED
    BY <1>6 DEF s, t

\* As long as write() has refused nothing, what the socket has taken and what
\* is in outbuffer are together what was handed to send(), byte for byte, for
\* any messages and however they are cut.
THEOREM ClientSentIntact == Spec => []IntactUnlessRefused
<1>1. Init => IntactInv
  <2>1. Len(<<>>) = 0
      BY EmptySeq
  <2> QED
      BY <2>1 DEF Init, IntactInv, Intact
<1>2. TypeOK /\ IntactInv => IntactUnlessRefused
    BY IntactBytes DEF IntactInv, IntactUnlessRefused
<1> QED
    BY <1>1, <1>2, IntactStep, TypeCorrect, PTL DEF Spec
==============================================================================

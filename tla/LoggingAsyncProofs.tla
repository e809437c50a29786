------------------------- MODULE LoggingAsyncProofs --------------------------
(***************************************************************************)
(* Proofs about LoggingAsync, for any threads, lengths, number of lines    *)
(* and buffer size: the types, the pool of buffers, the wakeup of the      *)
(* logging thread, that no line is lost or held back, and that the logger  *)
(* implements Journal.                                                     *)
(***************************************************************************)
EXTENDS LoggingAsync, SequenceTheorems, WellFoundedInduction, TLAPS

------------------------------------------------------------------------------
(* The types.                                                              *)

\* What append() does to the front end's state stays typed.
LEMMA AppendTypes ==
  ASSUME TypeOK, NEW len \in Lens, AppendLine(len)
  PROVE  /\ logged' \in Seq(Line) /\ Len(logged') \in 1 .. MaxLines
         /\ currentBuffer' \in Buffer
         /\ nextBuffer' \in {<<>>, Null}
         /\ buffers' \in Seq(Buffer)
         /\ signaled' \in BOOLEAN
<1> DEFINE line == [id |-> Len(logged) + 1, len |-> len]
<1>1. /\ logged \in Seq(Line) /\ currentBuffer \in Seq(Line)
      /\ buffers \in Seq(Buffer) /\ nextBuffer \in {<<>>, Null}
      /\ signaled \in BOOLEAN
    BY DEF TypeOK, Buffer
<1>2. Len(logged) \in Nat /\ Len(logged) < MaxLines /\ MaxLines \in Nat
    BY <1>1, LenProperties, ConstantsOK DEF AppendLine
<1>3. line \in Line
    BY <1>2 DEF Line
<1>4. logged' \in Seq(Line) /\ Len(logged') \in 1 .. MaxLines
    BY <1>1, <1>2, <1>3, AppendProperties DEF AppendLine
<1>5. \A b \in Seq(Line) : Filled(b, line) \in Seq(Line)
    BY <1>3, AppendProperties DEF Filled
<1>6. CASE Fits(currentBuffer, len)
    BY <1>1, <1>4, <1>5, <1>6 DEF AppendLine, Buffer
<1>7. CASE ~Fits(currentBuffer, len)
  <2>1. currentBuffer' \in Seq(Line)
    <3>1. currentBuffer' = Filled(<<>>, line)
        BY <1>7 DEF AppendLine
    <3>2. Filled(<<>>, line) \in Seq(Line)
        BY <1>5, EmptySeq
    <3> QED
        BY <3>1, <3>2
  <2>2. buffers' \in Seq(Buffer)
    <3>1. currentBuffer \in Buffer
        BY <1>1 DEF Buffer
    <3>2. Append(buffers, currentBuffer) \in Seq(Buffer)
        BY <1>1, <3>1, AppendProperties
    <3> QED
        BY <1>7, <3>2 DEF AppendLine
  <2>3. nextBuffer' = Null /\ signaled' \in BOOLEAN
      BY <1>1, <1>7 DEF AppendLine, NotifyOne
  <2> QED
      BY <1>4, <2>1, <2>2, <2>3 DEF Buffer
<1> QED
    BY <1>6, <1>7

\* What the logging thread does to the file stays typed.
LEMMA WriteTypes ==
  ASSUME TypeOK, WriteBuffer
  PROVE  /\ i' \in Nat \ {0}
         /\ count' \in 0 .. FlushEveryN
         /\ file' \in Seq(Line) /\ flushed' \in 0 .. Len(file')
<1>1. /\ file \in Seq(Line) /\ flushed \in 0 .. Len(file) /\ Len(file) \in Nat
      /\ buffersToWrite \in Seq(Seq(Line)) /\ i \in Nat \ {0}
      /\ count \in 0 .. FlushEveryN /\ FlushEveryN \in Nat
    BY LenProperties, ConstantsOK DEF TypeOK, Buffer
<1>2. buffersToWrite[i] \in Seq(Line)
    BY <1>1, ElementOfSeq, LenProperties DEF WriteBuffer
<1>3. /\ file' \in Seq(Line)
      /\ Len(file') = Len(file) + Len(buffersToWrite[i])
      /\ Len(buffersToWrite[i]) \in Nat
    BY <1>1, <1>2, ConcatProperties, LenProperties DEF WriteBuffer
<1>4. flushed' \in 0 .. Len(file') /\ count' \in 0 .. FlushEveryN
  <2>1. CASE count + 1 > FlushEveryN
      BY <1>1, <1>3, <2>1 DEF WriteBuffer, CountAfterFlush
  <2>2. CASE ~(count + 1 > FlushEveryN)
      BY <1>1, <1>3, <2>2 DEF WriteBuffer
  <2> QED
      BY <2>1, <2>2
<1> QED
    BY <1>1, <1>3, <1>4 DEF WriteBuffer

\* A prefix of a sequence.
LEMMA PrefixTypes ==
  ASSUME NEW S, NEW s \in Seq(S), NEW n \in 0 .. Len(s)
  PROVE  SubSeq(s, 1, n) \in Seq(S) /\ Len(SubSeq(s, 1, n)) = n
<1>1. Len(s) \in Nat /\ n \in Int /\ 1 \in Int
    BY LenProperties
<1>2. \A j \in 1 .. n : s[j] \in S
    BY <1>1, ElementOfSeq
<1>3. SubSeq(s, 1, n) \in Seq(S)
    BY <1>1, <1>2
<1>4. Len(SubSeq(s, 1, n)) = n
    BY <1>1, <1>2
<1> QED
    BY <1>3, <1>4

\* Taking spares from the back of what was written stays typed.
LEMMA FrontTypes ==
  ASSUME NEW S, NEW s \in Seq(S)
  PROVE  /\ Resized(s) \in Seq(S) /\ Front(s) \in Seq(S)
         /\ s # <<>> => Len(Front(s)) = Len(s) - 1
         /\ Len(s) > 2 => Len(Resized(s)) = 2
         /\ Len(s) <= 2 => Resized(s) = s
<1>1. /\ Len(s) \in Nat
      /\ s # <<>> => Len(s) \in Nat \ {0}
    BY LenProperties, EmptySeq
<1>2. ASSUME Len(s) > 2
      PROVE  Resized(s) \in Seq(S) /\ Len(Resized(s)) = 2
  <2>1. 2 \in 0 .. Len(s)
      BY <1>1, <1>2
  <2> QED
      BY <1>2, <2>1, PrefixTypes DEF Resized
<1>3. ASSUME s # <<>>
      PROVE  Front(s) \in Seq(S) /\ Len(Front(s)) = Len(s) - 1
  <2>1. Len(s) - 1 \in 0 .. Len(s)
      BY <1>1, <1>3
  <2> QED
      BY <2>1, PrefixTypes DEF Front
<1>4. Front(<<>>) \in Seq(S)
    BY EmptySeq, SubSeqEmpty DEF Front
<1> QED
    BY <1>1, <1>2, <1>3, <1>4 DEF Resized

\* Every step preserves the types.  The pool comes in because the swap makes
\* newBuffer1 the current buffer: append() needs one that is not null.
LEMMA TypeStep == TypeOK /\ PoolBalanced /\ [Next]_vars => TypeOK'
<1> SUFFICES ASSUME TypeOK, PoolBalanced, [Next]_vars
             PROVE  TypeOK'
    OBVIOUS
<1> USE DEF TypeOK, frontVars, spareVars, fileVars, fatalVars
<1>1. CASE Start
    BY <1>1 DEF Start
<1>2. ASSUME NEW t \in Threads, NEW len \in Lens, Log(t, len)
      PROVE  TypeOK'
  <2>1. AppendLine(len)
      BY <1>2 DEF Log
  <2> QED
      BY <1>2, <2>1, AppendTypes DEF Log
<1>3. ASSUME NEW t \in Threads, NEW len \in Lens, LogFatal(t, len)
      PROVE  TypeOK'
  <2>1. AppendLine(len)
      BY <1>3 DEF LogFatal
  <2>2. /\ caller' \in [Threads -> {"free", "stop", "notify", "join", "join2",
                                   "joining"}]
        /\ fatalLine' \in [Threads -> 0 .. MaxLines]
      BY <1>3, <2>1, AppendTypes, ConstantsOK DEF LogFatal
  <2> QED
      BY <1>3, <2>1, <2>2, AppendTypes DEF LogFatal
<1>4. ASSUME NEW t \in Threads, StopRunning(t)
      PROVE  TypeOK'
    BY <1>4 DEF StopRunning
<1>5. ASSUME NEW t \in Threads, StopNotify(t)
      PROVE  TypeOK'
    BY <1>5 DEF StopNotify, NotifyOne
<1>6. ASSUME NEW t \in Threads, TestJoined(t)
      PROVE  TypeOK'
    BY <1>6 DEF TestJoined
<1>7. ASSUME NEW t \in Threads, SetJoined(t)
      PROVE  TypeOK'
    BY <1>7 DEF SetJoined
<1>8. ASSUME NEW t \in Threads, JoinAndAbort(t)
      PROVE  TypeOK'
    BY <1>8 DEF JoinAndAbort
<1>9. CASE EnterThread
    BY <1>9 DEF EnterThread
<1>10. CASE TestRunning
    BY <1>10 DEF TestRunning
<1>11. CASE BeginWait
    BY <1>11 DEF BeginWait
<1>12. CASE SwapBuffers
  <2>1. buffersToWrite' \in Seq(Buffer) /\ buffers' \in Seq(Buffer)
      BY <1>12, AppendProperties DEF SwapBuffers
  <2>2. currentBuffer' \in Buffer
    <3>1. newBuffer1 = <<>>
        BY <1>12 DEF SwapBuffers, PoolBalanced
    <3> QED
        BY <1>12, <3>1, EmptySeq DEF SwapBuffers, Buffer
  <2>3. /\ nextBuffer' \in {<<>>, Null} /\ newBuffer1' \in {<<>>, Null}
        /\ newBuffer2' \in {<<>>, Null} /\ i' \in Nat \ {0}
      BY <1>12 DEF SwapBuffers, Refilled
  <2> QED
      BY <1>12, <2>1, <2>2, <2>3 DEF SwapBuffers
<1>13. CASE WriteBuffer
    BY <1>13, WriteTypes DEF WriteBuffer
<1>14. CASE Recycle
  <2>1. buffersToWrite' \in Seq(Buffer)
      BY <1>14, FrontTypes DEF Recycle
  <2>2. newBuffer1' \in {<<>>, Null} /\ newBuffer2' \in {<<>>, Null}
      BY <1>14 DEF Recycle, Cleared
  <2> QED
      BY <1>14, <2>1, <2>2 DEF Recycle
<1>15. CASE FlushRound
  <2>1. flushed' \in 0 .. Len(file')
      BY <1>15, LenProperties DEF FlushRound, FlushedRound
  <2> QED
      BY <1>15, <2>1 DEF FlushRound
<1>16. CASE ExitThread
  <2>1. flushed' \in 0 .. Len(file')
      BY <1>16, LenProperties DEF ExitThread
  <2> QED
      BY <1>16, <2>1 DEF ExitThread
<1>17. CASE UNCHANGED vars
    BY <1>17 DEF vars
<1> QED
    BY <1>1, <1>2, <1>3, <1>4, <1>5, <1>6, <1>7, <1>8, <1>9, <1>10, <1>11,
       <1>12, <1>13, <1>14, <1>15, <1>16, <1>17
    DEF Next, ThreadStep, StopStep

------------------------------------------------------------------------------
(* The pool of buffers.                                                    *)

\* append() keeps the pool balanced: the buffer it files takes the place of
\* the spare it uses up.
LEMMA PoolAppend ==
  ASSUME TypeOK, PoolBalanced, NEW len \in Lens, AppendLine(len),
         UNCHANGED <<pc, newBuffer1, newBuffer2, buffersToWrite>>
  PROVE  PoolBalanced'
<1>1. CASE Fits(currentBuffer, len)
    BY <1>1 DEF AppendLine, PoolBalanced
<1>2. CASE ~Fits(currentBuffer, len)
  <2>1. buffers' # <<>> /\ nextBuffer' = Null
      BY <1>2, AppendProperties DEF AppendLine, TypeOK
  <2> QED
      BY <2>1 DEF PoolBalanced
<1> QED
    BY <1>1, <1>2

\* The swap hands out as many spares as it takes buffers to write.
LEMMA PoolSwap ==
  ASSUME TypeOK, PoolBalanced, SwapBuffers
  PROVE  PoolBalanced'
<1>1. /\ pc' = "write" /\ newBuffer1' = Null
      /\ buffers' = <<>> /\ newBuffer2 # Null
    BY DEF SwapBuffers, PoolBalanced
<1>2. nextBuffer' # Null
    BY <1>1 DEF SwapBuffers, Refilled
<1>3. Len(buffersToWrite') = Len(buffers) + 1 /\ Len(buffers) \in Nat
    BY AppendProperties, LenProperties DEF SwapBuffers, TypeOK
<1>4. newBuffer2' = Null <=> buffers # <<>>
    BY <1>1 DEF SwapBuffers, PoolBalanced
<1>5. buffers # <<>> => Len(buffers) \in Nat \ {0}
    BY EmptySeq DEF TypeOK
<1>6. buffers = <<>> => Len(buffers) = 0
    BY EmptySeq
<1> QED
    BY <1>1, <1>2, <1>3, <1>4, <1>5, <1>6 DEF PoolBalanced

\* Taking the only element leaves nothing, taking one of two leaves one.
LEMMA FrontOfFew ==
  ASSUME NEW S, NEW s \in Seq(S)
  PROVE  /\ Len(s) = 1 => Front(s) = <<>>
         /\ Len(s) = 2 => Front(s) \in Seq(S) /\ Len(Front(s)) = 1
<1>1. s # <<>> => Front(s) \in Seq(S) /\ Len(Front(s)) = Len(s) - 1
    BY FrontTypes
<1>2. s = <<>> => Len(s) = 0
    BY EmptySeq
<1>3. ASSUME Len(s) = 1
      PROVE  Front(s) = <<>>
  <2>1. Front(s) \in Seq(S) /\ Len(Front(s)) = 0
      BY <1>1, <1>2, <1>3
  <2> QED
      BY <2>1, EmptySeq
<1>4. ASSUME Len(s) = 2
      PROVE  Front(s) \in Seq(S) /\ Len(Front(s)) = 1
    BY <1>1, <1>2, <1>4
<1> QED
    BY <1>3, <1>4

\* Two spares can be taken from two or more buffers, one from one, and
\* nothing is left.
LEMMA RecycleLengths ==
  ASSUME NEW S, NEW s \in Seq(S)
  PROVE  /\ Len(s) >= 2 => Front(Front(Resized(s))) = <<>>
         /\ Len(s) = 1 => Front(Resized(s)) = <<>>
<1>1. Len(s) \in Nat
    BY LenProperties
<1>2. /\ Resized(s) \in Seq(S)
      /\ Len(s) > 2 => Len(Resized(s)) = 2
      /\ Len(s) <= 2 => Resized(s) = s
    BY FrontTypes
<1>3. ASSUME Len(s) >= 2
      PROVE  Front(Front(Resized(s))) = <<>>
  <2>1. Len(Resized(s)) = 2
    <3>1. CASE Len(s) > 2
        BY <1>2, <3>1
    <3>2. CASE Len(s) = 2
      <4>1. Resized(s) = s
          BY <3>2 DEF Resized
      <4> QED
          BY <3>2, <4>1
    <3>3. Len(s) > 2 \/ Len(s) = 2
      <4>1. \A n \in Nat : n >= 2 => n > 2 \/ n = 2
          OBVIOUS
      <4> QED
          BY <1>1, <1>3, <4>1, Zenon
    <3> QED
        BY <3>1, <3>2, <3>3, Zenon
  <2>2. /\ Front(Resized(s)) \in Seq(S)
        /\ Len(Front(Resized(s))) = 1
      BY <1>2, <2>1, FrontOfFew
  <2> QED
      BY <2>2, FrontOfFew
<1>4. ASSUME Len(s) = 1
      PROVE  Front(Resized(s)) = <<>>
  <2>1. Resized(s) = s
      BY <1>1, <1>2, <1>4
  <2>2. Front(s) = <<>>
      BY <1>4, FrontOfFew
  <2> QED
      BY <2>1, <2>2
<1> QED
    BY <1>3, <1>4

\* Recycling takes back exactly as many, and leaves none.
LEMMA PoolRecycle ==
  ASSUME TypeOK, PoolBalanced, Recycle
  PROVE  PoolBalanced'
<1>1. /\ pc = "write" /\ pc' = "flush" /\ newBuffer1 = Null
      /\ newBuffer1' = <<>> /\ newBuffer2' # Null
      /\ UNCHANGED <<nextBuffer, buffers>>
    BY ConstantsOK DEF Recycle, PoolBalanced, Cleared, frontVars
<1>2. buffersToWrite' = IF newBuffer2 = Null
                          THEN Front(Front(Resized(buffersToWrite)))
                          ELSE Front(Resized(buffersToWrite))
    BY <1>1 DEF Recycle
<1>3. IF newBuffer2 = Null THEN Len(buffersToWrite) >= 2
                           ELSE Len(buffersToWrite) = 1
    BY <1>1 DEF PoolBalanced
<1>4. buffersToWrite' = <<>>
    BY <1>2, <1>3, RecycleLengths DEF TypeOK
<1> QED
    BY <1>1, <1>4, ConstantsOK DEF PoolBalanced

\* Every step keeps the pool balanced.
LEMMA PoolStep == TypeOK /\ PoolBalanced /\ [Next]_vars => PoolBalanced'
<1> SUFFICES ASSUME TypeOK, PoolBalanced, [Next]_vars
             PROVE  PoolBalanced'
    OBVIOUS
<1>1. ASSUME NEW t \in Threads, NEW len \in Lens,
             Log(t, len) \/ LogFatal(t, len)
      PROVE  PoolBalanced'
  <2>1. /\ AppendLine(len)
        /\ UNCHANGED <<pc, newBuffer1, newBuffer2, buffersToWrite>>
      BY <1>1 DEF Log, LogFatal, spareVars
  <2> QED
      BY <2>1, PoolAppend
<1>2. ASSUME NEW t \in Threads, StopStep(t)
      PROVE  PoolBalanced'
    BY <1>2 DEF StopStep, StopRunning, StopNotify, TestJoined, SetJoined,
                JoinAndAbort, frontVars, spareVars, PoolBalanced
<1>3. CASE SwapBuffers
    BY <1>3, PoolSwap
<1>4. CASE Recycle
    BY <1>4, PoolRecycle
<1>5. CASE \/ Start \/ EnterThread \/ TestRunning \/ BeginWait
           \/ FlushRound \/ ExitThread
    BY <1>5 DEF Start, EnterThread, TestRunning, BeginWait, FlushRound,
                ExitThread, frontVars, spareVars, PoolBalanced
<1>6. CASE WriteBuffer
    BY <1>6 DEF WriteBuffer, frontVars, PoolBalanced
<1>7. CASE UNCHANGED vars
    BY <1>7 DEF vars, frontVars, spareVars, PoolBalanced
<1> QED
    BY <1>1, <1>2, <1>3, <1>4, <1>5, <1>6, <1>7 DEF Next, ThreadStep

\* Both hold throughout.
LEMMA PoolInvariant == Spec => [](TypeOK /\ PoolBalanced)
<1>1. Init => TypeOK /\ PoolBalanced
  <2> SUFFICES ASSUME Init
               PROVE  TypeOK /\ PoolBalanced
      OBVIOUS
  <2>1. /\ <<>> \in Seq(Line) /\ <<>> \in Seq(Buffer)
        /\ Len(logged) = 0 /\ Len(file) = 0 /\ Len(<<>>) = 0
      BY EmptySeq DEF Init
  <2>2. Len(logged) <= MaxLines /\ flushed \in 0 .. Len(file)
        /\ count \in 0 .. FlushEveryN
        /\ fatalLine \in [Threads -> 0 .. MaxLines]
      BY <2>1, ConstantsOK DEF Init
  <2>3. /\ logged \in Seq(Line) /\ currentBuffer \in Buffer
        /\ buffers \in Seq(Buffer) /\ buffersToWrite \in Seq(Buffer)
        /\ file \in Seq(Line)
      BY <2>1 DEF Init, Buffer
  <2>4. /\ nextBuffer \in {<<>>, Null} /\ newBuffer1 \in {<<>>, Null}
        /\ newBuffer2 \in {<<>>, Null} /\ i \in Nat \ {0}
      BY DEF Init
  <2>5. /\ running \in BOOLEAN /\ signaled \in BOOLEAN /\ joined \in BOOLEAN
        /\ caller \in [Threads -> {"free", "stop", "notify", "join", "join2",
                                    "joining"}]
      BY DEF Init
  <2>6. /\ pc \in {"none", "created", "while", "lock", "wait", "write",
                   "flush", "exit", "done"}
        /\ dead \in {"no", "abort", "assert"}
      BY DEF Init
  <2>7. TypeOK
      BY <2>2, <2>3, <2>4, <2>5, <2>6 DEF TypeOK
  <2> QED
      BY <2>7, ConstantsOK DEF Init, PoolBalanced
<1> QED
    BY <1>1, TypeStep, PoolStep, PTL DEF Spec

\* The types hold for any constants: in particular the front end always has
\* a current buffer to append to.
THEOREM TypeCorrect == Spec => []TypeOK
  BY PoolInvariant, PTL

\* The pool stays balanced for any number of threads, lines and bursts: the
\* logging thread never takes a spare from an empty vector, and the front
\* end always finds a buffer.
THEOREM PoolCorrect == Spec => []PoolBalanced
  BY PoolInvariant, PTL

------------------------------------------------------------------------------
(* The wakeup of the logging thread.                                       *)

\* A buffer filled while the logging thread waits notifies it, and the wait
\* starts with none.
LEMMA WakeStep ==
  TypeOK /\ PoolBalanced /\ FullBufferWakes /\ [Next]_vars => FullBufferWakes'
<1> SUFFICES ASSUME TypeOK, PoolBalanced, FullBufferWakes, [Next]_vars
             PROVE  FullBufferWakes'
    OBVIOUS
<1> USE DEF FullBufferWakes
<1>1. ASSUME NEW t \in Threads, NEW len \in Lens,
             Log(t, len) \/ LogFatal(t, len)
      PROVE  FullBufferWakes'
  <2>1. AppendLine(len) /\ pc' = pc
      BY <1>1 DEF Log, LogFatal
  <2>2. CASE Fits(currentBuffer, len)
      BY <2>1, <2>2 DEF AppendLine
  <2>3. CASE ~Fits(currentBuffer, len)
      BY <2>1, <2>3 DEF AppendLine, NotifyOne
  <2> QED
      BY <2>2, <2>3
<1>2. ASSUME NEW t \in Threads, StopStep(t)
      PROVE  FullBufferWakes'
    BY <1>2 DEF StopStep, StopRunning, StopNotify, NotifyOne, TestJoined,
                SetJoined, JoinAndAbort, frontVars
<1>3. CASE Start \/ ThreadStep
    BY <1>3 DEF Start, ThreadStep, EnterThread, TestRunning, BeginWait,
                SwapBuffers, WriteBuffer, Recycle, FlushRound, ExitThread,
                frontVars
<1>4. CASE UNCHANGED vars
    BY <1>4 DEF vars, frontVars
<1> QED
    BY <1>1, <1>2, <1>3, <1>4 DEF Next

\* A full buffer wakes the logging thread, however many threads log.
THEOREM NoNotifyLost == Spec => []FullBufferWakes
<1>1. Init => FullBufferWakes
    BY DEF Init, FullBufferWakes
<1> QED
    BY <1>1, PoolInvariant, WakeStep, PTL DEF Spec

------------------------------------------------------------------------------
(* What the kernel has.                                                    *)

\* Stdio holds lines back only from the first fwrite of a round to the flush
\* at its end: also when the round is the last one.
RoundFlushed == pc \notin {"write", "flush"} => flushed = Len(file)

\* Every step keeps it so.
LEMMA FlushStep == RoundFlushed /\ [Next]_vars => RoundFlushed'
<1> SUFFICES ASSUME RoundFlushed, [Next]_vars
             PROVE  RoundFlushed'
    OBVIOUS
<1> USE DEF RoundFlushed, fileVars
<1>1. ASSUME NEW t \in Threads, NEW len \in Lens,
             Log(t, len) \/ LogFatal(t, len)
      PROVE  RoundFlushed'
    BY <1>1 DEF Log, LogFatal
<1>2. ASSUME NEW t \in Threads, StopStep(t)
      PROVE  RoundFlushed'
    BY <1>2 DEF StopStep, StopRunning, StopNotify, TestJoined, SetJoined,
                JoinAndAbort
<1>3. CASE \/ Start \/ EnterThread \/ TestRunning \/ BeginWait
           \/ SwapBuffers \/ Recycle
    BY <1>3 DEF Start, EnterThread, TestRunning, BeginWait, SwapBuffers, Recycle
<1>4. CASE WriteBuffer
    BY <1>4 DEF WriteBuffer
<1>5. CASE FlushRound \/ ExitThread
    BY <1>5 DEF FlushRound, FlushedRound, ExitThread
<1>6. CASE UNCHANGED vars
    BY <1>6 DEF vars
<1> QED
    BY <1>1, <1>2, <1>3, <1>4, <1>5, <1>6 DEF Next, ThreadStep

\* While the logging thread sleeps, and when it has ended, the kernel has all
\* it was ever given, for any flushEveryN_.
THEOREM NothingHeldBack == Spec => []NothingUnflushed
<1>1. Init => RoundFlushed
    BY EmptySeq DEF Init, RoundFlushed
<1>2. RoundFlushed => NothingUnflushed
    BY DEF RoundFlushed, NothingUnflushed
<1> QED
    BY <1>1, <1>2, FlushStep, PTL DEF Spec
------------------------------------------------------------------------------
(* All the lines of a sequence of buffers, in order.                        *)

\* Induction over the numbers, for a set: one that has zero, and with a number
\* the next one, has them all.
LEMMA NatSet ==
  ASSUME NEW T, 0 \in T, \A n \in Nat : n \in T => n + 1 \in T
  PROVE  Nat \subseteq T
<1> SUFFICES ASSUME Nat \ T # {}
             PROVE  FALSE
    OBVIOUS
<1> DEFINE R == OpToRel(<, Nat)
<1>1. IsWellFoundedOn(R, Nat)
    BY NatLessThanWellFounded
<1>2. \A y, x \in Nat : y < x => <<y, x>> \in R
    BY DEF OpToRel
<1> HIDE DEF R
<1>3. PICK x \in Nat \ T : \A y \in Nat \ T : ~(<<y, x>> \in R)
    BY <1>1, WFMin
<1>4. x # 0 /\ x - 1 \in Nat /\ x - 1 < x /\ (x - 1) + 1 = x
    BY <1>3
<1>5. x - 1 \in T
    BY <1>2, <1>3, <1>4
<1> QED
    BY <1>3, <1>4, <1>5

\* What FlattenSeq defines: f[j] has the elements of the first j sequences.
Joined(f, s, n) ==
  \A j \in 1 .. n : f[j] = IF j = 1 THEN s[j] ELSE f[j - 1] \o s[j]

\* It says the same of fewer of them.
LEMMA JoinedLess ==
  ASSUME NEW f, NEW s, NEW n \in Nat, Joined(f, s, n + 1)
  PROVE  Joined(f, s, n)
<1>1. 1 .. n \subseteq 1 .. n + 1
    OBVIOUS
<1> QED
    BY <1>1 DEF Joined

\* It depends on these sequences only: s and t agree on the first n.
Agree(s, t, n) == \A j \in 1 .. n : s[j] = t[j]

\* By induction over the number of sequences.
LEMMA JoinedAgree ==
  ASSUME NEW f, NEW g, NEW s, NEW t, NEW n \in Nat,
         Joined(f, s, n), Joined(g, t, n), Agree(s, t, n)
  PROVE  Agree(f, g, n)
<1> DEFINE T == {m \in Nat : m + 1 <= n => f[m + 1] = g[m + 1]}
<1>1. ASSUME 1 <= n
      PROVE  f[1] = g[1]
  <2>1. 1 \in 1 .. n
      BY <1>1
  <2>2. f[1] = s[1] /\ g[1] = t[1]
      BY <2>1 DEF Joined
  <2> QED
      BY <2>1, <2>2 DEF Agree
<1>2. ASSUME NEW m \in Nat, m \in T
      PROVE  m + 1 \in T
  <2> SUFFICES ASSUME m + 2 <= n
               PROVE  f[m + 2] = g[m + 2]
      BY <1>2
  <2>1. m + 2 \in 1 .. n /\ m + 2 # 1 /\ (m + 2) - 1 = m + 1
      BY <1>2
  <2>2. f[m + 2] = f[m + 1] \o s[m + 2] /\ g[m + 2] = g[m + 1] \o t[m + 2]
      BY <2>1 DEF Joined
  <2>3. f[m + 1] = g[m + 1]
      BY <1>2
  <2> QED
      BY <2>1, <2>2, <2>3 DEF Agree
<1>3. Nat \subseteq T
  <2>1. 0 \in T
      BY <1>1
  <2> HIDE DEF T
  <2> QED
      BY <1>2, <2>1, NatSet
<1> SUFFICES ASSUME NEW j \in 1 .. n
             PROVE  f[j] = g[j]
    BY DEF Agree
<1>4. j - 1 \in T /\ (j - 1) + 1 = j /\ j <= n
    BY <1>3
<1> QED
    BY <1>4

\* There is one for every sequence of sequences, by induction again.
LEMMA JoinedExists ==
  ASSUME NEW S, NEW s \in Seq(Seq(S))
  PROVE  \E f \in [1 .. Len(s) -> Seq(S)] : Joined(f, s, Len(s))
<1> DEFINE Done(n, f) == f \in [1 .. n -> Seq(S)] /\ Joined(f, s, n)
           T == {n \in Nat : n <= Len(s) => \E f : Done(n, f)}
<1>0. Len(s) \in Nat /\ \A j \in 1 .. Len(s) : s[j] \in Seq(S)
    BY LenProperties, ElementOfSeq
<1>1. 0 \in T
  <2>1. Done(0, [j \in 1 .. 0 |-> <<>>])
      BY DEF Joined
  <2> QED
      BY <2>1
<1>2. ASSUME NEW n \in Nat, n \in T
      PROVE  n + 1 \in T
  <2> SUFFICES ASSUME n + 1 <= Len(s)
               PROVE  \E f : Done(n + 1, f)
      BY <1>2
  <2>1. PICK f : Done(n, f)
      BY <1>0, <1>2
  <2> DEFINE last == IF n = 0 THEN s[1] ELSE f[n] \o s[n + 1]
             g == [j \in 1 .. n + 1 |-> IF j = n + 1 THEN last ELSE f[j]]
  <2>2. last \in Seq(S)
    <3>1. n + 1 \in 1 .. Len(s) /\ s[n + 1] \in Seq(S)
        BY <1>0
    <3>2. CASE n = 0
        BY <3>1, <3>2
    <3>3. CASE n # 0
      <4>1. f[n] \in Seq(S)
          BY <2>1, <3>3
      <4> QED
          BY <3>1, <3>3, <4>1, ConcatProperties
    <3> QED
        BY <3>2, <3>3
  <2>3. g \in [1 .. n + 1 -> Seq(S)]
    <3> HIDE DEF last
    <3> QED
        BY <2>1, <2>2
  <2>4. ASSUME NEW j \in 1 .. n + 1
        PROVE  g[j] = IF j = 1 THEN s[j] ELSE g[j - 1] \o s[j]
    <3>1. CASE j = n + 1
      <4>1. g[j] = last
          BY <3>1
      <4>2. n # 0 => n \in 1 .. n + 1 /\ n # n + 1 /\ j - 1 = n /\ j # 1
          BY <3>1
      <4>3. n # 0 => g[j - 1] = f[n]
          BY <4>2
      <4> QED
          BY <3>1, <4>1, <4>2, <4>3
    <3>2. CASE j # n + 1
      <4>1. j \in 1 .. n /\ (j # 1 => j - 1 \in 1 .. n + 1 /\ j - 1 # n + 1)
          BY <3>2
      <4>2. f[j] = IF j = 1 THEN s[j] ELSE f[j - 1] \o s[j]
          BY <2>1, <4>1 DEF Joined
      <4>3. g[j] = f[j] /\ (j # 1 => g[j - 1] = f[j - 1])
          BY <3>2, <4>1
      <4> QED
          BY <4>2, <4>3
    <3> QED
        BY <3>1, <3>2
  <2> HIDE DEF g
  <2>5. Joined(g, s, n + 1)
      BY <2>4 DEF Joined
  <2> QED
      BY <2>3, <2>5
<1>3. Len(s) \in T
  <2> HIDE DEF T
  <2> QED
      BY <1>0, <1>1, <1>2, NatSet
<1> QED
    BY <1>3

\* What the elements of all of s are.
LEMMA FlattenIsJoined ==
  ASSUME NEW S, NEW s \in Seq(Seq(S)), s # <<>>
  PROVE  \E f \in [1 .. Len(s) -> Seq(S)] :
           Joined(f, s, Len(s)) /\ FlattenSeq(s) = f[Len(s)]
<1> DEFINE Eq(f) == f = [j \in 1 .. Len(s) |->
                           IF j = 1 THEN s[j] ELSE f[j - 1] \o s[j]]
           h == CHOOSE f : Eq(f)
<1>0. Len(s) \in Nat \ {0}
    BY LenProperties, EmptySeq
<1>1. PICK f \in [1 .. Len(s) -> Seq(S)] : Joined(f, s, Len(s))
    BY JoinedExists
<1>2. Eq(f)
    BY <1>1 DEF Joined
<1>3. Eq(h)
    BY <1>2
<1>4. FlattenSeq(s) = h[Len(s)]
    BY <1>0 DEF FlattenSeq
<1>5. Joined(h, s, Len(s))
  <2> HIDE DEF h
  <2> QED
      BY <1>3 DEF Joined
<1> HIDE DEF h
<1>6. f[Len(s)] = h[Len(s)]
  <2>1. Agree(s, s, Len(s))
      BY DEF Agree
  <2>2. Agree(f, h, Len(s))
      BY <1>0, <1>1, <1>5, <2>1, JoinedAgree
  <2> QED
      BY <1>0, <2>2 DEF Agree
<1> QED
    BY <1>1, <1>4, <1>6

\* All of a sequence of sequences: behind one more, and without the first.
LEMMA FlattenNone == FlattenSeq(<<>>) = <<>>
  BY EmptySeq DEF FlattenSeq

\* One more sequence behind all of them.
LEMMA FlattenAppend ==
  ASSUME NEW S, NEW s \in Seq(Seq(S)), NEW b \in Seq(S)
  PROVE  /\ FlattenSeq(s) \in Seq(S)
         /\ FlattenSeq(Append(s, b)) = FlattenSeq(s) \o b
<1> DEFINE t == Append(s, b)
           n == Len(s)
<1>1. /\ t \in Seq(Seq(S)) /\ Len(t) = n + 1 /\ n \in Nat /\ t[n + 1] = b
      /\ \A j \in 1 .. n : t[j] = s[j]
    BY AppendProperties, LenProperties
<1>2. t # <<>>
  <2>1. Len(<<>>) = 0
      BY EmptySeq
  <2>2. Len(t) # 0
    <3>1. Len(t) = n + 1 /\ n \in Nat
        BY <1>1
    <3> HIDE DEF t, n
    <3> QED
        BY <3>1
  <2> HIDE DEF t
  <2> QED
      BY <2>1, <2>2
<1> HIDE DEF t
<1>3. PICK g \in [1 .. n + 1 -> Seq(S)] :
             Joined(g, t, n + 1) /\ FlattenSeq(t) = g[n + 1]
    BY <1>1, <1>2, FlattenIsJoined
<1>4. n + 1 \in 1 .. n + 1 /\ (n + 1 # 1 => (n + 1) - 1 = n)
    BY <1>1
<1>5. g[n + 1] = IF n + 1 = 1 THEN b ELSE g[n] \o b
    BY <1>1, <1>3, <1>4 DEF Joined
<1>6. CASE s = <<>>
  <2>1. FlattenSeq(s) = <<>> /\ n = 0
      BY <1>6, FlattenNone, EmptySeq
  <2>2. FlattenSeq(t) = b
      BY <1>3, <1>5, <2>1
  <2> QED
      BY <2>1, <2>2, EmptySeq, ConcatEmptySeq DEF t
<1>7. CASE s # <<>>
  <2>0. n \in Nat \ {0}
      BY <1>1, <1>7, EmptySeq
  <2>1. PICK f \in [1 .. n -> Seq(S)] :
               Joined(f, s, n) /\ FlattenSeq(s) = f[n]
      BY <1>7, FlattenIsJoined
  <2>2. Joined(g, t, n)
      BY <1>1, <1>3, JoinedLess
  <2>3. f[n] = g[n]
    <3>0. \A j \in 1 .. n : s[j] = t[j]
        BY <1>1
    <3>1. \A j \in 1 .. n : f[j] = g[j]
      <4>1. n \in Nat /\ Joined(f, s, n)
          BY <1>1, <2>1
      <4>2. Agree(s, t, n)
          BY <3>0 DEF Agree
      <4> HIDE DEF n
      <4>3. Agree(f, g, n)
          BY <2>2, <4>1, <4>2, JoinedAgree
      <4> QED
          BY <4>3 DEF Agree
    <3> QED
        BY <2>0, <3>1
  <2> QED
      BY <1>3, <1>5, <2>0, <2>1, <2>3 DEF t
<1> QED
    BY <1>6, <1>7

\* Concatenation, kept opaque to the provers.
Cat(s, t) == s \o t

\* It is associative.
LEMMA CatAssociative ==
  ASSUME NEW S, NEW s \in Seq(S), NEW t \in Seq(S), NEW u \in Seq(S)
  PROVE  Cat(Cat(s, t), u) = Cat(s, Cat(t, u))
<1>1. (s \o t) \o u = s \o (t \o u)
    BY ConcatAssociative
<1> QED
    BY <1>1 DEF Cat

\* All of them but the first, behind the first.
LEMMA FlattenFirst ==
  ASSUME NEW S, NEW s \in Seq(Seq(S)), NEW t \in Seq(Seq(S)), NEW b \in Seq(S),
         Len(s) = Len(t) + 1, s[1] = b,
         \A j \in 1 .. Len(t) : s[j + 1] = t[j]
  PROVE  FlattenSeq(s) = b \o FlattenSeq(t)
<1> DEFINE n == Len(t)
<1>1. n \in Nat /\ Len(s) = n + 1 /\ s # <<>>
    BY LenProperties, EmptySeq
<1>2. PICK f \in [1 .. n + 1 -> Seq(S)] :
             Joined(f, s, n + 1) /\ FlattenSeq(s) = f[n + 1]
    BY <1>1, FlattenIsJoined
<1>3. f[1] = b
    BY <1>1, <1>2 DEF Joined
<1>4. CASE t = <<>>
  <2>1. n = 0 /\ FlattenSeq(t) = <<>>
      BY <1>4, FlattenNone, EmptySeq
  <2> QED
      BY <1>2, <1>3, <2>1, ConcatEmptySeq
<1>5. CASE t # <<>>
  <2>0. n \in Nat \ {0}
      BY <1>1, <1>5, EmptySeq
  <2>1. PICK g \in [1 .. n -> Seq(S)] :
               Joined(g, t, n) /\ FlattenSeq(t) = g[n]
      BY <1>5, FlattenIsJoined
  <2> DEFINE T == {m \in Nat : m + 1 <= n => f[m + 2] = b \o g[m + 1]}
  <2> HIDE DEF n
  <2>2. 0 \in T
    <3>1. 1 \in 1 .. n /\ 2 \in 1 .. n + 1 /\ 2 - 1 = 1 /\ 1 + 1 = 2
        BY <2>0
    <3>2. f[2] = f[1] \o s[2]
      <4>1. f[2] = IF 2 = 1 THEN s[2] ELSE f[2 - 1] \o s[2]
          BY <1>2, <3>1 DEF Joined
      <4>2. 2 # 1 /\ 2 - 1 = 1
          OBVIOUS
      <4> QED
          BY <4>1, <4>2
    <3>3. g[1] = t[1]
        BY <2>1, <3>1 DEF Joined
    <3>4. s[2] = t[1]
        BY <3>1 DEF n
    <3>5. f[2] = b \o g[1]
        BY <1>3, <3>2, <3>3, <3>4
    <3> QED
        BY <3>5
  <2>3. ASSUME NEW m \in Nat, m \in T
        PROVE  m + 1 \in T
    <3> SUFFICES ASSUME m + 2 <= n
                 PROVE  f[m + 3] = b \o g[m + 2]
        BY <2>3
    <3>1. /\ m + 3 \in 1 .. n + 1 /\ m + 3 # 1 /\ (m + 3) - 1 = m + 2
          /\ m + 2 \in 1 .. n /\ m + 2 # 1 /\ (m + 2) - 1 = m + 1
          /\ (m + 2) + 1 = m + 3 /\ m + 1 <= n /\ m + 1 \in 1 .. n
        BY <2>0
    <3>2. f[m + 3] = f[m + 2] \o s[m + 3]
        BY <1>2, <3>1 DEF Joined
    <3>3. g[m + 2] = g[m + 1] \o t[m + 2]
        BY <2>1, <3>1 DEF Joined
    <3>4. s[m + 3] = t[m + 2]
        BY <3>1 DEF n
    <3>5. f[m + 2] = b \o g[m + 1]
        BY <2>3, <3>1
    <3>6. g[m + 1] \in Seq(S) /\ t[m + 2] \in Seq(S)
        BY <2>1, <3>1, ElementOfSeq DEF n
    <3>7. b \o (g[m + 1] \o t[m + 2]) = (b \o g[m + 1]) \o t[m + 2]
      <4> DEFINE u == g[m + 1]
                 v == t[m + 2]
      <4>1. u \in Seq(S) /\ v \in Seq(S)
          BY <3>6
      <4> HIDE DEF u, v, T
      <4>2. Cat(Cat(b, u), v) = Cat(b, Cat(u, v))
          BY <4>1, CatAssociative
      <4> QED
          BY <4>2 DEF u, v, Cat
    <3> QED
        BY <3>2, <3>3, <3>4, <3>5, <3>7
  <2>4. n - 1 \in T
    <3> HIDE DEF T
    <3>1. Nat \subseteq T
        BY <2>2, <2>3, NatSet
    <3> QED
        BY <2>0, <3>1
  <2>5. (n - 1) + 2 = n + 1 /\ (n - 1) + 1 = n /\ n <= n
      BY <2>0
  <2>6. f[n + 1] = b \o g[n]
      BY <2>4, <2>5
  <2> QED
      BY <1>2, <2>1, <2>6
<1> QED
    BY <1>4, <1>5

\* A line fits into an empty buffer.
LEMMA EmptyFits == Avail(<<>>) = BufSize
<1>1. DOMAIN <<>> = {}
    BY EmptySeq
<1>2. BufSize - 0 = BufSize
    BY ConstantsOK
<1> QED
    BY <1>1, <1>2 DEF Avail, FoldSeq, FoldFunction, FoldFunctionOnSet,
                      MapThenFoldSet

------------------------------------------------------------------------------
(* No line is lost.                                                        *)

\* NoLineLost with its concatenations opaque.
LEMMA LinesHeld ==
  NoLineLost <=>
    logged = Cat(Cat(Cat(file, FlattenSeq(Unwritten)), FlattenSeq(buffers)),
                 currentBuffer)
  BY DEF NoLineLost, Cat

\* Lines one after the other are lines.
LEMMA CatTypes ==
  ASSUME NEW S, NEW s \in Seq(S), NEW t \in Seq(S)
  PROVE  Cat(s, t) \in Seq(S) /\ Cat(s, <<>>) = s /\ Cat(<<>>, s) = s
  BY ConcatProperties, ConcatEmptySeq DEF Cat

\* A line behind the last of them.
Put(s, e) == Append(s, e)

\* It goes behind all of them.
LEMMA CatPut ==
  ASSUME NEW S, NEW s \in Seq(S), NEW t \in Seq(S), NEW e \in S
  PROVE  Put(Cat(s, t), e) = Cat(s, Put(t, e))
<1> DEFINE one == <<e>>
<1>1. Cat(s, t) \in Seq(S) /\ one \in Seq(S)
    BY CatTypes
<1>2. Put(Cat(s, t), e) = Cat(Cat(s, t), one)
    BY <1>1, AppendIsConcat DEF Cat, Put
<1>3. Put(t, e) = Cat(t, one)
    BY AppendIsConcat DEF Cat, Put
<1> HIDE DEF one
<1> QED
    BY <1>1, <1>2, <1>3, CatAssociative

\* What is left to write is a sequence of buffers.
LEMMA UnwrittenTypes ==
  ASSUME TypeOK
  PROVE  /\ Unwritten \in Seq(Seq(Line))
         /\ FlattenSeq(Unwritten) \in Seq(Line)
         /\ FlattenSeq(buffers) \in Seq(Line)
<1>1. /\ buffers \in Seq(Seq(Line)) /\ buffersToWrite \in Seq(Seq(Line))
      /\ i \in Int /\ Len(buffersToWrite) \in Nat /\ <<>> \in Seq(Line)
      /\ i >= 1
    BY LenProperties, EmptySeq DEF TypeOK, Buffer
<1>2. \A j \in i .. Len(buffersToWrite) : buffersToWrite[j] \in Seq(Line)
    BY <1>1, ElementOfSeq
<1>3. SubSeq(buffersToWrite, i, Len(buffersToWrite)) \in Seq(Seq(Line))
    BY <1>1, <1>2, SubSeqProperties
<1>4. Unwritten \in Seq(Seq(Line))
    BY <1>3, EmptySeq DEF Unwritten
<1> QED
    BY <1>1, <1>4, FlattenAppend

\* append(): a line that fits goes to the end of the current buffer; for one
\* that does not, the current buffer goes to the end of the full ones.
LEMMA KeptByAppend ==
  ASSUME TypeOK, NoLineLost, NEW len \in Lens, AppendLine(len),
         Unwritten' = Unwritten, file' = file
  PROVE  NoLineLost'
<1> DEFINE line == [id |-> Len(logged) + 1, len |-> len]
           b == FlattenSeq(Unwritten)
           c == FlattenSeq(buffers)
           front == Cat(file, b)
<1>1. line \in Line
  <2>1. Len(logged) \in Nat /\ Len(logged) < MaxLines /\ MaxLines \in Nat
      BY LenProperties, ConstantsOK DEF TypeOK, AppendLine
  <2> QED
      BY <2>1 DEF Line
<1>2. logged' = Put(logged, line) /\ line.len = len
    BY DEF AppendLine, Put
<1>3. /\ file \in Seq(Line) /\ b \in Seq(Line) /\ c \in Seq(Line)
      /\ currentBuffer \in Seq(Line) /\ buffers \in Seq(Seq(Line))
    BY UnwrittenTypes DEF TypeOK, Buffer
<1>4. front \in Seq(Line) /\ Cat(front, c) \in Seq(Line)
    BY <1>3, CatTypes
<1>5. logged = Cat(Cat(front, c), currentBuffer)
    BY LinesHeld
<1>6. Cat(file', FlattenSeq(Unwritten')) = front
    OBVIOUS
<1>7. CASE Fits(currentBuffer, len)
  <2>1. currentBuffer' = Put(currentBuffer, line) /\ buffers' = buffers
      BY <1>2, <1>7 DEF AppendLine, Fits, Filled, Put
  <2> HIDE DEF line, front, b, c
  <2>2. logged' = Cat(Cat(front, c), currentBuffer')
      BY <1>1, <1>2, <1>3, <1>4, <1>5, <2>1, CatPut
  <2> QED
      BY <1>6, <2>1, <2>2 DEF NoLineLost, Cat, c
<1>8. CASE ~Fits(currentBuffer, len)
  <2>1. buffers' = Append(buffers, currentBuffer)
      BY <1>8 DEF AppendLine
  <2>2. currentBuffer' = Put(<<>>, line)
    <3>1. currentBuffer' = Filled(<<>>, line)
        BY <1>8 DEF AppendLine
    <3>2. BufSize > len
        BY ConstantsOK
    <3> QED
        BY <1>2, <3>1, <3>2, EmptyFits DEF Filled, Put
  <2>3. FlattenSeq(buffers') = Cat(c, currentBuffer)
      BY <1>3, <2>1, FlattenAppend DEF Cat
  <2> HIDE DEF line, front, b, c
  <2>4. Cat(front, Cat(c, currentBuffer)) = logged
      BY <1>3, <1>4, <1>5, CatAssociative
  <2>5. logged \in Seq(Line) /\ <<>> \in Seq(Line)
      BY EmptySeq DEF TypeOK
  <2>6. Cat(logged, <<>>) = logged
      BY <2>5, CatTypes
  <2>7. Put(Cat(logged, <<>>), line) = Cat(logged, Put(<<>>, line))
    <3> DEFINE none == <<>>
    <3>1. none \in Seq(Line)
        BY <2>5
    <3> HIDE DEF none
    <3>2. Put(Cat(logged, none), line) = Cat(logged, Put(none, line))
        BY <1>1, <2>5, <3>1, CatPut
    <3> QED
        BY <3>2 DEF none
  <2>8. logged' = Cat(Cat(front, FlattenSeq(buffers')), currentBuffer')
      BY <1>2, <2>2, <2>3, <2>4, <2>6, <2>7
  <2> QED
      BY <1>6, <2>8 DEF NoLineLost, Cat
<1> QED
    BY <1>7, <1>8

\* The swap: the full buffers and then the current one are what is to be
\* written, and the front end goes on with empty ones.
LEMMA KeptBySwap ==
  ASSUME TypeOK, PoolBalanced, NoLineLost, SwapBuffers
  PROVE  NoLineLost'
<1> DEFINE c == FlattenSeq(buffers)
<1>1. /\ file \in Seq(Line) /\ c \in Seq(Line)
      /\ currentBuffer \in Seq(Line) /\ buffers \in Seq(Seq(Line))
    BY UnwrittenTypes DEF TypeOK, Buffer
<1>2. Unwritten = <<>> /\ buffersToWrite = <<>> /\ newBuffer1 = <<>>
    BY DEF SwapBuffers, PoolBalanced, Unwritten, TypeOK
<1>3. /\ buffersToWrite' = Append(buffers, currentBuffer)
      /\ buffers' = <<>> /\ currentBuffer' = <<>>
      /\ pc' = "write" /\ i' = 1 /\ file' = file /\ logged' = logged
    BY <1>2 DEF SwapBuffers, fileVars
<1>4. Unwritten' = Append(buffers, currentBuffer)
  <2>1. Append(buffers, currentBuffer) \in Seq(Seq(Line))
      BY <1>1, AppendProperties
  <2>2. Unwritten' = SubSeq(buffersToWrite', 1, Len(buffersToWrite'))
      BY <1>3 DEF Unwritten
  <2> QED
      BY <1>3, <2>1, <2>2, SubSeqFull
<1>5. FlattenSeq(Unwritten') = Cat(c, currentBuffer)
    BY <1>1, <1>4, FlattenAppend DEF Cat
<1>6. FlattenSeq(buffers') = <<>> /\ FlattenSeq(Unwritten) = <<>>
    BY <1>2, <1>3, FlattenNone
<1>7. logged = Cat(Cat(file, c), currentBuffer)
  <2>1. logged = Cat(Cat(Cat(file, <<>>), c), currentBuffer)
      BY <1>6, LinesHeld
  <2> QED
      BY <1>1, <2>1, CatTypes
<1> HIDE DEF c
<1>8. logged = Cat(file, Cat(c, currentBuffer))
    BY <1>1, <1>7, CatAssociative
<1>9. logged \in Seq(Line)
    BY DEF TypeOK
<1>10. Cat(Cat(logged, <<>>), <<>>) = logged
    BY <1>9, CatTypes
<1>11. logged' = Cat(Cat(Cat(file', FlattenSeq(Unwritten')),
                         FlattenSeq(buffers')), currentBuffer')
    BY <1>3, <1>5, <1>6, <1>8, <1>10
<1> QED
    BY <1>11 DEF NoLineLost, Cat

\* output.append(): the first of the buffers still to be written goes to the
\* end of the file.
LEMMA KeptByWrite ==
  ASSUME TypeOK, NoLineLost, WriteBuffer
  PROVE  NoLineLost'
<1> DEFINE n == Len(buffersToWrite)
           s == SubSeq(buffersToWrite, i, n)
           t == SubSeq(buffersToWrite, i + 1, n)
           b == buffersToWrite[i]
           u == FlattenSeq(t)
<1>1. /\ pc = "write" /\ pc' = "write" /\ i' = i + 1
      /\ buffersToWrite' = buffersToWrite /\ i <= n
      /\ file' = Cat(file, b) /\ logged' = logged
      /\ buffers' = buffers /\ currentBuffer' = currentBuffer
    BY DEF WriteBuffer, frontVars, Cat
<1>2. /\ i \in Int /\ i >= 1 /\ n \in Nat /\ i + 1 \in Int
      /\ buffersToWrite \in Seq(Seq(Line)) /\ file \in Seq(Line)
    BY LenProperties DEF TypeOK, Buffer
<1>3. \A j \in 1 .. n : buffersToWrite[j] \in Seq(Line)
    BY <1>2, ElementOfSeq
<1>4. b \in Seq(Line)
    BY <1>1, <1>2, <1>3
<1>5. /\ s \in Seq(Seq(Line)) /\ Len(s) = n - i + 1
      /\ \A j \in 1 .. n - i + 1 : s[j] = buffersToWrite[i + j - 1]
  <2>1. \A j \in i .. n : buffersToWrite[j] \in Seq(Line)
      BY <1>2, <1>3
  <2>2. n \in Int /\ i \in Int /\ i <= n
      BY <1>1, <1>2
  <2> HIDE DEF n
  <2>3. s \in Seq(Seq(Line))
      BY <2>1, <2>2, SubSeqProperties
  <2>4. Len(s) = n - i + 1
      BY <2>1, <2>2, SubSeqProperties
  <2>5. \A j \in 1 .. n - i + 1 : s[j] = buffersToWrite[i + j - 1]
      BY <2>1, <2>2, SubSeqProperties
  <2> QED
      BY <2>3, <2>4, <2>5
<1>6. /\ t \in Seq(Seq(Line)) /\ Len(t) = n - i
      /\ \A j \in 1 .. n - i : t[j] = buffersToWrite[i + j]
  <2>1. \A j \in i + 1 .. n : buffersToWrite[j] \in Seq(Line)
      BY <1>2, <1>3
  <2>2. n - (i + 1) + 1 = n - i /\ (i + 1 > n => n - i = 0)
      BY <1>1, <1>2
  <2> HIDE DEF n
  <2>4. /\ t \in Seq(Seq(Line))
        /\ Len(t) = IF i + 1 <= n THEN n - (i + 1) + 1 ELSE 0
        /\ \A j \in 1 .. n - (i + 1) + 1 :
             t[j] = buffersToWrite[(i + 1) + j - 1]
      BY <1>1, <1>2, <2>1, SubSeqProperties
  <2> HIDE DEF t
  <2>5. Len(t) = n - i
      BY <1>1, <1>2, <2>4
  <2>6. \A j \in 1 .. n - i : t[j] = buffersToWrite[i + j]
    <3> TAKE j \in 1 .. n - i
    <3>1. j \in 1 .. n - (i + 1) + 1 /\ (i + 1) + j - 1 = i + j
        BY <1>2, <2>2
    <3> QED
        BY <2>4, <3>1
  <2> QED
      BY <2>4, <2>5, <2>6
<1>7. FlattenSeq(s) = Cat(b, u)
  <2>1. Len(s) = Len(t) + 1
      BY <1>1, <1>2, <1>5, <1>6
  <2>2. s[1] = b
    <3>1. 1 \in 1 .. n - i + 1 /\ i + 1 - 1 = i
        BY <1>1, <1>2
    <3> HIDE DEF n, s
    <3> QED
        BY <1>5, <3>1
  <2>3. \A j \in 1 .. Len(t) : s[j + 1] = t[j]
    <3> TAKE j \in 1 .. Len(t)
    <3>1. /\ j \in 1 .. n - i /\ j + 1 \in 1 .. n - i + 1
          /\ i + (j + 1) - 1 = i + j
        BY <1>1, <1>2, <1>6
    <3> HIDE DEF n, s, t
    <3> QED
        BY <1>5, <1>6, <3>1
  <2> HIDE DEF n, s, t, b
  <2> QED
      BY <1>4, <1>5, <1>6, <2>1, <2>2, <2>3, FlattenFirst DEF Cat
<1>8. Unwritten = s /\ Unwritten' = t
    BY <1>1 DEF Unwritten
<1>9. u \in Seq(Line)
  <2> HIDE DEF t
  <2> QED
      BY <1>4, <1>6, FlattenAppend
<1>10. logged = Cat(Cat(Cat(file, Cat(b, u)), FlattenSeq(buffers)),
                    currentBuffer)
    BY <1>7, <1>8, LinesHeld
<1> HIDE DEF b, u, t, s, n
<1>11. Cat(file, Cat(b, u)) = Cat(Cat(file, b), u)
    BY <1>2, <1>4, <1>9, CatAssociative
<1>12. FlattenSeq(Unwritten') = u
    BY <1>8 DEF u
<1>13. logged' = Cat(Cat(Cat(file', FlattenSeq(Unwritten')),
                         FlattenSeq(buffers')), currentBuffer')
    BY <1>1, <1>10, <1>11, <1>12
<1> QED
    BY <1>13 DEF NoLineLost, Cat

\* Every other step leaves every line where it is.
LEMMA LineStep ==
  TypeOK /\ PoolBalanced /\ NoLineLost /\ [Next]_vars => NoLineLost'
<1> SUFFICES ASSUME TypeOK, PoolBalanced, NoLineLost, [Next]_vars
             PROVE  NoLineLost'
    OBVIOUS
<1>1. ASSUME NEW t \in Threads, NEW len \in Lens,
             Log(t, len) \/ LogFatal(t, len)
      PROVE  NoLineLost'
  <2>1. AppendLine(len)
      BY <1>1 DEF Log, LogFatal
  <2>2. file' = file /\ Unwritten' = Unwritten
      BY <1>1 DEF Log, LogFatal, fileVars, spareVars, Unwritten
  <2> QED
      BY <2>1, <2>2, KeptByAppend
<1>2. ASSUME UNCHANGED <<frontVars, file>>, Unwritten' = Unwritten
      PROVE  NoLineLost'
    BY <1>2 DEF NoLineLost, frontVars
<1>3. ASSUME NEW t \in Threads, StopStep(t)
      PROVE  NoLineLost'
    BY <1>2, <1>3 DEF StopStep, StopRunning, StopNotify, TestJoined, SetJoined,
                      JoinAndAbort, Unwritten, spareVars, fileVars
<1>4. CASE Start \/ EnterThread \/ TestRunning \/ BeginWait
    BY <1>2, <1>4 DEF Start, EnterThread, TestRunning, BeginWait, Unwritten,
                      spareVars, fileVars
<1>5. CASE FlushRound \/ ExitThread
    BY <1>2, <1>5 DEF FlushRound, ExitThread, Unwritten
<1>6. CASE Recycle
  <2>1. /\ pc = "write" /\ pc' = "flush" /\ i > Len(buffersToWrite)
        /\ UNCHANGED <<frontVars, file>>
      BY <1>6 DEF Recycle, fileVars
  <2>2. i \in Int /\ Len(buffersToWrite) \in Int
      BY LenProperties DEF TypeOK
  <2>3. SubSeq(buffersToWrite, i, Len(buffersToWrite)) = <<>>
      BY <2>1, <2>2, SubSeqEmpty
  <2> QED
      BY <1>2, <2>1, <2>3 DEF Unwritten
<1>7. CASE SwapBuffers
    BY <1>7, KeptBySwap
<1>8. CASE WriteBuffer
    BY <1>8, KeptByWrite
<1>9. CASE UNCHANGED vars
    BY <1>2, <1>9 DEF vars, Unwritten, spareVars, fileVars
<1> QED
    BY <1>1, <1>3, <1>4, <1>5, <1>6, <1>7, <1>8, <1>9 DEF Next, ThreadStep

\* Every line append() takes is in one place, and in order, whatever the
\* buffers hold and however many are filled in a round.
THEOREM EveryLineKept == Spec => []NoLineLost
<1>1. Init => NoLineLost
  <2> SUFFICES ASSUME Init
               PROVE  NoLineLost
      OBVIOUS
  <2>1. Unwritten = <<>> /\ buffers = <<>>
      BY DEF Init, Unwritten
  <2>2. FlattenSeq(Unwritten) = <<>> /\ FlattenSeq(buffers) = <<>>
      BY <2>1, FlattenNone
  <2>3. logged = <<>> /\ file = <<>> /\ currentBuffer = <<>>
      BY DEF Init
  <2>4. <<>> \in Seq(Line)
      BY EmptySeq
  <2>5. Cat(Cat(Cat(<<>>, <<>>), <<>>), <<>>) = <<>>
      BY <2>4, CatTypes
  <2> QED
      BY <2>2, <2>3, <2>5, LinesHeld
<1> QED
    BY <1>1, LineStep, PoolInvariant, PTL DEF Spec

------------------------------------------------------------------------------
(* The logger implements the journal.                                      *)

\* What the kernel has is a prefix of the lines taken.
StoredPrefix ==
  /\ SubSeq(file, 1, flushed) = SubSeq(logged, 1, flushed)
  /\ Len(SubSeq(file, 1, flushed)) = flushed
  /\ flushed \in 0 .. Len(logged)

\* It follows from where the lines are.
LEMMA StoredIsPrefix == TypeOK /\ NoLineLost => StoredPrefix
<1> SUFFICES ASSUME TypeOK, NoLineLost
             PROVE  StoredPrefix
    OBVIOUS
<1> DEFINE b == FlattenSeq(Unwritten)
           c == FlattenSeq(buffers)
           rest == Cat(Cat(b, c), currentBuffer)
<1>1. /\ file \in Seq(Line) /\ b \in Seq(Line) /\ c \in Seq(Line)
      /\ currentBuffer \in Seq(Line) /\ logged \in Seq(Line)
      /\ flushed \in 0 .. Len(file)
    BY UnwrittenTypes DEF TypeOK, Buffer
<1>2. logged = Cat(Cat(Cat(file, b), c), currentBuffer)
    BY LinesHeld
<1> HIDE DEF b, c
<1>3. Cat(b, c) \in Seq(Line)
    BY <1>1, CatTypes
<1>4. rest \in Seq(Line)
    BY <1>1, <1>3, CatTypes
<1>5. Cat(Cat(file, b), c) = Cat(file, Cat(b, c))
    BY <1>1, CatAssociative
<1>6. logged = Cat(file, rest)
    BY <1>1, <1>2, <1>3, <1>5, CatAssociative
<1> HIDE DEF rest
<1>7. Len(logged) = Len(file) + Len(rest) /\ Len(file) \in Nat /\ Len(rest) \in Nat
    BY <1>1, <1>4, <1>6, ConcatProperties, LenProperties DEF Cat
<1>8. SubSeq(file, 1, flushed) = SubSeq(logged, 1, flushed)
  <2>1. CASE flushed = 0
      BY <2>1, SubSeqEmpty
  <2>2. CASE flushed # 0
    <3>1. 1 \in 1 .. Len(file) /\ flushed \in 1 .. Len(file)
        BY <1>1, <1>7, <2>2
    <3>2. SubSeq(file \o rest, 1, flushed) = SubSeq(file, 1, flushed)
        BY <1>1, <1>4, <3>1, SubSeqOfConcat1
    <3> QED
        BY <1>6, <3>2 DEF Cat
  <2> QED
      BY <2>1, <2>2
<1>9. Len(SubSeq(file, 1, flushed)) = flushed
    BY <1>1, PrefixTypes
<1>10. flushed \in 0 .. Len(logged)
    BY <1>1, <1>7
<1> QED
    BY <1>8, <1>9, <1>10 DEF StoredPrefix

\* A step takes a line, or gives the kernel some, or none.
LEMMA JournalCases ==
  ASSUME TypeOK, PoolBalanced, TypeOK', [Next]_vars
  PROVE  \/ /\ \E line \in Line : logged' = Append(logged, line)
            /\ file' = file /\ flushed' = flushed
         \/ logged' = logged /\ flushed' >= flushed
<1> USE DEF fileVars, frontVars
<1>1. ASSUME NEW t \in Threads, NEW len \in Lens,
             Log(t, len) \/ LogFatal(t, len)
      PROVE  /\ \E line \in Line : logged' = Append(logged, line)
             /\ file' = file /\ flushed' = flushed
  <2> DEFINE line == [id |-> Len(logged) + 1, len |-> len]
  <2>1. AppendLine(len) /\ file' = file /\ flushed' = flushed
      BY <1>1 DEF Log, LogFatal
  <2>2. Len(logged) \in Nat /\ Len(logged) < MaxLines /\ MaxLines \in Nat
      BY <2>1, LenProperties, ConstantsOK DEF TypeOK, AppendLine
  <2>3. line \in Line
      BY <2>2 DEF Line
  <2>4. logged' = Append(logged, line)
      BY <2>1 DEF AppendLine
  <2> HIDE DEF line
  <2> QED
      BY <2>1, <2>3, <2>4
<1>2. flushed \in Int /\ flushed <= Len(file) /\ flushed >= flushed
  <2>1. Len(file) \in Nat /\ flushed \in 0 .. Len(file)
      BY LenProperties DEF TypeOK
  <2> QED
      BY <2>1
<1>3. ASSUME NEW t \in Threads, StopStep(t)
      PROVE  logged' = logged /\ flushed' >= flushed
    BY <1>2, <1>3 DEF StopStep, StopRunning, StopNotify, TestJoined, SetJoined,
                      JoinAndAbort
<1>4. CASE \/ Start \/ EnterThread \/ TestRunning \/ BeginWait
           \/ SwapBuffers \/ Recycle
    BY <1>2, <1>4 DEF Start, EnterThread, TestRunning, BeginWait, SwapBuffers,
                      Recycle
<1>5. CASE FlushRound \/ ExitThread
    BY <1>2, <1>5 DEF FlushRound, FlushedRound, ExitThread
<1>6. CASE WriteBuffer
  <2>1. /\ logged' = logged /\ file' = file \o buffersToWrite[i]
        /\ flushed' = Len(file') \/ flushed' \in flushed .. Len(file')
        /\ i <= Len(buffersToWrite)
      BY <1>6 DEF WriteBuffer
  <2>2. buffersToWrite \in Seq(Seq(Line)) /\ file \in Seq(Line)
        /\ i \in Nat \ {0} /\ Len(buffersToWrite) \in Nat
      BY LenProperties DEF TypeOK, Buffer
  <2>3. i \in 1 .. Len(buffersToWrite)
      BY <2>1, <2>2
  <2>4. buffersToWrite[i] \in Seq(Line)
      BY <2>2, <2>3, ElementOfSeq
  <2>5. /\ Len(file') = Len(file) + Len(buffersToWrite[i])
        /\ Len(file) \in Nat /\ Len(buffersToWrite[i]) \in Nat
      BY <2>1, <2>2, <2>4, ConcatProperties, LenProperties
  <2>6. Len(file') >= flushed /\ Len(file') \in Int
      BY <1>2, <2>5
  <2> QED
      BY <1>2, <2>1, <2>6
<1>7. CASE UNCHANGED vars
    BY <1>2, <1>7 DEF vars
<1> QED
    BY <1>1, <1>3, <1>4, <1>5, <1>6, <1>7 DEF Next, ThreadStep

\* Every step is one of the journal, or leaves it alone.
LEMMA JournalStep ==
  ASSUME TypeOK, PoolBalanced, NoLineLost, TypeOK', NoLineLost', [Next]_vars
  PROVE  [J!Next]_<<logged, SubSeq(file, 1, flushed)>>
<1> DEFINE stored == SubSeq(file, 1, flushed)
<1>1. CASE /\ \E line \in Line : logged' = Append(logged, line)
           /\ file' = file /\ flushed' = flushed
  <2>1. J!Accept
      BY <1>1 DEF J!Accept
  <2> QED
      BY <2>1 DEF J!Next
<1>2. CASE logged' = logged /\ flushed' >= flushed
  <2>1. /\ stored = SubSeq(logged, 1, flushed) /\ Len(stored) = flushed
        /\ flushed \in Int
      BY StoredIsPrefix DEF StoredPrefix
  <2>2. /\ stored' = SubSeq(logged', 1, flushed')
        /\ flushed' \in 0 .. Len(logged')
    <3>1. StoredPrefix'
        BY StoredIsPrefix, PTL
    <3> QED
        BY <3>1 DEF StoredPrefix
  <2>3. CASE flushed' = flushed
      BY <1>2, <2>1, <2>2, <2>3
  <2>4. CASE flushed' # flushed
    <3>1. flushed' \in Len(stored) + 1 .. Len(logged)
      <4>1. flushed' \in Int /\ flushed' <= Len(logged)
          BY <1>2, <2>2
      <4> HIDE DEF stored
      <4> QED
          BY <1>2, <2>1, <2>4, <4>1
    <3>2. J!Store
        BY <1>2, <2>2, <3>1 DEF J!Store
    <3> QED
        BY <3>2 DEF J!Next
  <2> QED
      BY <2>3, <2>4
<1> QED
    BY <1>1, <1>2, JournalCases

\* The file holds a prefix of the lines in the order in which append() took
\* them, and it only grows, for any threads, lengths and buffers.
THEOREM JournalImplemented == Spec => ImplementsJournal
<1>1. Init => J!Init
    BY SubSeqEmpty DEF Init, J!Init
<1>2. /\ TypeOK /\ PoolBalanced /\ NoLineLost /\ TypeOK' /\ NoLineLost'
      /\ [Next]_vars
      => [J!Next]_<<logged, SubSeq(file, 1, flushed)>>
    BY JournalStep
<1> QED
    BY <1>1, <1>2, PoolInvariant, EveryLineKept, PTL
    DEF Spec, ImplementsJournal, J!Spec
==============================================================================

---------------------------- MODULE LoggingAsync -----------------------------
(***************************************************************************)
(* The asynchronous log (src/base/LoggingAsync, LogFile, FileUtil, log.h): *)
(* any thread appends lines under mutex_ to the current one of a few       *)
(* buffers, and the logging thread swaps the filled buffers out and writes *)
(* them to the file.  log_fatal() appends a line, stops the logging thread *)
(* and aborts the process.                                                 *)
(*                                                                         *)
(* mutex_ is held for one step at a time: append() is one step, and so is  *)
(* the critical section of threadFunc on either side of its timed wait.    *)
(* running_, notify_one and joined_ are used without it, a step for each.  *)
(***************************************************************************)
EXTENDS Integers, SequencesExt

CONSTANTS
  Threads,               \* the threads that log
  MaxLines,              \* bound: the lines they log in all
  Lens,                  \* the lengths a line may have
  BufSize,               \* the size of a FixedBuffer
  FlushEveryN,           \* flushEveryN_ of LogFile
  Null                   \* a unique_ptr that owns nothing

\* A line fits into an empty buffer (avail() > len), and a buffer is
\* something.
ASSUME ConstantsOK ==
  /\ BufSize \in Nat /\ Lens \subseteq 1 .. BufSize - 1
  /\ FlushEveryN \in Nat /\ MaxLines \in Nat
  /\ Null # <<>>

VARIABLES
  logged,                \* the lines append() has taken, oldest first
  running,               \* running_
  currentBuffer, nextBuffer, buffers,        \* guarded by mutex_
  pc,                    \* where the logging thread is
  newBuffer1, newBuffer2, buffersToWrite, i, \* the locals of threadFunc
  signaled,              \* the logging thread waits and has been notified
  count,                 \* count_ of LogFile
  file,                  \* the lines given to fwrite
  flushed,               \* how many of them the kernel has
  caller,                \* where a thread inside log_fatal is
  fatalLine,             \* the number of the line it logged
  joined,                \* joined_ of thread_
  dead                   \* how the process ended

frontVars == <<logged, currentBuffer, nextBuffer, buffers>>
spareVars == <<newBuffer1, newBuffer2, buffersToWrite, i>>
fileVars == <<count, file, flushed>>
fatalVars == <<caller, fatalLine, joined, dead>>
vars == <<frontVars, running, pc, spareVars, signaled, fileVars, fatalVars>>

\* A buffer is the sequence of the lines in it.
Line == [id : 1 .. MaxLines, len : Lens]
Avail(b) == BufSize - FoldSeq(LAMBDA line, n : line.len + n, 0, b)

Init ==
  /\ logged = <<>>
  /\ running = FALSE
  /\ currentBuffer = <<>>
  /\ nextBuffer = <<>>
  /\ buffers = <<>>
  /\ pc = "none"
  /\ newBuffer1 = <<>>
  /\ newBuffer2 = <<>>
  /\ buffersToWrite = <<>>
  /\ i = 1
  /\ signaled = FALSE
  /\ count = 0
  /\ file = <<>>
  /\ flushed = 0
  /\ caller = [t \in Threads |-> "free"]
  /\ fatalLine = [t \in Threads |-> 0]
  /\ joined = FALSE
  /\ dead = "no"

------------------------------------------------------------------------------
(* The pieces that are easiest to get wrong, each after a variant with a   *)
(* mistake one could make in it (Bug_...), which no action uses.           *)

\* The test of LoggingAsync::append; FixedBuffer::append makes it again and
\* drops the line when it fails.
Bug_FitsExactly(b, len) == Avail(b) >= len
Fits(b, len) == Avail(b) > len
Filled(b, line) == IF Avail(b) > line.len THEN Append(b, line) ELSE b

\* cond_.notify_one(): lost unless the logging thread is waiting.
Bug_NoNotify == signaled
NotifyOne == signaled \/ pc = "wait"

\* newBuffer->init() on a buffer taken back.
Bug_NotCleared(b) == b
Cleared(b) == <<>>

\* resize(2): the first buffers written are kept as spares.
Resized(bs) == IF Len(bs) > 2 THEN SubSeq(bs, 1, 2) ELSE bs

\* nextBuffer_ after a swap that found it empty.
Bug_NextKept == nextBuffer
Refilled == IF nextBuffer = Null THEN newBuffer2 ELSE nextBuffer

\* flush() at the end of each round of the loop.
Bug_FlushSkipped == flushed
FlushedRound == Len(file)

\* count_ of LogFile once it has passed flushEveryN_.
Bug_CountKept == count + 1
CountAfterFlush == 0

\* What wait_seconds(flushInterval_) returns on besides a notification.
Bug_UntimedWait == FALSE
WaitTimesOut == TRUE

------------------------------------------------------------------------------
(* The front end.                                                          *)

\* append(), with the mutex held throughout.
AppendLine(len) ==
  LET line == [id |-> Len(logged) + 1, len |-> len] IN
  /\ pc \notin {"none", "created"}
  /\ Len(logged) < MaxLines
  /\ logged' = Append(logged, line)
  /\ IF Fits(currentBuffer, len)
       THEN /\ currentBuffer' = Filled(currentBuffer, line)
            /\ UNCHANGED <<nextBuffer, buffers, signaled>>
       ELSE /\ buffers' = Append(buffers, currentBuffer)
            /\ currentBuffer' = Filled(<<>>, line)
            /\ nextBuffer' = Null
            /\ signaled' = NotifyOne

\* once_init(): the first call of log() starts the logging thread.
Start ==
  /\ pc = "none"
  /\ pc' = "created"
  /\ running' = TRUE
  /\ UNCHANGED <<frontVars, spareVars, signaled, fileVars, fatalVars>>

\* log() and, twice, log_syserr().
Log(t, len) ==
  /\ caller[t] = "free"
  /\ AppendLine(len)
  /\ UNCHANGED <<running, pc, spareVars, fileVars, fatalVars>>

\* log_fatal() and log_error_fatal(): the line, then stop(), then abort().
LogFatal(t, len) ==
  /\ caller[t] = "free"
  /\ AppendLine(len)
  /\ caller' = [caller EXCEPT ![t] = "stop"]
  /\ fatalLine' = [fatalLine EXCEPT ![t] = Len(logged')]
  /\ UNCHANGED <<running, pc, spareVars, fileVars, joined, dead>>

\* stop(): running_ = false
StopRunning(t) ==
  /\ caller[t] = "stop"
  /\ caller' = [caller EXCEPT ![t] = "notify"]
  /\ running' = FALSE
  /\ UNCHANGED <<frontVars, pc, spareVars, signaled, fileVars, fatalLine,
                 joined, dead>>

StopNotify(t) ==
  /\ caller[t] = "notify"
  /\ caller' = [caller EXCEPT ![t] = "join"]
  /\ signaled' = NotifyOne
  /\ UNCHANGED <<frontVars, running, pc, spareVars, fileVars, fatalLine,
                 joined, dead>>

\* Thread::join(): assert(!joined_) ...
TestJoined(t) ==
  /\ caller[t] = "join"
  /\ IF joined THEN dead' = "assert" /\ UNCHANGED caller
               ELSE caller' = [caller EXCEPT ![t] = "join2"] /\ UNCHANGED dead
  /\ UNCHANGED <<frontVars, running, pc, spareVars, signaled, fileVars,
                 fatalLine, joined>>

\* ... joined_ = true and into pthread_join.
SetJoined(t) ==
  /\ caller[t] = "join2"
  /\ caller' = [caller EXCEPT ![t] = "joining"]
  /\ joined' = TRUE
  /\ UNCHANGED <<frontVars, running, pc, spareVars, signaled, fileVars,
                 fatalLine, dead>>

\* pthread_join returns, and abort() ends the process.  A second thread that
\* joins at the same time is undefined: glibc fails its call at once.
JoinAndAbort(t) ==
  /\ caller[t] = "joining"
  /\ \/ pc = "done"
     \/ \E u \in Threads \ {t} : caller[u] = "joining"
  /\ dead' = "abort"
  /\ UNCHANGED <<frontVars, running, pc, spareVars, signaled, fileVars,
                 caller, fatalLine, joined>>

------------------------------------------------------------------------------
(* The logging thread.                                                     *)

\* threadFunc() up to its loop; latch_ lets once_init() return.
EnterThread ==
  /\ pc = "created"
  /\ pc' = "while"
  /\ UNCHANGED <<frontVars, running, spareVars, signaled, fileVars, fatalVars>>

\* while(running_)
TestRunning ==
  /\ pc = "while"
  /\ pc' = IF running THEN "lock" ELSE "exit"
  /\ UNCHANGED <<frontVars, running, spareVars, signaled, fileVars, fatalVars>>

\* buffers_ is empty: wait, which gives the mutex up.
BeginWait ==
  /\ pc = "lock"
  /\ buffers = <<>>
  /\ pc' = "wait"
  /\ signaled' = FALSE
  /\ UNCHANGED <<frontVars, running, spareVars, fileVars, fatalVars>>

\* The rest of the critical section.  The vectors are swapped, so what is
\* left in buffersToWrite would come back into buffers_.
SwapBuffers ==
  /\ \/ pc = "lock" /\ buffers # <<>>
     \/ pc = "wait" /\ (signaled \/ WaitTimesOut)
  /\ pc' = "write"
  /\ signaled' = FALSE
  /\ buffersToWrite' = Append(buffers, currentBuffer)
  /\ buffers' = buffersToWrite
  /\ currentBuffer' = newBuffer1
  /\ newBuffer1' = Null
  /\ nextBuffer' = Refilled
  /\ newBuffer2' = IF nextBuffer = Null THEN Null ELSE newBuffer2
  /\ i' = 1
  /\ UNCHANGED <<logged, running, fileVars, fatalVars>>

\* output.append() of one buffer.  stdio may pass on as much as it likes.
WriteBuffer ==
  /\ pc = "write"
  /\ i <= Len(buffersToWrite)
  /\ file' = file \o buffersToWrite[i]
  /\ i' = i + 1
  /\ IF count + 1 > FlushEveryN
       THEN count' = CountAfterFlush /\ flushed' = Len(file')
       ELSE count' = count + 1 /\ flushed' \in flushed .. Len(file')
  /\ UNCHANGED <<frontVars, running, pc, newBuffer1, newBuffer2,
                 buffersToWrite, signaled, fatalVars>>

\* The two spares are taken from the back of what was written.
Recycle ==
  LET kept  == Resized(buffersToWrite)
      rest  == IF newBuffer1 = Null THEN Front(kept) ELSE kept
      rest2 == IF newBuffer2 = Null THEN Front(rest) ELSE rest
  IN
  /\ pc = "write"
  /\ i > Len(buffersToWrite)
  /\ pc' = "flush"
  /\ newBuffer1' = IF newBuffer1 = Null THEN Cleared(Last(kept)) ELSE newBuffer1
  /\ newBuffer2' = IF newBuffer2 = Null THEN Cleared(Last(rest)) ELSE newBuffer2
  /\ buffersToWrite' = rest2
  /\ UNCHANGED <<frontVars, running, i, signaled, fileVars, fatalVars>>

FlushRound ==
  /\ pc = "flush"
  /\ pc' = "while"
  /\ flushed' = FlushedRound
  /\ UNCHANGED <<frontVars, running, spareVars, signaled, count, file,
                 fatalVars>>

\* The last flush, and the destructor of output.
ExitThread ==
  /\ pc = "exit"
  /\ pc' = "done"
  /\ flushed' = Len(file)
  /\ UNCHANGED <<frontVars, running, spareVars, signaled, count, file,
                 fatalVars>>

------------------------------------------------------------------------------
ThreadStep ==
  \/ EnterThread \/ TestRunning \/ BeginWait \/ SwapBuffers
  \/ WriteBuffer \/ Recycle \/ FlushRound \/ ExitThread

StopStep(t) ==
  \/ StopRunning(t) \/ StopNotify(t)
  \/ TestJoined(t) \/ SetJoined(t) \/ JoinAndAbort(t)

Next ==
  /\ dead = "no"
  /\ \/ Start
     \/ ThreadStep
     \/ \E t \in Threads : StopStep(t)
     \/ \E t \in Threads, len \in Lens : Log(t, len) \/ LogFatal(t, len)

\* The threads of the process run.  A wait that nobody notifies times out, so
\* the fairness of the logging thread ends it; a mutex held for a few
\* assignments is always obtained in the end.
Fairness ==
  /\ WF_vars(ThreadStep /\ dead = "no")
  /\ \A t \in Threads : WF_vars(StopStep(t) /\ dead = "no")

Spec == Init /\ [][Next]_vars /\ Fairness

------------------------------------------------------------------------------
Buffer == Seq(Line)

TypeOK ==
  /\ logged \in Seq(Line) /\ Len(logged) <= MaxLines
  /\ running \in BOOLEAN
  /\ currentBuffer \in Buffer
  /\ nextBuffer \in {<<>>, Null}
  /\ buffers \in Seq(Buffer)
  /\ pc \in {"none", "created", "while", "lock", "wait", "write", "flush",
             "exit", "done"}
  /\ newBuffer1 \in {<<>>, Null} /\ newBuffer2 \in {<<>>, Null}
  /\ buffersToWrite \in Seq(Buffer)
  /\ i \in Nat \ {0}
  /\ signaled \in BOOLEAN
  /\ count \in 0 .. FlushEveryN
  /\ file \in Seq(Line) /\ flushed \in 0 .. Len(file)
  /\ caller \in [Threads -> {"free", "stop", "notify", "join", "join2",
                             "joining"}]
  /\ fatalLine \in [Threads -> 0 .. MaxLines]
  /\ joined \in BOOLEAN
  /\ dead \in {"no", "abort", "assert"}

\* The pool of buffers: between swaps the spare of the front end is gone
\* exactly when a full buffer waits in buffers_, and the logging thread has
\* given away as many of its two spares as it has buffers to take back (so
\* back() is never called on an empty vector, and buffersToWrite ends up
\* empty).
PoolBalanced ==
  /\ nextBuffer = Null <=> buffers # <<>>
  /\ pc # "write" =>
       newBuffer1 # Null /\ newBuffer2 # Null /\ buffersToWrite = <<>>
  /\ pc = "write" =>
       /\ newBuffer1 = Null
       /\ IF newBuffer2 = Null THEN Len(buffersToWrite) >= 2
                               ELSE Len(buffersToWrite) = 1

\* A full buffer wakes the logging thread: it does not sit out the timeout.
FullBufferWakes == pc = "wait" /\ buffers # <<>> => signaled

\* Every line taken is in exactly one place and in order: the file, the
\* buffers still to be written, the full ones, the current one.
Unwritten ==
  IF pc = "write" THEN SubSeq(buffersToWrite, i, Len(buffersToWrite)) ELSE <<>>
NoLineLost ==
  logged = file \o FlattenSeq(Unwritten) \o FlattenSeq(buffers) \o currentBuffer

\* While the logging thread sleeps, all it was ever given is in the file.
NothingUnflushed == pc \in {"wait", "done"} => flushed = Len(file)

J == INSTANCE Journal WITH
       accepted <- logged, stored <- SubSeq(file, 1, flushed)

\* The logger implements the journal: the file holds a growing prefix of
\* the lines in the order in which append() took them, whichever buffers
\* they passed through.
ImplementsJournal == J!Spec

\* A line reaches the file, within a round of the timed wait, as long as
\* nobody stops the logger.
EveryLineReachesFile ==
  \A n \in 1 .. MaxLines :
    (Len(logged) >= n) ~> (flushed >= n \/ ~running)

\* log_fatal() ends the process, although stop() notifies without the mutex
\* and the notification may come before the wait.
FatalTerminates ==
  \A t \in Threads : (caller[t] = "stop") ~> (dead # "no")

------------------------------------------------------------------------------
(* What a comment of the code says and the code does not do.               *)

\* log.h: a fatal error writes its line to the log, then aborts.
FatalLineWritten ==
  dead = "abort" =>
    \E t \in Threads : caller[t] = "joining" /\ flushed >= fatalLine[t]
==============================================================================

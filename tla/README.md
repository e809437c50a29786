# Verification of WebServer-reference-muduo

TLA+ models of the event-driven web server in `src/`, TLC configurations that
check them, and TLAPS proofs of what matters most in each of its components.  A
definition in a module is a translation of the lines that `"map"` in
PROJECT.json names for it; comments in the modules use the names of the code
(`pendingFunctors_`, `https_`, ...).

## 1. The system

One process.  The main thread runs the *main loop*, which only accepts
connections; each of four IO threads runs an *IO loop*, which owns the
connections it is given for good ("one loop per thread").  A further thread
writes the log.

| component | state | operations | interacts by |
|---|---|---|---|
| EventLoop | `quit_`, `looping_`, `pendingFunctors_` (mutex), `wakeupFd_` | loop, runInLoop, queueInLoop, quit, wakeup, doPendingFunctors | functors pushed by other threads; an eventfd that ends epoll_wait |
| Epoll, Channel | registered fds with raw pointers to channels, the events of a round | poll, add/mod/del, handleEvent, tie | callbacks into TcpConnection, Acceptor, TimerQueue |
| EventLoopThread, EventLoopThreadPool | `loop_` (mutex + condition), `loops_`, `next_` | startLoop, ~EventLoopThread, start, getNextLoop | waits for the new thread; quit and join at the end |
| Thread, CountDownLatch, MutexLock, Condition | `started_`, `joined_`, `tid_`, `count_` | start, join, wait, countDown | pthread |
| TcpServer | `connections_` by name, `nextId_` | newConnection, removeConn, removeConnInLoop | main loop; functors to the loop of a connection |
| TcpConnection | `state_`, `outbuffer`, `inbuffer`, a socket | connectEstablished, handleRead/Write/Close, send, shutdown, forceClose, connectDestroyed | shared_ptrs in the map, in functors and in timers |
| Acceptor | a listening socket and its backlog | handleRead | calls newConnection |
| TimerQueue, Timer | a heap of timers, a 1 s timerfd | addTimer, handleRead, disabled | callbacks |
| HttpSever: keep-alive | `https_`: the timer of each connection (mutex, but not for find()) | the end of onMessage, removeHttpConn | all IO loops share it |
| HttpSever: requests | an HttpData for each read | onMessage, parse_main, do_request, do_response | reads inbuffer, sends on the connection |
| Buffer | a vector and three indices | readfd, append, retrive, init, findLine | one loop each |
| LoggingAsync | current, next and full buffers (mutex), `running_` | append, start, stop, threadFunc | every thread appends; the logging thread swaps |
| LogFile, FileUtil, FixedBuffer | stdio's buffer, `count_` | append, flush | the logging thread only |
| log | the logger, created once | log, log_syserr, log_fatal, log_error_fatal | every thread |
| SocketOps, CurrentThread, Main | - | wrappers of system calls, the thread id, main() | - |

### What is hard

* **Wakeups.**  A push and the swap of the queue race; the test
  `!isInLoopThread() || isdoPendingFunctors` decides whether epoll_wait ends.
  The same shape returns in the log (notify_one against a timed wait, and
  `running_` outside the mutex) and in the start of the IO threads (two waits
  for each).
* **Ownership.**  epoll and `activeChannels_` hold raw pointers, and a
  connection is freed by whichever shared_ptr goes last: the map on the main
  loop, a functor on either loop, or a timer.
* **Two ends of a connection at once**: end of file, keep-alive timer,
  shutdown() and a reset in the same round of a loop.
* **Edge triggering**: an event that comes before the registration, or a
  write that finds no room, is reported once or never.
* **Buffers that change hands**: between front end and logging thread, and
  between send(), the socket and EPOLLOUT.
* **Framing**: a request may come in parts or together with the next one, and
  the parser looks for ends of line beyond what was read.
* **Two clocks**: timers expire by the wall clock, ticks come by the monotonic
  one.
* **Numbers**: -1 in a size_t, names that wrap, a line that fits exactly, a
  millisecond that is not over.

PROJECT.json `"hazards"` lists each of these at its line, with the properties
that would catch it or the reason why none does.

### What makes each component correct

* EventLoop: every accepted functor runs once, in order; no sleep on work or
  on quit_; quit() ends the loop.
* Pool and threads: start-up cannot hang or hand out a null loop; a loop lives
  at least until quit() has stored `quit_` in it, and one that needs the wakeup
  behind the store is there to get it; no EventLoopThread is destroyed under its
  thread, and the joins end.
* TcpServer/TcpConnection/HttpSever: no assertion fails, everything happens on
  the right loop, nothing dangles, a socket is closed once and in the end, a
  request cannot be cut off by the timer of an earlier one.
* TcpConnection, sending: the client gets what was sent, in order; the sending
  side is shut behind the data, and is shut.
* HttpSever, requests: answers in the order of the requests, one for each, and
  none before all of its request is there.
* TimerQueue: a timer runs once or is disabled, in order, not early and at the
  first tick after; all leave the heap.
* Log: no line lost, duplicated or reordered on its way; bounded buffers;
  lines reach the disk; log_fatal() terminates.

## 2. Modules

| module | models | abstract specification |
|---|---|---|
| `EventLoop` | one loop and any number of other threads | `TaskQueue`: one FIFO queue, each functor run once |
| `EventLoopThread` | start-up and end of the IO threads | - |
| `LoggingAsync` | front ends, logging thread, file, log_fatal | `Journal`: a growing prefix of what was accepted is stored |
| `HttpSever` | Acceptor, TcpServer, TcpConnection's states, Channel, TimerQueue and HttpSever's keep-alive on several loops | `Lifecycle`: states in one direction, freed once, last |
| `TcpConnection` | send, outbuffer, EPOLLOUT and shutdown of one connection | - |
| `TimerQueue` | the heap, the timerfd and the wall clock of one loop | `Alarms`: each rings once or is cancelled, the earliest first |
| `HttpRequest` | inbuffer, the parser and the answers of one connection | - |
| `EventLoopProofs`, `EventLoopThreadProofs`, `LoggingAsyncProofs`, `TimerQueueProofs`, `TcpConnectionProofs`, `HttpRequestProofs` | theorems about the module of that name | |
| `HttpSeverProofs`, `HttpSeverLifeProofs` | theorems about `HttpSever`: types and loops; entries, ownership, timers and the refinement | |
| `MC...` | the modules as TLC runs them; `MCHttpSeverLive` has three instances of `HttpSever` in one run | |

In every module the pieces that are easiest to get wrong are operators of
their own, each preceded by a `Bug_...` variant with a plausible mistake.  No
action uses a variant; replacing the operator by it makes the property that
guards it fail (`"mutants"` in PROJECT.json), which shows that the property
depends on that line of the code.

**EventLoop.**  `pc` is the place of the loop thread; a step ends where another
thread can see the difference.  Another thread's queueInLoop() is two steps,
push and wakeup (`QueueInLoop`, `Wakeup`), and so is quit().  A callback
(`pc = "events"`) or a functor (`"body"`) may queue, run or quit in its own
loop.  The eventfd is registered with EPOLLET and nobody reads it, so it is one
bit, `wakeupEdge`.  `PollOther` is every other reason for epoll_wait to return.

**EventLoopThread.**  `owner` and `cur` are the main thread in
EventLoopThreadPool::start() or ~EventLoopThreadPool(); `child[i]` is thread i.
Both condition waits test and sleep in one step (the mutex) and may end
without a notification (`EndWait`); the destructor's reads of `loop_` and the
thread's last write of it are unlocked steps.  quit() is two steps on the
EventLoop that lives on the stack of the other thread, the store of `quit_`
(`QuitLoop`) and wakeup() (`WakeupLoop`).  That thread may see `quit_` in
between without being woken, return and destroy the loop, so that the rest of quit() reads
`threadId_` and `wakeupFd_` of a dead object: `WakeupLoop` then leaves open
whether the check of its write() fails (`"wakeup" \in failed`).

**LoggingAsync.**  append() is one step, and threadFunc's critical section is
one step on either side of its wait (`BeginWait`, `SwapBuffers`).  A buffer is
the sequence of its lines, a null unique_ptr is `Null`.  Note that the vectors
are swapped, so `buffers'` is what was left in buffersToWrite.  `flushed` is
how much of `file` the kernel has; stdio may pass on more at each fwrite.

**HttpSever.**  Each loop has a phase (epoll_wait, its active channels, its
functors).  The main loop runs the accept loop of Acceptor::handleRead, one
client per step (`NewConnection`, `EndAccept`): the listening socket is
registered with EPOLLET, so the loop must go on until accept4() has nobody left,
and an error leaves the rest of the backlog there.  A client may send and close
while it waits.  A handler is one step, since it touches only what its loop
owns, its functor queues and one entry of `https_`.  After a reset the first
event reads an error and a further one, if there is one, the end of file (`peer`
goes from "reset" to "gone"). An event
without data, or one whose data an earlier event has brought, runs onMessage()
on an empty inbuffer, and the connection is shut down.  The exception to a
handler being one step is `https_.find()` in onMessage(), which reads the map
without `mutex_`: while another loop is in a handler that writes it (`Writing`),
it may miss an entry that is there (`MayMiss`), and the timer of that entry
stays active.  What else a data race can do, such as a crash, is left out.
`Referenced(c)` is the shared_ptr count reduced to "not zero"; it is what the
destructor, hence close(fd), depends on.  Timers all have the same interval, so
the heap is a sequence as long as nobody sets the clock back (TimerQueue has the
general case); `DropTimer`, `ExpireTimer` and `EndTimers` are the pass of
TimerQueue::handleRead, a step for each timer it takes off and one for its end,
with no other handler of the loop in between.  Connections are numbers and their
names numbers modulo `IdModulus` (2^32 in the code).  The response is left to
TcpConnection.

**TcpConnection.**  Byte n of all messages is the number n, so order, loss and
duplication show.  write() takes what fits or returns -1, which the code's
size_t turns into success (`Refuses`).  A socket reports EPOLLOUT for its own
edge or along with any other event.

**TimerQueue.**  Time is counted in readings of gettimeofday(), `PerMs` to a
millisecond; `up` is CLOCK_MONOTONIC and drives the timerfd, `wall` is what
timers are made and judged by, and `SetClock` sets it, back or forward.
handleRead() is one step for its read() and gettimeofday(), one for each timer
it takes off the heap and one for its end; time passes in between, and neither
a timer nor a disable can come in (they are on the same thread).  The heap is a
set: which of two timers with the same `expiredTime_` is on top is left open.

**HttpRequest.**  The input is a sequence of cells (the text of a line, an end
of line, a piece of a body), cut anywhere by reads.  `data` is the vector of
inbuffer up to the last byte ever written: what lies behind `writeIndex` is what
was there before, and findLine() sees it.  parse_main() is one step per line. A
refusal by the parser (`MALFORMED`) is told from what do_request() finds: a
file, or none it may send (`NO_FILE`, for its 404, 403 and 400).  `moved`
records that init() has found unread bytes, which is when stale ends of line
come into reach; after that readIndex_ may pass writeIndex_, and the std::copy
of init() with a range that ends before it begins is undefined (`pc =
"undefined"`).  A cell carries the number of its request, which only the
properties look at.

## 3. Runs

| run | instance | states | shows |
|---|---|---|---|
| loop | 2 threads, 4 functors | 27 127 | TypeOK, NoLostWakeup, NoSleepAfterQuit, ImplementsTaskQueue, EveryFunctorRuns, QuitStops |
| pool | 3 IO threads | 2 233 | TypeOK, AssertionsHold, UsableUntilQuit, ThreadOutlived, PoolStarts, DestructorReturns |
| log | 2 threads, 3 lines of 1 or 2 bytes, buffers of 3 bytes, flush after 2 appends | 202 743 | TypeOK, PoolBalanced, FullBufferWakes, NoLineLost, NothingUnflushed, ImplementsJournal, EveryLineReachesFile, FatalTerminates |
| conn | 2 IO loops, 2 clients, a backlog of 1, 2 requests, few resets | 1 124 984 | TypeOK, AssertionsHold, RunsInOwnLoop, NoDanglingChannel, EntryOfOpenConnection, OneActiveTimer, ImplementsLifecycle |
| conn_live | 1 IO loop, a backlog of 2; 2 clients, 1 error of accept4(), or 2 clients, 1 request, or 1 client, 3 requests | 103 748 | EndOfFileNoticed, ClosedFreed, KeepAliveCloses |
| out_path | 6 bytes in messages of 1 to 3, a socket buffer of 2 | 38 000 | TypeOK, IntactUnlessRefused, ShutBehindData, ShutdownCompletes |
| timer | 2 timers of 1 or 2 ms, 2 readings per ms, a tick every 3, the clock set once | 361 455 | RunsOnTime, ImplementsAlarms, EveryTimerLeaves |
| http | 3 requests of 6 kinds, bodies of 2 pieces | 1 290 908 | TypeOK, AnswersInOrder, NotBeforeComplete |
| log_fatal_line | 1 thread, 2 lines | violation | FatalLineWritten |
| conn_inactive | 1 IO loop, 1 connection | violation | InactiveClosed |
| http_split | 2 kept requests | violation | WaitsForWhole |
| out_dropped | as out_path | violation | NothingDropped |

Why the bounds are enough.  *loop*: two pushers can meet each other and the loop
in any of its places, and four functors let one run, one wait in the swapped
vector, one in the queue and one be on its way.  *pool*: the threads only meet
the main thread; three give a first, a middle and a last one. *log*: three lines
fill up to three buffers, so that the resize to two, both spares, a burst with a
missing next buffer and a line that fits exactly occur, and two threads can be
fatal at once.  *conn*: two connections, on two loops, interleave, two requests
give a timer that is replaced. A client resets only where both together send one
request, or one client two (`ResetsWithinBounds`, which more than halves the
run: without it, that is with 2 808 096 states, all properties hold as well).
*out_path*: messages larger than the socket buffer, several writes per message
and several messages in outbuffer.  *conn_live* starts in one of three
instances.  Two clients can both be in the backlog when accept4() fails or the
accept loop could stop too early.  One client with three requests has timers
that are replaced, disabled timers that still hold a closed connection, and a
timer armed between forceClose() and its functor.  KeepAliveCloses is stated for
each timer: once it is the last, that is unless a later request replaces it, the
connection is closed; a client that goes on sending keeps its connection open.
One IO loop is enough, as loops only share the main one.  *timer*: two timers
are in the order they were made or in the other, expire in the same pass or not,
and one can be disabled in front of the other; the tick (3 readings) and the
millisecond (2) are out of step, so that a tick falls into and between
milliseconds; the clock can be set once before `Horizon`, and `MaxUp` leaves
time for every timer to expire even when the clock is set back.  *http*: the
third request meets what the first two left in the buffer; every cut of every
sequence of three kinds is read.

Every bound is a constant (but `ResetsWithinBounds`, a constraint of *conn*):
`Functors`, `MaxLines`, `MaxConns`, `MaxRequests`, `MaxErrors`, `MaxBytes`, `MaxTimers`, `MaxSets`, `Horizon`, `MaxUp`;
`ListenQueue` and `BodyLen` are sizes.  `IdModulus` is a width, and the runs
keep it above `MaxConns`: with a smaller one, a name that comes back while it is
in use overwrites an open connection in connections_, which is destroyed
connected (TLC then finds ImplementsLifecycle violated).  In the code this takes
2^32 connections during the life of one, which disagreement 2 makes possible.

Deadlock is not checked where the system may stop: a loop that has quit, a
pool that is gone or could not create a thread, a process that has aborted, a
connection that is closed, a client that has sent its requests, a clock at its
bound.

### Fairness

* Threads run: weak fairness of each thread's own steps.  What must happen is
  never allowed to rest on a timeout that would end epoll_wait (`PollOther` has
  no fairness) or on a spurious wakeup of a condition; the exception is the
  log, whose timed wait is what the code relies on (`WaitTimesOut`).
* HttpSever: the timerfd ticks every second, so each IO loop gets it again and
  again (`SF` of `Poll(l, "due")`), and a timer's 8 s pass (`SF` of `ExpireTimer`):
  strong, as a loop is in epoll_wait only from time to time.  That a timer
  expires at some tick is what TimerQueue shows (EveryTimerLeaves), from time
  passing (`WF` of `Pass`) and the loop handling its timerfd (`WF` of
  `HandleRead`).
* TcpConnection: a client that stays reads what it is sent (`Drain`), and epoll
  reports its edge.
* Nothing is assumed of clients, of threads that log, push or quit, or of the
  end of the program.

### Disagreements found

1. `log_fatal_line`: log_fatal() aborts without its line in the file when
   append() follows the last swap (log.h:32, LoggingAsync.h:26).
2. `conn_inactive`: only a keep-alive request arms a timer, so a silent client
   is never closed (README.md:17 of the repository).
3. `http_split`: a request that arrives in two reads is not kept for the next
   one: the connection is shut down after the first part (Buffer.h:15).  Only
   when its keep-alive header is in the first part is the connection kept, and
   then the rest is taken for a bad request.
4. `out_dropped`: a message sent while the socket has no room is dropped,
   because -1 is compared as a size_t (Buffer.h:18-19).

Met while modelling, and in the model rather than in a run: the wakeup() of
quit() may run on a destroyed EventLoop.  quit() stores `quit_` and calls
wakeup() on the same object (EventLoop.h:40-42); a thread that is back from
epoll_wait for another reason sees `quit_`, leaves loop() and ends, and the loop
on the stack of threadfunc is gone (EventLoopThread.cpp:38-46).  Nothing in the
code excludes it, and with the invariant `"wakeup" \notin failed` TLC shows the
behaviour (QuitLoop, PollOther, TestQuit, ClearLoop, EndThread, WakeupLoop).
So AssertionsHold leaves the check in wakeup() (EventLoop.cpp:134-135) out, and
UsableUntilQuit says what is true all the same: up to the store of `quit_` the
loop is there, and if it is gone when wakeup() comes, it has seen `quit_`.

## 4. Proofs

For every value of the constants, checked by TLAPS:

* `EventLoopProofs`: `TypeCorrect`, `NoWakeupLost`, `NoQuitLost`,
  `LoopIsTaskQueue`.  NoLostWakeup is not inductive: an own push from a channel
  callback writes no wakeup, so the invariant `WakeInv` says in which places of
  the loop such a push may still be in the queue (before the swap of the same
  round) and that anywhere else a non-empty queue has a wakeup coming.  For the
  refinement, a push appends to `functors \o pendingFunctors`, the swap leaves
  it unchanged because `functors` is empty by then (`QueueInv`), and running
  takes its head; the lemmas on concatenation are stated once.
* `EventLoopThreadProofs`: `TypeCorrect`, `NoAssertionFails`,
  `LoopsUsableUntilQuit`, `ThreadsOutlived`.  One invariant (`Inv`) says for each
  place of the main thread, in start() and in the destructor, what the threads
  before, at and behind `cur` have done, in particular that a thread that has
  left its loop was told to by `quit_`; everything else follows from it.
* `LoggingAsyncProofs`: `TypeCorrect`, `PoolCorrect`, `NoNotifyLost`,
  `NothingHeldBack`, `EveryLineKept`, `JournalImplemented`.  Types and
  `PoolBalanced` are proved together: that currentBuffer is never null needs the
  spare the pool guarantees at the swap, and the lengths in the pool need the
  types.  The argument is one lemma per operation on the pool (append, swap,
  recycle).  NothingUnflushed follows from `RoundFlushed`: stdio holds lines
  back only between the first fwrite of a round and the flush at its end.
  NoLineLost is inductive given the types and the pool; what it needs is what
  the library's FlattenSeq does to an append at either end (`FlattenAppend`,
  `FlattenFirst`).  FlattenSeq is a recursive function chosen by CHOOSE, so
  these are proved by induction over the number of buffers (`NatSet`: a set
  that has 0, and n + 1 with n, has all numbers, from the well-foundedness of <
  in the library).  For the refinement, what the kernel has is a prefix of the
  lines taken (`StoredPrefix`, from NoLineLost), and every step that is not an
  append leaves the lines alone and makes that prefix longer or not.
* `TimerQueueProofs`: `TypeCorrect`, `QueueIsAlarms`, `QueueRunsOnTime`.  The
  refinement needs that `expiredTime_` is among the deadlines one may ask for,
  which is `ClockInv`: the wall clock is never further ahead of the time passed
  than `Horizon`.  RunsOnTime relates a comparison of milliseconds to the time
  that has passed.  Its inductive invariant `OnTimeInv` says that a timer made
  by the present clock has the `expiredTime_` this clock showed then
  (`MadeOnClock`), and that curTime, read from the same clock, differs from it
  by the time between (`ReadOnClock`); `MsCompared` does the arithmetic of the
  truncation.  The types of the timer queue are proved and not run.
* `TcpConnectionProofs`: `TypeCorrect`, `ShutLast`, `ClientSentIntact`.  The
  inductive invariant `Intact` says, as long as no write was refused, that byte
  j of outbuffer behind readIndex_ is the one that many places behind the last
  byte sent, and that what was sent and what waits are as many as were asked
  for.
* `HttpSeverProofs`: `TypeCorrect`, `EverythingInOwnLoop`.  The types are proved
  with a count, of the timers and the requests that wait to be read against those
  sent, and with what a loop has in hand in each phase.  RunsInOwnLoop becomes
  inductive with the loops of timers and the fact that a connection, once
  accepted, keeps its loop (`OwnLoopInv`).
  `ConnInv` adds the state machine: exactly the connections accepted have a
  state, exactly the open ones are registered, a loop's active channels are
  among these, and a functor that is still to run (`Todo`, both vectors
  together) finds its connection in a state that goes with it (`Timely`);
  connectEstablished and removeConnInLoop of a connection are queued at most
  once (`Single`).
* `HttpSeverLifeProofs`: `EntriesOfOpen` and `EnoughNames`; and
  `NoAssertionFails`, `ChannelsOwned`, `OldTimersOff` and `SocketLives` of every
  behaviour with `NamesFree`: newConnection() takes no name that connections_
  has at that moment.  So names may come back any number of times, and a
  connection may outlive its name, held by a functor or a timer, while another
  has it.  When newConnection() does take a name in use, NoDanglingChannel and
  ImplementsLifecycle, for two, are false (section 3); `EnoughNames` shows that it does not as long as no more
  connections are made than there are names (2^32; `NoWrap`), whatever else
  happens.  For names that come back TLC has confirmed the premise to be enough
  before the proof, on three connections that share one name.
  `MapInv`: every connection that is open, or will be, or is to be removed, is
  in connections_ under its name, so that no two of them share one, and a new
  one takes the place of none; so an assertion finds the connection there
  and a channel that epoll knows is referred to.  `TimerInv`: the live timer of
  an open connection is the one https_ has for it, hence the next onMessage()
  disables it.  SocketLives maps each connection to its state, or to "freed"
  when nothing refers to it (`Stage`); a step that could bring a reference back
  would need one already (`MapFrom`, `HeapFrom`, `QueueFrom`), and an open
  connection has one, so that freed is for good and comes last.
* `HttpRequestProofs`: `TypeCorrect`, `NothingAnsweredEarly`, `OneAnswerEach`.  That readIndex_
  stays before writeIndex_ until init() has found unread bytes is not inductive:
  findLine() searches to the end of the vector.  `IndexInv` adds that until then
  no end of line lies behind writeIndex_: reads write over what was there, and
  init() with nothing unread leaves NULs up to writeIndex_.  NotBeforeComplete
  then rests on `Parsed`, for an open connection: between two reads inbuffer is
  empty (so every message is parsed from its first byte, wherever in the stream
  that is), what the parser has before it is what was sent, a request line is
  found only where a request begins, and among the headers parse_main() has
  either seen the Content-Length or there was none (`InHeader`).  At the empty
  line, `Framing`, which is RequestsFramed carried over to the stream, says how
  much of the request is left (`RestIsBody`).
  OneAnswerEach speaks of reads that end at the end of a request, with no kept
  request that has a body, and holds also after init() has found unread bytes,
  where `Parsed` does not.  Its invariant `OrderInv` says that while the
  connection is open inbuffer begins with the next request to answer, that what
  is unread in it is what was sent, and that what has been read ends at the end
  of a request (`Aligned`).  Hence every line that
  findLine() finds lies inside that request (`LineOfRequest`), stale bytes
  behind writeIndex_ or not, parse_main() is at the start of one of its lines
  and has seen just those before it (`AtLine`, `HeadersSeen`), and at the empty
  line all of the body has been read.  A kept request has none, so processing
  leaves readIndex_ at the start of the next one (`Returned`), which makes the
  answers those of the requests, one each, in order (`Answered`), and says what
  can have ended the connection (`Ended`).  TLC checked OrderInv first, on the
  run's requests and on another set of eight.

Assumed: `ConstantsOK` of LoggingAsync (a line is shorter than a buffer, `Null`
is no buffer), of TimerQueue (sizes and bounds are numbers, a tick and a
millisecond are not empty) and of HttpSever (there is an IO loop and a name)
and of HttpRequest (requests are cells, a body is not empty), `ThreadNumsOK` of
EventLoopThread (there is a thread) and `SizesOK` of TcpConnection (the socket
has a buffer, a message is not empty), `RequestsFramed` of HttpRequest (only
the first cell of a request is a request line, and behind an empty line there
is at most a body as long as a Content-Length above it says: without that
nobody can say where a request ends; other headers, repeated ones, junk, a
request cut short or a bare LF are all allowed) and `RequestsWhole`, which only
OneAnswerEach uses (a request line or junk comes first and only there; then
there is a bare LF or an empty line; behind the empty line there is just the
body, as long as a Content-Length above says; a Connection: keep-alive is a line
of its own, with no bare LF behind it), which TLC evaluates in each run; nothing
in EventLoop.  `NamesFree` is a premise of the theorems that state it.

Only model-checked: liveness, that is EndOfFileNoticed, ClosedFreed,
KeepAliveCloses and the other properties with ~> or <> (the prover has no rules
for them, nor for ENABLED in the fairness they need).  Every invariant and every
safety property of the passing runs has a theorem.

## 5. Not modelled

* the texts of responses, format_string, and what is wrong about them (an error
  answer on a kept connection announces a length of 0 and sends a text); the
  file that do_request() maps, whose open() and mmap() are not tested;
* refusing a client whose descriptor is MAXFDNUM or more;
* write errors of the log file; log files across restarts (the file is opened
  for append);
* the '\0' that parse_request_content() writes behind a body (HttpSever.cpp:302),
  one past the end of the vector when inbuffer is full to its last byte, and a
  Content-Length that is negative or too large for an int;
* which of its three refusals do_request() gives;
* what a data race on `https_` can do besides missing an entry;
* what reading a dead EventLoop can do in wakeup() besides a write() that
  succeeds, fails or is left out;
* epoll's and eventfd's own errors, which log and abort;
* SocketOps (wrappers of system calls) and CurrentThread (a cached thread id),
  which have no state of their own that others change.

## 6. Plan

1. (done) `EventLoop` with `TaskQueue`, proofs.
2. (done) `LoggingAsync` with `Journal`, proofs.
3. (done) `HttpSever` with `Lifecycle`; `TcpConnection`; `EventLoopThread`.
4. (done) `TimerQueue` with `Alarms`.
5. (done) `HttpRequest`: the parser over the input Buffer.
6. (done) the unlocked find() of `https_`, and the backlog with its accept loop,
   in `HttpSever`.
7. (done) proofs about `TimerQueue`.
8. (done) proofs about EventLoopThread, TcpConnection, HttpSever and
   HttpRequest, and the rest of LoggingAsync.
9. (done) AnswersInOrder of HttpRequest; the theorems about HttpSever with
   names that come back.

# Conex in TLA+

Conex is a small C++ network library in the style of muduo: one event loop per
thread, non-blocking TCP connections on top of it, timers, an HTTP server and an
asynchronous logger. This directory holds TLA+ models of its parts, the TLC
configurations that check them on small instances, and proofs, checked by TLAPS,
of properties for every instance.

Contents: [inventory](#inventory), [modules](#modules), [runs](#runs),
[fairness](#fairness), [proofs](#proofs),
[what the code does otherwise than it says](#what-the-code-does-otherwise-than-it-says),
[not modelled](#not-modelled), [plan](#plan).

## Inventory

| Component | State it keeps | Operations | Who calls it |
|---|---|---|---|
| `EventLoop` | `quit_`, `pendingTasks_` under `mutex_`, `doingPendingTasks_`, the eventfd | `loop`, `runInLoop`, `queueInLoop`, `quit`, `wakeup`, `doPendingTasks`, `handleRead` | every other component, from any thread |
| `EPoller`, `Channel` | `events_`, `revents_`, `pooling_`, `tie_` | `poll`, `updateChannel`, `handleEvents` | the loop; the owners of channels |
| `TimerQueue`, `Timer` | `timers_` ordered by deadline, one timerfd | `addTimer`, `cancelTimer`, `handleRead` | users in any thread; the loop |
| `TcpConnection` | `state_`, the two buffers, its channel | `send`, `shutdown`, `forceClose`, `startRead`, `stopRead`, four handlers | users in any thread; its channel |
| `Buffer` | a vector and two indices | append, prepend, retrieve, `readFd` | connections and protocol code |
| `Acceptor`, `TcpServerSingle`, `TcpServer` | listening socket, set of connections, loops and threads | `start`, `newConnection`, `closeConnection`, destructor | users; the loop |
| `Connector`, `TcpClient` | connecting socket, retry timer, one connection | `start`, `retry`, `newConnection` | users; the loop; a timer |
| `EventLoopThread`, `CountDownLatch` | a thread and a pointer to its loop | `startLoop`, destructor | users |
| `ThreadPool` | bounded queue, `running_` | `addTask`, `stop`, `take` | users |
| `AsyncLogging`, `LogFile`, `FixedBuffer` | front buffers under `mutex_`, the logging thread's own buffers, the file | `append`, `start`, `stop`, `threadFunc` | every thread that logs |
| `HttpServer`, `HttpContext`, `HttpRequest`, `HttpResponse` | parser state and request per connection | `onMessage`, `parseRequest`, `onRequest` | connections |

How they interact. A loop's thread blocks in `epoll_wait`; when descriptors are
ready it calls their channels' callbacks (connections, timers, acceptor, its own
eventfd) and then runs the tasks that have been queued. Objects belong to one
loop's thread; the other threads reach them by queueing tasks. Exceptions are
`quit_`, `state_` of a connection and the logger, which several threads touch
directly.

What is hard, and what makes each part correct:

* *Loop*: threads queue work while the loop is about to block. No task and no
  `quit()` may be missed, and tasks must run once and in order, because a send
  and the shutdown after it are two tasks.
* *Connection*: short writes, half-close, peers that close or reset, several
  callbacks in one round, calls of other threads. The bytes that leave must be
  the messages in order; waiting for room, what is registered with epoll and
  half-close must agree with what is buffered; a connection must be closed
  eventually, and once unless other threads or a change of its reading bring it back.
* *Buffer*: growth, compaction and the room for prepending must not lose, double
  or reorder bytes.
* *Server*: threads are started and joined through a latch and a condition variable; a
  connection lives as long as somebody points to it, and it may be closed in
  the middle of its own callback. The handshakes must neither return early nor
  hang, nothing may be used after its owner has gone, and every connection must be announced at
  both ends.
* *Client*: a timer replaces the connector while its answer may be on the way, and user
  code may destroy the client at any time. Descriptors must have one owner.
* *Timers*: one timerfd stands for all of them, deadlines are wall-clock times
  and the timerfd is not, and callbacks add and cancel timers while the queue is
  being walked, those included that are being walked over.
* *Logging*: buffers are handed over by pointer between threads with and without
  the mutex.
* *HTTP*: a request arrives in pieces and is parsed as far as it has come.

`PROJECT.json` lists these hazards one by one, each at its line and with the
properties that would catch it.

## Modules

| Module | Models | Correspondence |
|---|---|---|
| `TaskQueue` | what `queueInLoop` promises | abstract: `queue`, `ran`; `Post`, `Run` |
| `EventLoop` | `EventLoop.cc`, the eventfd | `pending` is `pendingTasks_`, `tasks` the local vector of `doPendingTasks`, `doing` is `doingPendingTasks_`, `wakefd` the counter. One action per step between which another thread can come: the unlock in `queueInLoop` (`QueueFrom`) and the `wakeup()` after it (`Wakeup`), the test of `quit_`, the return of `epoll_wait`, the swap, each task. |
| `EventLoop_proofs` | proofs | see [proofs](#proofs) |
| `ByteQueue` | what `Buffer` promises | abstract: a sequence extended at both ends, consumed at the front |
| `Buffer` | `Buffer.h`, `Buffer.cc` | operators on a record `[mem, size, readerIndex, writerIndex]`, memory indexed from 0; one action per kind of call |
| `Buffer_proofs` | proofs | see [proofs](#proofs) |
| `TcpConnection` | `TcpConnection.cc`, `Channel.cc`, the registration in `EPoller.cc`, socket and peer | variables carry the members' names; `events`, `pooling`, `revents` are the channel's; `pending` is the loop's task queue as `EventLoop` is shown to implement it. `Loop...` actions are calls in the loop's thread, which run at once; `User...` actions are the steps of a call in another thread. |
| `TcpConnection_proofs` | proofs | see [proofs](#proofs) |
| `TimerQueue` | `TimerQueue.cc`, `Timer.h`, the timerfd, the wall clock | `timers` and `batch` are the sets of pointers in `timers_` and in `handleRead`'s `entries`, both walked in the order of `std::set<Entry>`; `memory` says which Timers are allocated, `canceled` is their `canceled_`; a use of one that has been deleted sets `fault`, where the behaviour ends; `left` counts down to the timerfd's expiry |
| `TimerQueue_proofs` | proofs | see [proofs](#proofs) |
| `LoopThreads` | `EventLoopThread.cc`, `CountDownLatch.h`, the threads of `TcpServer.cc` | `threadPc[t]` is where thread `t` is, `mainPc` where the main thread is: `startLoop`, `start`, and the destructors, each cut where another thread can come between. `published` says which of `loop_` and `eventloops_[i]` are set. |
| `TcpServerSingle` | `Acceptor.cc`, `TcpServerSingle.cc`, `Channel::tie` and its guard | `connections`, `pending`, `tasks`, `guard`, `arg`, `held` and `testing` are everything that can hold a `shared_ptr` to a connection; `Alive` is their union. `reading` is what its channel asks for, `stray` says that a closed one is registered again. One action per callback up to the user code it calls; `forceClose` of another thread is two, its test and its assignment. |
| `TcpServer` | `TcpServer.cc` as a whole | composes `LoopThreads` with the `TcpServerSingle` of thread 1: it listens when that thread has come to it, works while the thread is in `loop()`, and is destroyed when the thread ends |
| `TcpServer_proofs` | proofs | see [proofs](#proofs) |
| `TcpClient` | `Connector.cc`, `TcpClient.cc` | `connector` and `connection` carry their descriptors, `open` is the kernel's table of them, `active` is `activeChannels_`; a use of an object that does not exist sets `fault`, where the behaviour ends |
| `TcpClient_proofs` | proofs | see [proofs](#proofs) |
| `AsyncLogging` | `AsyncLogging.cc`, `FixedBuffer`, `LogFile.cc` | the six variables that hold buffers carry the code's names and hold buffer identities; `data` is what each buffer contains; `file` is what `LogFile` was given and `onDisk` how much of it has left stdio's buffer |
| `AsyncLogging_proofs` | proofs | see [proofs](#proofs) |
| `HttpServer` | `HttpServer.cc`, `HttpContext.cc`, `HttpRequest.cc` | one step is one round of the loop in `parseRequest`; `net` and `buf` are pieces of lines |
| `HttpServer_proofs` | proofs | see [proofs](#proofs) |

Definitions whose comment begins with *Mutant* are not part of any model. Each is a
plausible mistake in the definition that follows it; replacing the one by the
other must break the property that `PROJECT.json` names with it.

Choices that a reader should know:

* *Bytes.* A connection's bytes are the parts of messages, `MsgLen` to each, so
  that a write can stop inside a message. The two models do not share bytes:
  `Buffer` shows that a buffer is a byte queue, and `TcpConnection` uses a sequence.
* *User code* runs in the models where the code runs it: inside callbacks, inside
  tasks and in other threads. In `TcpConnection` a user keeps its `shared_ptr`; who
  holds a connection, and until when, is the subject of `TcpServerSingle`.
* *A server's threads.* All run the same code on their own objects and share only what
  `LoopThreads` models, so one of them is given its connections; the
  others, and the base loop, have some like them. `quit()` is called by the
  destructors, and by user code on the loop of the `EventLoopThread`.
* *Calls on a server's connections.* Those with the numbers in `Kept` are called, and kept, by user code.
  In callbacks it calls `forceClose`, `stopRead` and `startRead`; in another thread `forceClose` only,
  because the other two queue the raw `this` there. `shutdown`, whose test and assignment race in the same
  way, is left to `TcpConnection`. When `epoll_wait` has returned the channel of a connection
  that exists no more (`Stale`) the loop does not go on.
* *A failed `accept`* makes a connection all the same, as the code does. epoll refuses
  its descriptor, so it is never polled; user code may close it.
* *Destroyed objects.* In `TcpClient` the model ends where the code uses one, since what
  follows is undefined. The client may be destroyed wherever user code runs: in tasks and in callbacks of other channels,
  in the callback of another timer that the same `handleRead` runs before the retry timer (`timers`), and in
  `connectionCallback_` at the end of `retry()` (`retried`) or of the connector's `handleWrite` (`announcing`). `odd`
  remembers which of five circumstances have come about; `NoStaleUse` says which of them each
  kind of stale use needs, and a circumstance comes about in an earlier step than the use it leads to.
  The connector's `errorCallback_` runs no user code, because `TcpClient` never sets it.
* *The kernel.* `Report` in `TcpConnection` says what epoll reports: readable with
  data, at the end or after a reset; hung up when both directions have ended;
  an error while one is pending; writable only when asked for. A write takes any
  number of bytes including none (EAGAIN), and fails after a reset or a half-close; the write in `sendInLoop`
  may also fail with another error, after which the code buffers the message.
* *Timers.* A unit of time is the 1 ms below which the timerfd is never set. The
  wall clock may be set, `MaxJumps` times; at `MaxTime` it stands still, and
  the monotonic clock goes on. The code hands out raw pointers, and `cancelTimer` may be called for a Timer at any
  time while it exists, also while `handleRead` holds it, while its insertion is still queued and a second time:
  `risky` remembers the timers for which it was called so that a deleted Timer may be used, after which
  user code leaves them alone. A deleted Timer's memory is not given to another one. Tasks and expiries may
  alternate in any order, which includes the order of `loop()`.
* *Logging.* A line takes one unit of room. The timed wait may end at any time. `TooMany`
  stands for 25.
* *HTTP.* Clients send requests, with and without a body and with request lines in order or not, waiting for
  answers or not. A round of the parser that would change nothing is no step, so
  a call that never returns is a state that is never left: that is what
  happens when the request line has not arrived completely or is rejected, and when the rest
  of a body arrives late and is taken for a request line.

## Runs

Every run has a `.cfg` of its name, which TLC runs on the module itself: the configurations only give
constants their values. All set `CHECK_DEADLOCK FALSE`, because every system
here may stop: a loop that was told to quit, a closed connection, or all bounded actions used up.

| Run | Instance | What it shows |
|---|---|---|
| `EventLoop_tasks` | two threads, one task each from them, from the loop and from before it | `NoLostWakeup`, `QuitWakesLoop`: the loop never blocks over an announced task or a `quit()`; `RunsInOrder`: it implements `TaskQueue`; `AnnouncedTasksRun`, `QuitEndsLoop`: both are acted upon without the help of other events or of the timeout |
| `EventLoop_quit` | one thread | violated: `QuitIsHonoured`, by a `quit()` of that thread |
| `TcpConnection` | the loop and one other thread, a message of two parts from each, two other calls of either, any of the four | `StreamIntact`, `WaitsForRoom`, `NoFinBeforeData`: what leaves, and when; `CloseOnce`, `OnlyARaceRevives`: what a close is worth; `ForceCloseCloses`, `PeerEndCloses`, `ShutdownHappens`: every end comes |
| `TcpConnection_drop`, `_drain` | the smallest instances that show them | violated: `AcceptedIsSent`, `OnlyAskedShutdown` |
| `Buffer_queue` | two byte values, up to 3 bytes a call, a vector of up to 6 | `RoomIsMade`, `IsByteQueue` |
| `TimerQueue_timers` | two timers, delays 0 and 2, repeating every unit or not, time up to 2, the clock set once | `HeldOnce`: where Timers are, and which calls lead to the use of a deleted one; `TimerfdArmed`, `ArmedInTime`, `OnSchedule`, `EveryDeadlineRuns`: deadlines |
| `AsyncLogging_handover` | six lines, buffers of one line each (a buffer is never filled to its last byte), too many at three, a flush at every second append, two lives of the thread | `OwnedOnce`, `Assertions`, `NothingLost`, `LinesGetOut`, `StopReturns` |
| `AsyncLogging_begin` | one line, one life of the thread | violated: `BeginsRunning` |
| `TcpServer` | one thread of the server and one of an `EventLoopThread`; two peers, one failing `accept`, at most two connections in all, one call of `forceClose`, `stopRead` or `startRead` | `StartWaitsForLoops`, `StartReturns`: the handshakes; `ServerOutlivesWorkers`, `JoinReturns`: the destructors; `ListedUntilClosed`, `ActiveIsAlive`, `PeersAreServed`: the connections |
| `TcpClient` | three descriptors | `NoStaleUse`, `FdOwnedOnce`, `ToldBothEnds`, `RetriesUntilConnected` |
| `HttpServer_parse` | two requests of every kind, cut anywhere | `AnsweredWhole`, `ParserReturns`, `CompleteIsAnswered` |

Why the bounds are enough to be interesting:

* In `EventLoop_tasks` tasks queue tasks, `quit()` comes from the loop, from other threads and
  before `loop()`, and two threads race for the mutex. The proofs cover every
  number of threads and tasks.
* In `TcpConnection` a message meets a buffer that the other's short write left behind, from
  either thread, while the connection is being shut down, closed or reset; shutdown meets buffered data,
  forceClose is queued behind an event that closes the connection, and both race with it from the other
  thread. One message from each thread, and one other thread, are what TLC gets through in five minutes; that one
  sender's messages keep their order is covered by the theorem `StreamKept`.
* A `Buffer` with one byte of prepend room and up to six in all grows, compacts,
  prepends and spills `readFd` over into its second buffer. The proofs cover every size.
* In `TimerQueue_timers` one timer is added, cancelled or restarted while the
  other is being run, overdue, or next in turn; a clock set back makes an expiry find nothing to run;
  a callback cancels its own timer, or the other one, which the same `handleRead` still holds.
* In `TcpServer` two connections meet in one round, one being closed while the other waits
  for its turn in `activeChannels_`, and a `forceClose` task meets
  the end of its peer; threads are ended before, while and after others start. The connection of the failed `accept` and that of the first peer
  are called; one call is enough to bring a closed connection back, and to have it announced a third
  time. `TcpServer_proofs` covers every number of threads, peers and calls.
* `TcpClient` needs two descriptors while a connector is replaced, and a third to be given out while
  the second is in use; every circumstance of `NoStaleUse` and every fault come about. `TcpClient_proofs` covers every number.
* Six lines in buffers of one line exceed `TooMany`, empty
  both front buffers and make `append` allocate.
* Two requests show what remains of the first when the second is parsed.

## Fairness

* `EventLoop`: weak fairness of the loop's thread as a whole and of a thread inside
  `queueInLoop` or `quit`, which are ordinary threads in code that does not block.
  None for `PollOther`: the properties must hold if no other event ever
  comes and without the timeout.
* `TcpConnection`: the same for the loop's thread, which is
  enabled when the channel has an event or a task is queued, and for other threads
  inside calls. Strong fairness of polling a writable socket: a peer that
  keeps the connection goes on reading, so that there is room again and
  again while something is buffered.
* `TimerQueue`: weak fairness of `handleRead` with its callbacks, which must return,
  and of time. Strong fairness of running tasks, since `loop()` calls
  `doPendingTasks` after each round of handlers.
* `TcpServer`: weak fairness of each thread, and with it of its loop, whose `epoll_wait` ends after a
  second at the latest. None for the peers, user code, the beginning of the destructors and
  spurious wakeups.
* `TcpClient`: weak fairness of the loop. Strong fairness of the retry timer and of
  a `connect()` that succeeds before the next expiry: a peer that is asked again
  and again answers in time once. `RetriesUntilConnected` needs the latter, because an answer
  that always comes too late never makes a connection.
* `AsyncLogging`: weak fairness of the logging thread, whose wait is timed, and of
  `join`. `StopReturns` lets the failed assertion of line 60 count as an end.
* `HttpServer`: weak fairness of the thread inside `onMessage`. The client need do nothing.

## Proofs

All theorems hold for every value of the constants that satisfies the named
assumptions of the modules.

`EventLoop_proofs` assumes that no thread is called "setup" or "loop"
(`PosterAssumption`) and that `MaxPost` is a number.

* `TypeCorrect`: `Spec => []TypeOK`. `VarTypes` alone is inductive and `PhaseOK` (the flag and the
  locals agree with where the loop is) is inductive with it.
* `WakeupNotLost`: `Spec => []NoLostWakeup`. `NoLostWakeup` speaks of every place
  of the loop outside the handlers, which makes it strong enough to be inductive together
  with `TypeOK`: the only step that consumes the wakeup is `HandleRead`, after which the
  loop takes all tasks before it can block; a task queued by a task
  finds `doing` set, which is why `PhaseOK` is needed.
* `QuitWakes`: `Spec => []QuitWakesLoop`, which says nothing at places other than
  `poll`; it is inductive because the loop comes there only from `CheckQuit`, with `quit` down.
* `RunsTasksInOrder`: `Spec => RunsInOrder`. Under `queue <- tasks \o pending` the swap
  is a stutter because `tasks` is empty when it happens (a part of `PhaseOK`).

`Buffer_proofs` assumes that the sizes are numbers and that `Zero` is a byte.

* The lemmas say of each operator that it yields a buffer (`IsBuffer`) and what its
  `Content` is.
* `TypeCorrect` and `AssertionsHold` follow from them, the latter for every
  length asked for.
* `ImplementsByteQueue`: each call is the step of `ByteQueue` that the content
  lemma of its operator names.

`TcpConnection_proofs` assumes that no thread is called "loop" (`UserAssumption`), that the calls and
callbacks of an instance exist (`OpsAssumption`, `NotifyAssumption`), and that messages are not empty
and the bounds are numbers (`BoundAssumption`).

* `TypeCorrect` needs `CallInv`, what a call of another thread has done by the place it is at.
* `RoomAwaited` and `DataBeforeFin` follow from `WaitInv`, about a connection on which `handleClose` has not
  been called. `WaitsForRoom` is not inductive: `handleWrite` ends in `disableWriting`, so a write
  callback that is still due must find `kWriteEvent` asked for, and the socket not
  half-closed. Afterwards everything may happen, as the findings say.
* `StreamKept`: `StreamInv` says that the stream ends with a whole message and has nothing that was not
  handed over, and `QueueInv` that what waits in the task queue continues it, sender by sender. The
  write in `sendInLoop` that takes a part of a message, the buffering of the rest, and `handleWrite`
  leave the stream `wire \o outputBuffer` as it was or add one message.
* `ClosedOnce` has no hypotheses about who calls what: it says what a second call of `closeCallback_` takes. A
  `shutdown` or `forceClose` of another thread can bring a closed connection back to `kDisconnecting`, and
  then a queued `forceCloseInLoop` closes it again; [a change of its
  reading](#what-the-code-does-otherwise-than-it-says) registers its channel again. `CloseInv` says
  what a round can still do to a closed connection of which neither is true: nothing in `revents` leads to
  `handleClose` again, and epoll does not know its descriptor. `QuietInv` says that no call about
  reading is queued when none was made.
* `RevivedByRaceOnly` looks at every step that assigns `state_`: those of the loop's thread test it in the same
  step, and another thread's is made between test and assignment.

`HttpServer_proofs` assumes only that `MaxRequest` is a number. `AnsweredInTurn` is inductive together
with `TypeOK` and three others:

* `Chain`: what the parser has before it, `buf \o net`, is the end of what the client has sent:
  each piece is the one that comes after its predecessor, whatever the cuts.
* `ParserInv`: how far the parser has come is the place before the first of these pieces; the
  headers it has are those that the client has sent of this request.
* `TurnInv`: requests answered come before the one in hand, and that before those to come.

`TcpServer_proofs` assumes `ThreadNum`, `MaxPeer`, `MaxFail`, `MaxConn` and `MaxCall` to be
numbers, `ThreadNum` large enough that thread 1 exists, and `Kept` a set of positive numbers.

* `StartHasWaited` and `ServerOutlives` rest on `ThreadInv`, which says for each
  place of the main thread where the others can be: `HelperInv` for the
  `EventLoopThread`, `WorkerInv` for the server's threads (before `~TcpServer` none has
  seen a `quit_`, so what `startInLoop` has waited for stays true) and `JoinInv`
  (`threads_` holds exactly those that have been started). It does not depend on the connections:
  `ThreadsOnly` says that every step is one of the threads or leaves their
  variables alone.
* `ListedWhileUp` and `HandledAreAlive` rest on an invariant of the connections that adds to the properties
  what holds in each phase of the loop: which connections can be in `activeChannels_`, that
  what is being handled is guarded, and that nothing is active while tasks run,
  so that a `forceClose` task cannot take a connection from under its channel. Throughout, what is true of a connection from
  its first announcement to its second may fail of one that has come back to life (`revived`); `MadeInv` says that nothing
  else brings about a closed connection that is up, registered, or announced a third time.

`TcpClient_proofs` assumes that `MaxFd` is a positive number. `StaleOnlyThen`, `DescriptorsOwned` and
`AnnouncedTwice` follow from one invariant: the parts of the client agree
with each other (`ClientInv`: the retry timer is set exactly while it is in `timers_` or in
`handleRead`'s entries; the connector is polled only then), what a callback that is under way will still use is
there, unless one of the circumstances has come about (`CallbackInv`), a connection is referred to as long as
it is open (`ConnectionInv`), and what is in `activeChannels_` exists (`ActiveInv`), all of it up to the first fault.

`TimerQueue_proofs` assumes that `N` and the bounds are numbers and the delays and intervals sets of
numbers.

* `TimersHeldOnce` needs `TasksInv`: queued insertions are distinct, and a queued cancellation is of a timer
  called for at a bad time, or comes in time: the timer is allocated and repeats, its insertion comes
  before, and no other cancellation is queued (`InTime`).
* `AlwaysArmed` and `AlwaysArmedInTime` are inductive together with it: an insertion that does
  not come first finds an earlier timer, for which the timerfd is armed. `begin()` is a `CHOOSE`;
  `HasFirst`, from well-founded induction on the numbers, says that there is
  one.
* `RunsOnTime`: the deadline of an allocated timer is the first one plus one interval for
  each run (`DeadlineInv`), not counting a run whose callback has not returned,
  what `handleRead` holds is due, and what is held and has been deleted was cancelled (`PlacedInv`), so that it
  does not run again.

`AsyncLogging_proofs` assumes that there is memory for two buffers, and numbers greater than one for
`Room` and `TooMany`. `BuffersOwnedOnce` and `AssertionsOfThread` are inductive together: no
pointer is to another's buffer (`Owned`), what the thread has at each place of `threadFunc`
(`ThreadHas`, with the reason why it always finds two buffers to take back:
`append` takes `nextBuffer_` only when it fills `buffers_`), its own buffers are empty
(`OwnEmpty`), and so is the memory from which the next thread takes its own (`FreeEmpty`).

* `NoLineLost` is inductive with these: the file, the buffers still to be written and those in
  front, one after another, hold the lines appended and not thrown away in order (`LinesInv`). Owning a buffer once
  is what makes it true: a line is added to one buffer only, and a
  buffer is emptied only when its lines are in the file or thrown away.
* The lines of a sequence of buffers are those of `FlattenSeq`, which is recursive. `Induction`, obtained from
  `NatLessThanWellFounded` with a set in place of a predicate, shows that its function exists and is the only
  one (`FlattenExists`, `FlattenUnique`); the lemmas after it say what it yields for an appended
  buffer, a prefix and a concatenation.

Every invariant and action property of the passing runs is stated by a theorem. Only model-checked: the temporal
properties `AnnouncedTasksRun`, `QuitEndsLoop`, `ForceCloseCloses`, `PeerEndCloses`, `ShutdownHappens`,
`EveryDeadlineRuns`, `LinesGetOut`, `StopReturns`, `StartReturns`, `JoinReturns`, `PeersAreServed`,
`RetriesUntilConnected`, `ParserReturns` and `CompleteIsAnswered`, because liveness under fairness needs `ENABLED`,
which the prover does not handle; and the findings, which are counterexamples.

## What the code does otherwise than it says

* `EventLoop_quit`: a `quit()` that another thread makes before the loop's thread has come to `loop()`, or to its
  first line, is lost, because `loop()` resets the flag (`EventLoop.cc:53`); `EventLoop.h:26` calls `quit()`
  thread-safe. The destructors of `EventLoopThread` and `TcpServer` may
  therefore wait for ever; `JoinReturns` of `TcpServer` shows that they return
  when every thread has entered its loop before.
* `AsyncLogging_begin`: a `stop()` right after `start()` makes `assert(running_ == true)` of the logging thread fail
  (`AsyncLogging.cc:60`), because `start()` does not wait for the thread to begin.
* `TcpConnection_drop`: a message sent while an earlier one is buffered is lost
  (`TcpConnection.cc:104-147`).
* `TcpConnection_drain`: an assignment in place of a comparison
  (`TcpConnection.cc:273`) half-closes a connection when its buffer drains.

And, stated by properties that hold because they name the way it happens:

* `TcpConnection.h:58` heads `send`, `shutdown` and `forceClose` as thread-safe IO operations (`stopRead` and
  `startRead` follow after a blank line).
  `shutdown()` and `forceClose()` test and set `state_` in two steps (`TcpConnection.cc:172-174`, `197-199`), so
  that from another thread a closed connection can come back to `kDisconnecting`, be closed again, and be
  announced as down again, or be destroyed while its channel is registered. `OnlyARaceRevives` says that nothing
  but this race assigns `state_` after the close, `CloseOnce` what a second close takes, and
  `ListedUntilClosed` and `ActiveIsAlive` what becomes of such connections in a server.

Other things that the models show, about which no comment of the code says anything:

* `EPoller::updateChannel` registers a channel that is not registered whatever it asks for
  (`EPoller.cc:32-36`). After `stopRead()` has removed a connection's channel, the `disableAll` of
  `handleClose` adds it again, and epoll reports hang-ups even to a channel that asks for nothing; `startRead()` on a closed
  connection adds it, too. The end of the peer is then seen once more, and `closeCallback_`
  called a second time (`TcpConnection.cc:281-286`), which reaches the user as a second announcement of the end
  (`TcpServerSingle.cc:37`). If the connection has been destroyed by then, `epoll_wait`
  may return its channel all the same.
* A Timer that is cancelled while `handleRead` holds it, by its own callback or by that of another timer of the
  same batch, is deleted (`TimerQueue.cc:91`) and then read (lines 103, 105): the tests of `canceled()` there come too late.
* `TcpClient` uses destroyed objects when `connect()` is answered at once; when the
  connector is replaced or destroyed in the round in which its answer comes; when the client is destroyed
  over an open connection, in the callback that announces the connection, or in the callback of another timer
  of the batch that the retry timer is in. An immediate failure of `connect()` counts as success, because
  `SO_ERROR` is 0 then (`Connector.cc:45, 58`).
* `parseRequest` does not return when the request line is not complete or is rejected
  (`HttpContext.cc:56-71`); `ParserReturns` says that it does return otherwise.
* A failed `accept` makes a connection with the descriptor -1 (`Acceptor.cc:81`).
* `quit()` writes to the eventfd after setting the flag, when the loop may be gone
  (`EventLoop.cc:64-69`).

The properties of the passing runs hold in spite of these: they describe the code
as it is.

## Not modelled

* `ThreadPool`: nothing sets `running_`, so that its threads end at once and no task is ever
  taken; `addTask` blocks when the queue is full.
* `LogFile`'s repetition of a short write (which starts again from the same place,
  `LogFile.cc:11`): the file takes whatever it is given.
* Header lines without a colon, which `parseRequest` takes for the end of the headers, and
  the serialisation in `HttpResponse`, which has no state.
* The conversion of numbers in `LogStream`, `Logger` (formatting and `std::call_once`), `any`, `InetAddress`,
  `Timestamp`, `Mime`: pure data, tables and formatting. Addresses are left out of
  all models, and with them that the acceptor's callback takes the local address for the peer's
  (`TcpServerSingle.cc:12`).
* `stopRead` and `startRead` of other threads after a connection has been destroyed: they queue the raw `this`.
* The growth of `EPoller`'s `events_`: how many events one `epoll_wait` returns does not
  matter in the models, which let it return any.

## Plan

1. `TcpServerSingle` with `stopRead` and `startRead` of other threads, to say when their raw pointer is safe, and
   with `shutdown`.
2. `TimerQueue` with the memory of a deleted Timer given to a new one.
3. Algorithms: `FileUtil::append` under short writes, `convert`, `HttpResponse` and a
   reader of it, each against a reference definition.

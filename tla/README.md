# A verification project for hahs

hahs is a small C++11 network library in the style of muduo: one `EventLoop`
per thread, `Channel`s that turn epoll events into callbacks, `TcpConnection`s
with an input and an output `Buffer`, and `TcpServer`, `TcpClient` and thread
pools above them. This directory holds TLA+ modules that model its core, TLC
configurations that check them on small instances, and TLAPS proofs of the
properties that matter most for every value of the constants.

Paths below are relative to `src/src/`. `PROJECT.json` gives, for each
definition of the modules, the lines it models.

## The system

| component | state | operations | works with |
|---|---|---|---|
| EventLoop | `running_`, `taskqueue_` (under `mutexTask_`), the eventfd counter, `activeChannels_` | `loop`, `stop`, `runInloop`, `queueInloop`, `wakeup`, `handleRead`, `handleTask` | EPoller (wait), Channels (dispatch), any thread (closures) |
| Channel | `uevents_`, `aevents_`, two callbacks | `enable*`, `disable*`, `update`, `handleEvent` | its loop's EPoller; calls its owner |
| EPoller | `ueventMap_`, the epoll set | `updateChannel`, `removeChannel`, `wait` | the kernel |
| Buffer | a vector and two indices | `put*`, `get*`, `readFD`, `setGetIndex*`, `checkSpace` | TcpConnection, user callbacks |
| TcpConnection | `state_`, two Buffers, a Channel, the high water mark, user callbacks, its own reference count | `send`, `sendInloop`, `activeClose`, `activeCloseInloop`, `handleRead`, `handleWrite`, `handleClose` | Channel, EventLoop closures, the owner's `connsMap_`, user threads, the peer |
| TcpClient, Connector | `connsMap_`; the connecting descriptor and its Channel | `start`, `onConnectEstablish`, `removeConnect`; `doConnect`, `doError`, `doRetry`, `handleWrite` | creates TcpConnections on its one loop |
| TcpServer, Acceptor | `connsMap_` under a mutex, the listening Channel | `start`, `onConnectEstablish`, `removeConnect`; `handleRead` | creates TcpConnections on the loops of the pool |
| EventLoopThread(Pool) | `loop_` under a mutex with a condition; the loops and an index | `startLoop`, `threadFunc`, the destructor; `start`, `getNextLoop` | Thread, EventLoop |
| Thread, CountDownLatch | the start latch, started / joined flags | `start`, `runInThread`, `join`; `wait`, `countDown` | pthreads |
| ThreadPool | `running_`, `taskQueue_` under a mutex with a condition | `queueInPool`, `take`, `threadFunc`, `start`, `stop` | Thread, user tasks |
| BlockingQueue, TaskQueue | a deque under a mutex with a condition | `take`, `put` | no other component |
| Socket, SocketOps, InetAddr | a descriptor | wrappers of system calls | the kernel |
| Examples | a request list, a counter | `onConnect`, `onMessage`, `onWriteComplete`, client threads | TcpServer, TcpClient, or a TcpConnection of their own |

What is hard in it:

- **Threads and the loop.** Any thread queues closures and stops the loop while
  its thread is anywhere between poll, dispatch and `handleTask`. Queueing and
  waking are two steps, and the eventfd coalesces and can overflow.
- **One connection, many hands.** `send` and `activeClose` run in place on the
  loop's thread and through the closure queue elsewhere; the checks of `state_`
  are made on the caller's thread, long before the closure runs.
- **Partial progress.** The kernel takes some of a message; the rest must leave
  later, in order, once, and with `EPOLLOUT` watched exactly as long.
- **Closing.** A connection is closed by the user, by the peer, or by both, in
  one iteration of the loop or in several; its last `shared_ptr` can go away
  inside its own handlers.
- **Index arithmetic.** `Buffer` compares sums and differences of unsigned
  indices, at every alignment a run of puts and partial reads can reach.
- **Starting and stopping threads.** Handshakes with condition variables and
  flags read without the lock.

What makes each component correct:

- *EventLoop*: no wakeup is lost; closures run once each, one at a time, in
  queueing order; descriptors are not starved by closures; `stop` ends the loop.
- *Buffer*: it is a FIFO of bytes; `put` fits; it does not grow without need;
  an emptied buffer has all its room back.
- *TcpConnection*: the byte stream is whole and each sender's order is kept;
  writability is watched exactly while bytes wait; bytes that wait leave;
  completion is reported; the mark bounds the buffer; a close runs once.
- *EPoller and Channel*: `ueventMap_` and the kernel agree, also when a
  descriptor is reused; an event reaches only a live channel.
- *ThreadPool, Thread, EventLoopThread*: no worker sleeps for ever after `stop`;
  each task runs at most once; `startLoop` returns a loop that exists.
- *TcpServer, TcpClient, Connector*: each descriptor is in one connection and is
  closed once; the map holds the connections that are open, under their own numbers.
- *Example programs*: messages are found however the stream is cut; each good
  request gets its own answer; the generator does not stall.

## Modules

| module | models |
|---|---|
| `TaskExecutor` | abstract: what threads rely on when they queue closures |
| `EventLoop` | `EventLoop.h/.cpp`, with `EPoller::wait` |
| `ByteFifo` | abstract: a queue of bytes |
| `Buffer` | `Buffer.h/.cpp` |
| `TcpConnection` | `TcpConnection.h/.cpp` on its Channel, EPoller entry, `TcpClient::connsMap_`, EventLoop, kernel and peer |
| `TaskPool` | abstract: what threads rely on when they hand a pool tasks |
| `ThreadPool` | `ThreadPool.h/.cpp`, with the threads' starts and joins |
| `EventLoopThread` | `Thread`, `CountDownLatch`, `Mutex`, `Condition`, `EventLoopThread`, `EventLoopThreadPool::start`, over an instance of `EventLoop` |
| `TcpServer` | `TcpServer`, `Acceptor`, `getNextLoop`, the sub-loops' EPollers, the kernel's descriptor numbers |
| `Connector` | several `TcpClient`s with their `Connector`s on one loop and its EPoller |
| `Examples` | the client and server of sudoku, echo, chargen, discard and test_TcpClient over one connection |

For each module `M` of code, `MProps` states its properties, `MCM` is what TLC
instantiates, and `MProofs` holds its theorems.

Two modules are refinements of an abstract one, by a mapping in their
Props module and with the abstract specification as a property of a run and as a theorem:
`Buffer` of `ByteFifo`, `ThreadPool` of `TaskPool`. `EventLoop` is one of
`TaskExecutor`, proved for its safety part. `EventLoopThread` composes
`EventLoop` with the thread that builds it (`EL == INSTANCE EventLoop`): its
owner and its closures call the loop's own `queueInloop` and `stop`, its thread takes the loop's own steps.
The composition is proved to be an `EventLoop` with one other thread.

The definitions called *Mutant* stand beside the ones they vary. No action uses
them; each is a plausible slip in the code that one of the properties notices,
as `"mutants"` in `PROJECT.json` lists.

A failed assertion, a signal, or the use of memory that was freed is a value of
the variable `fault`; the first one ends the program. Where the program, or the bounded part of
it a model follows, really stops, the module has an action `Over` that
says so, and TLC's deadlock check stays on; `TcpConnection` is the one without
it, and its configurations switch the check off.

### EventLoop

A step is what one thread does between two accesses to state that other threads
share. The critical sections of `mutexTask_` are a `push_back` and a `swap`, so
each is one step; `queueInloop` and `stop` are two steps each, the change and
then `wakeup`, and any thread can run in between (`pc[t] = "wake"`). `lpc` is
the loop's program counter: `while` (the test of `running_`), `wait` (inside
`epoll_wait`), `dispatch`, `handler`, `tasks`, `task`, `exit`. A handler or a
closure is user code: the loop's own thread may call `queueInloop` and `stop`
from it, any number of times. `wakeups` is the eventfd's counter with its
maximum `WakeMax`; the descriptor is non-blocking, and a write that would
overflow fails and is ignored, as in the code.

`running_` is a plain `bool` stored by one thread and read by another. It is
modelled as one that is seen at once: the compiler cannot keep it in a register
across the calls in `loop()`, and the wakeup that follows the store makes a
system call.

`TaskExecutor` has a queue, at most one running closure, and a flag for the end
of the loop. `EventLoop` maps to it with `pending <- batch \o taskqueue`: the
swap in `handleTask` changes nothing that a thread can see.

### Buffer

Each public operation is one action, with the bytes as a function
from positions to values, so that a move or a resize that mishandled a byte would
show. `checkSpace` is an operator that returns the layout it leaves. The model
assumes what the callers in the repository do: the read index is only moved
forward (`Buffer.h:64` asks for that). `getIndex_` and `putIndex_` are unsigned; `TypeOK`
says that no difference the code takes of them goes below zero.

### TcpConnection

One connection from `onConnectEstablish` on. A handler, or a closure, is one
step up to the user callback it makes; the callback (`onMessageRead_`, the client's `onDisConnect_`, or
one from the queue) is a phase of the loop's thread in which
user code may send, close and release its `connPtr`. Other threads reach the
connection through `state_`, the reference count and the closure queue only,
so nothing else they do can fall inside a handler. `send` from such a thread is two
steps: the test of `state_`, and the queueing.

- `uevents` is `Channel::uevents_` and the entry of `ueventMap_` at once: every
  change of the one ends in `update()`, which changes the other. Removing an
  entry that is not there is the fault `removeChannel` (the assertion at
  `EPoller.cpp:44`).
- `inflight` is the kernel's send buffer with its limit `SockRoom`, `sent`
  everything it accepted. `::send` takes what fits, or is refused with
  `EWOULDBLOCK`, with `ECONNRESET` once after a reset, and with `SIGPIPE` after that.
- `room` is `writeableBytes()` of the input buffer. It comes back when the user
  has read everything (`Buffer`'s `EmptyIsReset`) and not before, because
  `readFD` makes no room.
- `mapped` and `held` are the references in `connsMap_` and in user code;
  closures in the queue hold one each. `Referenced` says that one is left.

### ThreadPool

The owner constructs, starts, stops and destroys the pool; `queueInPool` may be
called by any thread, a task among them, at any time before the end. Everything
under `mutex_` up to the end of the critical section, or up to `notEmpty_.wait()`,
is one step, for nothing else reads what it changes. What lies outside is apart:
the store of `running_` in `start()`, each thread's creation, which may fail, the
wait for its latch, each worker's test of `running_` at `ThreadPool.cpp:86`,
each join. `Notified` is what `notifyAll` does to the sleepers; a worker may also wake for no
reason. A task is the number of the call that queued it, so that order and
repetition show. `pc[w] = "failed"` is a `pthread_create` that failed, which `Thread::start` only
prints: joining it is the fault that `owner = "aborted"` stands for.

`TaskPool` is a queue, a running task per worker, and, once closed, the set of
workers that are already in `take()`: each of these may begin one task more.
`ThreadPool` maps to it with no history variable.

### EventLoopThread

`user` says what the owner has: a bare `Thread` with a function of its own
(`test_tcpClinet.cpp:90`), an `EventLoopThread`, or an `EventLoopThreadPool`.
The new thread goes through `startThread`, `runInThread`, `countDown` and then
`threadFunc`; the owner through `Thread::start`, the latch's `wait`, and
`startLoop`'s wait for `loop_`. Both mutexes are held over several steps here, because
what matters is who is still inside an object when its owner destroys it: the
unlock that ends `countDown`, or `threadFunc`'s block, is a step of its own, and it uses
a mutex that the owner may have freed by then. Faults: `tid` (the assertion at `Thread.cpp:124`), `freed`,
`dangling` (the loop is used after `threadFunc` returned), `null`. The last is
met by every destructor of an `EventLoopThread` that was never started, since `!loop_` is the wrong way round
(`EventLoopThread.cpp:24`); one that was started is destroyed with
its thread still running and never joined. It is also met by
`EventLoopThreadPool::start`, whose vector holds null pointers from its
constructor (`EventLoopThreadPool.cpp:15`).

### TcpServer

The main thread runs `Acceptor::handleRead` and `onConnectEstablish` as the
steps `handleRead` (accept and construction), `register` (the constructor's `enableRead`, into the
EPoller of a loop that runs on another thread), `insertLock`, `insert`,
`setReadCallBack`, `setDisconnectCallBack`, `onConnect`. A sub-loop polls, dispatches in any
order what was reported, runs `removeConnect` as find (no lock), lock and erase, and then
its closures. All interleave. The kernel gives a number as soon as
it is closed; `ueventMap` is by number, `watched` is the kernel's own set, and
`stale` marks the entries that a deleted connection has left behind. An accept that fails
returns -1, and the code makes a connection of it all the same.

Faults: `poller` (a sub-loop searches the EPoller's maps while the main thread
changes them), `callback` (a `std::function` is assigned while the sub-loop's handler may
be reading it), `map` (`removeConnect`'s unlocked search meets a
holder of the lock), `freed` (the handler of a deleted connection), `missing`
(the assertion at `TcpServer.cpp:40`). The first four are undefined behaviour
the code does reach, and stop the model; the last is what `RemoveFindsIt` excludes.

The pool is taken as started. At this commit `TcpServer::start` ends at the null
pointer named above; the model is of the server the rest of the code describes.

What a connection reads and writes is `TcpConnection`; kept here is one effect of it,
a send caught by the close, whose `enableWrite` registers the descriptor
again (`TcpConnection.cpp:246`) and so leaves the stale entry. The closure holds a `connPtr`,
and `handleTask` holds the closures it has swapped until all have run, so that the connection is deleted
at `endIteration` at the earliest. `activeClose` is not in this module: `ClosedLeaves` is about the peer's close.

### Connector

A step is a call of `start()`, a handler on the loop's thread, or an event in the
kernel. `connect` can succeed, go on, be refused, or fail at once; the end of one that goes
on is read with `SO_ERROR`. The `close(connfd_)` of `doError` is a
step of its own (`closing`): the number can be another's between the failure and the close, if
somebody has closed it first. `connfd_` is never reset, so that a second `start()`
acts on whatever has the number by then. `stolen` collects the sockets closed under their owners.

The code does not keep a user from calling `start()` twice and tells nobody
that an attempt has failed; a user who retries does call it twice. The model has
these calls (`MaxStarts = 2` in the run); the safety properties hold on the
premise `StartedOnce`, which is what `TcpClient`'s users in the repository do.

### Examples

`program` chooses one of six: `sudoku`, `echo` and `chargen` (TcpServer with TcpClient),
`discardThread` and `echoThread` (the threads of `example_discard.cpp` with connections
of their own) and `lineThread` (`test_tcpClinet.cpp`). A byte is its message's
number and its place in it; CR and LF are two more. The network delivers any prefix at a time; the kernels hold
`Window` bytes of the client's, and what a send leaves over waits in `outputBuffer_`
until `handleWrite`. `serverRead` appends as much as `readFD` has room for, and the
read index moves up without making room, as in `Buffer`. `onMessage` of each program is
translated with its loop: the Sudoku server's ends when fewer than
`kCell + 2` bytes are left or no CRLF is found, the Sudoku client's only when
the buffer is empty. A server whose buffer is full closes (`serverReadNothing`): the connection and its
`outputBuffer_` are deleted, `~Socket` closes a descriptor with bytes unread, and the reset that follows
loses any number of the last bytes on their way. A client that has bytes waiting then fails the
assertion in `handleWrite` (`handleWriteError`), another reads what is left and closes (`clientClose`).
The puzzle's solution is the puzzle, and the id before it, which is copied into the response,
is not told from it.

## Runs

Passing runs:

| run | shows | bounds |
|---|---|---|
| `EventLoop_calls` | `NoLostWakeup`, `ExecutorSafety`, `ExecutorSpec`, `IoIsServed`, `StopEndsLoop` | loop + 2 threads, 2 closures, 1 descriptor, counter 0..2, 3 closures queued |
| `Buffer_fifo` | `PutFits`, `EmptyIsReset`, `GrowthIsBounded`, `IsFifo` | 2 byte values, 2 reserved, 2 initial, puts and reads of up to 3, size up to 8 |
| `TcpConnection_stream` | `StreamIsWhole`, `SenderOrder`, `WriteInterest`, `CompletionIsReported` | 2 senders of 2 messages of 2 bytes, kernel buffer of 1, 1 close, reset, FIN; no mark |
| `TcpConnection_leaves` | `RemovedOnce`, `OutputNearMark`, `FaultNeedsCause`, `OutputLeaves` | mark of 3 bytes, 1 message per sender, 2 closes, 1 byte from the peer into an input buffer of 1 |
| `ThreadPool_tasks` | `SleepersMissNothing`, `GoneIsQuiet`, `IsTaskPool`, `TasksBegin`, `StopReturns` | 3 workers, 4 tasks |
| `EventLoopThread_start` | `HandshakeHolds`, `ReturnedLoopIsBuilt`, `OwnerIsHeard`, `StartReturns` | 1 closure, 2 queued, counter 0..2 |
| `TcpServer_life` | `RemoveFindsIt`, `MapOwnsNumber`, `DispatchedIsAlive`, `OpenIsWatched`, `ClosedLeaves` | 2 sub-loops, 2 numbers, 3 connections, one of which the user may keep |
| `Connector_attempts` | `OwnerCloses`, `InterestIsKept`, `ToldOnce`, `AttemptEnds` | 3 clients, 2 numbers, 2 starts each |
| `Examples_streams` | `StreamsAreWhole`, `AnswersMatch`, `GoodIsAnswered`, `AnswerIsFound`, `GeneratorGoesOn` | 3 messages, of 1 to 3 bytes for sudoku (2 is good) and 3 otherwise; input buffer of 11, window of 4 |

The bounds are small and still reach the cases that matter.

- *EventLoop*: two closures and two other threads give every order of push, wake,
  read of the eventfd and swap; a counter limited to 2 makes writes coalesce and overflow.
- *Buffer*: a vector of four bytes that may grow to eight is moved and resized at
  every alignment of the indices.
- *TcpConnection*: messages of two bytes with a kernel buffer of one make every message
  partial; a message that meets bytes waiting, a full kernel and a half-empty one
  all occur. Two closes are enough for each pair of user close, queued close and the peer's close.
- *ThreadPool*: three workers are one that runs, one that sleeps and one that is not
  started yet, at the same time; four tasks leave some in the queue when all are busy.
- *EventLoopThread*: there is one owner and one thread; the bounds only limit what the owner and its closures queue later.
- *TcpServer*: the third connection has to take the number of an earlier one and the
  loop of the first, which is what a stale entry, or an erase that hits the wrong connection, needs.
- *Connector*: three clients over two numbers make the third take a number that one of the others gave back.
- *Examples*: with three requests of up to three bytes and a CRLF each, a piece can end at any place of
  a request and hold the end of one and the start of the next; fifteen bytes
  overrun a buffer of eleven, nine do not; a window of four makes a send of five partial.

Cut off by a bound are only runs with more of the same: `MaxQueue`, `MaxLen`,
`MaxSize`, `MaxSends`, `MaxCloses`, `MaxRecv`, `MaxTasks`, `MaxConns`,
`MaxStarts` and `MaxReqs` limit how often the environment acts, and appear in
guards of its actions alone. No run uses symmetry: most check liveness.

Runs that TLC refutes, each a disagreement between the code and what the
repository says of it:

| run | property | what happens |
|---|---|---|
| `TcpConnection_partial` | `StreamIsWhole` | with a high water callback set, a partial send stores the whole message (`TcpConnection.cpp:172`): the first bytes are sent twice |
| `EventLoopThread_stop` | `StopEndsThread` | `loop()` sets `running_` when it is entered (`EventLoop.cpp:48`): a `stop()` that comes as soon as `startLoop` has returned is forgotten, and the thread never ends |
| `TcpServer_ended` | `EndedLeaves` | a connection is registered in its constructor and gets `onDisconnect_` later (`TcpServer.cpp:22`): a FIN in between runs `handleClose` with no callback, and the connection stays in `connsMap_` for ever |

## Other behaviour the models contain

Facts about the code that are part of the models without a run of their own; a
property above has each as an exception or a premise.

- `send` from another thread binds a pointer, not the bytes (`TcpConnection.cpp:89`):
  a caller that writes to its line again has the new one sent. `SenderOrder`
  is on the premise `SenderKeepsBuffer`; `test_tcpClinet.cpp` breaks it, and `StreamsAreWhole`
  promises that program its echo alone.
- After an active close with bytes waiting, they leave, and then nothing closes the
  connection (`:292`); with nothing waiting it stays in `connsMap_` with its descriptor open (`:251`).
- An active close and the peer's, or two active closes, deregister the
  channel twice (`:252`), which fails the assertion at `EPoller.cpp:44`. `FaultNeedsCause`
  says that one active close, with the sends and writes around it, does not.
- With no `connPtr` kept by the user, the peer's close deletes the channel whose
  `handleEvent` is running (`:328`): the fault `freed`, which ends the model.
- A partial request that fills the input buffer makes `readv` return 0, which is taken
  for the peer's FIN (`Buffer.cpp:17`). The Sudoku client gets there by sending
  requests faster than they are answered: the buffer is not moved down while it holds a byte.
  The close resets the connection, and answers on their way are lost: `GoodIsAnswered` and
  `AnswerIsFound` excuse requests that together exceed the buffer (`Overrun`), and nothing less.
- A message refused with `EWOULDBLOCK` is stored without a look at the mark (`:147`),
  which is why `OutputNearMark` allows one message above it.
- A reset while bytes wait fails the assertion in `handleWrite` (`:269`), and a later send
  raises SIGPIPE (`SocketOps.cpp:120`). `FaultNeedsCause` says that the assertion takes a reset;
  that SIGPIPE does is the kernel's doing.
- A close or a send after the peer's close registers the descriptor again (`:246`);
  `RemovedOnce` shows that this stops short of a second `handleClose`, because
  only `EPOLLOUT` is enabled. What it leaves in `ueventMap_` makes the next
  connection with the number unwatched: the exception in `OpenIsWatched`.
- Tasks still queued at `stop()` are dropped by workers that see `running_` false (`ThreadPool.cpp:86`).
- The Sudoku server leaves a bad request shorter than a good one unanswered while
  nothing follows it (`AnswersMatch` is about answers, `GoodIsAnswered` about good requests); the Sudoku
  client stays in its loop for ever when a read ends inside a response (`Spinning`). `Stuck`, the excuse in
  the two liveness properties, asks in addition that the rest of the response is unread or lost.
- `AttemptEnds` counts the connects that are in progress. One that succeeds or fails in `start()` has its
  descriptor closed or nothing done, and nobody is told (`startFails`, `startDoesNothing`). The second `start()` is
  where the other properties of the Connector end (`StartedOnce`).
- Chargen sets a high water mark, so that its partial sends are doubled as in `TcpConnection_partial`.
- The client threads of the discard example connect without blocking and take
  `EINPROGRESS` for an error: they end unless the connect succeeds at once.

## Fairness

*EventLoop* (`Fairness`): the thread that built the loop enters `loop()`; it
keeps being scheduled; a thread between the two steps of `queueInloop` or
`stop` takes the second; callbacks return, as the comment in `loop()` asks.
`Enter` and `Return` need strong fairness because the same thread may, first,
make calls that disable them for a moment. The timeout of the poll
has no fairness: progress does not rest on the 10 s tick.

*TcpConnection* (`FairSpec`): the loop's thread is scheduled and its callbacks
return; a thread inside `send` reaches `queueInloop`; the peer goes on reading.
Nothing is assumed of closes, of other sends or of the peer's sending.

*ThreadPool*: weak fairness of the owner inside `start()` and `stop()` and of each
worker: the scheduler runs threads, mutexes are handed on, tasks return. Calls of
`queueInPool`, the destruction and spurious wakeups are free.

*EventLoopThread*: weak fairness of the owner on its way through `startLoop`,
strong fairness of the new thread, which waits for mutexes the owner may take
again and again as it wakes for no reason, and the second step of `stop`. Destroying, queueing and stopping are free.

*TcpServer*: weak fairness of the main thread inside `onConnectEstablish` and of
each sub-loop. Accepts, the peers, sends and the user's release are free.

*Connector*: weak fairness of the loop's handlers for each client, and of the kernel
for the end of each connect (it has a timeout of its own). `start()` is free.

*Examples*: weak fairness of the server's loop and of the client's, the delivery
of bytes in them. No client has to connect and no thread has to send.

## Proofs

Each proof module proves its theorems for every value of the constants that the
module's assumption allows. Type correctness is proved in all eight and
checked by no run: the proof covers the runs' instances. So is every safety property of the passing runs.

`EventLoopProofs` (`LoopAssumption`):

- `TypeCorrect`: `Spec => []TypeOK`.
- `WakeupNeverLost`: `Spec => []NoLostWakeup`. For closures it is not inductive: the loop arrives at
  the poll from `while`, and there from `tasks`. The strengthening `WakeupDue`
  asks for the wakeup at every place but the dispatch, which is the one part of
  `loop()` that reads the eventfd and is always followed by the swap; so the read never
  takes away a wakeup that a closure still needs. `LoopShape` says what is empty where: `batch` outside
  `handleTask`, and `current` outside callbacks; and that the loop's thread is at
  one of the places where callbacks run while a call of its own is between its two steps. An overflowing `wakeup` leaves the
  counter at `WakeMax > 0`, which is why a failed write does no harm.
- `RunsTasksInOrder`: `Spec => ExecutorSafety`. Under the mapping, `queueInloop`
  is `Queue`, `RunTask` is `Start`, `Return` of a closure is `Finish`, the exit from `while` is `Close`, and
  everything else, the swap included, stutters; the lemmas `SwapIsInvisible`,
  `PushIsQueue` and `PopIsStart` are the facts about sequences it needs.

`BufferProofs` (`BufferAssumption`):

- `TypeCorrect` and `EmptiedBufferIsReset` together: their conjunction is the
  inductive invariant. `RESERVED <= getIndex <= putIndex <= size` is what keeps
  the unsigned arithmetic of `checkSpace` from wrapping.
- `PutNeverOverflows`: the assertion in `put` cannot fail.
- `BufferIsFifo`: `Spec => Fifo!Spec`, position by position through a move and a
  resize.
- `BufferGrowsWithContent`: the action property `GrowthIsBounded`.

`TcpConnectionProofs` (`ConnectionAssumption`):

- `TypeCorrect`. `TypeOK` is not inductive: a `send` closure that is run must be of a
  message, and it carries the number its sender had reached. The strengthening
  `IssuedOK` says that a thread with a closure queued, or about to queue one, has sent.
- `RemovedAtMostOnce`: `Spec => []RemovedOnce`, from `Registered`: a connection that has left
  `connsMap_` is not registered for input, and no input event from before is
  still to be handled. What registers the channel again adds `EPOLLOUT` only.
- `WritabilityWatched` and `MarkHolds`: `WriteInterest` and `OutputNearMark` are inductive
  once every send is known to be of whole messages. The lemma `SendInterest` is what
  `sendInloop` does to both, branch by branch.
- `SendersKeepOrder`: `Spec => []SenderOrder`, assumed `SenderKeepsBuffer`. The invariant `Order` follows a message from the test of `state_`
  to the closure queue, the batch and the socket: what has `Passed` is behind
  its sender's counter; `queue` and `batch` are `Sorted`; all of `batch` is
  `Ahead` of all of `queue`; and all that was taken is earlier than anything
  `Waiting`. A send in place by the loop's thread overtakes nothing, because
  none of that thread's sends ever waits.
- `CompletionNeverLost`: `Spec => []CompletionIsReported`, assumed `HighWaterMark = 0`. `Owed` is
  the property; `BatchInUse` (nothing is left in `batch` outside
  `handleTask`) is what keeps the swap from dropping a report. With a mark
  the property does not hold by design: a partial send above the mark
  reports high water instead.
- `StreamStaysWhole`: `Spec => []StreamIsWhole`, assumed `HighWaterMark = 0`, the case that
  `TcpConnection_partial` leaves. The property is stated place by place (`Whole`): byte `i` of
  message `k` is at `(k - 1) * MsgLen + i`, and there are no more. `SendExtends` shows for each branch of
  `sendInloop` that the stream is extended by one message, `SplitJoins` that what the
  kernel takes and what stays are the message cut in two.
- `FaultsNeedCauses`: `Spec => []FaultNeedsCause`. `Closing` counts the closes: until the second call,
  either reading is enabled, so that no removal finds the mask empty, or the one close has
  run and none is queued. `WriteOK` follows a write event from the poll to its handler: it still
  finds bytes, room for one of them or a reset, and before the end of the stream `EPOLLOUT` enabled.

`ThreadPoolProofs` (`PoolAssumption`: any number of workers, none included):

- One invariant serves all: `TypeOK`, `Unstarted` (the threads `start()` has not come to
  do not exist; without it `TypeOK` is not inductive, because the latch's return
  moves `index` without looking at `N`), `Shape` and `SleepersMissNothing`.
  `RunningPhase` ties `running_` to the owner's place, so that clearing it and
  the `notifyAll` are in one critical section, and `Joined` says that the threads before `index` have ended, from
  which `DestroyedPoolIsQuiet` follows when `index` passes `N`.
- `NoSleeperMisses`: a worker goes to sleep only in the critical section that found nothing to do,
  and whatever gives it something to do notifies in the same one. The store of
  `running_` in `start()` is made before there is a worker.
- `ImplementsTaskPool`: `Spec => IsTaskPool`; `queueInPool`, a `take` that finds a task, the end of
  a task, `stop` and a `take` that finds none after `stop` map to the steps of `TaskPool`, the rest stutters.

`EventLoopThreadProofs` (`LoopThreadAssumption`): `HandshakeAlwaysHolds`,
`ReturnedLoopIsGood` and `TypeCorrect`, from `IInv` and the EventLoop's own `TypeOK`.
`Counted`, `Stored` and `Published` say what the new thread has done by the time it is
somewhere, `Holders` who has the mutexes; `Behind` is the heart: an owner behind the latch's wait
knows that the new thread is out of the latch, and one behind `startLoop` that it is out of
the mutex, because a wait returns with the mutex in hand and the thread changes the condition with the mutex in
hand too. `StopCalled` (a loop that has ended was stopped) is why the pointer stays good.
`LoopIsEventLoop`, `Spec => EL!Spec`, maps every step of the owner and of the thread to one of
EventLoop or a stutter; the theorems of `EventLoopProofs`, instantiated for the one owner (`Built`), then
hold of this loop. `OwnerAlwaysHeard`, `Spec => []OwnerIsHeard`, is `WakeupDue` and `StopDue`, where
`LoopShape` excludes the loop's own thread as the one that is waking; `ClosuresRunInOrder` is `ExecutorSafety`.

`TcpServerProofs` (`ServerAssumption`): `RemoveAlwaysFinds`, `MapAlwaysOwns`, `DispatchedAlwaysAlive`,
`OpenAlwaysWatched` and `TypeCorrect`.

- `Made` and `InHand` bound who can hold what: a connection nobody has made is in no map, set or queue; the one in the main thread's hand
  is in user code only once it has its read callback.
- `Numbers`: a connection that exists has its number in the kernel, so that `accept` cannot
  give it again; with `Made` this is `MapAlwaysOwns`.
- `InMap` and `Removing`: a connection is in the map from `insert` to its own erase. A close can
  only run `removeConnect` once the callback is set, which is after `insert`; the main thread
  inserts a different connection meanwhile, under a different number.
- `Entries`: an entry of a `ueventMap_` is of a connection that exists, or `stale`. With it a
  new connection's `EPOLL_CTL_ADD` is one.

`DestroyOthers` and `DestroyInv` are what letting go of the last reference leaves of all this; each action that lets go cites them.

`ConnectorProofs` (`ConnectorAssumption`): `OnlyOwnersClose`, `InterestIsAlwaysKept`, `AlwaysToldOnce` and `TypeCorrect`.
`Numbers`, about the kernel, holds however often `start()` is called; `Private` needs `StartedOnce`, which `StartsGrow` shows to be
inherited from a state by its predecessors: `Unstarted` (nothing has touched a socket that was not
started), `Closing` (what is about to be closed is the Connector's own),
`Entries` and `Waiting` (an entry of `ueventMap_` is the channel of the socket that has the number, and
every socket that waits has one).

`ExamplesProofs` (`ExamplesAssumption`: any lengths, room, window and number of requests, one at least):
`TypeCorrect`, `StreamsStayWhole` and `AnswersStayMatched`.

- `Messages` and `Replies` are `FlattenSeq`s, defined by recursion, so that the proofs need induction over
  the number of messages. The library's theorem for it takes an operator as its parameter; the lemma
  `Induction` says the same of a set of naturals, and follows from the pigeonhole theorem. With it `JoinsExists` shows that the
  recursion defines a function, and `FlattenAppend` what one more message adds.
- `Typed` strengthens `TypeOK`: `BytesOK` (what is in the streams are bytes) and `CountsOK` (no more is
  queued than was sent, and no more sent than there are requests).
- `RepliesWhole` and `RequestsWhole` are the two halves of `StreamsAreWhole`. The first has what a reset
  has cut off as `lost`, so that it is an equation in every step, and empty as long as the server is open;
  that what came is a prefix of the replies follows. The server's step rests
  on `FirstRequest`: `findCRLF` finds the first CRLF, no request has one inside, and so what
  is in front of it is the next request, however the bytes are cut (`CutLine`). `AnswersOK`
  (no more answers than requests) bounds the index at which `AnswersMatch` is extended.

Only model-checked: liveness under fairness, which TLAPS does not treat: `ExecutorSpec` beyond its safety part,
`IoIsServed`, `StopEndsLoop`, `OutputLeaves`, `TasksBegin`, `StopReturns`, `StartReturns`, `ClosedLeaves`,
`AttemptEnds`, `GoodIsAnswered`, `AnswerIsFound` and `GeneratorGoesOn`. What the runs show
violated is not proved either: the theorems that need it carry the premise (`HighWaterMark = 0`,
`SenderKeepsBuffer`, `StartedOnce`).

## Plan

Done: all the components with state of their own that the library's other parts use.
What would come next, were it to be of use:

1. `BlockingQueue`, if a component comes to use it: `take` and `put` as in `ThreadPool`, without `running_`.
2. `TcpServer::start` composed with `EventLoopThread`, once the pool's constructor
   makes its threads; the premise of `TcpServer` then becomes a theorem.
3. `TcpConnection` and `TcpServer` in one module, with a connection's own closures on the sub-loop: the interface
   between them here is the close and the send it catches.

## Not modelled

- `BlockingQueue`, `TaskQueue`: used by no other component.
- `InetAddr`, and the parts of `SocketOps` that format addresses or that nobody calls: no state.
- `TcpConnection::send(Buffer *)`, `handleError`, `File_Tiny`: declared, empty.
- `Channel::disableRead`: no caller. The channels of the listening socket and of the eventfd are always registered.
- A negative offset to `Buffer::setGetIndexOffset`: no caller; see the hazards.
- `TcpServer::start` and `Acceptor::listen` (see `TcpServer` above).
- Allocation failure, exceptions from user callbacks, and an unsuccessful `socket()`, on which the program aborts.
- Of the examples: the main programs (`example_discard.cpp`'s never starts its servers), the
  callbacks that only print, the solver of the puzzle, and the file transfer, which is unfinished.
- Unit tests: programs that call one component each.

## Running

In this directory, `tlc -config EventLoop_calls.cfg MCEventLoop.tla` and so on for
each run (`PROJECT.json` has the module of each), and `tlapm EventLoopProofs.tla`
and so on for each proof module. The largest runs are `TcpConnection_stream`, with 1.2 million states in half
a minute, and `TcpConnection_leaves`, with 1.1 million in a minute and a half.

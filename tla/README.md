# A verification development for inter_application

The repository holds a small C++ server framework (a reactor with a thread pool,
`src/program/Qt_Server`, of which `src/ReactorV5_teacher` is the same code file by
file), a MySQL connection pool (`src/program/Test_ConnPool`), a chat room server
(`src/Network_Programm/ChatRoon`), two FFmpeg programs (`src/FFmpeg_test`), and the
exercises and drafts that led to them. These modules describe the parts that work
concurrently or drive a protocol, check them with TLC on small instances and prove
the central facts with TLAPS for every instance.

## 1. The system

| Part | State | Operations | Talks to |
|---|---|---|---|
| MutexLock, MutexLockGuard, Condition | a pthread mutex, wait sets | lock, unlock, wait, notifyOne, notifyAll | everything below |
| TaskQueue | `_que`, `_queSize`, `_flag`, one mutex, two conditions | push, pop, wakeup, empty, full | called by the IO thread, the workers and the stopper |
| Threadpool, Thread | `_threads`, `_isExit`, a TaskQueue | start, addTask, stop, doTask; Thread::start, join | runs `Mytask::process` |
| EventLoop | epoll set, `_conns`, `_pendingFunctors`, eventfd, `_isLooping` | loop, unloop, runInLoop, handleNewConnection, handleMessage, handleReadEvent, doPendingFunctors | called back by epoll; other threads post functors |
| TcpServer, Acceptor, TcpConnection, Socket, SocketIO | listening socket; one object with one descriptor per client | accept, receive, send, sendInLoop, isClosed | owned by `_conns` and by tasks through shared_ptr, by functors through the bare `this` |
| ConnPool, MySQLClient | `_connects`, `_connectNum`, one mutex, two conditions | constructor, get_connect, release_connect, avaiable, destructor | user threads, MySQL |
| SocketIO | a descriptor; the caller's buffer | readn, sendn, readline, recvPeek | the kernel's byte stream; called by TcpConnection |
| Chat room server | epoll set, `conns` (descriptor to second of the last message) | accept, recv, forward, end, idle timeout | clients |
| FFmpeg decoder, encoder | codec contexts, stream indices, frame and packet, output files | openCodecContext, decodePacket, encode, draining | libavcodec, libavformat |
| FileStream, login tasks, CommandQueue, Logger, drafts | see section 7 | | |

How a line of text travels: the IO thread accepts (`EventLoop::handleNewConnection`)
and reads a line (`TcpConnection::receive`), wraps it in a `Mytask` with a
shared_ptr to the connection and calls `Threadpool::addTask`; a worker takes the
task and posts a functor with `runInLoop`, waking the loop through the eventfd; the
IO thread swaps the vector of functors and runs them, which sends the answer.

The behaviours that are hard, and what must hold there:

* **Condition variables** (TaskQueue, ConnPool): stolen elements, spurious wakeups,
  one notifyOne per operation. No operation on an empty or full queue, no lost
  wakeup, FIFO order, nothing lost or duplicated.
* **Unlocked accesses**: `_flag`, `_isExit` and `wakeup()` are used without the
  mutex, and `stop()` polls the length of the queue without it. What stop()
  guarantees nevertheless, and what it does not.
* **Two non-atomic handshakes** (EventLoop): append and write the eventfd, read the
  eventfd and swap. No functor is left behind, none is run twice, the blocking read
  never blocks.
* **Object lifetimes** (EchoServer): a connection may be closed while its line is in
  the pool or its answer in the mailbox, and its descriptor may be reused at once.
* **Blocking the only IO thread**: `receive` on half a line, `addTask` on a full queue,
  `send` to a client that does not read.
* **A byte stream cut anywhere** (SocketIO): lines in pieces, several at once, longer
  than the buffer, ended or aborted in the middle; short writes.
* **Rounds of events** (EchoServer, ChatRoom): a descriptor closed and given out again
  while later events of the round still name it; idle connections to be closed in time.
* **A codec that keeps things back** (MediaPipeline): send and receive must alternate as
  the codec wants it, a buffer it still refers to must not be drawn over, and what it
  holds must be drained. In which order it gives things out is its own affair: the encoder
  asks for B frames (Full_Encode_Practice.cpp:99), so packets leave in decoding order.
* **Failure**: pthread_create, accept, send to a peer that is gone, an aborted
  connection, any call of the FFmpeg libraries.

The list of hazards, each at its line and with the properties that answer it, is in
`PROJECT.json`.

## 2. Modules

| Module | Models | Notes |
|---|---|---|
| `Monitor` | MutexLock, MutexLockGuard, Condition | `owner` is the mutex, `waiting[c]` the wait set of a condition. `Wait` releases and enqueues in one step, as pthread_cond_wait does; `NotifyOne` picks any waiter or is lost; `SpuriousWakeup`. |
| `TaskQueue` | TaskQueue.cpp | Uses Monitor. A call is split where other threads can see or influence it. `pushed` and `taken` are history. |
| `BoundedFifo` | (abstract) | What a TaskQueue promises: a bounded FIFO that can be closed and then delivers nothing. |
| `Executor`, `Lending`, `Mailbox`, `Echo`, `LineStream`, `Room`, `Transcoder` | (abstract) | What Threadpool, ConnPool, EventLoop, EchoServer, SocketIO, ChatRoom and MediaPipeline promise, each in a few actions without threads, buffers or handlers. The detailed module instantiates its abstract one as `Contract` (`Service` in EchoServer) and states the refinement as `Implements...`. |
| `Threadpool` | Threadpool.cpp, Thread.cpp | Extends TaskQueue: workers, producers and the owner are the queue's threads. |
| `ConnPool` | mysql_connpool.cpp, the user of test_ConnPool.cpp | Uses Monitor. |
| `EventLoop` | EventLoop.cpp: loop, unloop and the mailbox | Other descriptors are a parameter. |
| `EchoServer` | Server_Test.cpp, TcpConnection.cpp, Acceptor, Socket, Task.hpp, the rest of EventLoop.cpp | Extends EventLoop; the pool appears as the abstract buffer it implements. |
| `SocketIO` | SocketIO.cpp under TcpConnection::isClosed, receive, send | One connection, byte by byte; one step per recv or send. |
| `ChatRoom` | epoll_ChatRoom_Server.cpp | The whole server with its clients and the clock. |
| `MediaPipeline` | Full_Decode_Practice.cpp, Full_Encode_Practice.cpp | Both programs over one external codec. |
| `TaskQueueProofs`, `ThreadpoolProofs`, `ConnPoolProofs`, `EventLoopProofs`, `EchoServerProofs`, `SocketIOProofs`, `ChatRoomProofs`, `MediaPipelineProofs` | | Theorems, section 5. |
| `MC*` | | Bounds, symmetry and the instances. |

Operators whose comment begins with "Mutant" are deliberately wrong versions of the
definition that follows them. No specification uses them: each is there to be put in
the place of that definition, to see that a property notices.

Granularity. A region under a mutex that no other thread can observe or influence is
one step; taking the mutex, waiting, and leaving are separate steps. The two reads
of `_flag` in `pop` are separate because `wakeup` writes it without the mutex: in the
model `PopTest` evaluates the loop condition, `PopWait` enters the wait set, and
`WakeupClear` and `WakeupNotify` may fall in between. `deque::size()`, which stop()
calls without the mutex, subtracts two positions: `StopReadTail`, `StopReadHead`.
Its other racy outcomes (a half-updated deque iterator) are outside the model.

Correspondence, by example: `PushLock/PushWait/PushResume/PushStore` are
TaskQueue.cpp:31, :33-35, again :33-35 after the wait, :37-41. A woken thread goes
back to the test, because the code says `while`. `doTask` is `TestExit`, `CallPop`,
`InPop`, `PopReturnsTask | PopReturnsNull`, `RunTask`; `stop` is `StopCall` to
`StopJoin` in the order of its statements. `EventLoop`'s `ioPc` is the place in
`waitEpollFd`, `ready` the part of `_evtArr` not handled yet. The `map` of
`PROJECT.json` gives the lines of every definition.

In `EchoServer` a client is identified with its connection; the n-th line of client c
is the pair `<<c, n>>`, which also names the task and the functor made of it. An
object lives while some shared_ptr refers to it (`Referenced`) and `Reclaim` destroys
it, and closes its descriptor, when the last one goes. Pushing a task and taking one
are single steps there: `QueueImplementsFifo` justifies that. `Mytask::process` does
not return before the eventfd is written, so a worker holds its shared_ptr until after
`Notify`. A client that closes is seen as the end of the stream; an answer sent
afterwards is lost and provokes a reset, and once that has arrived the next send ends
the process with SIGPIPE (`alive`). The socket buffers towards a client hold `Room`
answers; `unread` counts those it has not read (`Read`), and a send that finds no room
waits, and with it the IO thread, until the client reads or closes. A client that closes
has read what it was sent: closing over unread bytes would abort the connection, which
`SocketIO` models. When accept fails the handler goes on with -1, as the code does: a
connection with no client (`Nobody`) goes into `conns` under -1 and is not watched, as
epoll_ctl refuses it. Descriptors are numbers because accept gives the
lowest free one, which is how a stale number comes to mean another client.

In `SocketIO` a byte is its position in the peer's stream, and only whether it is a
newline is kept. `buff` has one cell before and one behind the array of receive(), which
begin with a value (`Canary`) that is neither a byte of the stream nor NUL, so that a
write outside shows, a terminator included. send takes at most `Room` bytes before the
peer reads, and waits when there is no room. recv returns bytes that are there first, then the pending
error of an abort, once, then 0. `pos` and `left` are the locals of readline; readn's
own pointer runs in step with them. EchoServer uses the same functions as whole lines:
`StreamPreserved` and `MessagesAreLines` say that a line is received as it was sent, but
for its newline, in the place of which there is a NUL (and for a line longer than the
array, which comes in pieces).

In `ChatRoom` a message is its number, a receive takes up to `BuffSize` of them, and
the time of an entry is its age, cut off at `IdleLimit`. `who` in an event remembers
for whom epoll reported it. The loop that forwards a message sends to one descriptor
per step, in the order of the map; a send to a full socket waits. `joined` and `heard`
are history. A full buffer has no terminator, so strlen may go on behind it: `overrun`
notes to whom such bytes may have been sent.

In `MediaPipeline` a packet or frame is `<<stream, number>>`; `content` are the data
buffers, `held` those the codec refers to. The codec is libavcodec's, seen from outside:
it gives out what it holds in any order and keeps up to `Delay` items back, refuses a new
one with EAGAIN while it has more, and may fail at any call, keeping some of what it
held, the item just sent perhaps with it, and losing the rest. Nothing is therefore said
of the order in a file, nor of gaps after a failure. A packet is taken to carry one frame.
`decodePacket` allocates its frame after the send and exits if it gets none (`Sent`), also
while draining. `idx` begins with any value, because the program does not set it. The rest
of the programs, opening files and printing a command line, is `GiveUp` or nothing.

Errors of epoll_wait. `EventLoop::waitEpollFd` exits on an error other than EINTR, and the
chat room goes on with its round. Such errors come from bad arguments only (EBADF, EFAULT,
EINVAL), and the arguments are good as long as the loop runs: in `EventLoop` the exit is left
out, in `ChatRoom` the step is `EpollTimesOut`. EINTR is the other half of that action.

## 3. Runs

| Run | Instance | States | Shows |
|---|---|---|---|
| `queue` | 2 producers, 3 consumers, 1 closer, 2 slots, 4 pushes | 312 k | No front() on an empty queue, no lost wakeup on either condition, and that the queue implements BoundedFifo (capacity, order, closing). Two slots and three consumers are the least with which an element can be stolen while two others sleep. |
| `pool` | 2 workers (one may fail to start), 2 producers, 2 tasks, 1 slot, 1 spurious wakeup, fair | 91 k | Each task is in one place at any time; stop() waits for what its polling saw; the pool implements Executor (tasks start in the order in which they were stored, run once, and none after stop()); tasks are executed, addTask returns, and stop() returns unless a worker was between test and wait at the broadcast; the fair abstract buffer is implemented. |
| `pool_stop` (violation) | the same | | stop() may never return, see Findings. |
| `connpool` | 3 users (one careless), 2 connections, 2 borrowings each, fair | 282 k | Until somebody releases a connection twice the pool implements Lending (one user at a time, oldest first) and a release does not wait; no wakeup is lost even then; users are served and borrowing ends. |
| `loop` | 2 posting threads, 3 posts, 1 other descriptor, fair | 12 k | The vectors, the mutex and the eventfd implement Mailbox, and what is in it is always announced; the eventfd read never blocks; unloop() ends a running loop. |
| `echo` | 3 clients, one slow, two hasty, 2 descriptors, 2 workers, 1 slot | 2498 k | Table, epoll set, descriptors and lifetimes agree, but for the entry under -1 of a failed accept, which nobody watches; an event is never about a closed connection; a patient client's connection is never used after its end; up to the step in which another's is, the server implements Echo. |
| `echo_live` | 2 patient clients, one with two lines, room for 1 unread answer each, fair | 182 k | Lines are answered and descriptors given back, unless a client that never reads stops the IO thread in send. |
| `echo_dangling` (violation) | 1 hasty client | | A functor runs on a destroyed TcpConnection. |
| `socketio` | a buffer of 3 bytes and terminator, streams of up to 6 bytes, room for 2 unread bytes, fair | 90 k | Every way to cut up, end and abort such a stream: lines shorter than, as long as and longer than the buffer. Nothing is lost or repeated, the array is kept, SocketIO implements LineStream (messages are lines, answers leave in order, none after an abort), lines are read and orderly ends noticed, unless the peer stops send by never reading. |
| `socketio_abort` (violation) | the same, 2 bytes, fair | | readline goes round for ever after an abort. |
| `chatroom` | 3 clients (a talker, one that may leave or abort, a silent one), 2 descriptors, rounds of 2 events, idle limit 2, fair | 420 k | Map, epoll set and kernel agree; no event of a round is stale; the server implements Room (everyone else inside hears a message, at once as far as anyone can tell); connections end. The third client meets the descriptor limit or takes over a number. |
| `media` | 4 items per stream, a codec that keeps 1 back | 1555 k | send is never refused, both programs implement Transcoder (nothing is skipped, overwritten or written twice, whatever the codec's order), draining completes the files of a run without failures. More items than the codec keeps back, so that it gives out, holds and is drained. |

Bounds. The queue bound is 1 or 2, so that full and empty queues and both kinds of
waiting occur; with three consumers and two slots a notified consumer can find its
element stolen. Histories are bounded by the number of tasks (`Elements` in the pool,
`MaxPush`, `MaxPosts`, `Lines`, `MaxBytes`, `Talk`, `MaxItems`). `MaxSpurious` bounds spurious wakeups: they are there
to break code that trusts a wakeup, and one or two do; in the fair runs, infinitely
many would starve a thread at the mutex, which says nothing about this code.
`MaxRounds` bounds borrowings. Deadlock checking is off because every system here may
come to rest: producers and clients may stop, and the pool may be stopped.

Symmetry is used in `echo` only (the workers), which checks no temporal property.

Fairness. Every thread that can take a step in the code it executes eventually takes
one (weak fairness per thread): the mutex is granted in the end, handlers and tasks
terminate, and join sees a thread that has ended. Nothing from outside is fair:
nobody must push, connect, send, close, stop or wake spuriously. epoll_wait gets
strong fairness for a return while the eventfd is readable, because timeouts and EINTR
may interrupt it; what other descriptors are ready then is left open. The timeout itself
is weakly fair: it is a timer. Nor must a client read: send blocks on a full socket and
stops the only IO thread, so `LinesAreAnswered`, `DescriptorsAreFreed`, `LinesAreRead` and
`EndIsNoticed` hold up to `<>[]SendBlocked`, that is unless the thread stands in a send
before a peer that never reads again; a thread that stands there for a while goes on. In
`echo_live` a client with two lines and room for one answer gets there, and clients send
whole lines, as half a line stops the thread in receive (section 4); `Room` is 1 there and 2 in
`socketio`, the least with which a send waits, and one takes a part. In `chatroom` the server runs, the clock ticks, and clients read what they are
sent in the end: a client that never reads stops the server in send.
For pthread mutexes weak fairness of each *thread* is assumed, not of each lock
acquisition: a thread that loses the mutex to others again and again would violate
it only with infinitely many operations, which the bounds exclude.

## 4. Findings

* `pool_stop`: TaskQueue.cpp:66. `wakeup()` clears `_flag` and broadcasts without the
  mutex. A worker that has evaluated `_flag && empty()` and has not entered
  pthread_cond_wait yet misses both; stop() then waits in join for ever.
  `StopReturnsUnlessRaced` shows that this is the only way.
* `echo_dangling`: TcpConnection.cpp:40. `std::bind(&TcpConnection::send, this, msg)`
  outlives the object when the client closes early; its descriptor may already be
  another client's. `PatientNeverDangles` is what holds.
* `socketio_abort`: TcpConnection.cpp:48. After an RST without a FIN recvPeek returns -1,
  which is not 0, so the connection does not count as closed; the error has been
  reported, every later recv returns 0, and `while(left > 0)` of readline never ends: the
  only IO thread spins. `EndIsNoticed` is what holds of orderly ends.

Seen while modelling, without a run:

* stop() looks at the queue and closes it afterwards: tasks added in between stay in it
  (Threadpool.cpp:49). `StopWaitsForEarlierTasks` is what holds.
* ~ConnPool destroys each client by hand and its shared_ptr destroys it again
  (mysql_connpool.cpp:46); `avaiable()` prints the number of connections lent out as
  usable; the result of `connect()` is ignored.
* receive() blocks the IO thread on half a line (SocketIO.cpp:55), and spins when the
  client closes there: `EndIsNoticed` has the stream end behind a whole line.
* An `unloop()` that comes before `loop()` is lost, because loop() sets `_isLooping`.
* A client that writes lines and does not read the answers stops the IO thread in send
  (SocketIO.cpp:36), for all clients: the exception `SendBlocked` of four liveness properties.
* A producer that waits for a free slot when stop() is called is not woken (Threadpool.cpp:54).
* When accept fails, EventLoop.cpp:87-97 keeps a connection of descriptor -1 in `_conns`: the
  exception in `TableOK`.
* SIGPIPE is not handled, in either server.
* The chat room puts -1 into its map when accept fails, takes an aborted connection for
  an empty message, and sends what lies behind a full buffer.
* The decoder tests indices that may never have been set, sends to a null context when a
  stream has no decoder, and loses its frame at every return of decodePacket (line 335).

## 5. Proofs

TLAPS checks these for every number of threads, every queue size and any tasks,
connections, clients and descriptors. The assumptions are the named ones of each
module: that the kinds of threads are disjoint, that the special values (NoThread,
nullptr, the eventfd, the listening socket) differ from the ordinary ones, that bounds
are natural numbers, and that the threads of a queue and the users of a pool are
finitely many, since their awake members are counted.

* `TaskQueueProofs!QueueSafe` (and `PopIsDefined`): types, mutual exclusion, wait sets,
  capacity, `PopSeesElement`, FIFO. The inductive invariant `IInv` is the conjunction itself;
  `PopSeesElement` needs mutual exclusion (another consumer cannot take the element
  between test and take) and the fact that `_flag` is never set again: a consumer that
  has left the loop because the flag was clear finds it clear at the second read.
* `TaskQueueProofs!QueueImplementsFifo`: `StepRefines`, one step per action; only
  PushStore, PopTake and WakeupClear are visible to the abstract buffer.
* `TaskQueueProofs!NoLostWakeup`: while the queue is open and some consumer
  sleeps, there are at least as many awake consumers inside pop as elements; the same
  for producers and free slots. `IInv` does not give it: a consumer goes to sleep in
  `PopWait` after its test, so the invariant is strengthened by `SleepSeesEmpty` (a
  thread about to wait in an open queue sees it empty); then an awake consumer goes to
  sleep only when there is no element, and each push makes a sleeper awake or has none.
  Cardinalities of the sets of awake threads are handled by the lemma `Awake`.
* `ThreadpoolProofs!PoolUsesQueue`: every step of the pool is a step of the queue or
  leaves it alone, so all the above holds inside the pool (`PoolQueueSafe`).
* `ThreadpoolProofs!PoolSafe` and `PoolIsQuietAfterStop`: the invariant `PInv` adds that
  a worker is inside the queue only while doTask calls pop, that what has left the queue
  is executed or in a worker's hands, that the polling loop ended with everything it saw
  out of the queue, and that stop() returns with all workers gone. Since the first
  `Len(taken)` elements of `pushed` are `taken`, these give `StopWaitsForEarlierTasks`.
* `ThreadpoolProofs!PoolIsExecutor`: the pool implements `Executor`, whose actions are
  storing, starting, finishing, closing and the return of stop(). A worker that has taken
  a task but not returned from pop has already started it in the abstract pool; that is
  sound because `PInv` ties the task in its hands to the last one taken.
* `ThreadpoolProofs!UnracedStaysAwake`: if no worker stands between test and wait when
  the flag is cleared, none sleeps after the broadcast: the safety half of
  `StopReturnsUnlessRaced`.
* `ThreadpoolProofs!TasksAreAccounted`: `TaskAccounting`, for any number of tasks and
  threads. The places a task can be in (its producer, the push in progress, the queue, a
  worker, the history) are a set, `Places`, and the invariant says that it has one element;
  four steps replace the element, the others leave the set alone. That a pop
  delivers the task at the head and that the queue drops just that one comes from `PInv`.
* `ConnPoolProofs!PoolConserves` (and `ReleasesFindRoom`): types, conservation, exclusive use, no waiting in
  release_connect, the capacity and the final closing of all connections. Three
  invariants carry it. `ControlInv` has the types, mutual exclusion, the wait sets and
  the capacity. `Building` says that the constructor stores each connection
  once, so the idle ones and the length of the queue agree.
  `DataInv` says, as long as nobody has released twice, that every connection is
  somewhere (`Covered`), that idle ones are not borrowed and no two threads hold one
  (`Apart`), and that idle ones and holders together are as many as there are
  connections (`Counted`); only the count shows that a returning connection finds a
  free place. `Reached` remembers, for the destructor, which connections it still has
  in the queue.
* `ConnPoolProofs!PoolIsLending`: up to the step in which a user keeps what it has
  released, the pool implements `Lending`. `DataInv` gives what the mapping needs: that the
  lent connections are those of the users, one each, and the stock those in the queue.
* `ConnPoolProofs!PoolLosesNoWakeup`: `NoLostWakeups`, by the argument
  of `NoLostWakeup`, and whatever users release.
* `EventLoopProofs!LoopSafe` (and `FunctorsKeepOrder`, `EventReadsReturn`): `LoopInv` adds to the three mailbox properties that the
  swapped vector is empty outside doPendingFunctors (`TmpOK`), so a swap loses nothing,
  and that while the functors run the event of the eventfd is used up (`EventConsumed`),
  so handleReadEvent is not called a second time in the round. A poster that has appended
  and not yet written counts as an announcement.
* `EventLoopProofs!LoopIsMailbox`: the two vectors, one behind the other, are the box of
  `Mailbox`; appending is its Put, a functor run is its Take, and the swap, the mutex and
  the eventfd are invisible because the second vector is empty when the swap comes.
  `EchoServerProofs!EchoIsMailbox` carries it over to the server.
* `EchoServerProofs!EchoUsesLoop`: every step of the server is a step of EventLoop or
  leaves the mailbox alone, hence `EchoLoopSafe`.
* `EchoServerProofs!EchoTypes` and `ConnectionsAreOwned` (with `ConnectionTableAgrees` and
  `RoundEventsAreFresh`): `ServerInv` has the types,
  that what a client has sent is one of its lines, that no more answers are unread than
  the sockets hold, that a pending event of the Acceptor
  has a client in the backlog, and that a connection has a descriptor number; `OwnerInv` joins `TableOK`,
  `DescriptorsOK` and `TasksKeepConnections` with what the IO thread holds in the middle
  of a handler (`IoKeepsConnections`), what the rest of the round is about (`ReadyOK`:
  each event left names a descriptor of the table) and the backlog (`BacklogOK`). What
  `TableOK` says of the entry under -1 is proved with it: it belongs to no client,
  and as nothing watches it no event leads there. The
  table alone is not inductive: a descriptor accepted a moment ago is open and not yet in
  it, and a connection's handler may be at work when it leaves it.
* `EchoServerProofs!AnswersReachTheirClients` (and `PatientClientsAreSafe`): as long as
  no functor has run on a dead connection, a client gets answers to its own lines only, each
  at most once; and no functor of a patient client ever does. `WayInv` follows a
  line: once read it is in exactly one of addTask, the queue, a worker and the mailbox, so
  it is posted once. `AnswerInv` says that every answer came from a functor that has run,
  that a patient client that has closed has all its answers, so that none of its functors
  is left, and that the connection of a client that is still there is in the table: only
  the connections of those that have closed are destroyed.

* `EchoServerProofs!ServerIsEcho`: the whole server, with its pool, mailbox, descriptors
  and shared pointers, implements `Echo`, where a line is owed from the step in which it is
  read until it is answered or its client leaves. `Owes` follows a line through every
  handler: by `WayInv` it is in one place, so a step that moves it leaves the debt alone
  (`DebtSame`); by `AnswerInv` the functor at the head of the mailbox belongs to a debt. The
  refinement holds up to the step of the finding `echo_dangling`, after which nothing can
  be said of the server.

* `SocketIOProofs!ReadlineSafe` (and its corollaries), for every length of the buffer and
  every stream. Inside readline `LineInv` says that `pos` and `left` divide the array and
  that what lies before `pos` are the bytes taken since the call, without a newline among
  them; `ReadnInv` that readn moves what has been peeked, up to the first newline or
  without one, so that it never waits. Outside, `TextInv` and `CutsInv` compare what has
  been returned with what has been taken. The exception is `Broken`: after an abort has
  been reported pos may have moved to -1, but then recv returns 0 only and nothing is
  stored any more, which is why `WritesInBounds` holds. `BlankArray` says that the array starts
  out zeroed and its neighbours do not.
* `SocketIOProofs!AnswersAreInOrder`: `OutInv` says that, while the peer is there, what
  has been delivered and what is still to be sent are together the messages handed to
  sendn. `TextGrows`, that the text only grows, follows from `TextInv` before and after.
* `SocketIOProofs!SocketIsLineStream`: SocketIO implements `LineStream`. `MessageIsTaken`
  says that the call that changes the text returns a message that ends at a newline or
  fills the array, `TakeRefines` that this message is the next piece of the stream and has
  no newline before its end (by `TextInv` and `CutsInv` after the step), `SendRefines` that a
  short write extends what has been sent along the text (by `OutInv`).
* `ChatRoomProofs!ChatRoomSafe` and `RoomEventsAreFresh`: map, epoll set and descriptors
  agree, and every event left in the round is about the connection it was reported for.
  The invariant needs that a descriptor taken by accept in the round was free, so that no
  event names it, that connections are closed in the round only by their own event, and
  that what waits in the backlog has no descriptor yet.
* `ChatRoomProofs!RoomHears`: `EveryoneHears`, for any clients, descriptors and buffer. While a
  message is forwarded, some have it and others do not, so `HearInv` says that a client in the
  room has heard what was taken since it came but for what is on its way to it. `ChunkInv` says that
  what is on its way are the last messages of a speaker who is not among the targets, and
  `FreshInv` that those not in the room have heard nothing, which accept needs.
* `ChatRoomProofs!ChatRoomIsRoom`: the server implements `Room`, where a message is heard
  by all in the step of its receipt. What a client hears abstractly (`Hearing`) is what it
  has been sent and what is on its way to it; `ForwardRefines` shows that the sends of one
  message, one descriptor after the other, do not change it, and `EnterRefines` and
  `SayRefines` that joining and speaking do what Room says whoever is being closed meanwhile.
* `MediaPipelineProofs!MediaSafe` (with `FilesHoldItemsOnce` and `DrainingCompletes`), for
  every number of items, every delay and every order of the codec. `DelayInv` says that
  between two items the codec holds no more than it keeps back, hence `CodecReady`. `HeldInv`
  says that what the codec refers to and what has been written are different items of the
  stream, each in a buffer of its own: drawing the next picture disturbs it only if the
  buffer is in use. That gives `WrittenOnce`. `CountInv` says that, while nothing has failed,
  every item is with the codec or in the file but for the one about to be sent, and `DrainInv`
  that what has been drained is empty; together they give `OutputComplete`. `SetupInv` carries
  which streams there are and that their indices have been set when the loop begins.
* `MediaPipelineProofs!MediaIsTranscoder`: both programs implement `Transcoder`, which has
  the items themselves where the codec has references to buffers (`Inside` maps one to the
  other). `BuffersKept` shows that reading and drawing never change the content of a buffer
  that is held; by `CountInv` the item that is sent is the only one the codec has not been
  given, which is what Transcoder demands of `Accept`.

Abstract specifications. Each of the eight has a theorem that its component implements
it for all constants, next to the run that checks the same on a small instance:

`QueueImplementsFifo`, `PoolIsExecutor`, `PoolIsLending`, `LoopIsMailbox`, `ServerIsEcho`,
`SocketIsLineStream`, `ChatRoomIsRoom`, `MediaIsTranscoder`. The mappings need no history
beyond what the modules keep, and all proofs have one form: a lemma per visible action, a
lemma that the rest stutters, and the inductive invariant before and after the step as a
hypothesis, supplied by PTL at the end.

Some properties are theorems only, since a run of the refinement says more than a run of
them would: `NothingRunsAfterStop`, `Conservation`, `MailboxFifo`, `AnswersAreOwn`,
`MessagesAreLines`, `AnswersInOrder`, `EveryoneHears`, `WrittenOnce`.

Model-checked only: what is temporal under fairness, since liveness and ENABLED are out of
the prover's reach: `TaskIsExecuted`, `AddTaskReturns`, `StopReturnsUnlessRaced`,
`ImplementsFairFifo`, `GetIsServed`, `BorrowingEnds`, `FunctorsRun`, `UnloopTakesEffect`,
`LinesAreAnswered`, `DescriptorsAreFreed`, `LinesAreRead`, `EndIsNoticed`, `ConnectionsEnd`.
Every invariant the runs check is also a theorem, and so is every refinement without
fairness.

## 6. Plan

Done: Monitor, TaskQueue and BoundedFifo, Threadpool, ConnPool, EventLoop, EchoServer,
SocketIO, ChatRoom, MediaPipeline, an abstract specification of each component, and the
proofs of section 5.

What would come next: a history of the tasks taken in EchoServer, with which its buffer
would be an instance of BoundedFifo and the composition of server and pool a theorem; the
abortive close of SocketIO inside EchoServer; the login tasks and FileStream once they are programs.

## 7. Not modelled

* Data: the text of messages, addresses, SQL, log formatting, pixels and samples, socket
  options.
* `TcpConnection::shutdown` (never called), `Acceptor`'s option calls.
* json.hpp, by far the largest file, is a vendored library (nlohmann::json).
* Logger, MySQL queries, and the JSON, libcurl and MySQL examples: sequential calls into
  libraries.
* Drafts that are not programs, so that there is no behaviour to translate: FileStream
  (plain text between the statements, undeclared names, unbalanced braces), the login tasks
  (a TLV passed to `sendInLoop(const string &)`, headers that do not exist), MyET_epoll,
  select_server and My_epoll (they break off in the middle), Reactor_Version1 to 4 and the
  object-oriented pool of `thread_series` (empty or partial bodies), Packet, TLV, Aliyun.
* Exercises on single calls: `server_epoll`, `ET_epoll`, the C programs of `thread_series`.
* CommandQueue: an early TaskQueue that nothing uses and that waits under `if`; the mutant
  `PopResumeOnce` of TaskQueue is that fault.
* Copies: `ReactorV5_teacher` of Qt_Server, `DataBase/Test_ConnPool` of the connection pool.

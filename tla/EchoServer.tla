----------------------------- MODULE EchoServer -----------------------------
(***************************************************************************)
(* The reactor put together: TcpServer's EventLoop with its connections    *)
(* (Acceptor, TcpConnection, Socket), the thread pool that computes the    *)
(* answers (Mytask), and the clients at the other end of the sockets.      *)
(*                                                                         *)
(* The IO thread accepts, reads one line per readable connection and hands *)
(* it to the pool; a worker turns it into a functor that sends the answer  *)
(* and posts it to the loop; the IO thread runs the functor.  The task     *)
(* queue appears as the abstract buffer that Threadpool implements         *)
(* (BoundedFifo): one step per push and per pop.                           *)
(*                                                                         *)
(* A TcpConnection is owned by shared pointers: one in EventLoop::_conns,  *)
(* one in every task.  A functor holds the bare `this` (sendInLoop).  The  *)
(* object dies, and closes its descriptor, with the last shared pointer.   *)
(*                                                                         *)
(* Each client uses one connection, so a client names its TcpConnection.   *)
(***************************************************************************)
EXTENDS EventLoop, Integers, FiniteSets

CONSTANTS
    Clients,    \* the clients
    Slow,       \* those that may send part of a line and pause
    Hasty,      \* those that may close before all their answers have come
    Fds,        \* the descriptors free for connections: a set of numbers
    Listen,     \* the Acceptor's descriptor
    QueSize,    \* capacity of the task queue
    Room,       \* the answers that the socket buffers on the way to a client hold
    Nobody      \* behind a connection that no client made

\* The workers are the threads that post to the loop.  The n-th line of client
\* c, <<c, n>>, names the task made of it and the functor that sends its
\* answer: lines are echoed.
Workers == Posters
Lines == Functors
None == NoFunctor

\* The keys of the connection table: descriptors, and what a failed accept gives.
Keys == Fds \cup {-1}

ASSUME EchoAssumption ==
    /\ Lines \subseteq Clients \X (Nat \ {0}) /\ IsFiniteSet(Lines)
    /\ \A l \in Lines : \A n \in 1..l[2] : <<l[1], n>> \in Lines
    /\ Sources = Fds \cup {Listen}
    /\ Fds \subseteq Nat /\ IsFiniteSet(Fds)
    /\ Listen \notin Fds
    /\ Slow \subseteq Clients /\ Hasty \subseteq Clients
    /\ QueSize \in Nat \ {0} /\ Room \in Nat \ {0}
    /\ None \notin Clients
    /\ Nobody \notin Clients \cup {None}

VARIABLES
    conns,      \* EventLoop::_conns: whose connection a key leads to
    watched,    \* the connections' descriptors in the epoll set
    receiving,  \* the connection the IO thread is reading from
    adding,     \* the task the IO thread is handing to addTask
    tasks,      \* the task queue
    working,    \* working[w]: the task worker w executes
    processed,  \* processed[w]: Mytask::process has posted its functor
    fdOf,       \* the kernel's table: whose socket a descriptor is
    object,     \* object[c]: c's TcpConnection is "none", "live" or "dead"
    number,     \* number[c]: the descriptor its SocketIO was given
    backlog,    \* connections waiting for accept
    client,     \* client[c]: "new", "open" or "closed", as the client sees it
    sent,       \* sent[c]: complete lines client c has sent
    partial,    \* partial[c]: it has also sent the start of another line
    received,   \* received[c]: lines of c the IO thread has read
    replies,    \* replies[c]: the answers sent to client c while it was open
    unread,     \* unread[c]: those of them it has not read yet
    reset,      \* reset[c]: something was sent to c after it had closed
    alive,      \* the server process runs
    dangling    \* history: the functors run after their object was gone

tableVars == <<conns, watched>>
ioVars == <<receiving, adding>>
poolVars == <<tasks, working, processed>>
objectVars == <<fdOf, object, number>>
clientVars == <<backlog, client, sent, partial>>
wireVars == <<received, replies, unread, reset, alive, dangling>>
vars == <<eventVars, tableVars, ioVars, poolVars, objectVars, clientVars, wireVars>>

TypeOK ==
    /\ LoopTypeOK
    /\ conns \in [Keys -> Clients \cup {None, Nobody}]
    /\ \A fd \in Fds : conns[fd] # Nobody
    /\ conns[-1] \in {None, Nobody}
    /\ watched \subseteq Fds
    /\ receiving \in Clients \cup {None}
    /\ adding \in Lines \cup {None}
    /\ tasks \in Seq(Lines)
    /\ working \in [Workers -> Lines \cup {None}]
    /\ processed \in [Workers -> BOOLEAN]
    /\ fdOf \in [Fds -> Clients \cup {None}]
    /\ object \in [Clients -> {"none", "live", "dead"}]
    /\ number \in [Clients -> Fds \cup {None}]
    /\ backlog \in Seq(Clients)
    /\ client \in [Clients -> {"new", "open", "closed"}]
    /\ sent \in [Clients -> Nat]
    /\ partial \in [Clients -> BOOLEAN]
    /\ received \in [Clients -> Nat]
    /\ replies \in [Clients -> Seq(Lines)]
    /\ unread \in [Clients -> 0..Room]
    /\ reset \in [Clients -> BOOLEAN]
    /\ alive \in BOOLEAN
    /\ dangling \subseteq Lines

Init ==
    /\ LoopInit
    /\ conns = [key \in Keys |-> None]
    /\ watched = {}
    /\ receiving = None
    /\ adding = None
    /\ tasks = <<>>
    /\ working = [w \in Workers |-> None]
    /\ processed = [w \in Workers |-> FALSE]
    /\ fdOf = [fd \in Fds |-> None]
    /\ object = [c \in Clients |-> "none"]
    /\ number = [c \in Clients |-> None]
    /\ backlog = <<>>
    /\ client = [c \in Clients |-> "new"]
    /\ sent = [c \in Clients |-> 0]
    /\ partial = [c \in Clients |-> FALSE]
    /\ received = [c \in Clients |-> 0]
    /\ replies = [c \in Clients |-> <<>>]
    /\ unread = [c \in Clients |-> 0]
    /\ reset = [c \in Clients |-> FALSE]
    /\ alive = TRUE
    /\ dangling = {}

----------------------------------------------------------------------------
\* Shared pointers

Connection(line) == line[1]

\* The connections that some shared pointer refers to.
Referenced ==
    {conns[key] : key \in Keys} \cup {receiving}
    \cup {Connection(tasks[i]) : i \in 1..Len(tasks)}
    \cup {Connection(l) : l \in ({adding} \cup {working[w] : w \in Workers}) \ {None}}

\* Mutant: the descriptor is not closed.
ReclaimLeaks ==
    /\ object' = [c \in Clients |->
                    IF object[c] = "live" /\ c \notin Referenced' THEN "dead"
                                                                  ELSE object[c]]
    /\ UNCHANGED <<fdOf, number>>

\* An object dies with its last shared pointer; ~Socket closes its descriptor.
Reclaim ==
    /\ object' = [c \in Clients |->
                    IF object[c] = "live" /\ c \notin Referenced' THEN "dead"
                                                                  ELSE object[c]]
    /\ fdOf' = [fd \in Fds |->
                    IF fdOf[fd] # None /\ object'[fdOf[fd]] = "dead" THEN None
                                                                     ELSE fdOf[fd]]
    /\ UNCHANGED number

----------------------------------------------------------------------------
\* Clients

Connect(c) ==
    /\ client[c] = "new"
    /\ client' = [client EXCEPT ![c] = "open"]
    /\ backlog' = Append(backlog, c)
    /\ UNCHANGED <<eventVars, tableVars, ioVars, poolVars, objectVars, sent,
                   partial, wireVars>>

SendLine(c) ==
    /\ client[c] = "open"
    /\ <<c, sent[c] + 1>> \in Lines
    /\ sent' = [sent EXCEPT ![c] = @ + 1]
    /\ partial' = [partial EXCEPT ![c] = FALSE]
    /\ UNCHANGED <<eventVars, tableVars, ioVars, poolVars, objectVars, backlog,
                   client, wireVars>>

\* The start of a line, without its newline.
SendPart(c) ==
    /\ c \in Slow
    /\ client[c] = "open"
    /\ <<c, sent[c] + 1>> \in Lines
    /\ ~partial[c]
    /\ partial' = [partial EXCEPT ![c] = TRUE]
    /\ UNCHANGED <<eventVars, tableVars, ioVars, poolVars, objectVars, backlog,
                   client, sent, wireVars>>

AllAnswered(c) ==
    \A n \in 1..sent[c] : \E i \in 1..Len(replies[c]) : replies[c][i] = <<c, n>>

\* A client may leave its answers in the socket as long as it likes ...
Read(c) ==
    /\ client[c] = "open"
    /\ unread[c] > 0
    /\ unread' = [unread EXCEPT ![c] = @ - 1]
    /\ UNCHANGED <<eventVars, tableVars, ioVars, poolVars, objectVars, clientVars,
                   received, replies, reset, alive, dangling>>

\* ... but has read them when it closes: closing on top of unread answers would
\* abort the connection, which SocketIO models.
CloseClient(c) ==
    /\ client[c] = "open"
    /\ unread[c] = 0
    /\ c \in Hasty \/ (AllAnswered(c) /\ ~partial[c])
    /\ client' = [client EXCEPT ![c] = "closed"]
    /\ UNCHANGED <<eventVars, tableVars, ioVars, poolVars, objectVars, backlog,
                   sent, partial, wireVars>>

----------------------------------------------------------------------------
\* The IO thread

\* It is not inside a message handler.
Free == alive /\ receiving = None /\ adding = None

HasInput(c) == received[c] < sent[c] \/ partial[c]

\* Mutant: an empty receive buffer counts as the end of the stream.
AtEofEager(c) == ~HasInput(c)

AtEof(c) == ~HasInput(c) /\ client[c] = "closed"

Readable ==
    {fd \in watched : fdOf[fd] # None /\ (HasInput(fdOf[fd]) \/ AtEof(fdOf[fd]))}
    \cup (IF backlog = <<>> THEN {} ELSE {Listen})

EpollWait ==
    /\ Free
    /\ EpollReturns(Readable)
    /\ UNCHANGED <<tableVars, ioVars, poolVars, objectVars, clientVars, wireVars>>

LoopStep ==
    /\ Free
    /\ \/ EpollTimesOut \/ LoopEnter \/ LoopTest
       \/ HandleReadEvent \/ SwapPending \/ RunReturns \/ DispatchDone
    /\ UNCHANGED <<tableVars, ioVars, poolVars, objectVars, clientVars, wireVars>>

\* handleNewConnection(): accept gives the lowest free descriptor.
Lowest(S) == CHOOSE n \in S : \A m \in S : n <= m
FreeFds == {fd \in Fds : fdOf[fd] = None}

Accept ==
    /\ Free
    /\ HandleSource(Listen)
    /\ FreeFds # {}
    /\ LET fd == Lowest(FreeFds)
           c  == Head(backlog)
       IN  /\ fdOf' = [fdOf EXCEPT ![fd] = c]
           /\ object' = [object EXCEPT ![c] = "live"]
           /\ number' = [number EXCEPT ![c] = fd]
           /\ watched' = watched \cup {fd}
           \* map::insert does not replace an entry
           /\ conns' = IF conns[fd] = None THEN [conns EXCEPT ![fd] = c] ELSE conns
    /\ backlog' = Tail(backlog)
    /\ UNCHANGED <<ioVars, poolVars, client, sent, partial, wireVars>>

Highest(S) == CHOOSE n \in S : \A m \in S : m <= n

\* Mutant: a failed accept leaves the last descriptor in netfd, and the table's
\* entry is replaced.
AcceptFailsStale ==
    /\ Free
    /\ HandleSource(Listen)
    /\ FreeFds = {}
    /\ conns' = [conns EXCEPT ![Highest(Fds)] = Nobody]
    /\ UNCHANGED <<watched, ioVars, poolVars, objectVars, clientVars, wireVars>>

\* accept fails for want of descriptors; the handler goes on with -1: epoll
\* refuses it, the table gets an entry for it and keeps it (a second connection
\* for -1 is not inserted and dies at once), the client stays in the backlog.
AcceptFails ==
    /\ Free
    /\ HandleSource(Listen)
    /\ FreeFds = {}
    /\ conns' = [conns EXCEPT ![-1] = Nobody]
    /\ UNCHANGED <<watched, ioVars, poolVars, objectVars, clientVars, wireVars>>

\* handleMessage(fd) with input: onMessage begins with receive().
MessageBegins(fd) ==
    /\ Free
    /\ HandleSource(fd)
    /\ conns[fd] # None
    /\ ~AtEof(conns[fd])
    /\ receiving' = conns[fd]
    /\ UNCHANGED <<tableVars, adding, poolVars, objectVars, clientVars, wireVars>>

\* Mutant: the line is peeked at and stays in the socket.
MessageReceivedPeeks ==
    /\ alive
    /\ receiving # None
    /\ received[receiving] < sent[receiving]
    /\ adding' = <<receiving, received[receiving] + 1>>
    /\ receiving' = None
    /\ UNCHANGED <<eventVars, tableVars, poolVars, objectVars, clientVars, wireVars>>

\* readline() returns once there is a whole line; until then it blocks in
\* recvPeek, or spins there when the client has closed after part of a line.
\* The line becomes a task with its own shared pointer.
MessageReceived ==
    /\ alive
    /\ receiving # None
    /\ received[receiving] < sent[receiving]
    /\ received' = [received EXCEPT ![receiving] = @ + 1]
    /\ adding' = <<receiving, received'[receiving]>>
    /\ receiving' = None
    /\ UNCHANGED <<eventVars, tableVars, poolVars, objectVars, clientVars,
                   replies, unread, reset, alive, dangling>>

\* addTask() blocks the IO thread while the queue is full.
AddTask ==
    /\ alive
    /\ adding # None
    /\ Len(tasks) < QueSize
    /\ tasks' = Append(tasks, adding)
    /\ adding' = None
    /\ UNCHANGED <<eventVars, tableVars, receiving, working, processed,
                   objectVars, clientVars, wireVars>>

\* Mutant: no erase.
HandleCloseKept(fd) ==
    /\ Free
    /\ HandleSource(fd)
    /\ conns[fd] # None
    /\ AtEof(conns[fd])
    /\ watched' = watched \ {fd}
    /\ UNCHANGED <<conns, ioVars, poolVars, clientVars, wireVars>>
    /\ Reclaim

\* handleMessage(fd) at the end of the stream: the connection leaves the epoll
\* set and the table.
HandleClose(fd) ==
    /\ Free
    /\ HandleSource(fd)
    /\ conns[fd] # None
    /\ AtEof(conns[fd])
    /\ watched' = watched \ {fd}
    /\ conns' = [conns EXCEPT ![fd] = None]
    /\ UNCHANGED <<ioVars, poolVars, clientVars, wireVars>>
    /\ Reclaim

----------------------------------------------------------------------------
\* TcpConnection::send, run as a functor by the IO thread

\* send() blocks the IO thread while an open client leaves no room in the socket
\* buffers.  A closed one answers with a reset; once the reset is there the next
\* send raises SIGPIPE, which nobody handles.
SendTo(c, line) ==
    \/ /\ client[c] = "open"
       /\ unread[c] < Room
       /\ unread' = [unread EXCEPT ![c] = @ + 1]
       /\ replies' = [replies EXCEPT ![c] = Append(@, line)]
       /\ UNCHANGED <<reset, alive>>
    \/ /\ client[c] = "closed"
       /\ reset' = [reset EXCEPT ![c] = TRUE]
       /\ alive' \in {TRUE, ~reset[c]}
       /\ UNCHANGED <<replies, unread>>

\* Mutant: a failed send removes the connection at once.
SendAnswerRemoves ==
    /\ Free
    /\ RunFunctor
    /\ LET line == Head(tmp)
           c == Connection(line)
       IN  /\ object[c] = "live"
           /\ SendTo(c, line)
           /\ conns' = [k \in Keys |->
                          IF client[c] = "closed" /\ conns[k] = c THEN None ELSE conns[k]]
           /\ watched' = {fd \in watched : conns'[fd] # None}
    /\ UNCHANGED <<ioVars, poolVars, clientVars, received, dangling>>
    /\ Reclaim

SendAnswer ==
    /\ Free
    /\ RunFunctor
    /\ LET line == Head(tmp)
           c == Connection(line)
       IN  /\ object[c] = "live"
           /\ SendTo(c, line)
    /\ UNCHANGED <<tableVars, ioVars, poolVars, objectVars, clientVars, received,
                   dangling>>

\* The object is gone: `this` dangles.  If its memory still holds the old
\* descriptor the answer goes wherever that leads by now, or nowhere.
SendDangling ==
    /\ Free
    /\ RunFunctor
    /\ LET line == Head(tmp)
           c == Connection(line)
       IN  /\ object[c] = "dead"
           /\ dangling' = dangling \cup {line}
           /\ \/ /\ fdOf[number[c]] # None
                 /\ SendTo(fdOf[number[c]], line)
              \/ UNCHANGED <<replies, unread, reset, alive>>
    /\ UNCHANGED <<tableVars, ioVars, poolVars, objectVars, clientVars, received>>

----------------------------------------------------------------------------
\* Workers

TakeTask(w) ==
    /\ alive
    /\ working[w] = None
    /\ tasks # <<>>
    /\ working' = [working EXCEPT ![w] = Head(tasks)]
    /\ tasks' = Tail(tasks)
    /\ UNCHANGED <<eventVars, tableVars, ioVars, processed, objectVars,
                   clientVars, wireVars>>

\* Mytask::process -> sendInLoop -> runInLoop: append ...
Process(w) ==
    /\ alive
    /\ working[w] # None
    /\ ~processed[w]
    /\ PostAppend(w, working[w])
    /\ processed' = [processed EXCEPT ![w] = TRUE]
    /\ UNCHANGED <<tableVars, ioVars, tasks, working, objectVars, clientVars, wireVars>>

\* ... and write the eventfd.
Notify(w) ==
    /\ alive
    /\ PostWakeup(w)
    /\ UNCHANGED <<tableVars, ioVars, poolVars, objectVars, clientVars, wireVars>>

\* The task object of doTask goes out of scope with its shared pointer.
DropTask(w) ==
    /\ alive
    /\ processed[w]
    /\ posting[w] = None
    /\ working' = [working EXCEPT ![w] = None]
    /\ processed' = [processed EXCEPT ![w] = FALSE]
    /\ UNCHANGED <<eventVars, tableVars, ioVars, tasks, clientVars, wireVars>>
    /\ Reclaim

----------------------------------------------------------------------------
Handler ==
    \/ LoopStep \/ Accept \/ AcceptFails
    \/ \E fd \in Fds : MessageBegins(fd) \/ HandleClose(fd)
    \/ MessageReceived \/ AddTask \/ SendAnswer \/ SendDangling

Worker(w) == TakeTask(w) \/ Process(w) \/ Notify(w) \/ DropTask(w)

Client(c) == Connect(c) \/ SendLine(c) \/ SendPart(c) \/ Read(c) \/ CloseClient(c)

Next ==
    \/ Handler
    \/ EpollWait
    \/ \E w \in Workers : Worker(w)
    \/ \E c \in Clients : Client(c)

Spec == Init /\ [][Next]_vars

\* The server's threads go on whenever they can, and epoll_wait reports what
\* stays ready.  Clients owe nothing: they need not go on sending, nor read.
FairSpec ==
    /\ Spec
    /\ WF_vars(Handler)
    /\ SF_vars(EpollWait)
    /\ \A w \in Workers : WF_vars(Worker(w))

----------------------------------------------------------------------------
\* Properties

\* The loop's table, the epoll set and the kernel agree: what is watched has an
\* entry in _conns, and an entry is watched and is the live object whose
\* descriptor it is, so a reused descriptor never leads to a former connection.
\* The one exception is the entry that a failed accept leaves: it stands under
\* -1, is not watched, and has no client behind it.
TableOK ==
    /\ \A fd \in watched : conns[fd] # None
    /\ \A key \in Keys : conns[key] # None =>
          \/ /\ key \in watched
             /\ fdOf[key] = conns[key] /\ object[conns[key]] = "live"
          \/ key = -1 /\ conns[key] = Nobody

\* A descriptor is open exactly as long as its TcpConnection lives.
DescriptorsOK ==
    /\ \A fd \in Fds : fdOf[fd] # None => object[fdOf[fd]] = "live"
    /\ \A c \in Clients : object[c] = "live" => fdOf[number[c]] = c

\* Events of one epoll_wait are handled one after the other; an event still to
\* be handled is never about a connection that has been closed meanwhile.
EventsAreFresh ==
    ioPc = "dispatch" /\ alive => \A fd \in ready \cap Fds : conns[fd] # None

\* What the tasks still on their way refer to is alive: the shared pointer in a
\* task keeps the connection although the loop has dropped it.
TasksKeepConnections ==
    /\ \A i \in 1..Len(tasks) : object[Connection(tasks[i])] = "live"
    /\ \A w \in Workers : working[w] # None => object[Connection(working[w])] = "live"

Count(s, l) == Cardinality({i \in 1..Len(s) : s[i] = l})

\* As long as no connection has died under a functor, no answer reaches the
\* wrong client and none arrives twice, however the loop and the workers
\* interleave and although descriptors are used again.
AnswersAreOwn ==
    dangling = {} => \A c \in Clients :
        /\ \A i \in 1..Len(replies[c]) :
              /\ Connection(replies[c][i]) = c
              /\ replies[c][i][2] <= sent[c]
        /\ \A l \in Lines : Count(replies[c], l) <= 1

\* The lines that wait for their answer: in addTask, in the task queue, with a
\* worker, or in the mailbox of the loop.
InMailbox(l) ==
    (\E i \in 1..Len(pending) : pending[i] = l) \/ (\E i \in 1..Len(tmp) : tmp[i] = l)
OnTheWay(l) ==
    \/ adding = l
    \/ \E i \in 1..Len(tasks) : tasks[i] = l
    \/ \E w \in Workers : working[w] = l /\ ~processed[w]
    \/ InMailbox(l)
Owed == {l \in Lines : client[Connection(l)] # "closed" /\ OnTheWay(l)}

\* The contract of the server: see Echo.  No line is lost between the IO thread,
\* the workers and the mailbox, none is answered twice or to another client, up
\* to the step in which a functor runs on a destroyed connection.
Service == INSTANCE Echo
               WITH taken <- received, owed <- Owed, answers <- replies,
                    gone <- {c \in Clients : client[c] = "closed"}
ImplementsEcho ==
    Service!Init /\ [][dangling' = {} => Service!Next \/ UNCHANGED Service!vars]_vars

\* A client that waits for its answers never loses its connection to the bare
\* pointer in a functor, whatever the hasty clients around it do.
PatientNeverDangles == \A l \in dangling : Connection(l) \in Hasty

\* "sending a message must always be done through a Tcp connection", which the
\* IO thread does in the end: an answer is sent on a connection that exists.
SendsOnLiveConnection ==
    ioPc = "run" /\ tmp # <<>> => object[Connection(Head(tmp))] # "dead"

\* The IO thread stands in send(), before a client that does not read.
SendBlocked ==
    /\ Free /\ ioPc = "run" /\ tmp # <<>>
    /\ LET c == Connection(Head(tmp)) IN client[c] = "open" /\ unread[c] = Room

\* Every line a client has sent is answered in the end, unless the client
\* closes its end first, or some client stops the IO thread by never reading.
LinesAreAnswered ==
    \A l \in Lines :
        \/ sent[l[1]] >= l[2] ~>
              \/ \E i \in 1..Len(replies[l[1]]) : replies[l[1]][i] = l
              \/ client[l[1]] = "closed"
        \/ <>[]SendBlocked

\* The descriptors of clients that have closed are given back in the end, unless
\* some client stops the IO thread by never reading.
DescriptorsAreFreed ==
    \A c \in Clients :
        \/ object[c] = "live" /\ client[c] = "closed" ~> object[c] = "dead"
        \/ <>[]SendBlocked

==============================================================================

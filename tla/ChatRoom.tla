------------------------------ MODULE ChatRoom ------------------------------
(***************************************************************************)
(* The chat room server: one thread, level triggered epoll, a map of the   *)
(* connections with the second of their last message.  Each round handles  *)
(* the ready descriptors (a new connection, or a message that is forwarded *)
(* to everyone else) and then closes the connections that have been silent *)
(* for too long.                                                           *)
(*                                                                         *)
(* The n-th message of a client is the number n; the time of a connection  *)
(* is kept as its age, the seconds since conns[fd] was written.            *)
(***************************************************************************)
EXTENDS Integers, Sequences, FiniteSets

CONSTANTS
    Clients,    \* each connects once
    Talk,       \* bound: Talk[c] is the number of messages of client c
    Leavers,    \* those that may end or abort their connection
    Fds,        \* descriptors free for connections
    Listen,     \* listenfd
    None,
    IdleLimit,  \* seconds of silence after which a client is closed (30)
    BuffSize,   \* messages that fill the receive buffer (128 bytes)
    MaxEvents,  \* MAX_EVENT_SIZE
    Window      \* messages a client's socket holds unread

ASSUME ChatAssumption ==
    /\ Talk \in [Clients -> Nat]
    /\ Leavers \subseteq Clients
    /\ Fds \subseteq Nat /\ IsFiniteSet(Fds) /\ Listen \notin Fds /\ Listen # -1
    /\ None \notin Clients
    /\ {IdleLimit, BuffSize, MaxEvents, Window} \subseteq Nat \ {0}

Keys == Fds \cup {-1}       \* accept may have failed
Empty == [from |-> None, text |-> <<>>]

VARIABLES
    backlog,    \* the clients that wait for accept
    peer,       \* peer[c]: "new", "open", "closed" (FIN) or "reset" (RST)
    error,      \* error[c]: the RST has not been reported yet
    said,       \* said[c]: messages client c has sent
    unread,     \* unread[c]: messages in the socket of client c
    owner,      \* the kernel's table: whose socket a descriptor is
    watched,    \* the descriptors in the epoll set
    conns,      \* the keys of the map
    age,        \* seconds since the entry was written, up to IdleLimit
    ready,      \* events of this round to be handled: [fd, who]
    pc,         \* "wait" for epoll, or "round"
    chunk,      \* the messages being forwarded
    targets,    \* the connections they have not been sent to yet
    taken,      \* taken[c]: messages of c the server has received
    joined,     \* history: joined[d] is taken when d was accepted
    heard,      \* heard[d][c]: the messages of c sent to d
    overrun,    \* the clients that were sent bytes from behind the buffer
    alive       \* SIGPIPE has not ended the process

clientVars == <<peer, error, said, unread>>
tableVars == <<owner, watched, conns>>
roundVars == <<ready, pc, chunk, targets>>
historyVars == <<taken, joined, heard, overrun>>
vars == <<backlog, clientVars, tableVars, age, roundVars, historyVars, alive>>

TypeOK ==
    /\ backlog \in Seq(Clients)
    /\ peer \in [Clients -> {"new", "open", "closed", "reset"}]
    /\ error \in [Clients -> BOOLEAN]
    /\ said \in [Clients -> Nat] /\ unread \in [Clients -> Nat]
    /\ owner \in [Fds -> Clients \cup {None}]
    /\ watched \subseteq Fds /\ conns \subseteq Keys /\ age \in [Keys -> Nat]
    /\ ready \subseteq [fd : Fds \cup {Listen}, who : Clients \cup {None}]
    /\ pc \in {"wait", "round"}
    /\ targets \subseteq Keys
    /\ taken \in [Clients -> Nat] /\ joined \in [Clients -> [Clients -> Nat]]
    /\ chunk \in [from : Clients \cup {None}, text : Seq(Nat)]
    /\ heard \in [Clients -> [Clients -> Seq(Nat)]] /\ overrun \subseteq Clients
    /\ alive \in BOOLEAN

Init ==
    /\ backlog = <<>>
    /\ peer = [c \in Clients |-> "new"] /\ error = [c \in Clients |-> FALSE]
    /\ said = [c \in Clients |-> 0] /\ unread = [c \in Clients |-> 0]
    /\ owner = [fd \in Fds |-> None] /\ watched = {}
    /\ conns = {} /\ age = [k \in Keys |-> 0]
    /\ ready = {} /\ pc = "wait" /\ targets = {}
    /\ chunk = Empty
    /\ taken = [c \in Clients |-> 0]
    /\ joined = [d \in Clients |-> [c \in Clients |-> 0]]
    /\ heard = [d \in Clients |-> [c \in Clients |-> <<>>]] /\ overrun = {}
    /\ alive = TRUE

----------------------------------------------------------------------------
\* Clients, the network and the clock

Connect(c) ==
    /\ peer[c] = "new"
    /\ peer' = [peer EXCEPT ![c] = "open"]
    /\ backlog' = Append(backlog, c)
    /\ UNCHANGED <<error, said, unread, tableVars, age, roundVars, historyVars, alive>>

\* What a client does after the server has closed its connection is lost.
Connected(c) == (\E i \in DOMAIN backlog : backlog[i] = c) \/ (\E fd \in Fds : owner[fd] = c)

Speak(c) ==
    /\ Connected(c) /\ peer[c] = "open" /\ said[c] < Talk[c]
    /\ said' = [said EXCEPT ![c] = @ + 1]
    /\ UNCHANGED <<backlog, peer, error, unread, tableVars, age, roundVars, historyVars, alive>>

Read(c) ==
    /\ Connected(c) /\ unread[c] > 0
    /\ unread' = [unread EXCEPT ![c] = 0]
    /\ UNCHANGED <<backlog, peer, error, said, tableVars, age, roundVars, historyVars, alive>>

Leave(c) ==
    /\ c \in Leavers /\ Connected(c)
    /\ \/ peer[c] = "open" /\ peer' = [peer EXCEPT ![c] = "closed"] /\ UNCHANGED error
       \/ peer[c] \in {"open", "closed"} /\ peer' = [peer EXCEPT ![c] = "reset"]
          /\ error' = [error EXCEPT ![c] = peer[c] = "open"]
    /\ UNCHANGED <<backlog, said, unread, tableVars, age, roundVars, historyVars, alive>>

Older(n) == IF n < IdleLimit THEN n + 1 ELSE n

Tick ==
    /\ age' = [k \in Keys |-> IF k \in conns THEN Older(age[k]) ELSE 0]
    /\ UNCHANGED <<backlog, clientVars, tableVars, roundVars, historyVars, alive>>

----------------------------------------------------------------------------
\* The event loop

\* What epoll reports: a waiting client, and connections with unread bytes, an
\* end or an error.
Pending ==
    {[fd |-> Listen, who |-> None] : x \in {c \in Clients : backlog # <<>>}}
    \cup {[fd |-> f, who |-> owner[f]] : f \in {g \in watched :
            taken[owner[g]] < said[owner[g]] \/ peer[owner[g]] \in {"closed", "reset"}}}

Silent == {k \in conns : age[k] >= IdleLimit}

\* close() takes a descriptor out of the kernel's table and of the epoll set.
CloseAll(keys) ==
    /\ owner' = [fd \in Fds |-> IF fd \in keys THEN None ELSE owner[fd]]
    /\ watched' = watched \ keys
    /\ conns' = conns \ keys

\* Mutant: the silent clients are closed as soon as epoll_wait returns (the
\* third plan of the source's comments).
EpollWaitReaps ==
    /\ pc = "wait" /\ Pending # {}
    /\ ready' \in {S \in SUBSET Pending : S # {} /\ Cardinality(S) <= MaxEvents
                                         /\ (S = Pending \/ Cardinality(S) = MaxEvents)}
    /\ CloseAll(Silent) /\ pc' = "round"
    /\ UNCHANGED <<backlog, clientVars, age, chunk, targets, historyVars, alive>>

EpollWait ==
    /\ pc = "wait" /\ Pending # {}
    /\ ready' \in {S \in SUBSET Pending : S # {} /\ Cardinality(S) <= MaxEvents
                                         /\ (S = Pending \/ Cardinality(S) = MaxEvents)}
    /\ pc' = "round"
    /\ UNCHANGED <<backlog, clientVars, tableVars, age, chunk, targets, historyVars, alive>>

\* Mutant: the round is left out when nothing was ready.
EpollTimesOutSkips == FALSE

\* After a second without events the silent clients are looked for as well.  An
\* epoll_wait that fails goes this way too, except that after EINTR the loop starts
\* over and changes nothing.
EpollTimesOut ==
    /\ pc = "wait" /\ Pending = {}
    /\ pc' = "round"
    /\ UNCHANGED <<backlog, clientVars, tableVars, age, ready, chunk, targets, historyVars, alive>>

\* An event of the round is handled when the last message has been forwarded.
Handling == pc = "round" /\ targets = {}

FreeFds == {fd \in Fds : owner[fd] = None}
Enter(key) == conns' = conns \cup {key} /\ age' = [age EXCEPT ![key] = 0]

\* accept uses the lowest free descriptor.
Accept ==
    /\ Handling /\ FreeFds # {}
    /\ \E e \in ready : e.fd = Listen /\ ready' = ready \ {e}
    /\ \E c \in {Head(backlog)}, fd \in {f \in FreeFds : \A g \in FreeFds : f <= g} :
           /\ owner' = [owner EXCEPT ![fd] = c]
           /\ watched' = watched \cup {fd}
           /\ Enter(fd)
           /\ joined' = [joined EXCEPT ![c] = taken]
    /\ backlog' = Tail(backlog)
    /\ UNCHANGED <<clientVars, pc, chunk, targets, taken, heard, overrun, alive>>

\* At the descriptor limit accept returns -1, which goes into the map.
AcceptFails ==
    /\ Handling /\ FreeFds = {}
    /\ \E e \in ready : e.fd = Listen /\ ready' = ready \ {e}
    /\ Enter(-1)
    /\ UNCHANGED <<backlog, clientVars, owner, watched, pc, chunk, targets, historyVars, alive>>

\* recv returned bytes, or -1 and an empty buffer: the time is written and the
\* buffer forwarded.
Forwards(fd, c, n) ==
    /\ chunk' = IF conns = {fd} THEN Empty
                ELSE [from |-> c, text |-> [i \in 1..n |-> taken[c] + i]]
    /\ taken' = [taken EXCEPT ![c] = @ + n]
    /\ age' = [age EXCEPT ![fd] = 0]
    /\ targets' = conns \ {fd}

\* Mutant: the bytes stay in the receive buffer.
RecvPeeks(e) ==
    LET c == e.who  n == said[c] - taken[c] IN
    /\ Handling /\ n > 0 /\ ready' = ready \ {e}
    /\ chunk' = [from |-> c, text |-> <<taken[c] + 1>>] /\ taken' = taken
    /\ age' = [age EXCEPT ![e.fd] = 0]
    /\ targets' = conns \ {e.fd}
    /\ UNCHANGED <<backlog, clientVars, tableVars, pc, joined, heard, overrun, alive>>

\* What is there first, as much as the buffer holds.
Recv(e) ==
    LET c == owner[e.fd]  n == said[c] - taken[c] IN
    /\ Handling /\ n > 0 /\ ready' = ready \ {e}
    /\ Forwards(e.fd, c, IF n < BuffSize THEN n ELSE BuffSize)
    /\ UNCHANGED <<backlog, clientVars, tableVars, pc, joined, heard, overrun, alive>>

\* An aborted connection is reported once by -1, which is taken for a message.
RecvError(e) ==
    LET c == owner[e.fd] IN
    /\ Handling /\ said[c] = taken[c] /\ error[c] /\ ready' = ready \ {e}
    /\ error' = [error EXCEPT ![c] = FALSE]
    /\ Forwards(e.fd, c, 0)
    /\ UNCHANGED <<backlog, peer, said, unread, tableVars, pc, joined, heard, overrun, alive>>

\* Mutant: the connection stays in the map.
RecvEndKeeps(e) ==
    LET c == owner[e.fd] IN
    /\ Handling /\ said[c] = taken[c] /\ ~error[c] /\ ready' = ready \ {e}
    /\ owner' = [owner EXCEPT ![e.fd] = None] /\ watched' = watched \ {e.fd}
    /\ UNCHANGED <<backlog, clientVars, conns, age, pc, chunk, targets, historyVars, alive>>

\* The other end has been closed.
RecvEnd(e) ==
    LET c == owner[e.fd] IN
    /\ Handling /\ said[c] = taken[c] /\ ~error[c] /\ ready' = ready \ {e}
    /\ CloseAll({e.fd})
    /\ age' = [age EXCEPT ![e.fd] = 0]
    /\ UNCHANGED <<backlog, clientVars, pc, chunk, targets, historyVars, alive>>

HandleClient == \E e \in ready : e.fd # Listen /\ (Recv(e) \/ RecvError(e) \/ RecvEnd(e))

NextTarget(k) == k \in targets /\ \A j \in targets : k <= j

\* send to a descriptor of a client that is there, when its socket has room.  A
\* full buffer has no terminator, and strlen may find more behind it.
ForwardTo(d) ==
    /\ peer[d] # "reset"
    /\ chunk.text = <<>> \/ peer[d] = "closed" \/ unread[d] < Window
    /\ heard' = [heard EXCEPT ![d][chunk.from] = @ \o chunk.text]
    /\ overrun' \in {overrun, IF Len(chunk.text) = BuffSize THEN overrun \cup {d} ELSE overrun}
    /\ unread' = [unread EXCEPT ![d] = IF chunk.text = <<>> \/ peer[d] = "closed" THEN @ ELSE @ + 1]
    /\ UNCHANGED <<error, alive>>

\* send to an aborted connection reports the error, and raises SIGPIPE if it has
\* been reported before.
ForwardFails(d) ==
    /\ peer[d] = "reset"
    /\ error' = [error EXCEPT ![d] = FALSE]
    /\ alive' = error[d]
    /\ UNCHANGED <<heard, overrun, unread>>

Forward ==
    /\ \E k \in targets :
        /\ NextTarget(k) /\ targets' = targets \ {k}
        /\ chunk' = IF targets = {k} THEN Empty ELSE chunk
        /\ IF k = -1 THEN UNCHANGED <<heard, overrun, unread, error, alive>>
                     ELSE ForwardTo(owner[k]) \/ ForwardFails(owner[k])
    /\ UNCHANGED <<backlog, peer, said, tableVars, age, ready, pc, taken, joined>>

\* The silent ones are closed, collected and erased after the round.
Reap ==
    /\ Handling /\ ready = {}
    /\ CloseAll(Silent)
    /\ age' = [k \in Keys |-> IF k \in Silent THEN 0 ELSE age[k]]
    /\ pc' = "wait"
    /\ UNCHANGED <<backlog, clientVars, ready, chunk, targets, historyVars, alive>>

Server ==
    /\ alive
    /\ \/ EpollWait \/ EpollTimesOut \/ Accept \/ AcceptFails \/ HandleClient
       \/ Forward \/ Reap

Client(c) == Connect(c) \/ Speak(c) \/ Read(c) \/ Leave(c)
Next == Tick \/ Server \/ \E c \in Clients : Client(c)

Spec == Init /\ [][Next]_vars
\* The server runs, time passes, and clients read what they are sent.
FairSpec ==
    /\ Spec /\ WF_vars(Server) /\ WF_vars(Tick)
    /\ \A c \in Clients : WF_vars(Read(c))

----------------------------------------------------------------------------
\* The map, the epoll set and the open descriptors name the same connections,
\* each of a client of its own; only -1 may be in the map beside them.
TableOK ==
    /\ conns \ {-1} = watched
    /\ watched = {fd \in Fds : owner[fd] # None}
    /\ \A f, g \in watched : owner[f] = owner[g] => f = g

\* "在将已经就绪的文件描述符全部处理完毕之后，再进行超时断开连接" (line 156): no event
\* waits for a descriptor that has been closed, or given to another client,
\* since epoll_wait reported it.
EventsAreFresh ==
    \A e \in ready : e.fd # Listen => e.fd \in watched /\ owner[e.fd] = e.who

\* Between two rounds every client in the room has been sent exactly what the
\* others have said since it came in, in order, and nothing of its own.
EveryoneHears ==
    pc = "wait" =>
        \A f \in watched : \A c \in Clients :
            LET d == owner[f] IN
            IF c = d THEN heard[d][c] = <<>>
            ELSE peer[d] \in {"closed", "reset"}
                 \/ heard[d][c] = [i \in 1..(taken[c] - joined[d][c]) |-> joined[d][c] + i]

\* Those who are in the room and listen, and what they have heard or are about to
\* be sent.
Listening == {owner[f] : f \in {g \in watched : peer[owner[g]] = "open"}}
Hearing(d) ==
    [c \in Clients |->
        heard[d][c] \o IF c = chunk.from /\ (\E f \in targets \cap watched : owner[f] = d)
                       THEN chunk.text ELSE <<>>]

\* The contract of the chat room: see Room.  A message counts as heard when it has
\* been received, although it is then forwarded to one client after another.
Contract == INSTANCE Room
                WITH People <- Clients, Most <- BuffSize, spoken <- taken,
                     heard <- [d \in Listening |-> Hearing(d)]
ImplementsRoom == Contract!Spec

\* A connection does not stay open for ever: one that ends, aborts or falls
\* silent is closed, while the server lives.
ConnectionsEnd ==
    \A fd \in Fds : owner[fd] # None ~> owner[fd] = None \/ ~alive
=============================================================================

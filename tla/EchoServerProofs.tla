-------------------------- MODULE EchoServerProofs --------------------------
(***************************************************************************)
(* EchoServer for every set of clients, workers, lines and descriptors.    *)
(* Seen from the loop the server is one more user: what is proved of       *)
(* EventLoop holds inside it.  And the ownership of connections: the       *)
(* loop's table, the epoll set, the kernel's descriptors and the shared    *)
(* pointers in the tasks agree in every reachable state.                   *)
(***************************************************************************)
EXTENDS EchoServer, EventLoopProofs, FiniteSetTheorems, WellFoundedInduction

\* accept finds the lowest free descriptor: the one with the fewest others below
\* it, which exists because there are finitely many.
LEMMA LowestIsFree == ASSUME FreeFds # {} PROVE Lowest(FreeFds) \in FreeFds
<1> DEFINE Below(n) == {m \in FreeFds : m < n}
           Belows == {Below(n) : n \in FreeFds}
<1>1. FreeFds \subseteq Nat /\ IsFiniteSet(FreeFds)
  BY EchoAssumption, FS_Subset DEF FreeFds
<1>2. IsWellFoundedOn(StrictSubsetOrdering(FreeFds), SUBSET FreeFds)
  BY <1>1, FS_StrictSubsetOrderingWellFounded, FS_FiniteSubsetsOfFinite
<1>3. Belows \subseteq SUBSET FreeFds /\ Belows # {}
  OBVIOUS
<1>4. PICK B \in Belows : \A C \in Belows : <<C, B>> \notin StrictSubsetOrdering(FreeFds)
  BY <1>2, <1>3, WFMin
<1>5. PICK n \in FreeFds : B = Below(n)
  OBVIOUS
<1>6. ASSUME NEW m \in FreeFds, m < n PROVE FALSE
  <2>1. Below(m) \in Belows
    OBVIOUS
  <2>2. m \in Below(n) /\ m \notin Below(m)
    BY <1>1, <1>6
  <2>3. \A k \in FreeFds : k < m => k < n
    BY <1>1, <1>6
  <2>4. Below(m) \subseteq Below(n)
    BY <2>3
  <2>5. <<Below(m), Below(n)>> \in StrictSubsetOrdering(FreeFds)
    BY <2>2, <2>4 DEF StrictSubsetOrdering
  <2> QED BY <1>4, <1>5, <2>1, <2>5
<1>7. \A m \in FreeFds : n <= m
  BY <1>1, <1>6
<1> QED BY <1>7 DEF Lowest

----------------------------------------------------------------------------
\* The server as a user of the loop

\* What the types of the server rest on: the lines that have been sent exist; an
\* event of the Acceptor that is still to be handled has a client waiting in the
\* backlog; a connection that was ever made has been given a descriptor.
LinesExist == \A c \in Clients : sent[c] > 0 => <<c, sent[c]>> \in Lines
ListenIsFresh == Listen \in ready => backlog # <<>>
NumberGiven == \A c \in Clients : object[c] # "none" => number[c] \in Fds

ServerInv == TypeOK /\ LinesExist /\ ListenIsFresh /\ NumberGiven

\* Every step of the server is a step of its loop or leaves the loop alone.
LEMMA StepIsLoopStep == TypeOK /\ [Next]_vars => [LoopNext]_eventVars
<1> SUFFICES ASSUME TypeOK, [Next]_vars PROVE [LoopNext]_eventVars
  OBVIOUS
<1> USE EchoAssumption
<1>1. CASE Handler
  BY <1>1 DEF Handler, LoopStep, Accept, AcceptFails, MessageBegins, HandleClose,
              MessageReceived, AddTask, SendAnswer, SendDangling, LoopNext, LoopInternal
<1>2. CASE EpollWait
  <2>1. Readable \in SUBSET Sources
    BY DEF TypeOK, Readable
  <2> QED BY <1>2, <2>1 DEF EpollWait, LoopNext
<1>3. ASSUME NEW w \in Workers, Worker(w) PROVE [LoopNext]_eventVars
  <2>1. CASE TakeTask(w) \/ DropTask(w)
    BY <2>1 DEF TakeTask, DropTask
  <2>2. CASE Process(w)
    <3>1. working[w] \in Functors
      BY <2>2 DEF TypeOK, Process, Lines, None
    <3> QED BY <2>2, <3>1 DEF Process, LoopNext, Workers
  <2>3. CASE Notify(w)
    BY <2>3 DEF Notify, LoopNext, Workers
  <2> QED BY <1>3, <2>1, <2>2, <2>3 DEF Worker
<1>4. ASSUME NEW c \in Clients, Client(c) PROVE [LoopNext]_eventVars
  BY <1>4 DEF Client, Connect, SendLine, SendPart, Read, CloseClient
<1>5. CASE UNCHANGED vars
  BY <1>5 DEF vars
<1> QED BY <1>1, <1>2, <1>3, <1>4, <1>5 DEF Next

----------------------------------------------------------------------------
\* The types of the server

LEMMA ServerInitInv == Init => ServerInv
<1> SUFFICES ASSUME Init PROVE ServerInv
  OBVIOUS
<1> USE DEF Init
<1>1. LoopTypeOK
  BY LoopInitInv DEF LoopInv
<1>2. tasks \in Seq(Lines) /\ backlog \in Seq(Clients) /\ replies \in [Clients -> Seq(Lines)]
  BY EmptySeq
<1>3. /\ sent \in [Clients -> Nat] /\ received \in [Clients -> Nat]
      /\ unread \in [Clients -> 0..Room]
  BY EchoAssumption
<1>4. /\ conns \in [Keys -> Clients \cup {None, Nobody}]
      /\ \A fd \in Fds : conns[fd] # Nobody
      /\ conns[-1] \in {None, Nobody}
      /\ working \in [Workers -> Lines \cup {None}]
      /\ fdOf \in [Fds -> Clients \cup {None}]
      /\ number \in [Clients -> Fds \cup {None}]
  BY EchoAssumption DEF Keys
<1>5. /\ object \in [Clients -> {"none", "live", "dead"}]
      /\ client \in [Clients -> {"new", "open", "closed"}]
  OBVIOUS
<1>6. /\ processed \in [Workers -> BOOLEAN]
      /\ partial \in [Clients -> BOOLEAN]
      /\ reset \in [Clients -> BOOLEAN]
  OBVIOUS
<1>7. TypeOK
  BY <1>1, <1>2, <1>3, <1>4, <1>5, <1>6 DEF TypeOK
<1>8. LinesExist /\ ListenIsFresh /\ NumberGiven
  BY DEF LinesExist, ListenIsFresh, NumberGiven, LoopInit
<1> QED BY <1>7, <1>8 DEF ServerInv

\* A line names its connection.
LEMMA LineOfConnection == \A l \in Lines : Connection(l) \in Clients
  BY EchoAssumption DEF Connection

\* The next line of a client that has sent more than has been read exists.
LEMMA NextLineExists ==
    ASSUME TypeOK, LinesExist, NEW c \in Clients, received[c] < sent[c]
    PROVE  <<c, received[c] + 1>> \in Lines
<1>1. <<c, sent[c]>> \in Lines
  BY DEF TypeOK, LinesExist
<1>2. received[c] + 1 \in 1..sent[c]
  BY DEF TypeOK
<1> QED BY <1>1, <1>2, EchoAssumption

\* Sending an answer changes neither types nor anything but the wire.
LEMMA SendToTypes ==
    ASSUME TypeOK, NEW c \in Clients, NEW l \in Lines, SendTo(c, l)
    PROVE  /\ replies' \in [Clients -> Seq(Lines)]
           /\ unread' \in [Clients -> 0..Room]
           /\ reset' \in [Clients -> BOOLEAN]
           /\ alive' \in BOOLEAN
<1>1. CASE client[c] = "open"
  <2>1. Append(replies[c], l) \in Seq(Lines)
    BY AppendProperties DEF TypeOK
  <2>2. unread[c] + 1 \in 0..Room
    <3>1. unread[c] \in 0..Room /\ unread[c] < Room
      BY <1>1 DEF TypeOK, SendTo
    <3> QED BY <3>1, EchoAssumption
  <2>3. /\ unread' = [unread EXCEPT ![c] = unread[c] + 1]
        /\ replies' = [replies EXCEPT ![c] = Append(replies[c], l)]
        /\ reset' = reset /\ alive' = alive
    BY <1>1 DEF SendTo
  <2>4. unread \in [Clients -> 0..Room] /\ replies \in [Clients -> Seq(Lines)]
        /\ reset \in [Clients -> BOOLEAN] /\ alive \in BOOLEAN
    BY DEF TypeOK
  <2> QED BY ONLY <2>1, <2>2, <2>3, <2>4
<1>2. CASE client[c] = "closed"
  BY <1>2 DEF TypeOK, SendTo
<1> QED BY <1>1, <1>2 DEF SendTo

\* Reclaiming keeps the types of the objects and of the descriptors.
LEMMA ReclaimTypes ==
    ASSUME TypeOK, NumberGiven, Reclaim
    PROVE  /\ object' \in [Clients -> {"none", "live", "dead"}]
           /\ fdOf' \in [Fds -> Clients \cup {None}]
           /\ number' = number
           /\ NumberGiven'
<1>1. object' \in [Clients -> {"none", "live", "dead"}]
  BY DEF TypeOK, Reclaim
<1>2. fdOf' \in [Fds -> Clients \cup {None}]
  BY DEF TypeOK, Reclaim
<1>3. \A c \in Clients : object'[c] # "none" => object[c] # "none"
  BY DEF Reclaim
<1>4. number' = number
  BY DEF Reclaim
<1> QED BY <1>1, <1>2, <1>3, <1>4 DEF NumberGiven

LEMMA ServerNextInv == ServerInv /\ LoopTypeOK' /\ [Next]_vars => ServerInv'
<1> SUFFICES ASSUME ServerInv, LoopTypeOK', [Next]_vars PROVE ServerInv'
  OBVIOUS
<1> USE EchoAssumption, LoopAssumption
<1> USE DEF ServerInv, eventVars, mailboxVars, loopVars, tableVars, ioVars, poolVars,
            objectVars, clientVars, wireVars
<1>1. ASSUME NEW c \in Clients, Connect(c) PROVE ServerInv'
  <2>1. backlog' \in Seq(Clients) /\ backlog' # <<>>
    <3>1. backlog \in Seq(Clients)
      BY DEF TypeOK
    <3>2. Append(backlog, c) \in Seq(Clients) /\ Append(backlog, c) # <<>>
      BY <3>1, AppendProperties
    <3> QED BY <1>1, <3>2 DEF Connect
  <2>2. TypeOK'
    BY <1>1, <2>1 DEF TypeOK, Connect
  <2>3. LinesExist' /\ ListenIsFresh' /\ NumberGiven'
    BY <1>1, <2>1 DEF LinesExist, ListenIsFresh, NumberGiven, Connect
  <2> QED BY <2>2, <2>3
<1>2. ASSUME NEW c \in Clients, SendLine(c) PROVE ServerInv'
  <2>1. TypeOK'
    BY <1>2 DEF TypeOK, SendLine
  <2>2. LinesExist'
    BY <1>2 DEF TypeOK, LinesExist, SendLine
  <2>3. ListenIsFresh' /\ NumberGiven'
    BY <1>2 DEF ListenIsFresh, NumberGiven, SendLine
  <2> QED BY <2>1, <2>2, <2>3
<1>3. ASSUME NEW c \in Clients, SendPart(c) PROVE ServerInv'
  BY <1>3 DEF TypeOK, LinesExist, ListenIsFresh, NumberGiven, SendPart
<1>4. ASSUME NEW c \in Clients, CloseClient(c) PROVE ServerInv'
  BY <1>4 DEF TypeOK, LinesExist, ListenIsFresh, NumberGiven, CloseClient
<1>20. ASSUME NEW c \in Clients, Read(c) PROVE ServerInv'
  <2>1. unread' \in [Clients -> 0..Room]
    <3>1. unread[c] \in 0..Room /\ unread[c] > 0 /\ unread \in [Clients -> 0..Room]
          /\ unread' = [unread EXCEPT ![c] = unread[c] - 1]
      BY <1>20 DEF TypeOK, Read
    <3>2. unread[c] - 1 \in 0..Room
      BY <3>1, EchoAssumption
    <3> QED BY ONLY <3>1, <3>2
  <2> QED BY <1>20, <2>1 DEF TypeOK, LinesExist, ListenIsFresh, NumberGiven, Read
<1>5. CASE EpollWait
  <2>1. TypeOK'
    BY <1>5 DEF TypeOK, EpollWait
  <2>2. Listen \in Readable => backlog # <<>>
    BY DEF TypeOK, Readable
  <2>3. ListenIsFresh'
    BY <1>5, <2>2 DEF ListenIsFresh, EpollWait, EpollReturns, EventReady
  <2>4. LinesExist' /\ NumberGiven'
    BY <1>5 DEF LinesExist, NumberGiven, EpollWait
  <2> QED BY <2>1, <2>3, <2>4
<1>6. CASE LoopStep
  <2>1. TypeOK'
    BY <1>6 DEF TypeOK, LoopStep
  <2>2. ready' \subseteq ready
    BY <1>6 DEF LoopStep, EpollTimesOut, LoopEnter, LoopTest, HandleReadEvent,
                SwapPending, RunReturns, DispatchDone
  <2>3. LinesExist' /\ ListenIsFresh' /\ NumberGiven'
    BY <1>6, <2>2 DEF LinesExist, ListenIsFresh, NumberGiven, LoopStep
  <2> QED BY <2>1, <2>3
<1>7. CASE Accept
  <2> DEFINE fd == Lowest(FreeFds)
             c == Head(backlog)
  <2>1. fd \in Fds
    BY <1>7, LowestIsFree DEF Accept, FreeFds
  <2>2. backlog # <<>>
    BY <1>7 DEF Accept, HandleSource, ListenIsFresh
  <2>3. c \in Clients /\ Tail(backlog) \in Seq(Clients)
    BY <2>2, HeadTailProperties DEF TypeOK
  <2> HIDE DEF fd, c
  <2>4. /\ fdOf' = [fdOf EXCEPT ![fd] = c]
        /\ object' = [object EXCEPT ![c] = "live"]
        /\ number' = [number EXCEPT ![c] = fd]
        /\ watched' = watched \cup {fd}
        /\ conns' = IF conns[fd] = None THEN [conns EXCEPT ![fd] = c] ELSE conns
        /\ backlog' = Tail(backlog)
    BY <1>7 DEF Accept, fd, c
  <2>5. /\ conns' \in [Keys -> Clients \cup {None, Nobody}]
        /\ \A f \in Fds : conns'[f] # Nobody
        /\ conns'[-1] \in {None, Nobody}
    <3>1. \A k \in Keys : conns'[k] = c \/ conns'[k] = conns[k]
      BY <2>4 DEF TypeOK
    <3>2. conns'[-1] = conns[-1]
      <4>1. fd # -1 /\ -1 \in Keys
        BY <2>1 DEF Keys
      <4> QED BY <2>4, <4>1 DEF TypeOK
    <3>3. conns' \in [Keys -> Clients \cup {None, Nobody}]
      BY <2>3, <2>4 DEF TypeOK
    <3>4. \A f \in Fds : conns'[f] # Nobody
      <4>1. \A f \in Fds : conns[f] # Nobody
        BY DEF TypeOK
      <4>2. c # Nobody
        BY <2>3
      <4>3. Fds \subseteq Keys
        BY DEF Keys
      <4> QED BY <3>1, <4>1, <4>2, <4>3
    <3> QED BY <3>2, <3>3, <3>4 DEF TypeOK
  <2>6. /\ watched' \subseteq Fds
        /\ fdOf' \in [Fds -> Clients \cup {None}]
        /\ object' \in [Clients -> {"none", "live", "dead"}]
        /\ number' \in [Clients -> Fds \cup {None}]
        /\ backlog' \in Seq(Clients)
    BY <2>1, <2>3, <2>4 DEF TypeOK
  <2>7. TypeOK'
    BY <1>7, <2>5, <2>6 DEF TypeOK, Accept
  <2>8. NumberGiven'
    BY <2>1, <2>3, <2>4 DEF TypeOK, NumberGiven
  <2>9. LinesExist' /\ ListenIsFresh'
    BY <1>7 DEF LinesExist, ListenIsFresh, Accept, HandleSource
  <2> QED BY <2>7, <2>8, <2>9
<1>8. CASE AcceptFails
  <2>1. /\ conns' \in [Keys -> Clients \cup {None, Nobody}]
        /\ \A f \in Fds : conns'[f] # Nobody
        /\ conns'[-1] \in {None, Nobody}
    BY <1>8 DEF TypeOK, Keys, AcceptFails
  <2>2. TypeOK'
    BY <1>8, <2>1 DEF TypeOK, AcceptFails
  <2>3. LinesExist' /\ ListenIsFresh' /\ NumberGiven'
    BY <1>8 DEF LinesExist, ListenIsFresh, NumberGiven, AcceptFails, HandleSource
  <2> QED BY <2>2, <2>3
<1>9. ASSUME NEW fd \in Fds, MessageBegins(fd) PROVE ServerInv'
  <2>3. receiving' \in Clients \cup {None}
    BY <1>9 DEF TypeOK, Keys, MessageBegins
  <2>1. TypeOK'
    BY <1>9, <2>3 DEF TypeOK, MessageBegins
  <2>2. LinesExist' /\ ListenIsFresh' /\ NumberGiven'
    BY <1>9 DEF LinesExist, ListenIsFresh, NumberGiven, MessageBegins, HandleSource
  <2> QED BY <2>1, <2>2
<1>10. ASSUME NEW fd \in Fds, HandleClose(fd) PROVE ServerInv'
  <2>1. Reclaim
    BY <1>10 DEF HandleClose
  <2>4. /\ conns' \in [Keys -> Clients \cup {None, Nobody}]
        /\ \A f \in Fds : conns'[f] # Nobody
        /\ conns'[-1] \in {None, Nobody}
    BY <1>10 DEF TypeOK, Keys, HandleClose
  <2>2. TypeOK'
    BY <1>10, <2>1, <2>4, ReclaimTypes DEF TypeOK, HandleClose
  <2>3. LinesExist' /\ ListenIsFresh'
    BY <1>10 DEF LinesExist, ListenIsFresh, HandleClose, HandleSource
  <2> QED BY <2>1, <2>2, <2>3, ReclaimTypes
<1>11. CASE MessageReceived
  <2>1. receiving \in Clients
    BY <1>11 DEF TypeOK, MessageReceived
  <2>2. <<receiving, received[receiving] + 1>> \in Lines
    BY <1>11, <2>1, NextLineExists DEF MessageReceived
  <2>3. adding' = <<receiving, received[receiving] + 1>>
    BY <1>11, <2>1 DEF TypeOK, MessageReceived
  <2>4. TypeOK'
    BY <1>11, <2>1, <2>2, <2>3 DEF TypeOK, MessageReceived
  <2>5. LinesExist' /\ ListenIsFresh' /\ NumberGiven'
    BY <1>11 DEF LinesExist, ListenIsFresh, NumberGiven, MessageReceived
  <2> QED BY <2>4, <2>5
<1>12. CASE AddTask
  <2>1. tasks' \in Seq(Lines)
    BY <1>12, AppendProperties DEF TypeOK, AddTask
  <2>2. TypeOK'
    BY <1>12, <2>1 DEF TypeOK, AddTask
  <2>3. LinesExist' /\ ListenIsFresh' /\ NumberGiven'
    BY <1>12 DEF LinesExist, ListenIsFresh, NumberGiven, AddTask
  <2> QED BY <2>2, <2>3
<1>13. CASE SendAnswer
  <2>1. Head(tmp) \in Lines /\ Connection(Head(tmp)) \in Clients
    BY <1>13, HeadTailProperties, LineOfConnection
       DEF TypeOK, LoopTypeOK, SendAnswer, RunFunctor, Lines
  <2>2. SendTo(Connection(Head(tmp)), Head(tmp))
    BY <1>13 DEF SendAnswer
  <2>3. TypeOK'
    BY <1>13, <2>1, <2>2, SendToTypes DEF TypeOK, SendAnswer
  <2>4. LinesExist' /\ ListenIsFresh' /\ NumberGiven'
    BY <1>13 DEF LinesExist, ListenIsFresh, NumberGiven, SendAnswer, RunFunctor
  <2> QED BY <2>3, <2>4
<1>14. CASE SendDangling
  <2> DEFINE line == Head(tmp)
             c == Connection(line)
             fd == number[c]
  <2>1. line \in Lines /\ c \in Clients
    BY <1>14, HeadTailProperties, LineOfConnection
       DEF TypeOK, LoopTypeOK, SendDangling, RunFunctor, Lines
  <2>2. fd \in Fds
    BY <1>14, <2>1 DEF NumberGiven, SendDangling
  <2>3. \/ fdOf[fd] \in Clients /\ SendTo(fdOf[fd], line)
        \/ UNCHANGED <<replies, unread, reset, alive>>
    BY <1>14, <2>2 DEF TypeOK, SendDangling
  <2>4. dangling' \subseteq Lines
    BY <1>14, <2>1 DEF TypeOK, SendDangling
  <2> HIDE DEF line, c, fd
  <2>5. /\ replies' \in [Clients -> Seq(Lines)]
        /\ unread' \in [Clients -> 0..Room]
        /\ reset' \in [Clients -> BOOLEAN]
        /\ alive' \in BOOLEAN
    <3>1. CASE fdOf[fd] \in Clients /\ SendTo(fdOf[fd], line)
      BY <2>1, <3>1, SendToTypes
    <3>2. CASE UNCHANGED <<replies, unread, reset, alive>>
      BY <3>2 DEF TypeOK
    <3> QED BY <2>3, <3>1, <3>2
  <2>6. TypeOK'
    BY <1>14, <2>4, <2>5 DEF TypeOK, SendDangling
  <2>7. LinesExist' /\ ListenIsFresh' /\ NumberGiven'
    BY <1>14 DEF LinesExist, ListenIsFresh, NumberGiven, SendDangling, RunFunctor
  <2> QED BY <2>6, <2>7
<1>15. ASSUME NEW w \in Workers, TakeTask(w) PROVE ServerInv'
  <2>1. Head(tasks) \in Lines /\ Tail(tasks) \in Seq(Lines)
    BY <1>15, HeadTailProperties DEF TypeOK, TakeTask
  <2>2. TypeOK'
    BY <1>15, <2>1 DEF TypeOK, TakeTask
  <2>3. LinesExist' /\ ListenIsFresh' /\ NumberGiven'
    BY <1>15 DEF LinesExist, ListenIsFresh, NumberGiven, TakeTask
  <2> QED BY <2>2, <2>3
<1>16. ASSUME NEW w \in Workers, Process(w) PROVE ServerInv'
  BY <1>16 DEF TypeOK, LinesExist, ListenIsFresh, NumberGiven, Process, PostAppend
<1>17. ASSUME NEW w \in Workers, Notify(w) PROVE ServerInv'
  BY <1>17 DEF TypeOK, LinesExist, ListenIsFresh, NumberGiven, Notify, PostWakeup
<1>18. ASSUME NEW w \in Workers, DropTask(w) PROVE ServerInv'
  <2>1. Reclaim
    BY <1>18 DEF DropTask
  <2>2. TypeOK'
    BY <1>18, <2>1, ReclaimTypes DEF TypeOK, DropTask
  <2>3. LinesExist' /\ ListenIsFresh'
    BY <1>18 DEF LinesExist, ListenIsFresh, DropTask
  <2> QED BY <2>1, <2>2, <2>3, ReclaimTypes
<1>19. CASE UNCHANGED vars
  BY <1>19 DEF vars, TypeOK, LinesExist, ListenIsFresh, NumberGiven
<1> QED
  BY <1>1, <1>2, <1>3, <1>4, <1>5, <1>6, <1>7, <1>8, <1>9, <1>10, <1>11, <1>12, <1>13,
     <1>14, <1>15, <1>16, <1>17, <1>18, <1>19, <1>20 DEF Next, Handler, Worker, Client

\* The server's threads use the loop only through its operations, so it behaves
\* as EventLoop says.
THEOREM EchoUsesLoop == Spec => LoopSpec
<1>1. Init => LoopInit /\ LoopInv /\ ServerInv
  BY LoopInitInv, ServerInitInv DEF Init
<1>2. ServerInv /\ [Next]_vars => [LoopNext]_eventVars
  BY StepIsLoopStep DEF ServerInv
<1>3. LoopInv /\ ServerInv /\ [Next]_vars => LoopInv' /\ ServerInv'
  BY <1>2, LoopNextInv, ServerNextInv DEF LoopInv
<1> QED BY <1>1, <1>2, <1>3, PTL DEF Spec, LoopSpec

\* Hence inside the server no answer posted by a worker is lost, repeated or
\* overtaken on its way to the IO thread, and the IO thread never blocks on the
\* eventfd.
THEOREM EchoLoopSafe ==
    Spec => [](MailboxFifo /\ MailboxAnnounced /\ EventReadNeverBlocks)
BY EchoUsesLoop, LoopSafe, PTL

\* And the way of an answer from the worker to the IO thread is a mailbox: it is
\* handed over once, carried out once, and in the order of handing over.
THEOREM EchoIsMailbox == Spec => ImplementsMailbox
BY EchoUsesLoop, LoopIsMailbox, PTL

\* The types of the server in every reachable state.
THEOREM EchoTypes == Spec => []TypeOK
<1>1. Init => ServerInv
  BY ServerInitInv
<1>2. Spec => []LoopTypeOK
  BY EchoUsesLoop, LoopSafe, PTL
<1>3. ServerInv /\ LoopTypeOK' /\ [Next]_vars => ServerInv'
  BY ServerNextInv
<1>4. ServerInv => TypeOK
  BY DEF ServerInv
<1> QED BY <1>1, <1>2, <1>3, <1>4, PTL DEF Spec

----------------------------------------------------------------------------
\* Who owns a connection

\* The shared pointers of the IO thread, beside those in the table.
IoKeepsConnections ==
    /\ receiving # None => object[receiving] = "live"
    /\ adding # None => object[Connection(adding)] = "live"

\* An event that is still to be handled is about a connection of the table.
ReadyOK == \A fd \in ready \cap Fds : conns[fd] # None

\* The clients in the backlog are there once and have no object yet.
BacklogOK ==
    /\ \A i \in 1..Len(backlog) :
          /\ object[backlog[i]] = "none"
          /\ client[backlog[i]] # "new"
    /\ \A i, j \in 1..Len(backlog) : backlog[i] = backlog[j] => i = j
    /\ \A c \in Clients : client[c] = "new" => object[c] = "none"

\* What the table says of descriptors: its entry under -1 is another matter.
FdsAgree ==
    \A fd \in Fds : /\ conns[fd] # None <=> fd \in watched
                    /\ conns[fd] # None => /\ fdOf[fd] = conns[fd]
                                           /\ object[conns[fd]] = "live"

LEMMA TableIs == TypeOK /\ FdsAgree => TableOK
BY EchoAssumption DEF TypeOK, FdsAgree, TableOK, Keys

\* The inductive invariant of the ownership.
OwnerInv ==
    /\ FdsAgree
    /\ DescriptorsOK
    /\ TasksKeepConnections
    /\ IoKeepsConnections
    /\ ReadyOK
    /\ BacklogOK

LEMMA OwnerInitInv == Init => OwnerInv
<1> SUFFICES ASSUME Init PROVE OwnerInv
  OBVIOUS
<1> USE EchoAssumption DEF Init, LoopInit
<1>1. FdsAgree /\ DescriptorsOK
  BY DEF FdsAgree, DescriptorsOK, Keys
<1>2. TasksKeepConnections /\ IoKeepsConnections
  BY DEF TasksKeepConnections, IoKeepsConnections
<1>3. ReadyOK /\ BacklogOK
  BY DEF ReadyOK, BacklogOK
<1> QED BY <1>1, <1>2, <1>3 DEF OwnerInv

\* Reclaiming kills exactly what no shared pointer refers to, and frees exactly
\* the descriptors of what it kills.
LEMMA ReclaimKeepsReferenced ==
    ASSUME TypeOK, NumberGiven, DescriptorsOK, Reclaim
    PROVE  /\ DescriptorsOK'
           /\ \A c \in Clients :
                 object[c] = "live" /\ c \in Referenced' => object'[c] = "live"
           /\ \A c \in Clients : object[c] = "none" <=> object'[c] = "none"
           /\ \A fd \in Fds :
                 fdOf[fd] # None /\ object'[fdOf[fd]] = "live" => fdOf'[fd] = fdOf[fd]
<1>1. \A c \in Clients :
         /\ object[c] = "live" /\ c \in Referenced' => object'[c] = "live"
         /\ object[c] = "none" <=> object'[c] = "none"
         /\ object'[c] = "live" => object[c] = "live"
         /\ object'[c] # "dead" /\ object[c] = "live" => object'[c] = "live"
  BY DEF TypeOK, Reclaim
<1>2. \A fd \in Fds :
         /\ fdOf[fd] # None /\ object'[fdOf[fd]] # "dead" => fdOf'[fd] = fdOf[fd]
         /\ fdOf'[fd] # None =>
               fdOf[fd] # None /\ fdOf'[fd] = fdOf[fd] /\ object'[fdOf[fd]] # "dead"
  BY DEF Reclaim
<1>3. \A fd \in Fds : fdOf'[fd] # None => object'[fdOf'[fd]] = "live"
  BY <1>1, <1>2 DEF TypeOK, DescriptorsOK
<1>4. \A c \in Clients : object'[c] = "live" => fdOf'[number[c]] = c
  BY <1>1, <1>2, EchoAssumption DEF TypeOK, NumberGiven, DescriptorsOK
<1>5. DescriptorsOK'
  BY <1>3, <1>4 DEF DescriptorsOK, Reclaim
<1> QED BY <1>1, <1>2, <1>5

\* When objects die, the table and the threads keep theirs, as long as what they
\* refer to after the step was alive before it.
LEMMA ReclaimKeepsOwners ==
    ASSUME ServerInv, TypeOK', DescriptorsOK, Reclaim, UNCHANGED backlog, UNCHANGED client,
           BacklogOK,
           \A fd \in Fds : /\ conns'[fd] # None <=> fd \in watched'
                           /\ conns'[fd] # None => /\ fdOf[fd] = conns'[fd]
                                                   /\ object[conns'[fd]] = "live",
           \A i \in 1..Len(tasks') : object[Connection(tasks'[i])] = "live",
           \A w \in Workers : working'[w] # None => object[Connection(working'[w])] = "live",
           receiving' # None => object[receiving'] = "live",
           adding' # None => object[Connection(adding')] = "live"
    PROVE  /\ FdsAgree' /\ DescriptorsOK' /\ TasksKeepConnections'
           /\ IoKeepsConnections' /\ BacklogOK'
<1>1. /\ DescriptorsOK'
      /\ \A c \in Clients :
            object[c] = "live" /\ c \in Referenced' => object'[c] = "live"
      /\ \A c \in Clients : object[c] = "none" <=> object'[c] = "none"
      /\ \A fd \in Fds :
            fdOf[fd] # None /\ object'[fdOf[fd]] = "live" => fdOf'[fd] = fdOf[fd]
  BY ReclaimKeepsReferenced DEF ServerInv
<1>2. FdsAgree'
  <2>1. ASSUME NEW fd \in Fds, conns'[fd] # None
        PROVE  fdOf'[fd] = conns'[fd] /\ object'[conns'[fd]] = "live"
    <3>1. conns'[fd] \in Clients /\ conns'[fd] \in Referenced'
      BY <2>1 DEF TypeOK, Referenced, Keys
    <3> QED BY <1>1, <2>1, <3>1
  <2> QED BY <2>1 DEF FdsAgree
<1>3. TasksKeepConnections'
  <2>1. ASSUME NEW i \in 1..Len(tasks') PROVE object'[Connection(tasks'[i])] = "live"
    <3>1. tasks'[i] \in Lines
      BY ElementOfSeq DEF TypeOK
    <3>2. Connection(tasks'[i]) \in Clients /\ Connection(tasks'[i]) \in Referenced'
      BY <3>1, LineOfConnection DEF Referenced
    <3> QED BY <1>1, <3>2
  <2>2. ASSUME NEW w \in Workers, working'[w] # None
        PROVE  object'[Connection(working'[w])] = "live"
    <3>1. working'[w] \in Lines
      BY <2>2 DEF TypeOK
    <3>2. Connection(working'[w]) \in Clients /\ Connection(working'[w]) \in Referenced'
      BY <2>2, <3>1, LineOfConnection DEF Referenced
    <3> QED BY <1>1, <2>2, <3>2
  <2> QED BY <2>1, <2>2 DEF TasksKeepConnections
<1>4. IoKeepsConnections'
  <2>1. ASSUME receiving' # None PROVE object'[receiving'] = "live"
    <3>1. receiving' \in Clients /\ receiving' \in Referenced'
      BY <2>1 DEF TypeOK, Referenced
    <3> QED BY <1>1, <2>1, <3>1
  <2>2. ASSUME adding' # None PROVE object'[Connection(adding')] = "live"
    <3>1. adding' \in Lines
      BY <2>2 DEF TypeOK
    <3>2. Connection(adding') \in Clients /\ Connection(adding') \in Referenced'
      BY <2>2, <3>1, LineOfConnection DEF Referenced
    <3> QED BY <1>1, <2>2, <3>2
  <2> QED BY <2>1, <2>2 DEF IoKeepsConnections
<1>5. BacklogOK'
  <2>1. \A i \in 1..Len(backlog) : backlog[i] \in Clients
    BY ElementOfSeq DEF ServerInv, TypeOK
  <2> QED BY <1>1, <2>1 DEF BacklogOK
<1> QED BY <1>1, <1>2, <1>3, <1>4, <1>5

LEMMA OwnerNextInv == ServerInv /\ ServerInv' /\ OwnerInv /\ [Next]_vars => OwnerInv'
<1> SUFFICES ASSUME ServerInv, ServerInv', OwnerInv, [Next]_vars PROVE OwnerInv'
  OBVIOUS
<1> USE EchoAssumption, LoopAssumption
<1> USE DEF OwnerInv, eventVars, mailboxVars, loopVars, tableVars, ioVars, poolVars,
            objectVars, clientVars, wireVars
<1>1. ASSUME NEW c \in Clients, Connect(c) PROVE OwnerInv'
  <2>1. /\ Len(backlog') = Len(backlog) + 1
        /\ \A i \in 1..Len(backlog) : backlog'[i] = backlog[i]
        /\ backlog'[Len(backlog) + 1] = c
    BY <1>1, AppendProperties DEF ServerInv, TypeOK, Connect
  <2>2. \A i \in 1..Len(backlog) : backlog[i] \in Clients /\ backlog[i] # c
    BY <1>1, ElementOfSeq DEF ServerInv, TypeOK, BacklogOK, Connect
  <2>3. Len(backlog) \in Nat
    BY DEF ServerInv, TypeOK
  <2>4. /\ object' = object
        /\ \A d \in Clients : client'[d] = IF d = c THEN "open" ELSE client[d]
    BY <1>1 DEF ServerInv, TypeOK, Connect
  <2>5. object[c] = "none"
    BY <1>1 DEF BacklogOK, Connect
  <2>6. BacklogOK'
    <3>1. ASSUME NEW i \in 1..Len(backlog')
          PROVE  object'[backlog'[i]] = "none" /\ client'[backlog'[i]] # "new"
      BY <2>1, <2>2, <2>3, <2>4, <2>5 DEF BacklogOK
    <3>2. ASSUME NEW i \in 1..Len(backlog'), NEW j \in 1..Len(backlog'),
                 backlog'[i] = backlog'[j]
          PROVE  i = j
      BY <2>1, <2>2, <2>3, <3>2 DEF BacklogOK
    <3>3. \A d \in Clients : client'[d] = "new" => object'[d] = "none"
      BY <2>4 DEF BacklogOK
    <3> QED BY <3>1, <3>2, <3>3 DEF BacklogOK
  <2>7. FdsAgree' /\ DescriptorsOK' /\ TasksKeepConnections' /\ IoKeepsConnections' /\ ReadyOK'
    BY <1>1 DEF FdsAgree, DescriptorsOK, TasksKeepConnections, IoKeepsConnections, ReadyOK,
                Connect
  <2> QED BY <2>6, <2>7
<1>2. ASSUME NEW c \in Clients, SendLine(c) \/ SendPart(c) PROVE OwnerInv'
  BY <1>2 DEF FdsAgree, DescriptorsOK, TasksKeepConnections, IoKeepsConnections, ReadyOK,
              BacklogOK, SendLine, SendPart
<1>3. ASSUME NEW c \in Clients, CloseClient(c) PROVE OwnerInv'
  <2>1. \A d \in Clients : client'[d] = IF d = c THEN "closed" ELSE client[d]
    BY <1>3 DEF ServerInv, TypeOK, CloseClient
  <2>2. \A i \in 1..Len(backlog) : backlog[i] \in Clients
    BY ElementOfSeq DEF ServerInv, TypeOK
  <2>3. BacklogOK'
    BY <1>3, <2>1, <2>2 DEF BacklogOK, CloseClient
  <2>4. FdsAgree' /\ DescriptorsOK' /\ TasksKeepConnections' /\ IoKeepsConnections' /\ ReadyOK'
    BY <1>3 DEF FdsAgree, DescriptorsOK, TasksKeepConnections, IoKeepsConnections, ReadyOK,
                CloseClient
  <2> QED BY <2>3, <2>4
<1>4. CASE EpollWait
  <2>1. \A fd \in ready' \cap Fds : fd \in watched
    BY <1>4 DEF EpollWait, EpollReturns, EventReady, Readable
  <2>2. ReadyOK'
    BY <1>4, <2>1 DEF ReadyOK, FdsAgree, EpollWait
  <2>3. FdsAgree' /\ DescriptorsOK' /\ TasksKeepConnections' /\ IoKeepsConnections' /\ BacklogOK'
    BY <1>4 DEF FdsAgree, DescriptorsOK, TasksKeepConnections, IoKeepsConnections, BacklogOK,
                EpollWait
  <2> QED BY <2>2, <2>3
<1>15. ASSUME NEW c \in Clients, Read(c) PROVE OwnerInv'
  <2>1. UNCHANGED <<ready, conns, watched, ioVars, poolVars, objectVars, clientVars>>
    BY <1>15 DEF Read
  <2>2. FdsAgree' /\ DescriptorsOK' /\ ReadyOK'
    BY <2>1 DEF FdsAgree, DescriptorsOK, ReadyOK
  <2>3. TasksKeepConnections' /\ IoKeepsConnections' /\ BacklogOK'
    BY <2>1 DEF TasksKeepConnections, IoKeepsConnections, BacklogOK
  <2> QED BY <2>2, <2>3
<1>5. CASE LoopStep \/ AcceptFails \/ SendAnswer \/ SendDangling
  <2>1. ready' \subseteq ready
    BY <1>5 DEF LoopStep, EpollTimesOut, LoopEnter, LoopTest, HandleReadEvent, SwapPending,
                RunReturns, DispatchDone, AcceptFails, HandleSource, SendAnswer,
                SendDangling, RunFunctor
  <2>2. UNCHANGED <<watched, ioVars, poolVars, objectVars, clientVars>>
    BY <1>5 DEF LoopStep, AcceptFails, SendAnswer, SendDangling
  <2>3. \A fd \in Fds : conns'[fd] = conns[fd]
    <3>1. CASE AcceptFails
      BY <3>1 DEF AcceptFails, ServerInv, TypeOK, Keys
    <3>2. CASE LoopStep \/ SendAnswer \/ SendDangling
      BY <3>2 DEF LoopStep, SendAnswer, SendDangling
    <3> QED BY <1>5, <3>1, <3>2
  <2>4. FdsAgree'
    BY <2>2, <2>3 DEF FdsAgree
  <2>5. ReadyOK'
    BY <2>1, <2>3 DEF ReadyOK
  <2>6. DescriptorsOK'
    BY <2>2 DEF DescriptorsOK
  <2>7. TasksKeepConnections' /\ IoKeepsConnections' /\ BacklogOK'
    BY <2>2 DEF TasksKeepConnections, IoKeepsConnections, BacklogOK
  <2> QED BY <2>4, <2>5, <2>6, <2>7
<1>6. CASE Accept
  <2> DEFINE fd == Lowest(FreeFds)
             c == Head(backlog)
  <2>1. fd \in Fds /\ fdOf[fd] = None
    BY <1>6, LowestIsFree DEF Accept, FreeFds
  <2>2. backlog # <<>>
    BY <1>6 DEF ServerInv, Accept, HandleSource, ListenIsFresh
  <2>3. /\ c \in Clients
        /\ Len(backlog) \in Nat \ {0}
        /\ c = backlog[1]
        /\ Len(Tail(backlog)) = Len(backlog) - 1
        /\ \A i \in 1..Len(Tail(backlog)) : Tail(backlog)[i] = backlog[i + 1]
    BY <2>2, HeadTailProperties DEF ServerInv, TypeOK
  <2> HIDE DEF fd, c
  <2>4. conns[fd] = None
    BY <2>1 DEF FdsAgree
  <2>5. /\ fdOf' = [fdOf EXCEPT ![fd] = c]
        /\ object' = [object EXCEPT ![c] = "live"]
        /\ number' = [number EXCEPT ![c] = fd]
        /\ watched' = watched \cup {fd}
        /\ conns' = [conns EXCEPT ![fd] = c]
        /\ backlog' = Tail(backlog)
        /\ UNCHANGED <<ioVars, poolVars, client>>
        /\ ready' \subseteq ready
    BY <1>6, <2>4 DEF Accept, HandleSource, fd, c
  <2>6. FdsAgree'
    <3>1. /\ conns'[fd] = c /\ fdOf'[fd] = c /\ object'[c] = "live"
          /\ \A f \in Fds \ {fd} : conns'[f] = conns[f] /\ fdOf'[f] = fdOf[f]
      BY <2>1, <2>3, <2>5 DEF ServerInv, TypeOK, Keys
    <3>2. \A d \in Clients : object[d] = "live" => object'[d] = "live"
      BY <2>5 DEF ServerInv, TypeOK
    <3>3. \A f \in Fds : conns[f] # None => conns[f] \in Clients
      BY DEF ServerInv, TypeOK, Keys
    <3> QED BY <2>1, <2>3, <2>5, <3>1, <3>2, <3>3 DEF FdsAgree
  <2>7. DescriptorsOK'
    <3>1. ASSUME NEW f \in Fds, fdOf'[f] # None PROVE object'[fdOf'[f]] = "live"
      <4>1. CASE f = fd
        BY <2>1, <2>3, <2>5, <4>1 DEF ServerInv, TypeOK
      <4>2. CASE f # fd
        <5>1. fdOf'[f] = fdOf[f]
          BY <2>5, <4>2 DEF ServerInv, TypeOK
        <5>2. fdOf[f] \in Clients /\ object[fdOf[f]] = "live"
          BY <3>1, <5>1 DEF ServerInv, TypeOK, DescriptorsOK
        <5>3. \A d \in Clients : object[d] = "live" => object'[d] = "live"
          BY <2>3, <2>5 DEF ServerInv, TypeOK
        <5> QED BY <5>1, <5>2, <5>3
      <4> QED BY <4>1, <4>2
    <3>2. ASSUME NEW d \in Clients, object'[d] = "live" PROVE fdOf'[number'[d]] = d
      <4>1. CASE d = c
        BY <2>1, <2>3, <2>5, <4>1 DEF ServerInv, TypeOK
      <4>2. CASE d # c
        <5>1. object[d] = "live" /\ number'[d] = number[d] /\ number[d] \in Fds
          BY <2>3, <2>5, <3>2, <4>2 DEF ServerInv, TypeOK, NumberGiven
        <5>2. fdOf[number[d]] = d
          BY <5>1 DEF DescriptorsOK
        <5>3. number[d] # fd
          BY <2>1, <5>2
        <5> QED BY <2>1, <2>5, <5>1, <5>2, <5>3 DEF ServerInv, TypeOK
      <4> QED BY <4>1, <4>2
    <3> QED BY <3>1, <3>2 DEF DescriptorsOK
  <2>8. \A d \in Clients : object[d] = "live" => object'[d] = "live"
    BY <2>5 DEF ServerInv, TypeOK
  <2>9. TasksKeepConnections'
    <3>1. ASSUME NEW i \in 1..Len(tasks') PROVE object'[Connection(tasks'[i])] = "live"
      <4>1. tasks' = tasks /\ tasks[i] \in Lines
        BY <2>5, ElementOfSeq DEF ServerInv, TypeOK
      <4> QED BY <2>8, <4>1, LineOfConnection DEF TasksKeepConnections
    <3>2. ASSUME NEW w \in Workers, working'[w] # None
          PROVE  object'[Connection(working'[w])] = "live"
      <4>1. working' = working /\ working[w] \in Lines
        BY <2>5, <3>2 DEF ServerInv, TypeOK
      <4> QED BY <2>8, <3>2, <4>1, LineOfConnection DEF TasksKeepConnections
    <3> QED BY <3>1, <3>2 DEF TasksKeepConnections
  <2>10. IoKeepsConnections'
    BY <2>5, <2>8, LineOfConnection DEF ServerInv, TypeOK, IoKeepsConnections
  <2>11. ReadyOK'
    BY <2>3, <2>5 DEF ServerInv, TypeOK, ReadyOK, Keys
  <2>12. BacklogOK'
    <3>1. object[c] = "none" /\ client[c] # "new"
      BY <2>3 DEF BacklogOK
    <3>2. ASSUME NEW i \in 1..Len(backlog')
          PROVE  object'[backlog'[i]] = "none" /\ client'[backlog'[i]] # "new"
      <4>1. i + 1 \in 1..Len(backlog) /\ backlog'[i] = backlog[i + 1] /\ 1 \in 1..Len(backlog)
        BY <2>3, <2>5
      <4>2. backlog[i + 1] # c /\ backlog[i + 1] \in Clients
        BY <2>3, <4>1, ElementOfSeq DEF ServerInv, TypeOK, BacklogOK
      <4>3. object[backlog[i + 1]] = "none" /\ client[backlog[i + 1]] # "new"
        BY <4>1 DEF BacklogOK
      <4>4. object'[backlog[i + 1]] = object[backlog[i + 1]] /\ client' = client
        BY <2>5, <4>2 DEF ServerInv, TypeOK
      <4> QED BY <4>1, <4>3, <4>4
    <3>3. ASSUME NEW i \in 1..Len(backlog'), NEW j \in 1..Len(backlog'),
                 backlog'[i] = backlog'[j]
          PROVE  i = j
      <4>1. /\ i + 1 \in 1..Len(backlog) /\ backlog'[i] = backlog[i + 1]
            /\ j + 1 \in 1..Len(backlog) /\ backlog'[j] = backlog[j + 1]
        BY <2>3, <2>5
      <4>2. backlog[i + 1] = backlog[j + 1]
        BY <3>3, <4>1
      <4> DEFINE m == i + 1
                 n == j + 1
      <4>3. m \in 1..Len(backlog) /\ n \in 1..Len(backlog) /\ backlog[m] = backlog[n]
        BY <4>1, <4>2
      <4>4. i \in Nat /\ j \in Nat
        OBVIOUS
      <4> HIDE DEF m, n
      <4>5. m = n
        BY <4>3 DEF BacklogOK
      <4> QED BY <4>4, <4>5 DEF m, n
    <3>4. \A d \in Clients : client'[d] = "new" => object'[d] = "none"
      BY <2>5, <3>1 DEF ServerInv, TypeOK, BacklogOK
    <3> QED BY <3>2, <3>3, <3>4 DEF BacklogOK
  <2> QED BY <2>6, <2>7, <2>9, <2>10, <2>11, <2>12
<1>7. ASSUME NEW fd \in Fds, MessageBegins(fd) PROVE OwnerInv'
  <2>1. IoKeepsConnections'
    BY <1>7 DEF FdsAgree, IoKeepsConnections, MessageBegins, Free
  <2>2. ready' \subseteq ready
    BY <1>7 DEF MessageBegins, HandleSource
  <2>3. FdsAgree' /\ DescriptorsOK' /\ TasksKeepConnections' /\ ReadyOK' /\ BacklogOK'
    BY <1>7, <2>2 DEF FdsAgree, DescriptorsOK, TasksKeepConnections, ReadyOK, BacklogOK,
                      MessageBegins
  <2> QED BY <2>1, <2>3
<1>8. ASSUME NEW fd \in Fds, HandleClose(fd) PROVE OwnerInv'
  <2>1. /\ conns' = [conns EXCEPT ![fd] = None]
        /\ watched' = watched \ {fd}
        /\ UNCHANGED <<tasks, working, receiving, adding, backlog, client>>
        /\ ready' = ready \ {fd}
        /\ Reclaim
    BY <1>8 DEF HandleClose, HandleSource
  <2>2. \A f \in Fds : conns'[f] = IF f = fd THEN None ELSE conns[f]
    BY <2>1 DEF ServerInv, TypeOK, Keys
  <2>3. FdsAgree' /\ DescriptorsOK' /\ TasksKeepConnections' /\ IoKeepsConnections' /\ BacklogOK'
    <3>1. \A f \in Fds : /\ conns'[f] # None <=> f \in watched'
                         /\ conns'[f] # None => /\ fdOf[f] = conns'[f]
                                                /\ object[conns'[f]] = "live"
      BY <2>1, <2>2 DEF FdsAgree
    <3>2. /\ \A i \in 1..Len(tasks') : object[Connection(tasks'[i])] = "live"
          /\ \A w \in Workers : working'[w] # None => object[Connection(working'[w])] = "live"
      BY <2>1 DEF TasksKeepConnections
    <3>3. /\ receiving' # None => object[receiving'] = "live"
          /\ adding' # None => object[Connection(adding')] = "live"
      BY <2>1 DEF IoKeepsConnections
    <3> QED BY <2>1, <3>1, <3>2, <3>3, ReclaimKeepsOwners DEF ServerInv
  <2>4. ReadyOK'
    BY <2>1, <2>2 DEF ReadyOK
  <2> QED BY <2>3, <2>4
<1>9. CASE MessageReceived
  <2>1. object[receiving] = "live" /\ Connection(adding') = receiving
    BY <1>9 DEF IoKeepsConnections, MessageReceived, Connection
  <2>2. IoKeepsConnections'
    BY <1>9, <2>1 DEF IoKeepsConnections, MessageReceived
  <2>3. FdsAgree' /\ DescriptorsOK' /\ TasksKeepConnections' /\ ReadyOK' /\ BacklogOK'
    BY <1>9 DEF FdsAgree, DescriptorsOK, TasksKeepConnections, ReadyOK, BacklogOK,
                MessageReceived
  <2> QED BY <2>2, <2>3
<1>10. CASE AddTask
  <2>1. adding \in Lines /\ tasks \in Seq(Lines) /\ tasks' = Append(tasks, adding)
    BY <1>10 DEF ServerInv, TypeOK, AddTask
  <2>2. /\ Len(tasks') = Len(tasks) + 1 /\ Len(tasks) \in Nat
        /\ \A i \in 1..Len(tasks) : tasks'[i] = tasks[i]
        /\ tasks'[Len(tasks) + 1] = adding
    BY <2>1, AppendProperties
  <2>3. object[Connection(adding)] = "live" /\ object' = object /\ working' = working
    BY <1>10 DEF IoKeepsConnections, AddTask
  <2>4. TasksKeepConnections'
    BY <2>2, <2>3 DEF TasksKeepConnections
  <2>5. FdsAgree' /\ DescriptorsOK' /\ IoKeepsConnections' /\ ReadyOK' /\ BacklogOK'
    BY <1>10 DEF FdsAgree, DescriptorsOK, IoKeepsConnections, ReadyOK, BacklogOK, AddTask
  <2> QED BY <2>4, <2>5
<1>11. ASSUME NEW w \in Workers, TakeTask(w) PROVE OwnerInv'
  <2>1. tasks \in Seq(Lines) /\ tasks # <<>> /\ tasks' = Tail(tasks)
    BY <1>11 DEF ServerInv, TypeOK, TakeTask
  <2>2. /\ Len(tasks) \in Nat \ {0} /\ Head(tasks) = tasks[1]
        /\ Len(tasks') = Len(tasks) - 1
        /\ \A i \in 1..Len(tasks') : tasks'[i] = tasks[i + 1]
    BY <2>1, HeadTailProperties
  <2>3. /\ object' = object
        /\ \A v \in Workers : working'[v] = IF v = w THEN Head(tasks) ELSE working[v]
    BY <1>11 DEF ServerInv, TypeOK, TakeTask
  <2>4. TasksKeepConnections'
    <3>1. \A i \in 1..Len(tasks') : object[Connection(tasks'[i])] = "live"
      <4>1. \A i \in 1..Len(tasks') : i + 1 \in 1..Len(tasks)
        BY <2>2
      <4> QED BY <2>2, <4>1 DEF TasksKeepConnections
    <3>2. object[Connection(Head(tasks))] = "live"
      <4>1. 1 \in 1..Len(tasks)
        BY <2>2
      <4> QED BY <2>2, <4>1 DEF TasksKeepConnections
    <3> QED BY <2>3, <3>1, <3>2 DEF TasksKeepConnections
  <2>5. FdsAgree' /\ DescriptorsOK' /\ IoKeepsConnections' /\ ReadyOK' /\ BacklogOK'
    BY <1>11 DEF FdsAgree, DescriptorsOK, IoKeepsConnections, ReadyOK, BacklogOK, TakeTask
  <2> QED BY <2>4, <2>5
<1>12. ASSUME NEW w \in Workers, Process(w) \/ Notify(w) PROVE OwnerInv'
  BY <1>12 DEF FdsAgree, DescriptorsOK, TasksKeepConnections, IoKeepsConnections, ReadyOK,
               BacklogOK, Process, Notify, PostAppend, PostWakeup
<1>13. ASSUME NEW w \in Workers, DropTask(w) PROVE OwnerInv'
  <2>1. /\ UNCHANGED <<conns, watched, tasks, receiving, adding, backlog, client, ready>>
        /\ working' = [working EXCEPT ![w] = None]
        /\ Reclaim
    BY <1>13 DEF DropTask
  <2>2. \A v \in Workers : working'[v] # None => working'[v] = working[v]
    BY <2>1 DEF ServerInv, TypeOK
  <2>3. FdsAgree' /\ DescriptorsOK' /\ TasksKeepConnections' /\ IoKeepsConnections' /\ BacklogOK'
    <3>1. \A f \in Fds : /\ conns'[f] # None <=> f \in watched'
                         /\ conns'[f] # None => /\ fdOf[f] = conns'[f]
                                                /\ object[conns'[f]] = "live"
      BY <2>1 DEF FdsAgree
    <3>2. /\ \A i \in 1..Len(tasks') : object[Connection(tasks'[i])] = "live"
          /\ \A v \in Workers : working'[v] # None => object[Connection(working'[v])] = "live"
      BY <2>1, <2>2 DEF TasksKeepConnections
    <3>3. /\ receiving' # None => object[receiving'] = "live"
          /\ adding' # None => object[Connection(adding')] = "live"
      BY <2>1 DEF IoKeepsConnections
    <3> QED BY <2>1, <3>1, <3>2, <3>3, ReclaimKeepsOwners DEF ServerInv
  <2>4. ReadyOK'
    BY <2>1 DEF ReadyOK
  <2> QED BY <2>3, <2>4
<1>14. CASE UNCHANGED vars
  BY <1>14 DEF vars, FdsAgree, DescriptorsOK, TasksKeepConnections, IoKeepsConnections,
               ReadyOK, BacklogOK
<1> QED
  BY <1>1, <1>2, <1>3, <1>4, <1>5, <1>6, <1>7, <1>8, <1>9, <1>10, <1>11, <1>12, <1>13,
     <1>14, <1>15 DEF Next, Handler, Worker, Client

\* Ownership in every reachable state: the loop's table, the epoll set and the
\* kernel agree, a descriptor is open exactly as long as its connection lives, no
\* event is handled for a connection closed meanwhile, and the shared pointers in
\* the tasks keep their connections alive.
THEOREM ConnectionsAreOwned ==
    Spec => [](TableOK /\ DescriptorsOK /\ EventsAreFresh /\ TasksKeepConnections)
<1>1. Init => ServerInv /\ OwnerInv
  BY ServerInitInv, OwnerInitInv
<1>2. Spec => []LoopTypeOK
  BY EchoUsesLoop, LoopSafe, PTL
<1>3. ServerInv /\ LoopTypeOK' /\ [Next]_vars => ServerInv'
  BY ServerNextInv
<1>4. ServerInv /\ ServerInv' /\ OwnerInv /\ [Next]_vars => OwnerInv'
  BY OwnerNextInv
<1>5. ServerInv /\ OwnerInv
        => TableOK /\ DescriptorsOK /\ EventsAreFresh /\ TasksKeepConnections
  BY TableIs DEF ServerInv, OwnerInv, ReadyOK, EventsAreFresh
<1> QED BY <1>1, <1>2, <1>3, <1>4, <1>5, PTL DEF Spec

\* The table, the epoll set and the kernel agree, also when the descriptors have
\* run out: the only entry that is neither watched nor alive stands under -1.
COROLLARY ConnectionTableAgrees == Spec => []TableOK
BY ConnectionsAreOwned, PTL

\* No event is handled for a connection that was closed earlier in the round.
COROLLARY RoundEventsAreFresh == Spec => []EventsAreFresh
BY ConnectionsAreOwned, PTL

----------------------------------------------------------------------------
\* The way of a line

\* Where a line is once the IO thread has read it: in addTask, in the task
\* queue, with a worker that has not answered it yet, or in the mailbox's history.
Way(l) ==
    (IF adding = l THEN {<<"adding", l>>} ELSE {})
    \cup {<<"task", i>> : i \in {j \in 1..Len(tasks) : tasks[j] = l}}
    \cup {<<"worker", w>> : w \in {v \in Workers : working[v] = l /\ ~processed[v]}}
    \cup {<<"posted", i>> : i \in {j \in 1..Len(posted) : posted[j] = l}}

\* A line that has been read is in one place, another one is nowhere.
OnItsWay ==
    \A l \in Lines :
        IF l[2] <= received[l[1]] THEN \E x : Way(l) = {x} ELSE Way(l) = {}

ReadAfterSent == \A c \in Clients : received[c] <= sent[c]
OneHandler == receiving # None => adding = None
IdleWorkers == \A w \in Workers : working[w] = None => ~processed[w]

WayInv == ReadAfterSent /\ OneHandler /\ IdleWorkers /\ OnItsWay

\* A line in some place has been read, and is nowhere else.
LEMMA OnlyWay ==
    ASSUME OnItsWay, NEW l \in Lines, NEW x \in Way(l)
    PROVE  l[2] <= received[l[1]] /\ Way(l) = {x}
BY DEF OnItsWay

\* A step that touches none of the places moves no line.
LEMMA WayStays ==
    ASSUME WayInv, UNCHANGED <<adding, tasks, working, processed, posted, received>>,
           ReadAfterSent', OneHandler'
    PROVE  WayInv'
<1>1. \A l \in Lines : Way(l)' = Way(l)
  BY DEF Way
<1> QED BY <1>1 DEF WayInv, IdleWorkers, OnItsWay

\* readline: the next line of a connection, which was nowhere, becomes a task.
LEMMA ReceiveMoves ==
    ASSUME ServerInv, WayInv, MessageReceived
    PROVE  WayInv'
<1> USE EchoAssumption
<1> DEFINE c == receiving
<1> DEFINE l == <<c, received[c] + 1>>
<1>0. TypeOK /\ c \in Clients /\ received[c] \in Nat /\ sent[c] \in Nat
  BY DEF ServerInv, TypeOK, MessageReceived
<1>1. l \in Lines /\ l # None
  BY <1>0, NextLineExists, LoopAssumption DEF MessageReceived, ServerInv, Lines, None
<1>2. /\ received[c] < sent[c]
      /\ received' = [received EXCEPT ![c] = @ + 1]
      /\ received'[c] = received[c] + 1
      /\ adding' = l /\ receiving' = None /\ adding = None
      /\ UNCHANGED <<tasks, working, processed, posted, sent>>
  <2>1. received' = [received EXCEPT ![c] = @ + 1]
    BY DEF MessageReceived
  <2>2. received'[c] = received[c] + 1
    BY <1>0, <2>1 DEF TypeOK
  <2>3. adding' = l /\ receiving' = None /\ adding = None
    BY <2>2 DEF MessageReceived, WayInv, OneHandler
  <2> QED BY <2>1, <2>2, <2>3 DEF MessageReceived, eventVars, mailboxVars, poolVars, clientVars
<1>3. ReadAfterSent'
  BY <1>0, <1>2 DEF WayInv, ReadAfterSent, TypeOK
<1>4. OneHandler' /\ IdleWorkers'
  BY <1>2 DEF OneHandler, IdleWorkers, WayInv
<1>5. l[1] = c /\ l[2] = received[c] + 1
  OBVIOUS
<1> HIDE DEF l
<1>6. Way(l) = {}
  BY <1>0, <1>1, <1>5 DEF WayInv, OnItsWay
<1>7. ASSUME NEW k, k = l PROVE Way(k)' = {<<"adding", k>>}
  <2>1. Way(k)' = Way(k) \cup {<<"adding", k>>}
    BY <1>2, <1>7 DEF Way
  <2> QED BY <1>6, <1>7, <2>1
<1>8. ASSUME NEW k \in Lines, k # l
      PROVE  Way(k)' = Way(k) /\ (k[2] <= received'[k[1]] <=> k[2] <= received[k[1]])
  <2>1. k # None
    BY LoopAssumption DEF Lines, None
  <2>2. Way(k)' = Way(k)
    BY <1>2, <1>8, <2>1 DEF Way
  <2>3. k = <<k[1], k[2]>> /\ k[1] \in Clients /\ k[2] \in Nat
    OBVIOUS
  <2>4. k[1] # c \/ k[2] # received[c] + 1
    BY <1>8, <2>3 DEF l
  <2>5. CASE k[1] = c
    <3>1. received'[k[1]] = received[c] + 1 /\ received[k[1]] = received[c]
      BY <1>2, <2>5
    <3> QED BY <1>0, <2>2, <2>3, <2>4, <2>5, <3>1
  <2>6. CASE k[1] # c
    <3>1. received'[k[1]] = received[k[1]]
      BY <1>0, <1>2, <2>3, <2>6 DEF TypeOK
    <3> QED BY <2>2, <3>1
  <2> QED BY <2>5, <2>6
<1>9. l[2] <= received'[l[1]]
  BY <1>0, <1>2, <1>5
<1>10. OnItsWay'
  <2> SUFFICES ASSUME NEW k \in Lines
               PROVE  IF k[2] <= received'[k[1]] THEN \E x : Way(k)' = {x} ELSE Way(k)' = {}
    BY DEF OnItsWay
  <2>1. CASE k = l
    BY <1>7, <1>9, <2>1
  <2>2. CASE k # l
    BY <1>8, <2>2 DEF WayInv, OnItsWay
  <2> QED BY <2>1, <2>2
<1> QED BY <1>3, <1>4, <1>10 DEF WayInv

\* addTask: from the IO thread to the end of the task queue.
LEMMA AddMoves ==
    ASSUME ServerInv, WayInv, AddTask
    PROVE  WayInv'
<1> USE EchoAssumption
<1> DEFINE l == adding
<1> DEFINE n == Len(tasks) + 1
<1>0. TypeOK /\ l \in Lines /\ Len(tasks) \in Nat /\ None \notin Lines
  BY LenProperties, LoopAssumption DEF ServerInv, TypeOK, AddTask, Lines, None
<1>1. /\ Len(tasks') = n /\ tasks'[n] = l
      /\ \A i \in 1..Len(tasks) : tasks'[i] = tasks[i]
  BY <1>0, AppendProperties DEF AddTask, TypeOK
<1>2. adding' = None /\ UNCHANGED <<receiving, working, processed, posted, received, sent>>
  BY DEF AddTask, eventVars, mailboxVars, clientVars, wireVars
<1>3. ReadAfterSent' /\ OneHandler' /\ IdleWorkers'
  BY <1>2 DEF WayInv, ReadAfterSent, OneHandler, IdleWorkers
<1>4. l[2] <= received[l[1]] /\ Way(l) = {<<"adding", l>>}
  <2>1. <<"adding", l>> \in Way(l)
    BY DEF Way
  <2> QED BY <1>0, <2>1, OnlyWay DEF WayInv
<1>5. ASSUME NEW k, k = l PROVE Way(k)' = {<<"task", n>>}
  <2>1. \A j \in 1..Len(tasks) : tasks[j] # k
    <3> SUFFICES ASSUME NEW j \in 1..Len(tasks), tasks[j] = k PROVE FALSE
      OBVIOUS
    <3>1. <<"task", j>> \in Way(k)
      BY DEF Way
    <3> QED BY <1>4, <1>5, <3>1
  <2>2. {j \in 1..Len(tasks') : tasks'[j] = k} = {n}
    BY <1>0, <1>1, <1>5, <2>1
  <2>3. {v \in Workers : working[v] = k /\ ~processed[v]} = {}
    <3> SUFFICES ASSUME NEW v \in Workers, working[v] = k, ~processed[v] PROVE FALSE
      OBVIOUS
    <3>1. <<"worker", v>> \in Way(k)
      BY DEF Way
    <3> QED BY <1>4, <1>5, <3>1
  <2>4. {j \in 1..Len(posted) : posted[j] = k} = {}
    <3> SUFFICES ASSUME NEW j \in 1..Len(posted), posted[j] = k PROVE FALSE
      OBVIOUS
    <3>1. <<"posted", j>> \in Way(k)
      BY DEF Way
    <3> QED BY <1>4, <1>5, <3>1
  <2>5. adding' # k
    BY <1>0, <1>2, <1>5
  <2> HIDE DEF n
  <2> QED BY <1>2, <2>2, <2>3, <2>4, <2>5 DEF Way
<1>6. ASSUME NEW k \in Lines, k # l PROVE Way(k)' = Way(k)
  <2>1. {j \in 1..Len(tasks') : tasks'[j] = k} = {j \in 1..Len(tasks) : tasks[j] = k}
    BY <1>0, <1>1, <1>6
  <2>2. adding # k /\ adding' # k
    BY <1>0, <1>2, <1>6
  <2> QED BY <1>2, <2>1, <2>2 DEF Way
<1> HIDE DEF l, n
<1>7. OnItsWay'
  <2> SUFFICES ASSUME NEW k \in Lines
               PROVE  IF k[2] <= received'[k[1]] THEN \E x : Way(k)' = {x} ELSE Way(k)' = {}
    BY DEF OnItsWay
  <2>1. CASE k = l
    BY <1>2, <1>4, <1>5, <2>1
  <2>2. CASE k # l
    BY <1>2, <1>6, <2>2 DEF WayInv, OnItsWay
  <2> QED BY <2>1, <2>2
<1> QED BY <1>3, <1>7 DEF WayInv

\* pop: from the head of the task queue to a worker.
LEMMA TakeMoves ==
    ASSUME ServerInv, WayInv, NEW w \in Workers, TakeTask(w)
    PROVE  WayInv'
<1> USE EchoAssumption
<1> DEFINE l == Head(tasks)
<1>0. /\ TypeOK /\ None \notin Lines
      /\ tasks # <<>> /\ tasks \in Seq(Lines) /\ Len(tasks) \in Nat /\ Len(tasks) >= 1
  <2>1. TypeOK /\ tasks \in Seq(Lines) /\ tasks # <<>>
    BY DEF ServerInv, TypeOK, TakeTask
  <2>2. Len(tasks) \in Nat /\ Len(tasks) # 0
    BY <2>1, LenProperties, EmptySeq
  <2>3. None \notin Lines
    BY LoopAssumption DEF Lines, None
  <2> QED BY <2>1, <2>2, <2>3
<1>1. /\ l \in Lines /\ l = tasks[1]
      /\ Len(tasks') = Len(tasks) - 1
      /\ \A i \in 1..Len(tasks') : tasks'[i] = tasks[i + 1]
  BY <1>0, HeadTailProperties DEF TakeTask
<1>2. /\ UNCHANGED <<receiving, adding, processed, posted, received, sent>>
      /\ working' = [working EXCEPT ![w] = l]
      /\ working[w] = None /\ ~processed[w]
  BY DEF TakeTask, eventVars, mailboxVars, ioVars, clientVars, wireVars, WayInv, IdleWorkers
<1>3. ReadAfterSent' /\ OneHandler' /\ IdleWorkers'
  BY <1>0, <1>2 DEF WayInv, ReadAfterSent, OneHandler, IdleWorkers, TypeOK
<1>4. l[2] <= received[l[1]] /\ Way(l) = {<<"task", 1>>}
  <2>1. <<"task", 1>> \in Way(l)
    BY <1>0, <1>1 DEF Way
  <2> QED BY <1>1, <2>1, OnlyWay DEF WayInv
<1>5. ASSUME NEW k, k = l PROVE Way(k)' = {<<"worker", w>>}
  <2>1. adding # k
    <3> SUFFICES ASSUME adding = k PROVE FALSE
      OBVIOUS
    <3>1. <<"adding", k>> \in Way(k)
      BY DEF Way
    <3> QED BY <1>4, <1>5, <3>1
  <2>2. {j \in 1..Len(tasks') : tasks'[j] = k} = {}
    <3> SUFFICES ASSUME NEW j \in 1..Len(tasks'), tasks'[j] = k PROVE FALSE
      OBVIOUS
    <3>1. j + 1 \in 1..Len(tasks) /\ tasks[j + 1] = k /\ j + 1 # 1
      BY <1>0, <1>1
    <3>2. <<"task", j + 1>> \in Way(k)
      BY <3>1 DEF Way
    <3> QED BY <1>4, <1>5, <3>1, <3>2
  <2>3. \A v \in Workers : ~(working[v] = k /\ ~processed[v])
    <3> SUFFICES ASSUME NEW v \in Workers, working[v] = k, ~processed[v] PROVE FALSE
      OBVIOUS
    <3>1. <<"worker", v>> \in Way(k)
      BY DEF Way
    <3> QED BY <1>4, <1>5, <3>1
  <2>4. {v \in Workers : working'[v] = k /\ ~processed'[v]} = {w}
    <3>1. w \in Workers /\ working'[w] = k /\ ~processed'[w]
      BY <1>0, <1>2, <1>5 DEF TypeOK
    <3>2. \A v \in Workers : v # w => working'[v] = working[v] /\ processed'[v] = processed[v]
      BY <1>2 DEF TypeOK
    <3> QED BY ONLY <2>3, <3>1, <3>2
  <2>5. {j \in 1..Len(posted) : posted[j] = k} = {}
    <3> SUFFICES ASSUME NEW j \in 1..Len(posted), posted[j] = k PROVE FALSE
      OBVIOUS
    <3>1. <<"posted", j>> \in Way(k)
      BY DEF Way
    <3> QED BY <1>4, <1>5, <3>1
  <2> QED BY <1>2, <2>1, <2>2, <2>4, <2>5 DEF Way
<1>6. ASSUME NEW k \in Lines, k # l
      PROVE  {v \in Workers : working'[v] = k /\ ~processed'[v]}
               = {v \in Workers : working[v] = k /\ ~processed[v]}
  BY <1>0, <1>2, <1>6 DEF TypeOK
<1>7. ASSUME NEW k \in Lines, k # l, \A i \in 1..Len(tasks) : tasks[i] # k
      PROVE  Way(k)' = Way(k)
  <2>1. {j \in 1..Len(tasks') : tasks'[j] = k} = {j \in 1..Len(tasks) : tasks[j] = k}
    <3>1. ASSUME NEW j \in 1..Len(tasks') PROVE tasks'[j] # k
      <4>1. j + 1 \in 1..Len(tasks) /\ tasks'[j] = tasks[j + 1]
        BY <1>0, <1>1
      <4> QED BY <1>7, <4>1
    <3> QED BY <1>7, <3>1
  <2> QED BY <1>2, <1>6, <1>7, <2>1 DEF Way
<1>8. ASSUME NEW k \in Lines, k # l, NEW i \in 1..Len(tasks), tasks[i] = k
      PROVE  k[2] <= received[k[1]] /\ Way(k)' = {<<"task", i - 1>>}
  <2>1. k[2] <= received[k[1]] /\ Way(k) = {<<"task", i>>}
    <3>1. <<"task", i>> \in Way(k)
      BY <1>8 DEF Way
    <3> QED BY <3>1, OnlyWay DEF WayInv
  <2>2. adding # k
    <3> SUFFICES ASSUME adding = k PROVE FALSE
      OBVIOUS
    <3>1. <<"adding", k>> \in Way(k)
      BY DEF Way
    <3> QED BY <2>1, <3>1
  <2>3. {v \in Workers : working[v] = k /\ ~processed[v]} = {}
    <3> SUFFICES ASSUME NEW v \in Workers, working[v] = k, ~processed[v] PROVE FALSE
      OBVIOUS
    <3>1. <<"worker", v>> \in Way(k)
      BY DEF Way
    <3> QED BY <2>1, <3>1
  <2>4. {j \in 1..Len(posted) : posted[j] = k} = {}
    <3> SUFFICES ASSUME NEW j \in 1..Len(posted), posted[j] = k PROVE FALSE
      OBVIOUS
    <3>1. <<"posted", j>> \in Way(k)
      BY DEF Way
    <3> QED BY <2>1, <3>1
  <2>5. \A j \in 1..Len(tasks) : tasks[j] = k => j = i
    <3> SUFFICES ASSUME NEW j \in 1..Len(tasks), tasks[j] = k PROVE j = i
      OBVIOUS
    <3>1. <<"task", j>> \in Way(k)
      BY DEF Way
    <3> QED BY <2>1, <3>1
  <2>6. i \in Nat /\ i # 1 /\ i <= Len(tasks) /\ i >= 1
    BY <1>0, <1>1, <1>8
  <2>7. i - 1 \in 1..Len(tasks') /\ tasks'[i - 1] = k
    <3>1. i - 1 \in 1..Len(tasks')
      BY <1>0, <1>1, <2>6
    <3>2. tasks'[i - 1] = tasks[(i - 1) + 1] /\ (i - 1) + 1 = i
      BY <1>1, <2>6, <3>1
    <3> QED BY <1>8, <3>1, <3>2
  <2>8. \A j \in 1..Len(tasks') : tasks'[j] = k => j = i - 1
    BY <1>0, <1>1, <2>5, <2>6
  <2>9. {j \in 1..Len(tasks') : tasks'[j] = k} = {i - 1}
    BY <2>7, <2>8
  <2>10. {v \in Workers : working'[v] = k /\ ~processed'[v]} = {}
    BY <1>6, <1>8, <2>3
  <2>11. Way(k)' = {<<"task", i - 1>>}
    BY <1>2, <2>2, <2>4, <2>9, <2>10 DEF Way
  <2> QED BY <2>1, <2>11
<1> HIDE DEF l
<1>9. OnItsWay'
  <2> SUFFICES ASSUME NEW k \in Lines
               PROVE  IF k[2] <= received'[k[1]] THEN \E x : Way(k)' = {x} ELSE Way(k)' = {}
    BY DEF OnItsWay
  <2>1. CASE k = l
    BY <1>2, <1>4, <1>5, <2>1
  <2>2. CASE k # l /\ \A i \in 1..Len(tasks) : tasks[i] # k
    BY <1>2, <1>7, <2>2 DEF WayInv, OnItsWay
  <2>3. CASE k # l /\ \E i \in 1..Len(tasks) : tasks[i] = k
    BY <1>2, <1>8, <2>3
  <2> QED BY <2>1, <2>2, <2>3
<1> QED BY <1>3, <1>9 DEF WayInv

\* Mytask::process: from the worker to the end of the mailbox.
LEMMA ProcessMoves ==
    ASSUME ServerInv, WayInv, NEW w \in Workers, Process(w)
    PROVE  WayInv'
<1> USE EchoAssumption
<1> DEFINE l == working[w]
<1> DEFINE n == Len(posted) + 1
<1>0. /\ TypeOK /\ l \in Lines /\ l # None /\ ~processed[w]
      /\ posted \in Seq(Lines) /\ Len(posted) \in Nat
  BY LenProperties DEF ServerInv, TypeOK, LoopTypeOK, Process, Lines
<1>1. /\ Len(posted') = n /\ posted'[n] = l
      /\ \A i \in 1..Len(posted) : posted'[i] = posted[i]
  BY <1>0, AppendProperties DEF Process, PostAppend
<1>2. /\ UNCHANGED <<receiving, adding, tasks, working, received, sent>>
      /\ processed' = [processed EXCEPT ![w] = TRUE]
  BY DEF Process, ioVars, clientVars, wireVars
<1>3. ReadAfterSent' /\ OneHandler' /\ IdleWorkers'
  BY <1>0, <1>2 DEF WayInv, ReadAfterSent, OneHandler, IdleWorkers, TypeOK
<1>4. l[2] <= received[l[1]] /\ Way(l) = {<<"worker", w>>}
  <2>1. <<"worker", w>> \in Way(l)
    BY <1>0 DEF Way
  <2> QED BY <1>0, <2>1, OnlyWay DEF WayInv
<1>5. ASSUME NEW k, k = l PROVE Way(k)' = {<<"posted", n>>}
  <2>1. adding # k
    <3> SUFFICES ASSUME adding = k PROVE FALSE
      OBVIOUS
    <3>1. <<"adding", k>> \in Way(k)
      BY DEF Way
    <3> QED BY <1>4, <1>5, <3>1
  <2>2. {j \in 1..Len(tasks) : tasks[j] = k} = {}
    <3> SUFFICES ASSUME NEW j \in 1..Len(tasks), tasks[j] = k PROVE FALSE
      OBVIOUS
    <3>1. <<"task", j>> \in Way(k)
      BY DEF Way
    <3> QED BY <1>4, <1>5, <3>1
  <2>3. {v \in Workers : working'[v] = k /\ ~processed'[v]} = {}
    <3> SUFFICES ASSUME NEW v \in Workers, working'[v] = k, ~processed'[v] PROVE FALSE
      OBVIOUS
    <3>1. v # w /\ working[v] = k /\ ~processed[v]
      BY <1>0, <1>2 DEF TypeOK
    <3>2. <<"worker", v>> \in Way(k)
      BY <3>1 DEF Way
    <3> QED BY <1>4, <1>5, <3>1, <3>2
  <2>4. \A j \in 1..Len(posted) : posted[j] # k
    <3> SUFFICES ASSUME NEW j \in 1..Len(posted), posted[j] = k PROVE FALSE
      OBVIOUS
    <3>1. <<"posted", j>> \in Way(k)
      BY DEF Way
    <3> QED BY <1>4, <1>5, <3>1
  <2>5. {j \in 1..Len(posted') : posted'[j] = k} = {n}
    <3>1. ASSUME NEW j \in 1..Len(posted'), posted'[j] = k PROVE j = n
      <4>1. j \in 1..Len(posted) \/ j = n
        BY <1>0, <1>1
      <4> QED BY <1>1, <2>4, <3>1, <4>1
    <3>2. n \in 1..Len(posted') /\ posted'[n] = k
      BY <1>0, <1>1, <1>5
    <3> QED BY <3>1, <3>2
  <2> HIDE DEF n
  <2> QED BY <1>2, <2>1, <2>2, <2>3, <2>5 DEF Way
<1>6. ASSUME NEW k \in Lines, k # l PROVE Way(k)' = Way(k)
  <2>1. {j \in 1..Len(posted') : posted'[j] = k} = {j \in 1..Len(posted) : posted[j] = k}
    BY <1>0, <1>1, <1>6
  <2>2. {v \in Workers : working'[v] = k /\ ~processed'[v]}
          = {v \in Workers : working[v] = k /\ ~processed[v]}
    BY <1>0, <1>2, <1>6 DEF TypeOK
  <2> QED BY <1>2, <2>1, <2>2 DEF Way
<1> HIDE DEF l, n
<1>7. OnItsWay'
  <2> SUFFICES ASSUME NEW k \in Lines
               PROVE  IF k[2] <= received'[k[1]] THEN \E x : Way(k)' = {x} ELSE Way(k)' = {}
    BY DEF OnItsWay
  <2>1. CASE k = l
    BY <1>2, <1>4, <1>5, <2>1
  <2>2. CASE k # l
    BY <1>2, <1>6, <2>2 DEF WayInv, OnItsWay
  <2> QED BY <2>1, <2>2
<1> QED BY <1>3, <1>7 DEF WayInv

\* The task object goes: its line has been posted.
LEMMA DropMoves ==
    ASSUME ServerInv, WayInv, NEW w \in Workers, DropTask(w)
    PROVE  WayInv'
<1> USE EchoAssumption
<1>1. /\ TypeOK /\ processed[w] /\ None \notin Lines
      /\ UNCHANGED <<receiving, adding, tasks, posted, received, sent>>
      /\ working' = [working EXCEPT ![w] = None]
      /\ processed' = [processed EXCEPT ![w] = FALSE]
  BY LoopAssumption DEF DropTask, ServerInv, eventVars, mailboxVars, ioVars, clientVars,
     wireVars, Lines, None
<1>2. ReadAfterSent' /\ OneHandler' /\ IdleWorkers'
  BY <1>1 DEF WayInv, ReadAfterSent, OneHandler, IdleWorkers, TypeOK
<1>3. ASSUME NEW k \in Lines PROVE Way(k)' = Way(k)
  <2>1. {v \in Workers : working'[v] = k /\ ~processed'[v]}
          = {v \in Workers : working[v] = k /\ ~processed[v]}
    BY <1>1 DEF TypeOK
  <2> QED BY <1>1, <2>1 DEF Way
<1> QED BY <1>1, <1>2, <1>3 DEF WayInv, OnItsWay

\* Every step leaves each line in its place or moves it to the next.
LEMMA WayNext == ServerInv /\ WayInv /\ [Next]_vars => WayInv'
<1> SUFFICES ASSUME ServerInv, WayInv, [Next]_vars PROVE WayInv'
  OBVIOUS
<1> USE EchoAssumption DEF eventVars, mailboxVars, loopVars, tableVars, ioVars, poolVars,
        objectVars, clientVars, wireVars
<1>0. TypeOK
  BY DEF ServerInv
<1>1. ASSUME NEW c \in Clients, Client(c) PROVE WayInv'
  <2>1. UNCHANGED <<adding, tasks, working, processed, posted, received, receiving>>
    <3>1. CASE Connect(c)
      BY <3>1 DEF Connect
    <3>2. CASE SendLine(c)
      BY <3>2 DEF SendLine
    <3>3. CASE SendPart(c)
      BY <3>3 DEF SendPart
    <3>4. CASE Read(c) \/ CloseClient(c)
      BY <3>4 DEF Read, CloseClient
    <3> QED BY <1>1, <3>1, <3>2, <3>3, <3>4 DEF Client
  <2>2. ReadAfterSent'
    <3>1. CASE SendLine(c)
      BY <1>0, <2>1, <3>1 DEF SendLine, WayInv, ReadAfterSent, TypeOK
    <3>2. CASE Connect(c) \/ SendPart(c) \/ Read(c) \/ CloseClient(c)
      BY <2>1, <3>2 DEF Connect, SendPart, Read, CloseClient, WayInv, ReadAfterSent
    <3> QED BY <1>1, <3>1, <3>2 DEF Client
  <2>3. OneHandler'
    BY <2>1 DEF WayInv, OneHandler
  <2> QED BY <2>1, <2>2, <2>3, WayStays
<1>2. ASSUME \/ EpollWait \/ LoopStep \/ Accept \/ AcceptFails \/ SendAnswer \/ SendDangling
             \/ \E fd \in Fds : HandleClose(fd)
             \/ \E w \in Workers : Notify(w)
             \/ UNCHANGED vars
      PROVE  WayInv'
  <2>1. UNCHANGED <<adding, tasks, working, processed, received, sent, receiving>>
    BY <1>2 DEF EpollWait, LoopStep, Accept, AcceptFails, SendAnswer, SendDangling,
          HandleClose, Notify, vars
  <2>2. posted' = posted
    BY <1>2 DEF EpollWait, EpollReturns, LoopStep, EpollTimesOut, LoopEnter, LoopTest,
          HandleReadEvent, SwapPending, RunReturns, DispatchDone, Accept, AcceptFails,
          HandleSource, SendAnswer, SendDangling, RunFunctor, HandleClose, Notify,
          PostWakeup, vars
  <2>3. ReadAfterSent' /\ OneHandler'
    BY <2>1 DEF WayInv, ReadAfterSent, OneHandler
  <2> QED BY <2>1, <2>2, <2>3, WayStays
<1>3. ASSUME NEW fd \in Fds, MessageBegins(fd) PROVE WayInv'
  <2>1. UNCHANGED <<adding, tasks, working, processed, posted, received, sent>>
    BY <1>3 DEF MessageBegins, HandleSource
  <2>2. ReadAfterSent' /\ OneHandler'
    BY <1>3, <2>1 DEF WayInv, ReadAfterSent, OneHandler, MessageBegins, Free
  <2> QED BY <2>1, <2>2, WayStays
<1>4. CASE MessageReceived
  BY <1>4, ReceiveMoves
<1>5. CASE AddTask
  BY <1>5, AddMoves
<1>6. ASSUME NEW w \in Workers, TakeTask(w) PROVE WayInv'
  BY <1>6, TakeMoves
<1>7. ASSUME NEW w \in Workers, Process(w) PROVE WayInv'
  BY <1>7, ProcessMoves
<1>8. ASSUME NEW w \in Workers, DropTask(w) PROVE WayInv'
  BY <1>8, DropMoves
<1> QED BY <1>1, <1>2, <1>3, <1>4, <1>5, <1>6, <1>7, <1>8 DEF Next, Handler, Worker

----------------------------------------------------------------------------
\* Answers

\* What reaches a client is what functors have sent.
RepliesRan ==
    \A c \in Clients : \A i \in 1..Len(replies[c]) :
        \E k \in 1..Len(ran) : ran[k] = replies[c][i]

\* As long as no functor ran without its object, answers are the client's own
\* and different from each other.
OwnAnswers ==
    dangling = {} => \A c \in Clients :
        /\ \A i \in 1..Len(replies[c]) : Connection(replies[c][i]) = c
        /\ \A i, j \in 1..Len(replies[c]) : replies[c][i] = replies[c][j] => i = j

\* A patient client that has closed has all its answers.
PatientAnswered == \A c \in Clients \ Hasty : client[c] = "closed" => AllAnswered(c)

\* The connection of a client that has not closed is in the table.
OpenInTable ==
    \A c \in Clients :
        object[c] = "live" /\ client[c] # "closed" => \E fd \in Fds : conns[fd] = c

\* Hence only connections whose client has closed die.
DeadIsClosed == \A c \in Clients : object[c] = "dead" => client[c] = "closed"

AnswerInv ==
    /\ RepliesRan /\ OwnAnswers /\ PatientAnswered
    /\ OpenInTable /\ DeadIsClosed /\ PatientNeverDangles

\* The functors that have run are the first that were posted, the next one to
\* run is the one posted after them.
LEMMA RanIsPosted ==
    ASSUME LoopTypeOK, MailboxFifo
    PROVE  /\ \A k \in 1..Len(ran) : k \in 1..Len(posted) /\ posted[k] = ran[k]
           /\ tmp # <<>> => /\ Len(ran) + 1 \in 1..Len(posted)
                            /\ posted[Len(ran) + 1] = Head(tmp)
<1>1. /\ ran \in Seq(Functors) /\ tmp \in Seq(Functors) /\ pending \in Seq(Functors)
      /\ Len(ran) \in Nat /\ Len(tmp) \in Nat /\ Len(pending) \in Nat
  BY LenProperties DEF LoopTypeOK
<1>2. /\ ran \o tmp \in Seq(Functors) /\ Len(ran \o tmp) = Len(ran) + Len(tmp)
      /\ \A k \in 1..(Len(ran) + Len(tmp)) :
            (ran \o tmp)[k] = IF k <= Len(ran) THEN ran[k] ELSE tmp[k - Len(ran)]
  BY <1>1, ConcatProperties
<1>3. /\ Len(posted) = Len(ran) + Len(tmp) + Len(pending)
      /\ \A k \in 1..(Len(ran) + Len(tmp)) : posted[k] = (ran \o tmp)[k]
  BY <1>1, <1>2, ConcatProperties DEF MailboxFifo
<1>4. ASSUME NEW k \in 1..Len(ran) PROVE k \in 1..Len(posted) /\ posted[k] = ran[k]
  BY <1>1, <1>2, <1>3
<1>5. ASSUME tmp # <<>>
      PROVE  Len(ran) + 1 \in 1..Len(posted) /\ posted[Len(ran) + 1] = Head(tmp)
  <2>1. Len(tmp) # 0 /\ Head(tmp) = tmp[1]
    BY <1>1, <1>5, EmptySeq, HeadTailProperties
  <2>2. Len(ran) + 1 \in 1..(Len(ran) + Len(tmp)) /\ (Len(ran) + 1) - Len(ran) = 1
    BY <1>1, <2>1
  <2>3. posted[Len(ran) + 1] = tmp[1]
    BY <1>1, <1>2, <1>3, <2>2
  <2> QED BY <1>1, <1>3, <2>1, <2>2, <2>3
<1> QED BY <1>4, <1>5

\* A posted line has been read, and was posted once.
LEMMA PostedOnce ==
    ASSUME LoopTypeOK, OnItsWay, NEW i \in 1..Len(posted)
    PROVE  /\ posted[i] \in Lines
           /\ posted[i][2] <= received[posted[i][1]]
           /\ \A j \in 1..Len(posted) : posted[j] = posted[i] => j = i
<1>1. posted[i] \in Lines
  BY ElementOfSeq DEF LoopTypeOK, Lines
<1>2. <<"posted", i>> \in Way(posted[i])
  BY DEF Way
<1>3. posted[i][2] <= received[posted[i][1]] /\ Way(posted[i]) = {<<"posted", i>>}
  BY <1>1, <1>2, OnlyWay
<1>4. ASSUME NEW j \in 1..Len(posted), posted[j] = posted[i] PROVE j = i
  <2>1. <<"posted", j>> \in Way(posted[i])
    BY <1>4 DEF Way
  <2> QED BY <1>3, <2>1
<1> QED BY <1>1, <1>3, <1>4

\* The functor about to run sends a line that has been read and that no functor
\* has sent before.
LEMMA NextFunctor ==
    ASSUME LoopInv, WayInv, RunFunctor
    PROVE  /\ Head(tmp) \in Lines
           /\ Head(tmp)[2] <= received[Head(tmp)[1]]
           /\ \A k \in 1..Len(ran) : ran[k] # Head(tmp)
           /\ Len(ran) \in Nat /\ Len(ran') = Len(ran) + 1
           /\ ran'[Len(ran) + 1] = Head(tmp)
           /\ \A k \in 1..Len(ran) : ran'[k] = ran[k]
<1> DEFINE n == Len(ran) + 1
<1>1. /\ LoopTypeOK /\ MailboxFifo /\ OnItsWay /\ tmp # <<>>
      /\ ran \in Seq(Functors) /\ Len(ran) \in Nat
  BY LenProperties DEF LoopInv, LoopTypeOK, WayInv, RunFunctor
<1>2. /\ n \in 1..Len(posted) /\ posted[n] = Head(tmp)
      /\ \A k \in 1..Len(ran) : k \in 1..Len(posted) /\ posted[k] = ran[k]
  BY <1>1, RanIsPosted
<1>3. /\ posted[n] \in Lines /\ posted[n][2] <= received[posted[n][1]]
      /\ \A j \in 1..Len(posted) : posted[j] = posted[n] => j = n
  BY <1>1, <1>2, PostedOnce
<1>4. \A k \in 1..Len(ran) : ran[k] # Head(tmp)
  BY <1>1, <1>2, <1>3
<1>5. Head(tmp) \in Functors
  BY <1>2, <1>3 DEF Lines
<1>6. /\ Len(ran') = n /\ ran'[n] = Head(tmp)
      /\ \A k \in 1..Len(ran) : ran'[k] = ran[k]
  BY <1>1, <1>5, AppendProperties DEF RunFunctor
<1> QED BY <1>1, <1>2, <1>3, <1>4, <1>6

\* A send adds at most one answer, to the client it was sent to.
LEMMA SendToReplies ==
    ASSUME TypeOK, NEW d \in Clients, NEW l \in Lines, SendTo(d, l)
    PROVE  \/ replies' = replies
           \/ /\ \A c \in Clients \ {d} : replies'[c] = replies[c]
              /\ Len(replies[d]) \in Nat /\ Len(replies'[d]) = Len(replies[d]) + 1
              /\ replies'[d][Len(replies[d]) + 1] = l
              /\ \A i \in 1..Len(replies[d]) : replies'[d][i] = replies[d][i]
<1>1. CASE replies' = [replies EXCEPT ![d] = Append(@, l)]
  <2>1. replies[d] \in Seq(Lines) /\ Len(replies[d]) \in Nat
    BY LenProperties DEF TypeOK
  <2>2. replies'[d] = Append(replies[d], l) /\ \A c \in Clients \ {d} : replies'[c] = replies[c]
    BY <1>1 DEF TypeOK
  <2> QED BY <2>1, <2>2, AppendProperties
<1> QED BY <1>1 DEF SendTo

\* What a functor sends keeps answers where they are, and comes from a functor.
LEMMA RunKeepsReplies ==
    ASSUME TypeOK, LoopInv, WayInv, RunFunctor, RepliesRan,
           \/ replies' = replies
           \/ \E d \in Clients : SendTo(d, Head(tmp))
    PROVE  /\ RepliesRan'
           /\ \A c \in Clients : AllAnswered(c) /\ sent' = sent => AllAnswered(c)'
<1>1. /\ Head(tmp) \in Lines
      /\ Len(ran) \in Nat /\ Len(ran') = Len(ran) + 1
      /\ ran'[Len(ran) + 1] = Head(tmp)
      /\ \A k \in 1..Len(ran) : ran'[k] = ran[k]
  BY NextFunctor
<1>2. \A l : (\E k \in 1..Len(ran) : ran[k] = l) => \E k \in 1..Len(ran') : ran'[k] = l
  BY <1>1
<1>3. \E k \in 1..Len(ran') : ran'[k] = Head(tmp)
  BY <1>1
<1>4. CASE replies' = replies
  BY <1>2, <1>4 DEF RepliesRan, AllAnswered
<1>5. ASSUME NEW d \in Clients,
             /\ \A c \in Clients \ {d} : replies'[c] = replies[c]
             /\ Len(replies[d]) \in Nat /\ Len(replies'[d]) = Len(replies[d]) + 1
             /\ replies'[d][Len(replies[d]) + 1] = Head(tmp)
             /\ \A i \in 1..Len(replies[d]) : replies'[d][i] = replies[d][i]
      PROVE  /\ RepliesRan'
             /\ \A c \in Clients : AllAnswered(c) /\ sent' = sent => AllAnswered(c)'
  <2>1. ASSUME NEW c \in Clients, NEW i \in 1..Len(replies'[c])
        PROVE  \E k \in 1..Len(ran') : ran'[k] = replies'[c][i]
    <3>1. CASE c # d
      <4>1. replies'[c] = replies[c]
        BY <1>5, <3>1
      <4>2. PICK k \in 1..Len(ran) : ran[k] = replies[c][i]
        BY <4>1 DEF RepliesRan
      <4> QED BY <1>2, <4>1, <4>2
    <3>2. CASE c = d /\ i = Len(replies[d]) + 1
      BY <1>3, <1>5, <3>2
    <3>3. CASE c = d /\ i # Len(replies[d]) + 1
      <4>1. i \in 1..Len(replies[d]) /\ replies'[d][i] = replies[d][i]
        BY <1>5, <2>1, <3>3
      <4> QED BY <1>2, <3>3, <4>1 DEF RepliesRan
    <3> QED BY <3>1, <3>2, <3>3
  <2>2. ASSUME NEW c \in Clients, AllAnswered(c), sent' = sent PROVE AllAnswered(c)'
    <3>1. CASE c # d
      BY <1>5, <2>2, <3>1 DEF AllAnswered
    <3>2. CASE c = d
      <4>1. \A i \in 1..Len(replies[d]) : i \in 1..Len(replies'[d])
        BY <1>5
      <4> QED BY <1>5, <2>2, <3>2, <4>1 DEF AllAnswered
    <3> QED BY <3>1, <3>2
  <2> QED BY <2>1, <2>2 DEF RepliesRan
<1>6. CASE \E d \in Clients : SendTo(d, Head(tmp))
  BY <1>1, <1>4, <1>5, <1>6, SendToReplies
<1> QED BY <1>4, <1>6

\* What has been answered stays answered.
LEMMA RepliesStay ==
    ASSUME RepliesRan, OwnAnswers, PatientNeverDangles, UNCHANGED <<ran, replies, dangling>>
    PROVE  RepliesRan' /\ OwnAnswers' /\ PatientNeverDangles'
<1>1. RepliesRan'
  BY DEF RepliesRan
<1>2. OwnAnswers'
  BY DEF OwnAnswers
<1>3. PatientNeverDangles'
  BY DEF PatientNeverDangles
<1> QED BY <1>1, <1>2, <1>3

LEMMA PatientStays ==
    ASSUME PatientAnswered, UNCHANGED replies,
           \A c \in Clients : client'[c] = "closed" =>
               client[c] = "closed" /\ sent'[c] = sent[c]
    PROVE  PatientAnswered'
BY DEF PatientAnswered, AllAnswered

\* Steps that neither run a functor nor touch clients and objects.
LEMMA AnswersStay ==
    ASSUME AnswerInv, UNCHANGED <<ran, replies, dangling, sent, client, object>>,
           \A fd \in Fds : conns'[fd] = conns[fd]
    PROVE  AnswerInv'
<1>1. RepliesRan' /\ OwnAnswers' /\ PatientNeverDangles' /\ PatientAnswered'
  BY RepliesStay, PatientStays DEF AnswerInv
<1>2. OpenInTable' /\ DeadIsClosed'
  BY DEF AnswerInv, OpenInTable, DeadIsClosed
<1> QED BY <1>1, <1>2 DEF AnswerInv

\* A connection dies only when its client has closed: that of another client
\* is in the table, which refers to it.
LEMMA ReclaimSparesOpen ==
    ASSUME TypeOK, NumberGiven, DescriptorsOK, Reclaim, OpenInTable, DeadIsClosed,
           UNCHANGED client,
           \A c \in Clients : client[c] # "closed" =>
               \A fd \in Fds : conns[fd] = c => conns'[fd] = c
    PROVE  OpenInTable' /\ DeadIsClosed'
<1>1. \A c \in Clients :
         /\ object[c] = "live" /\ c \in Referenced' => object'[c] = "live"
         /\ object[c] = "none" <=> object'[c] = "none"
  BY ReclaimKeepsReferenced
<1>2. \A c \in Clients : object'[c] = "live" => object[c] = "live"
  BY DEF Reclaim, TypeOK
<1>3. OpenInTable'
  BY <1>2 DEF OpenInTable
<1>4. ASSUME NEW c \in Clients, object'[c] = "dead", client[c] # "closed" PROVE FALSE
  <2>1. object[c] = "live"
    BY <1>1, <1>4 DEF DeadIsClosed, TypeOK
  <2>2. PICK fd \in Fds : conns[fd] = c
    BY <1>4, <2>1 DEF OpenInTable
  <2>3. c \in Referenced'
    BY <1>4, <2>2 DEF Referenced, Keys
  <2> QED BY <1>1, <1>4, <2>1, <2>3
<1> QED BY <1>3, <1>4 DEF DeadIsClosed

\* A functor whose object is gone belongs to a client that has closed; a patient
\* client has all its answers then, and this one has not been sent.
LEMMA PatientIsServed ==
    ASSUME ServerInv, LoopInv, WayInv, AnswerInv, RunFunctor,
           object[Connection(Head(tmp))] = "dead"
    PROVE  Connection(Head(tmp)) \in Hasty
<1> USE EchoAssumption
<1> DEFINE l == Head(tmp)
<1> DEFINE c == Connection(Head(tmp))
<1> SUFFICES ASSUME c \notin Hasty PROVE FALSE
  OBVIOUS
<1>1. l \in Lines /\ l[2] <= received[l[1]] /\ \A k \in 1..Len(ran) : ran[k] # l
  BY NextFunctor
<1>2. c \in Clients /\ c = l[1] /\ l = <<c, l[2]>> /\ l[2] \in Nat /\ l[2] >= 1
  BY <1>1 DEF Connection
<1>3. l[2] \in 1..sent[c]
  BY <1>1, <1>2 DEF WayInv, ReadAfterSent, ServerInv, TypeOK
<1>4. AllAnswered(c)
  BY <1>2 DEF AnswerInv, DeadIsClosed, PatientAnswered
<1>5. PICK i \in 1..Len(replies[c]) : replies[c][i] = l
  BY <1>2, <1>3, <1>4 DEF AllAnswered
<1> QED BY <1>1, <1>2, <1>5 DEF AnswerInv, RepliesRan

LEMMA AnswerNext ==
    ServerInv /\ OwnerInv /\ LoopInv /\ WayInv /\ AnswerInv /\ [Next]_vars => AnswerInv'
<1> SUFFICES ASSUME ServerInv, OwnerInv, LoopInv, WayInv, AnswerInv, [Next]_vars
             PROVE  AnswerInv'
  OBVIOUS
<1> USE EchoAssumption
<1>0. TypeOK /\ NumberGiven /\ DescriptorsOK
  BY DEF ServerInv, OwnerInv
<1>1. ASSUME NEW c \in Clients, Connect(c) PROVE AnswerInv'
  <2>1. /\ client[c] = "new" /\ client' = [client EXCEPT ![c] = "open"]
        /\ UNCHANGED <<ran, replies, dangling, sent, object, conns>>
    BY <1>1 DEF Connect, eventVars, loopVars, tableVars, objectVars, wireVars
  <2>2. \A d \in Clients : client'[d] = "closed" <=> client[d] = "closed"
    BY <1>0, <2>1 DEF TypeOK
  <2>3. RepliesRan' /\ OwnAnswers' /\ PatientNeverDangles' /\ PatientAnswered'
    BY <2>1, <2>2, RepliesStay, PatientStays DEF AnswerInv
  <2>4. OpenInTable' /\ DeadIsClosed'
    BY <2>1, <2>2 DEF AnswerInv, OpenInTable, DeadIsClosed
  <2> QED BY <2>3, <2>4 DEF AnswerInv
<1>2. ASSUME NEW c \in Clients, SendLine(c) PROVE AnswerInv'
  <2>1. /\ client[c] = "open" /\ sent' = [sent EXCEPT ![c] = @ + 1]
        /\ UNCHANGED <<ran, replies, dangling, client, object, conns>>
    BY <1>2 DEF SendLine, eventVars, loopVars, tableVars, objectVars, wireVars
  <2>2. \A d \in Clients : client[d] = "closed" => sent'[d] = sent[d]
    BY <1>0, <2>1 DEF TypeOK
  <2>3. PatientAnswered'
    BY <2>1, <2>2, PatientStays DEF AnswerInv
  <2>4. RepliesRan' /\ OwnAnswers' /\ PatientNeverDangles'
    BY <2>1, RepliesStay DEF AnswerInv
  <2>5. OpenInTable' /\ DeadIsClosed'
    BY <2>1 DEF AnswerInv, OpenInTable, DeadIsClosed
  <2> QED BY <2>3, <2>4, <2>5 DEF AnswerInv
<1>3. ASSUME NEW c \in Clients, CloseClient(c) PROVE AnswerInv'
  <2>1. /\ client' = [client EXCEPT ![c] = "closed"]
        /\ c \in Hasty \/ AllAnswered(c)
        /\ UNCHANGED <<ran, replies, dangling, sent, object, conns>>
    BY <1>3 DEF CloseClient, eventVars, loopVars, tableVars, objectVars, wireVars
  <2>2. \A d \in Clients : client'[d] = "closed" <=> (client[d] = "closed" \/ d = c)
    BY <1>0, <2>1 DEF TypeOK
  <2>3. PatientAnswered'
    BY <2>1, <2>2 DEF AnswerInv, PatientAnswered, AllAnswered
  <2>4. RepliesRan' /\ OwnAnswers' /\ PatientNeverDangles'
    BY <2>1, RepliesStay DEF AnswerInv
  <2>5. OpenInTable' /\ DeadIsClosed'
    BY <2>1, <2>2 DEF AnswerInv, OpenInTable, DeadIsClosed
  <2> QED BY <2>3, <2>4, <2>5 DEF AnswerInv
<1>4. ASSUME NEW c \in Clients, SendPart(c) \/ Read(c) PROVE AnswerInv'
  <2>1. UNCHANGED <<ran, replies, dangling, sent, client, object, conns>>
    BY <1>4 DEF SendPart, Read, clientVars, eventVars, loopVars, tableVars, objectVars, wireVars
  <2> QED BY <2>1, AnswersStay
<1>5. ASSUME \/ EpollWait \/ LoopStep \/ AcceptFails \/ MessageReceived \/ AddTask
             \/ \E fd \in Fds : MessageBegins(fd)
             \/ UNCHANGED vars
      PROVE  AnswerInv'
  <2>1. UNCHANGED <<replies, dangling, sent, client, object>>
    BY <1>5 DEF EpollWait, LoopStep, AcceptFails, MessageReceived, AddTask, MessageBegins,
          vars, objectVars, clientVars, wireVars
  <2>3. \A fd \in Fds : conns'[fd] = conns[fd]
    <3>1. CASE AcceptFails
      BY <1>0, <3>1 DEF AcceptFails, TypeOK, Keys
    <3>2. CASE ~AcceptFails
      BY <1>5, <3>2 DEF EpollWait, LoopStep, MessageReceived, AddTask, MessageBegins,
            vars, tableVars
    <3> QED BY <3>1, <3>2
  <2>2. ran' = ran
    BY <1>5 DEF EpollWait, EpollReturns, LoopStep, EpollTimesOut, LoopEnter, LoopTest,
          HandleReadEvent, SwapPending, RunReturns, DispatchDone, AcceptFails,
          MessageReceived, AddTask, MessageBegins, HandleSource, vars, eventVars, loopVars
  <2> QED BY <2>1, <2>2, <2>3, AnswersStay
<1>6. ASSUME NEW w \in Workers, TakeTask(w) \/ Process(w) \/ Notify(w) PROVE AnswerInv'
  <2>1. UNCHANGED <<ran, replies, dangling, sent, client, object, conns>>
    BY <1>6 DEF TakeTask, Process, PostAppend, Notify, PostWakeup, eventVars, loopVars,
          tableVars, objectVars, clientVars, wireVars
  <2> QED BY <2>1, AnswersStay
<1>7. CASE Accept
  <2> DEFINE fd == Lowest(FreeFds)
  <2> DEFINE c == Head(backlog)
  <2>1. /\ FreeFds # {}
        /\ object' = [object EXCEPT ![c] = "live"]
        /\ conns' = IF conns[fd] = None THEN [conns EXCEPT ![fd] = c] ELSE conns
        /\ UNCHANGED <<ran, replies, dangling, sent, client>>
    BY <1>7 DEF Accept, HandleSource, wireVars
  <2>2. fd \in Fds /\ fdOf[fd] = None
    BY <2>1, LowestIsFree DEF FreeFds
  <2>3. conns[fd] = None
    BY <1>0, <2>2 DEF OwnerInv, FdsAgree, TypeOK
  <2>4. conns' = [conns EXCEPT ![fd] = c]
    BY <2>1, <2>3
  <2> HIDE DEF fd, c
  <2>5. conns'[fd] = c /\ \A f \in Fds : conns[f] # None => conns'[f] = conns[f]
    BY <1>0, <2>2, <2>3, <2>4 DEF TypeOK, Keys
  <2>6. \A d \in Clients : /\ object'[d] = "live" => object[d] = "live" \/ d = c
                           /\ object'[d] = "dead" => object[d] = "dead"
    BY <1>0, <2>1 DEF TypeOK
  <2>7. OpenInTable' /\ DeadIsClosed'
    BY <2>1, <2>2, <2>5, <2>6 DEF AnswerInv, OpenInTable, DeadIsClosed
  <2>9. RepliesRan' /\ OwnAnswers' /\ PatientNeverDangles' /\ PatientAnswered'
    BY <2>1, RepliesStay, PatientStays DEF AnswerInv
  <2> QED BY <2>7, <2>9 DEF AnswerInv
<1>8. ASSUME NEW fd \in Fds, HandleClose(fd) PROVE AnswerInv'
  <2>1. /\ Reclaim /\ client[conns[fd]] = "closed"
        /\ conns' = [conns EXCEPT ![fd] = None]
        /\ UNCHANGED <<ran, replies, dangling, sent, client>>
    BY <1>8 DEF HandleClose, HandleSource, AtEof, clientVars, wireVars
  <2>2. \A c \in Clients : client[c] # "closed" =>
            \A f \in Fds : conns[f] = c => conns'[f] = c
    BY <1>0, <2>1 DEF TypeOK, Keys
  <2>3. OpenInTable' /\ DeadIsClosed'
    BY <1>0, <2>1, <2>2, ReclaimSparesOpen DEF AnswerInv
  <2>9. RepliesRan' /\ OwnAnswers' /\ PatientNeverDangles' /\ PatientAnswered'
    BY <2>1, RepliesStay, PatientStays DEF AnswerInv
  <2> QED BY <2>3, <2>9 DEF AnswerInv
<1>9. ASSUME NEW w \in Workers, DropTask(w) PROVE AnswerInv'
  <2>1. Reclaim /\ UNCHANGED <<ran, replies, dangling, sent, client, conns>>
    BY <1>9 DEF DropTask, eventVars, loopVars, tableVars, clientVars, wireVars
  <2>2. OpenInTable' /\ DeadIsClosed'
    BY <1>0, <2>1, ReclaimSparesOpen DEF AnswerInv
  <2>9. RepliesRan' /\ OwnAnswers' /\ PatientNeverDangles' /\ PatientAnswered'
    BY <2>1, RepliesStay, PatientStays DEF AnswerInv
  <2> QED BY <2>2, <2>9 DEF AnswerInv
<1>10. ASSUME SendAnswer \/ SendDangling,
              RepliesRan', \A c \in Clients : AllAnswered(c) => AllAnswered(c)',
              OwnAnswers', PatientNeverDangles'
       PROVE  AnswerInv'
  <2>1. UNCHANGED <<client, object, conns>>
    BY <1>10 DEF SendAnswer, SendDangling, tableVars, objectVars, clientVars
  <2> QED BY <1>10, <2>1 DEF AnswerInv, PatientAnswered, OpenInTable, DeadIsClosed
<1>11. CASE SendAnswer
  <2> DEFINE l == Head(tmp)
  <2> DEFINE c == Connection(Head(tmp))
  <2>1. RunFunctor /\ SendTo(c, l) /\ UNCHANGED <<sent, dangling>>
    BY <1>11 DEF SendAnswer, clientVars
  <2>2. l \in Lines /\ \A k \in 1..Len(ran) : ran[k] # l
    BY <2>1, NextFunctor
  <2>3. c \in Clients
    BY <2>2, LineOfConnection
  <2>4. RepliesRan' /\ \A d \in Clients : AllAnswered(d) => AllAnswered(d)'
    BY <1>0, <2>1, <2>3, RunKeepsReplies DEF AnswerInv
  <2>5. OwnAnswers'
    <3>1. CASE replies' = replies
      BY <2>1, <3>1 DEF AnswerInv, OwnAnswers
    <3>2. CASE replies' # replies
      <4> SUFFICES ASSUME dangling = {}, NEW d \in Clients
                   PROVE  /\ \A i \in 1..Len(replies'[d]) : Connection(replies'[d][i]) = d
                          /\ \A i, j \in 1..Len(replies'[d]) :
                                replies'[d][i] = replies'[d][j] => i = j
        BY <2>1 DEF OwnAnswers
      <4> DEFINE n == Len(replies[c]) + 1
      <4>1. /\ \A e \in Clients \ {c} : replies'[e] = replies[e]
            /\ Len(replies[c]) \in Nat /\ Len(replies'[c]) = n
            /\ replies'[c][n] = l
            /\ \A i \in 1..Len(replies[c]) : replies'[c][i] = replies[c][i]
        BY <1>0, <2>1, <2>2, <2>3, <3>2, SendToReplies
      <4>2. \A i \in 1..Len(replies[c]) : replies[c][i] # l
        BY <2>2, <2>3 DEF AnswerInv, RepliesRan
      <4>3. CASE d # c
        BY <4>1, <4>3 DEF AnswerInv, OwnAnswers
      <4>4. CASE d = c
        <5>1. \A i \in 1..Len(replies'[c]) : i = n \/ i \in 1..Len(replies[c])
          BY <4>1
        <5>2. \A i \in 1..Len(replies'[c]) : Connection(replies'[c][i]) = c
          BY <2>3, <4>1, <5>1 DEF AnswerInv, OwnAnswers
        <5>3. \A i, j \in 1..Len(replies'[c]) : replies'[c][i] = replies'[c][j] => i = j
          BY <2>3, <4>1, <4>2, <5>1 DEF AnswerInv, OwnAnswers
        <5> QED BY <4>4, <5>2, <5>3
      <4> QED BY <4>3, <4>4
    <3> QED BY <3>1, <3>2
  <2>6. PatientNeverDangles'
    BY <2>1 DEF AnswerInv, PatientNeverDangles
  <2> QED BY <1>10, <1>11, <2>4, <2>5, <2>6
<1>12. CASE SendDangling
  <2> DEFINE l == Head(tmp)
  <2> DEFINE c == Connection(Head(tmp))
  <2>1. /\ RunFunctor /\ object[c] = "dead" /\ dangling' = dangling \cup {l}
        /\ \/ fdOf[number[c]] # None /\ SendTo(fdOf[number[c]], l)
           \/ replies' = replies
        /\ sent' = sent
    BY <1>12 DEF SendDangling, clientVars
  <2>2. l \in Lines
    BY <2>1, NextFunctor
  <2>3. c \in Clients /\ number[c] \in Fds
    BY <2>1, <2>2, LineOfConnection DEF ServerInv, NumberGiven
  <2>4. replies' = replies \/ \E d \in Clients : SendTo(d, l)
    BY <1>0, <2>1, <2>3 DEF TypeOK
  <2>5. RepliesRan' /\ \A d \in Clients : AllAnswered(d) => AllAnswered(d)'
    BY <1>0, <2>1, <2>4, RunKeepsReplies DEF AnswerInv
  <2>6. c \in Hasty
    BY <2>1, PatientIsServed
  <2>7. PatientNeverDangles'
    BY <2>1, <2>6 DEF AnswerInv, PatientNeverDangles
  <2>8. OwnAnswers'
    BY <2>1 DEF OwnAnswers
  <2> QED BY <1>10, <1>12, <2>5, <2>7, <2>8
<1> QED
  BY <1>1, <1>2, <1>3, <1>4, <1>5, <1>6, <1>7, <1>8, <1>9, <1>11, <1>12
     DEF Next, Handler, Worker, Client

\* What the invariants say of answers.
LEMMA AnswersFollow ==
    ServerInv /\ LoopInv /\ WayInv /\ AnswerInv => AnswersAreOwn
<1> SUFFICES ASSUME ServerInv, LoopInv, WayInv, AnswerInv, dangling = {}, NEW c \in Clients
             PROVE  /\ \A i \in 1..Len(replies[c]) :
                          /\ Connection(replies[c][i]) = c
                          /\ replies[c][i][2] <= sent[c]
                    /\ \A l \in Lines : Count(replies[c], l) <= 1
  BY DEF AnswersAreOwn
<1> USE EchoAssumption
<1>1. /\ \A i \in 1..Len(replies[c]) : Connection(replies[c][i]) = c
      /\ \A i, j \in 1..Len(replies[c]) : replies[c][i] = replies[c][j] => i = j
  BY DEF AnswerInv, OwnAnswers
<1>2. ASSUME NEW i \in 1..Len(replies[c]) PROVE replies[c][i][2] <= sent[c]
  <2>1. PICK k \in 1..Len(ran) : ran[k] = replies[c][i]
    BY DEF AnswerInv, RepliesRan
  <2>2. k \in 1..Len(posted) /\ posted[k] = replies[c][i]
    BY <2>1, RanIsPosted DEF LoopInv
  <2>3. posted[k] \in Lines /\ posted[k][2] <= received[posted[k][1]]
    BY <2>2, PostedOnce DEF LoopInv, WayInv
  <2>4. replies[c][i][1] = c
    BY <1>1 DEF Connection
  <2>5. replies[c][i][2] \in Nat /\ received[c] \in Nat /\ sent[c] \in Nat /\ received[c] <= sent[c]
    BY <2>2, <2>3 DEF WayInv, ReadAfterSent, ServerInv, TypeOK
  <2> QED BY <2>2, <2>3, <2>4, <2>5
<1>3. ASSUME NEW l \in Lines PROVE Count(replies[c], l) <= 1
  <2> DEFINE S == {i \in 1..Len(replies[c]) : replies[c][i] = l}
  <2>0. Count(replies[c], l) = Cardinality(S)
    BY DEF Count
  <2>1. CASE S = {}
    <3>1. Cardinality(S) = 0
      BY <2>1, FS_EmptySet
    <3> QED BY <2>0, <3>1
  <2>2. CASE S # {}
    <3>1. PICK i : i \in S
      BY <2>2
    <3>2. S = {i}
      BY <1>1, <3>1
    <3>3. Cardinality(S) = 1
      BY <3>2, FS_Singleton
    <3> QED BY <2>0, <3>3
  <2> QED BY <2>1, <2>2
<1> QED BY <1>1, <1>2, <1>3

LEMMA AnswersInit == Init => LoopInv /\ ServerInv /\ OwnerInv /\ WayInv /\ AnswerInv
<1> SUFFICES ASSUME Init PROVE LoopInv /\ ServerInv /\ OwnerInv /\ WayInv /\ AnswerInv
  OBVIOUS
<1>1. LoopInv /\ ServerInv /\ OwnerInv
  BY LoopInitInv, ServerInitInv, OwnerInitInv DEF Init
<1>2. ReadAfterSent /\ OneHandler /\ IdleWorkers
  BY DEF Init, ReadAfterSent, OneHandler, IdleWorkers
<1>3. OnItsWay
  <2> SUFFICES ASSUME NEW l \in Lines PROVE ~(l[2] <= received[l[1]]) /\ Way(l) = {}
    BY DEF OnItsWay
  <2>1. l[1] \in Clients /\ l[2] \in Nat \ {0} /\ l # None
    BY EchoAssumption, LoopAssumption DEF Lines, None
  <2>2. ~(l[2] <= received[l[1]])
    BY <2>1 DEF Init
  <2>3. Way(l) = {}
    BY <2>1 DEF Init, LoopInit, Way
  <2> QED BY <2>2, <2>3
<1>4. AnswerInv
  BY DEF AnswerInv, Init, LoopInit, RepliesRan, OwnAnswers, PatientAnswered, OpenInTable,
        DeadIsClosed, PatientNeverDangles
<1> QED BY <1>1, <1>2, <1>3, <1>4 DEF WayInv

LEMMA AnswersStep ==
    LoopInv /\ ServerInv /\ OwnerInv /\ WayInv /\ AnswerInv /\ [Next]_vars
        => LoopInv' /\ ServerInv' /\ OwnerInv' /\ WayInv' /\ AnswerInv'
<1>1. ServerInv /\ LoopInv /\ [Next]_vars => LoopInv'
  BY StepIsLoopStep, LoopNextInv DEF ServerInv
<1>2. ServerInv /\ LoopInv' /\ [Next]_vars => ServerInv'
  BY ServerNextInv DEF LoopInv
<1>3. ServerInv /\ ServerInv' /\ OwnerInv /\ [Next]_vars => OwnerInv'
  BY OwnerNextInv
<1> QED BY <1>1, <1>2, <1>3, WayNext, AnswerNext

\* For any number of clients, workers and descriptors, however small the task
\* queue and whatever descriptors are used again: as long as no functor has
\* run on a destroyed connection, answers reach the clients that asked and none
\* arrives twice; and no functor of a client that waits for its answers ever
\* runs on a destroyed connection.
THEOREM AnswersReachTheirClients == Spec => [](AnswersAreOwn /\ PatientNeverDangles)
<1>1. LoopInv /\ ServerInv /\ WayInv /\ AnswerInv => AnswersAreOwn /\ PatientNeverDangles
  BY AnswersFollow DEF AnswerInv
<1> QED BY AnswersInit, AnswersStep, <1>1, PTL DEF Spec

\* The bare `this` of a functor is safe for clients that wait for their answers.
COROLLARY PatientClientsAreSafe == Spec => []PatientNeverDangles
BY AnswersReachTheirClients, PTL

----------------------------------------------------------------------------
\* The debts of the server

\* What is owed, told from the history: the lines of clients that have not closed
\* which have been read and whose functor has not run.
Owes ==
    Owed = {l \in Lines :
               /\ client[l[1]] # "closed" /\ l[2] <= received[l[1]]
               /\ \A k \in 1..Len(ran) : ran[k] # l}

\* The mailbox holds what was posted after the functors that have run.
LEMMA MailboxHolds ==
    ASSUME LoopTypeOK, MailboxFifo, NEW l
    PROVE  InMailbox(l) <=> \E i \in 1..Len(posted) : ~(i <= Len(ran)) /\ posted[i] = l
<1>1. /\ ran \in Seq(Functors) /\ tmp \in Seq(Functors) /\ pending \in Seq(Functors)
      /\ ran \o tmp \in Seq(Functors)
  BY ConcatProperties DEF LoopTypeOK
<1>2. PICK r \in Nat, t \in Nat, p \in Nat :
         Len(ran) = r /\ Len(tmp) = t /\ Len(pending) = p
  BY <1>1, LenProperties
<1>3. /\ Len(ran \o tmp) = r + t
      /\ \A i \in 1..(r + t) : (ran \o tmp)[i] = IF i <= r THEN ran[i] ELSE tmp[i - r]
  BY <1>1, <1>2, ConcatProperties
<1>4. /\ Len(posted) = (r + t) + p
      /\ \A i \in 1..((r + t) + p) :
            posted[i] = IF i <= r + t THEN (ran \o tmp)[i] ELSE pending[i - (r + t)]
  <2> DEFINE front == ran \o tmp
  <2>1. posted = front \o pending
    BY DEF MailboxFifo
  <2>2. front \in Seq(Functors) /\ Len(front) = r + t
    BY <1>1, <1>3
  <2> HIDE DEF front
  <2>3. /\ Len(front \o pending) = Len(front) + Len(pending)
        /\ \A i \in 1..(Len(front) + Len(pending)) :
              (front \o pending)[i] = IF i <= Len(front) THEN front[i] ELSE pending[i - Len(front)]
    BY <1>1, <2>2, ConcatProperties
  <2>4. /\ Len(posted) = (r + t) + p
        /\ \A i \in 1..((r + t) + p) :
              posted[i] = IF i <= r + t THEN front[i] ELSE pending[i - (r + t)]
    BY <1>2, <2>1, <2>2, <2>3
  <2> QED BY <2>4 DEF front
<1>5. ASSUME NEW j \in 1..p PROVE posted[(r + t) + j] = pending[j]
  <2>1. (r + t) + j \in 1..((r + t) + p) /\ ~((r + t) + j <= r + t) /\ ((r + t) + j) - (r + t) = j
    OBVIOUS
  <2> QED BY <1>4, <2>1
<1>6. ASSUME NEW j \in 1..t PROVE posted[r + j] = tmp[j]
  <2>1. PICK i \in 1..(r + t) : i = r + j
    OBVIOUS
  <2>2. i \in 1..((r + t) + p) /\ i <= r + t /\ ~(i <= r) /\ i - r = j
    BY <2>1
  <2>3. posted[i] = (ran \o tmp)[i]
    BY <1>4, <2>2
  <2>4. (ran \o tmp)[i] = tmp[j]
    BY <1>3, <2>2
  <2> QED BY <2>1, <2>3, <2>4
<1>7. ASSUME InMailbox(l) PROVE \E i \in 1..Len(posted) : ~(i <= Len(ran)) /\ posted[i] = l
  <2>1. CASE \E j \in 1..p : pending[j] = l
    <3>1. PICK j \in 1..p : pending[j] = l
      BY <2>1
    <3>2. (r + t) + j \in 1..((r + t) + p) /\ ~((r + t) + j <= r)
      OBVIOUS
    <3> QED BY <1>2, <1>4, <1>5, <3>1, <3>2
  <2>2. CASE \E j \in 1..t : tmp[j] = l
    <3>1. PICK j \in 1..t : tmp[j] = l
      BY <2>2
    <3>2. r + j \in 1..((r + t) + p) /\ ~(r + j <= r)
      OBVIOUS
    <3> QED BY <1>2, <1>4, <1>6, <3>1, <3>2
  <2> QED BY <1>2, <1>7, <2>1, <2>2 DEF InMailbox
<1>8. ASSUME NEW i \in 1..Len(posted), ~(i <= Len(ran)), posted[i] = l PROVE InMailbox(l)
  <2>1. i \in 1..((r + t) + p) /\ ~(i <= r)
    BY <1>2, <1>4, <1>8
  <2>2. CASE i <= r + t
    <3>1. i - r \in 1..t /\ r + (i - r) = i
      BY <2>1, <2>2
    <3> QED BY <1>2, <1>6, <1>8, <3>1 DEF InMailbox
  <2>3. CASE ~(i <= r + t)
    <3>1. i - (r + t) \in 1..p /\ (r + t) + (i - (r + t)) = i
      BY <2>1, <2>3
    <3> QED BY <1>2, <1>5, <1>8, <3>1 DEF InMailbox
  <2> QED BY <2>2, <2>3
<1> QED BY <1>7, <1>8

\* A line that is on its way has been read and has not been sent, and the other
\* way round: nothing is lost between the IO thread and the functor.
LEMMA OwedIs == LoopInv /\ WayInv => Owes
<1> SUFFICES ASSUME LoopInv, WayInv, NEW l \in Lines
             PROVE  OnTheWay(l) <=> /\ l[2] <= received[l[1]]
                                    /\ \A k \in 1..Len(ran) : ran[k] # l
  BY DEF Owes, Owed, Connection
<1>1. LoopTypeOK /\ MailboxFifo /\ OnItsWay
  BY DEF LoopInv, WayInv
<1>2. \A k \in 1..Len(ran) : k \in 1..Len(posted) /\ k <= Len(ran) /\ posted[k] = ran[k]
  <2>1. \A k \in 1..Len(ran) : k \in 1..Len(posted) /\ posted[k] = ran[k]
    BY <1>1, RanIsPosted
  <2>2. Len(ran) \in Nat
    BY <1>1, LenProperties DEF LoopTypeOK
  <2> QED BY <2>1, <2>2
<1>3. ASSUME NEW x \in Way(l), NEW k \in 1..Len(ran), ran[k] = l
      PROVE  x = <<"posted", k>>
  <2>1. <<"posted", k>> \in Way(l)
    BY <1>2, <1>3 DEF Way
  <2> QED BY <1>1, <2>1, OnlyWay
<1>4. ASSUME OnTheWay(l)
      PROVE  \E x \in Way(l) : \A k \in 1..Len(ran) : x # <<"posted", k>>
  <2>1. CASE adding = l
    <3>1. <<"adding", l>> \in Way(l)
      BY <2>1 DEF Way
    <3> QED BY <3>1
  <2>2. ASSUME NEW i \in 1..Len(tasks), tasks[i] = l
        PROVE  \E x \in Way(l) : \A k \in 1..Len(ran) : x # <<"posted", k>>
    <3>1. <<"task", i>> \in Way(l)
      BY <2>2 DEF Way
    <3> QED BY <3>1
  <2>3. ASSUME NEW w \in Workers, working[w] = l, ~processed[w]
        PROVE  \E x \in Way(l) : \A k \in 1..Len(ran) : x # <<"posted", k>>
    <3>1. <<"worker", w>> \in Way(l)
      BY <2>3 DEF Way
    <3> QED BY <3>1
  <2>4. CASE InMailbox(l)
    <3>1. PICK i \in 1..Len(posted) : ~(i <= Len(ran)) /\ posted[i] = l
      BY <1>1, <2>4, MailboxHolds
    <3>2. <<"posted", i>> \in Way(l)
      BY <3>1 DEF Way
    <3>3. \A k \in 1..Len(ran) : <<"posted", i>> # <<"posted", k>>
      BY <1>2, <3>1
    <3> QED BY <3>2, <3>3
  <2> QED BY <1>4, <2>1, <2>2, <2>3, <2>4 DEF OnTheWay
<1>5. ASSUME OnTheWay(l)
      PROVE  l[2] <= received[l[1]] /\ \A k \in 1..Len(ran) : ran[k] # l
  <2>1. PICK x \in Way(l) : \A k \in 1..Len(ran) : x # <<"posted", k>>
    BY <1>4, <1>5
  <2> QED BY <1>1, <1>3, <2>1, OnlyWay
<1>6. ASSUME l[2] <= received[l[1]], \A k \in 1..Len(ran) : ran[k] # l
      PROVE  OnTheWay(l)
  <2>1. PICK x : Way(l) = {x}
    BY <1>1, <1>6 DEF OnItsWay
  <2>2. CASE adding = l
    BY <2>2 DEF OnTheWay
  <2>3. ASSUME NEW i \in 1..Len(tasks), tasks[i] = l PROVE OnTheWay(l)
    BY <2>3 DEF OnTheWay
  <2>4. ASSUME NEW w \in Workers, working[w] = l, ~processed[w] PROVE OnTheWay(l)
    BY <2>4 DEF OnTheWay
  <2>5. ASSUME NEW i \in 1..Len(posted), posted[i] = l PROVE OnTheWay(l)
    <3>1. CASE i <= Len(ran)
      <4>1. i \in 1..Len(ran)
        BY <1>1, <3>1, LenProperties DEF LoopTypeOK
      <4> QED BY <1>2, <1>6, <2>5, <4>1
    <3>2. CASE ~(i <= Len(ran))
      <4>1. InMailbox(l)
        BY <1>1, <2>5, <3>2, MailboxHolds
      <4> QED BY <4>1 DEF OnTheWay
    <3> QED BY <3>1, <3>2
  <2> QED BY <2>1, <2>2, <2>3, <2>4, <2>5 DEF Way
<1> QED BY <1>5, <1>6

\* Steps in which no line is sent, taken or answered and no client closes.
LEMMA DebtSame ==
    ASSUME Owes, Owes', UNCHANGED <<sent, received, ran, replies>>,
           \A c \in Clients : client'[c] = "closed" <=> client[c] = "closed"
    PROVE  UNCHANGED Service!vars
<1> USE EchoAssumption
<1>1. \A l \in Lines : l[1] \in Clients
  OBVIOUS
<1>2. Owed' = Owed
  BY <1>1 DEF Owes
<1> QED BY <1>2 DEF Service!vars

\* readline: the line is owed, unless its client has closed.
LEMMA TakeRefines ==
    ASSUME ServerInv, LoopInv, WayInv, Owes, Owes', MessageReceived
    PROVE  Service!Next
<1> USE EchoAssumption
<1>0. TypeOK /\ receiving \in Clients /\ received[receiving] \in Nat
  BY DEF ServerInv, TypeOK, MessageReceived
<1>1. PICK c \in Clients : c = receiving
  BY <1>0
<1>2. /\ received[c] \in Nat /\ received[c] < sent[c]
      /\ received' = [received EXCEPT ![c] = @ + 1]
      /\ UNCHANGED <<sent, ran, replies, client>>
  BY <1>0, <1>1 DEF MessageReceived, eventVars, loopVars, clientVars
<1>3. received'[c] = received[c] + 1 /\ \A d \in Clients \ {c} : received'[d] = received[d]
  BY <1>0, <1>2 DEF TypeOK
<1>4. PICK l \in Lines : l = <<c, received'[c]>>
  BY <1>0, <1>1, <1>3, NextLineExists DEF MessageReceived, ServerInv
<1>5. \A k \in 1..Len(ran) : ran[k] # l
  <2> SUFFICES ASSUME NEW k \in 1..Len(ran), ran[k] = l PROVE FALSE
    OBVIOUS
  <2>1. k \in 1..Len(posted) /\ posted[k] = l
    BY RanIsPosted DEF LoopInv
  <2>2. l[2] <= received[l[1]]
    BY <2>1, PostedOnce DEF LoopInv, WayInv
  <2>3. l[1] = c /\ l[2] = received[c] + 1
    BY <1>3, <1>4
  <2> QED BY <1>2, <2>2, <2>3
<1>6. ASSUME NEW x \in Lines
      PROVE  x[2] <= received'[x[1]] <=> x[2] <= received[x[1]] \/ x = l
  <2>1. x = <<x[1], x[2]>> /\ x[1] \in Clients /\ x[2] \in Nat
    OBVIOUS
  <2>2. CASE x[1] = c
    <3>1. x = l <=> x[2] = received[c] + 1
      BY <1>3, <1>4, <2>1, <2>2
    <3> QED BY <1>2, <1>3, <2>1, <2>2, <3>1
  <2>3. CASE x[1] # c
    <3>1. x # l
      BY <1>4, <2>3
    <3>2. received'[x[1]] = received[x[1]]
      BY <1>3, <2>1, <2>3
    <3> QED BY <3>1, <3>2
  <2> QED BY <2>2, <2>3
<1>7. l[1] = c
  BY <1>4
<1>8. Owed' = IF client[c] = "closed" THEN Owed ELSE Owed \cup {l}
  BY <1>2, <1>5, <1>6, <1>7 DEF Owes
<1>9. Service!Take(c)
  BY <1>2, <1>4, <1>8 DEF Service!Take
<1> QED BY <1>9 DEF Service!Next

\* A functor: the debt is paid, unless its client has closed.
LEMMA AnswerRefines ==
    ASSUME ServerInv, LoopInv, WayInv, Owes, Owes', SendAnswer
    PROVE  Service!Next \/ UNCHANGED Service!vars
<1> USE EchoAssumption
<1>1. /\ RunFunctor /\ SendTo(Connection(Head(tmp)), Head(tmp))
      /\ UNCHANGED <<sent, received, client>>
  BY DEF SendAnswer, clientVars
<1>2. PICK l \in Lines :
         /\ l = Head(tmp) /\ l[2] <= received[l[1]]
         /\ \A k \in 1..Len(ran) : ran[k] # l
         /\ \A x : (\A k \in 1..Len(ran') : ran'[k] # x)
                     <=> (\A k \in 1..Len(ran) : ran[k] # x) /\ x # l
  <2>1. /\ Head(tmp) \in Lines /\ Head(tmp)[2] <= received[Head(tmp)[1]]
        /\ \A k \in 1..Len(ran) : ran[k] # Head(tmp)
        /\ Len(ran) \in Nat /\ Len(ran') = Len(ran) + 1
        /\ ran'[Len(ran) + 1] = Head(tmp)
        /\ \A k \in 1..Len(ran) : ran'[k] = ran[k]
    BY <1>1, NextFunctor
  <2>2. \A k : k \in 1..Len(ran') <=> k \in 1..Len(ran) \/ k = Len(ran) + 1
    BY <2>1
  <2>3. \A x : (\A k \in 1..Len(ran') : ran'[k] # x)
                 <=> (\A k \in 1..Len(ran) : ran[k] # x) /\ x # Head(tmp)
    BY <2>1, <2>2
  <2> QED BY <2>1, <2>3
<1>3. l[1] \in Clients /\ SendTo(l[1], l)
  BY <1>1, <1>2 DEF Connection
<1>4. Owed' = Owed \ {l}
  BY <1>1, <1>2 DEF Owes
<1>5. CASE client[l[1]] = "open"
  <2>1. replies' = [replies EXCEPT ![l[1]] = Append(@, l)]
    BY <1>3, <1>5 DEF SendTo
  <2>2. l \in Owed
    BY <1>2, <1>5 DEF Owes
  <2>3. Service!Answer(l)
    BY <1>1, <1>4, <2>1 DEF Service!Answer
  <2> QED BY <2>2, <2>3 DEF Service!Next
<1>6. CASE client[l[1]] # "open"
  <2>1. client[l[1]] = "closed" /\ replies' = replies
    BY <1>3, <1>6 DEF SendTo
  <2>2. l \notin Owed
    BY <2>1 DEF Owes
  <2> QED BY <1>1, <1>4, <2>1, <2>2 DEF Service!vars
<1> QED BY <1>5, <1>6

LEMMA ServiceStepRefines ==
    ASSUME ServerInv, LoopInv, WayInv, Owes, Owes', [Next]_vars, dangling' = {}
    PROVE  Service!Next \/ UNCHANGED Service!vars
<1> USE EchoAssumption
<1>0. TypeOK
  BY DEF ServerInv
<1>1. ASSUME NEW c \in Clients, Connect(c) PROVE UNCHANGED Service!vars
  <2>1. /\ client[c] = "new" /\ client' = [client EXCEPT ![c] = "open"]
        /\ UNCHANGED <<sent, received, ran, replies>>
    BY <1>1 DEF Connect, eventVars, loopVars, wireVars
  <2>2. \A d \in Clients : client'[d] = "closed" <=> client[d] = "closed"
    BY <1>0, <2>1 DEF TypeOK
  <2> QED BY <2>1, <2>2, DebtSame
<1>2. ASSUME NEW c \in Clients, SendLine(c) PROVE Service!Next
  <2>1. /\ client[c] = "open" /\ sent' = [sent EXCEPT ![c] = @ + 1]
        /\ UNCHANGED <<received, ran, replies, client>>
    BY <1>2 DEF SendLine, eventVars, loopVars, wireVars
  <2>2. Owed' = Owed
    BY <2>1 DEF Owes
  <2>3. Service!Say(c)
    BY <2>1, <2>2 DEF Service!Say
  <2> QED BY <2>3 DEF Service!Next
<1>3. ASSUME NEW c \in Clients, CloseClient(c) PROVE Service!Next
  <2>1. /\ client[c] = "open" /\ client' = [client EXCEPT ![c] = "closed"]
        /\ UNCHANGED <<sent, received, ran, replies>>
    BY <1>3 DEF CloseClient, eventVars, loopVars, wireVars
  <2>2. \A d \in Clients : client'[d] = "closed" <=> (client[d] = "closed" \/ d = c)
    BY <1>0, <2>1 DEF TypeOK
  <2>3. \A l \in Lines : l[1] \in Clients
    OBVIOUS
  <2>4. Owed' = {l \in Owed : l[1] # c}
    BY <2>1, <2>2, <2>3 DEF Owes
  <2>5. Service!Leave(c)
    BY <2>1, <2>2, <2>4 DEF Service!Leave
  <2> QED BY <2>5 DEF Service!Next
<1>4. ASSUME \/ EpollWait \/ LoopStep \/ Accept \/ AcceptFails \/ AddTask
             \/ \E fd \in Fds : MessageBegins(fd) \/ HandleClose(fd)
             \/ \E w \in Workers : Worker(w)
             \/ \E c \in Clients : SendPart(c) \/ Read(c)
             \/ UNCHANGED vars
      PROVE  UNCHANGED Service!vars
  <2>1. UNCHANGED <<sent, received, replies, client>>
    BY <1>4 DEF EpollWait, LoopStep, Accept, AcceptFails, AddTask, MessageBegins, HandleClose,
          Worker, TakeTask, Process, Notify, DropTask, SendPart, Read, vars, clientVars,
          wireVars
  <2>2. ran' = ran
    BY <1>4 DEF EpollWait, EpollReturns, LoopStep, EpollTimesOut, LoopEnter, LoopTest,
          HandleReadEvent, SwapPending, RunReturns, DispatchDone, Accept, AcceptFails, AddTask,
          MessageBegins, HandleClose, HandleSource, Worker, TakeTask, Process, PostAppend,
          Notify, PostWakeup, DropTask, SendPart, Read, vars, eventVars, loopVars
  <2> QED BY <2>1, <2>2, DebtSame
<1>5. CASE MessageReceived
  BY <1>5, TakeRefines
<1>6. CASE SendAnswer
  BY <1>6, AnswerRefines
<1>7. CASE SendDangling
  BY <1>7 DEF SendDangling
<1> QED
  BY <1>1, <1>2, <1>3, <1>4, <1>5, <1>6, <1>7 DEF Next, Handler, Client

\* The whole server, loop, connections, queue and workers, implements Echo for any
\* number of clients, workers, lines and descriptors, up to the step in which a
\* functor runs on a destroyed connection: what has been read is answered once,
\* to its own client, and stays owed until then as long as the client is there.
THEOREM ServerIsEcho == Spec => ImplementsEcho
<1>1. Init => LoopInv /\ ServerInv /\ OwnerInv /\ WayInv /\ AnswerInv
  BY AnswersInit
<1>2. LoopInv /\ ServerInv /\ OwnerInv /\ WayInv /\ AnswerInv /\ [Next]_vars
        => LoopInv' /\ ServerInv' /\ OwnerInv' /\ WayInv' /\ AnswerInv'
  BY AnswersStep
<1>3. Init => Service!Init
  <2> SUFFICES ASSUME Init PROVE Service!Init
    OBVIOUS
  <2>1. \A l \in Lines : l[1] \in Clients /\ ~(l[2] <= 0)
    BY EchoAssumption
  <2>2. Owes
    BY <1>1, OwedIs
  <2>3. Owed = {}
    BY <2>1, <2>2 DEF Owes, Init
  <2> QED BY <2>3 DEF Init, Service!Init
<1>4. /\ LoopInv /\ ServerInv /\ WayInv /\ Owes /\ Owes' /\ [Next]_vars
      => [dangling' = {} => Service!Next \/ UNCHANGED Service!vars]_vars
  BY ServiceStepRefines
<1>5. LoopInv /\ WayInv => Owes
  BY OwedIs
<1> QED BY <1>1, <1>2, <1>3, <1>4, <1>5, PTL DEF Spec, ImplementsEcho
==============================================================================

--------------------------- MODULE ChatRoomProofs ---------------------------
(***************************************************************************)
(* For every set of clients and descriptors: the map of the chat room, the *)
(* epoll set and the open descriptors agree, and no event of a round is    *)
(* handled for a connection other than the one it was reported for.        *)
(***************************************************************************)
EXTENDS ChatRoom, SequenceTheorems, TLAPS

Types ==
    /\ backlog \in Seq(Clients)
    /\ peer \in [Clients -> {"new", "open", "closed", "reset"}]
    /\ owner \in [Fds -> Clients \cup {None}]
    /\ watched \subseteq Fds /\ conns \subseteq Keys
    /\ ready \subseteq [fd : Fds \cup {Listen}, who : Clients \cup {None}]

\* A client is in one place: it has not connected, waits, or has one descriptor.
PlaceInv ==
    /\ \A i \in 1..Len(backlog) : peer[backlog[i]] # "new"
    /\ \A i, j \in 1..Len(backlog) : backlog[i] = backlog[j] => i = j
    /\ \A f \in Fds : owner[f] # None =>
          /\ peer[owner[f]] # "new"
          /\ \A i \in 1..Len(backlog) : backlog[i] # owner[f]

\* accept is called for a client that waits, so it does not block.
AcceptInv ==
    \A e \in ready : e.fd = Listen => e.who = None /\ backlog # <<>>

IInv == Types /\ PlaceInv /\ AcceptInv /\ TableOK /\ EventsAreFresh

LEMMA InitInv == Init => IInv
BY ChatAssumption
   DEF Init, IInv, Types, PlaceInv, AcceptInv, TableOK, EventsAreFresh, Keys

\* Steps that change no table: clients, the clock, and forwarding.
LEMMA QuietInv ==
    ASSUME IInv, UNCHANGED <<backlog, tableVars>>, ready' \subseteq ready,
           peer' \in [Clients -> {"new", "open", "closed", "reset"}],
           \A c \in Clients : peer[c] # "new" => peer'[c] # "new"
    PROVE  IInv'
<1> USE ChatAssumption DEF IInv, tableVars
<1>1. Types'
  BY DEF Types
<1>2. PlaceInv'
  <2>1. \A i \in 1..Len(backlog) : backlog[i] \in Clients
    BY DEF Types
  <2>2. \A f \in Fds : owner[f] # None => owner[f] \in Clients
    BY DEF Types
  <2> QED
    BY <2>1, <2>2 DEF PlaceInv
<1>3. AcceptInv' /\ TableOK' /\ EventsAreFresh'
  BY DEF AcceptInv, TableOK, EventsAreFresh
<1> QED
  BY <1>1, <1>2, <1>3

LEMMA ClientInv == IInv /\ (Tick \/ \E c \in Clients : Client(c)) => IInv'
<1> SUFFICES ASSUME IInv, Tick \/ \E c \in Clients : Client(c) PROVE IInv'
  OBVIOUS
<1> USE DEF roundVars, clientVars
<1>1. CASE Tick
  BY <1>1, QuietInv DEF Tick, IInv, Types
<1>2. ASSUME NEW c \in Clients, Connect(c) PROVE IInv'
  <2> USE <1>2, ChatAssumption DEF Connect, IInv, tableVars
  <2>1. /\ backlog' \in Seq(Clients) /\ Len(backlog) \in Nat /\ Len(backlog') = Len(backlog) + 1
        /\ \A i \in 1..Len(backlog') :
              backlog'[i] = IF i = Len(backlog) + 1 THEN c ELSE backlog[i]
        /\ backlog \in Seq(Clients) /\ \A i \in 1..Len(backlog) : backlog[i] \in Clients
    BY DEF Types
  <2>2. Types'
    BY <2>1 DEF Types
  <2>3. \A i \in 1..Len(backlog) : backlog[i] # c
    BY DEF PlaceInv
  <2>4. \A f \in Fds : owner[f] # None => owner[f] \in Clients /\ owner[f] # c
    BY DEF PlaceInv, Types
  <2>5. \A i \in 1..Len(backlog') : i \in 1..Len(backlog) \/ i = Len(backlog) + 1
    BY <2>1
  <2>6. PlaceInv'
    <3>1. \A i \in 1..Len(backlog') : peer'[backlog'[i]] # "new"
      BY <2>1, <2>5 DEF PlaceInv, Types
    <3>2. \A i, j \in 1..Len(backlog') : backlog'[i] = backlog'[j] => i = j
      BY <2>1, <2>3, <2>5 DEF PlaceInv
    <3>3. \A f \in Fds : owner[f] # None =>
            /\ peer'[owner[f]] # "new"
            /\ \A i \in 1..Len(backlog') : backlog'[i] # owner[f]
      BY <2>1, <2>4, <2>5 DEF PlaceInv, Types
    <3> QED
      BY <3>1, <3>2, <3>3 DEF PlaceInv
  <2>7. backlog' # <<>>
    BY <2>1
  <2>8. AcceptInv' /\ TableOK' /\ EventsAreFresh'
    BY <2>7 DEF AcceptInv, TableOK, EventsAreFresh
  <2> QED
    BY <2>2, <2>6, <2>8
<1>3. ASSUME NEW c \in Clients, Speak(c) \/ Read(c) PROVE IInv'
  BY <1>3, QuietInv DEF Speak, Read, IInv, Types
<1>4. ASSUME NEW c \in Clients, Leave(c) PROVE IInv'
  <2>1. UNCHANGED <<backlog, tableVars, ready>>
    BY <1>4 DEF Leave
  <2>2. /\ peer' \in [Clients -> {"new", "open", "closed", "reset"}]
        /\ \A d \in Clients : peer[d] # "new" => peer'[d] # "new"
    BY <1>4 DEF Leave, IInv, Types
  <2> QED
    BY <2>1, <2>2, QuietInv
<1> QED
  BY <1>1, <1>2, <1>3, <1>4 DEF Client

LEMMA EpollInv == IInv /\ (EpollWait \/ EpollTimesOut) => IInv'
<1> SUFFICES ASSUME IInv, EpollWait \/ EpollTimesOut PROVE IInv'
  OBVIOUS
<1> USE ChatAssumption DEF IInv, clientVars, tableVars
<1>1. CASE EpollTimesOut
  BY <1>1, QuietInv DEF EpollTimesOut, Types
<1>2. CASE EpollWait
  <2>1. ready' \subseteq Pending /\ UNCHANGED <<backlog, peer, tableVars>>
    BY <1>2 DEF EpollWait
  <2>2. \A e \in Pending :
          \/ e = [fd |-> Listen, who |-> None] /\ backlog # <<>>
          \/ \E f \in watched : e = [fd |-> f, who |-> owner[f]]
    BY DEF Pending
  <2>3. \A e \in Pending :
          /\ e \in [fd : Fds \cup {Listen}, who : Clients \cup {None}]
          /\ e.fd = Listen => e.who = None /\ backlog # <<>>
          /\ e.fd # Listen => e.fd \in watched /\ owner[e.fd] = e.who
    BY <2>2 DEF Types
  <2>4. Types'
    BY <2>1, <2>3 DEF Types
  <2>5. PlaceInv' /\ TableOK'
    BY <2>1 DEF PlaceInv, TableOK
  <2>6. AcceptInv' /\ EventsAreFresh'
    BY <2>1, <2>3 DEF AcceptInv, EventsAreFresh
  <2> QED
    BY <2>4, <2>5, <2>6
<1> QED
  BY <1>1, <1>2

LEMMA AcceptInvs == IInv /\ (Accept \/ AcceptFails) => IInv'
<1> SUFFICES ASSUME IInv, Accept \/ AcceptFails PROVE IInv'
  OBVIOUS
<1> USE ChatAssumption DEF IInv, clientVars, Enter
<1>1. CASE Accept
  <2>1. PICK e \in ready : e.fd = Listen /\ ready' = ready \ {e}
    BY <1>1 DEF Accept
  <2>2. backlog # <<>> /\ e = [fd |-> Listen, who |-> None]
    BY <2>1 DEF AcceptInv, Types
  <2>3. /\ Head(backlog) \in Clients /\ Tail(backlog) \in Seq(Clients) /\ Len(backlog) \in Nat
        /\ Head(backlog) = backlog[1] /\ Len(backlog) >= 1
        /\ \A i \in 1..Len(Tail(backlog)) :
              Tail(backlog)[i] = backlog[i + 1] /\ i + 1 \in 1..Len(backlog) /\ i + 1 # 1
    BY <2>2 DEF Types
  <2> DEFINE c == Head(backlog)
  <2>4. PICK fd \in FreeFds :
          /\ owner' = [owner EXCEPT ![fd] = c] /\ watched' = watched \cup {fd}
          /\ conns' = conns \cup {fd}
    BY <1>1 DEF Accept
  <2>5. fd \in Fds /\ owner[fd] = None /\ fd # -1 /\ c # None /\ backlog' = Tail(backlog) /\ peer' = peer
    BY <1>1, <2>3, <2>4 DEF Accept, FreeFds
  <2>6. \A f \in Fds : owner'[f] = IF f = fd THEN c ELSE owner[f]
    BY <2>4 DEF Types
  <2>7. Types'
    BY <2>1, <2>3, <2>4, <2>5 DEF Types, Keys
  <2>8. peer[c] # "new" /\ \A i \in 1..Len(Tail(backlog)) : Tail(backlog)[i] # c
    BY <2>3 DEF PlaceInv
  <2>9. PlaceInv'
    <3>1. ASSUME NEW i \in 1..Len(Tail(backlog)) PROVE peer[Tail(backlog)[i]] # "new"
      <4>1. i + 1 \in 1..Len(backlog) /\ Tail(backlog)[i] = backlog[i + 1]
        BY <2>3
      <4> QED BY <4>1 DEF PlaceInv
    <3>2. ASSUME NEW i \in 1..Len(Tail(backlog)), NEW j \in 1..Len(Tail(backlog)),
                 Tail(backlog)[i] = Tail(backlog)[j]
          PROVE  i = j
      <4>1. i + 1 = j + 1
        BY <2>3, <3>2 DEF PlaceInv
      <4> QED BY <4>1
    <3>3. \A f \in Fds : owner[f] # None =>
            /\ peer[owner[f]] # "new"
            /\ \A i \in 1..Len(Tail(backlog)) : Tail(backlog)[i] # owner[f]
      BY <2>3 DEF PlaceInv
    <3> QED
      BY <2>5, <2>6, <2>8, <3>1, <3>2, <3>3 DEF PlaceInv
  <2>10. AcceptInv'
    BY <2>1, <2>2 DEF AcceptInv, Types
  <2>11. \A f \in Fds : owner[f] # c
    BY <2>3, <2>5 DEF PlaceInv
  <2>12. TableOK'
    <3>1. watched' = {f \in Fds : owner'[f] # None}
      BY <2>4, <2>5, <2>6 DEF TableOK
    <3>2. \A f, g \in watched' : owner'[f] = owner'[g] => f = g
      BY <2>4, <2>5, <2>6, <2>11 DEF TableOK, Types
    <3>3. conns' \ {-1} = watched'
      BY <2>4, <2>5 DEF TableOK
    <3> QED
      BY <3>1, <3>2, <3>3 DEF TableOK
  <2>13. EventsAreFresh'
    BY <2>1, <2>4, <2>5, <2>6 DEF EventsAreFresh, TableOK, Types
  <2> QED
    BY <2>7, <2>9, <2>10, <2>12, <2>13
<1>2. CASE AcceptFails
  <2>1. /\ \E e \in ready : ready' = ready \ {e}
        /\ conns' = conns \cup {-1} /\ UNCHANGED <<backlog, peer, owner, watched>>
    BY <1>2 DEF AcceptFails
  <2>2. Types'
    BY <2>1 DEF Types, Keys
  <2>3. PlaceInv' /\ AcceptInv' /\ EventsAreFresh'
    BY <2>1 DEF PlaceInv, AcceptInv, EventsAreFresh
  <2>4. TableOK'
    BY <2>1 DEF TableOK
  <2> QED
    BY <2>2, <2>3, <2>4
<1> QED
  BY <1>1, <1>2

\* Closing connections of which no event is left keeps the invariant.
LEMMA CloseInv ==
    ASSUME IInv, NEW keys \in SUBSET Keys, CloseAll(keys), UNCHANGED <<backlog, peer>>,
           ready' \subseteq ready, \A e \in ready' : e.fd \notin keys
    PROVE  IInv'
<1> USE ChatAssumption DEF IInv, CloseAll
<1>1. Types'
  BY DEF Types
<1>2. \A f \in Fds : owner'[f] = IF f \in keys THEN None ELSE owner[f]
  OBVIOUS
<1>3. PlaceInv' /\ AcceptInv'
  BY <1>2 DEF PlaceInv, AcceptInv
<1>4. TableOK'
  BY <1>2 DEF TableOK, Types
<1>5. EventsAreFresh'
  BY <1>2 DEF EventsAreFresh, Types
<1> QED
  BY <1>1, <1>3, <1>4, <1>5

LEMMA HandleInv == IInv /\ HandleClient => IInv'
<1> SUFFICES ASSUME IInv, NEW e \in ready, e.fd # Listen, Recv(e) \/ RecvError(e) \/ RecvEnd(e)
             PROVE  IInv'
  BY DEF HandleClient
<1> USE DEF clientVars
<1>1. CASE Recv(e)
  BY <1>1, QuietInv DEF Recv, IInv, Types
<1>2. CASE RecvError(e)
  BY <1>2, QuietInv DEF RecvError, IInv, Types
<1>3. CASE RecvEnd(e)
  <2>1. CloseAll({e.fd}) /\ UNCHANGED <<backlog, peer>> /\ ready' = ready \ {e}
    BY <1>3 DEF RecvEnd
  <2>2. {e.fd} \in SUBSET Keys
    BY DEF IInv, Types, Keys
  <2>3. ASSUME NEW d \in ready', d.fd = e.fd PROVE FALSE
    <3>1. d.who = e.who
      BY <2>1, <2>3 DEF IInv, EventsAreFresh
    <3> QED
      BY <2>1, <2>3, <3>1 DEF IInv, Types
  <2> QED
    BY <2>1, <2>2, <2>3, CloseInv
<1> QED
  BY <1>1, <1>2, <1>3

LEMMA RoundInv == IInv /\ (Forward \/ Reap) => IInv'
<1> SUFFICES ASSUME IInv, Forward \/ Reap PROVE IInv'
  OBVIOUS
<1>1. CASE Forward
  BY <1>1, QuietInv DEF Forward, IInv, Types
<1>2. CASE Reap
  <2>1. Silent \in SUBSET Keys
    BY DEF Silent, IInv, Types
  <2> QED
    BY <1>2, <2>1, CloseInv DEF Reap, clientVars
<1> QED
  BY <1>1, <1>2

LEMMA Inductive == IInv /\ [Next]_vars => IInv'
<1> SUFFICES ASSUME IInv, [Next]_vars PROVE IInv'
  OBVIOUS
<1>1. CASE Next
  BY <1>1, ClientInv, EpollInv, AcceptInvs, HandleInv, RoundInv DEF Next, Server
<1>2. CASE UNCHANGED vars
  BY <1>2, QuietInv DEF vars, clientVars, tableVars, roundVars, IInv, Types
<1> QED
  BY <1>1, <1>2

\* For every set of clients, every number of descriptors and events, and every
\* idle limit: the map, the epoll set and the kernel agree, and an event is
\* handled for the connection it was reported for, although connections are
\* closed and their numbers given out again in the same round.
THEOREM ChatRoomSafe == Spec => [](TableOK /\ EventsAreFresh)
<1>1. IInv => TableOK /\ EventsAreFresh
  BY DEF IInv
<1> QED
  BY InitInv, Inductive, <1>1, PTL DEF Spec

\* An event is handled for the connection it was reported for.
COROLLARY RoomEventsAreFresh == Spec => []EventsAreFresh
BY ChatRoomSafe, PTL

----------------------------------------------------------------------------
\* What is heard

\* The messages a + 1 to b.
Said(a, b) == [i \in 1..(b - a) |-> a + i]

HistoryTypes ==
    /\ said \in [Clients -> Nat] /\ taken \in [Clients -> Nat]
    /\ joined \in [Clients -> [Clients -> Nat]]
    /\ heard \in [Clients -> [Clients -> Seq(Nat)]]

\* While messages are forwarded the buffer holds the last ones taken from their
\* speaker, who is not among the targets.
ChunkInv ==
    /\ targets \subseteq conns
    /\ pc = "wait" => targets = {}
    /\ targets # {} =>
          /\ chunk.from \in Clients
          /\ Len(chunk.text) \in 0..taken[chunk.from]
          /\ chunk.text = Said(taken[chunk.from] - Len(chunk.text), taken[chunk.from])
          /\ \A f \in watched \cap targets : owner[f] # chunk.from

\* Who is not in the room yet has heard nothing.
FreshInv ==
    \A d \in Clients :
        peer[d] = "new" \/ (\E i \in 1..Len(backlog) : backlog[i] = d) =>
            \A c \in Clients : heard[d][c] = <<>>

\* The messages of c on their way to the client behind f.
OnTheWay(f, c) == IF f \in targets /\ chunk.from = c THEN Len(chunk.text) ELSE 0

Gone(d) == peer[d] \in {"closed", "reset"}

\* A client has heard what was taken since it came, but for what is on its way.
Hears(f, c) ==
    /\ joined[owner[f]][c] + OnTheWay(f, c) <= taken[c]
    /\ Gone(owner[f]) \/ heard[owner[f]][c] = Said(joined[owner[f]][c], taken[c] - OnTheWay(f, c))

HearInv ==
    \A f \in watched : \A c \in Clients :
        IF c = owner[f] THEN heard[owner[f]][c] = <<>> ELSE Hears(f, c)

RoomInv == HistoryTypes /\ ChunkInv /\ FreshInv /\ HearInv

LEMMA SaidSeq ==
    ASSUME NEW a \in Nat, NEW b \in Nat, a <= b
    PROVE  Said(a, b) \in Seq(Nat) /\ Len(Said(a, b)) = b - a
<1>1. b - a \in Nat /\ Said(a, b) \in [1..(b - a) -> Nat]
  BY DEF Said
<1>2. Said(a, b) \in Seq(Nat)
  BY <1>1, SeqDef
<1>3. 1..Len(Said(a, b)) = 1..(b - a) /\ Len(Said(a, b)) \in Nat
  BY <1>1, <1>2, LenProperties
<1> QED BY <1>1, <1>2, <1>3

\* Messages that follow one another join up.
LEMMA SaidJoins ==
    ASSUME NEW a \in Nat, NEW b \in Nat, NEW c \in Nat, a <= b, b <= c
    PROVE  Said(a, b) \o Said(b, c) = Said(a, c)
<1> DEFINE s == Said(a, b)  t == Said(b, c)  u == Said(a, c)
<1>1. \A i \in 1..(b - a) : s[i] = a + i
  BY DEF Said
<1>2. \A i \in 1..(c - b) : t[i] = b + i
  BY DEF Said
<1>3. \A i \in 1..(c - a) : u[i] = a + i
  BY DEF Said
<1>4. s \in Seq(Nat) /\ Len(s) = b - a
  BY SaidSeq
<1>5. t \in Seq(Nat) /\ Len(t) = c - b
  BY SaidSeq
<1>6. u \in Seq(Nat) /\ Len(u) = c - a
  BY SaidSeq
<1> HIDE DEF s, t, u
<1>7. /\ s \o t \in Seq(Nat) /\ Len(s \o t) = c - a
      /\ \A i \in 1..(c - a) : (s \o t)[i] = IF i <= b - a THEN s[i] ELSE t[i - (b - a)]
  <2>1. /\ s \o t \in Seq(Nat) /\ Len(s \o t) = Len(s) + Len(t)
        /\ \A i \in 1..(Len(s) + Len(t)) : (s \o t)[i] = IF i <= Len(s) THEN s[i] ELSE t[i - Len(s)]
    BY <1>4, <1>5, ConcatProperties
  <2>2. Len(s) = b - a /\ Len(s) + Len(t) = c - a
    BY <1>4, <1>5
  <2> QED BY <2>1, <2>2
<1>8. ASSUME NEW i \in 1..(c - a) PROVE (s \o t)[i] = u[i]
  <2>1. CASE i <= b - a
    BY <1>1, <1>3, <1>7, <2>1
  <2>2. CASE ~(i <= b - a)
    <3>1. i - (b - a) \in 1..(c - b) /\ b + (i - (b - a)) = a + i
      BY <2>2
    <3> QED BY <1>2, <1>3, <1>7, <2>2, <3>1
  <2> QED BY <2>1, <2>2
<1>9. s \o t = u
  BY <1>6, <1>7, <1>8, SeqEqual
<1> QED BY <1>9 DEF s, t, u

\* Those in the room are clients, each behind one descriptor, and are neither new
\* nor waiting.
LEMMA InTheRoom ==
    ASSUME IInv, NEW f \in watched
    PROVE  /\ f \in Fds /\ f # -1 /\ f \in conns
           /\ owner[f] \in Clients /\ peer[owner[f]] # "new"
           /\ \A i \in 1..Len(backlog) : backlog[i] # owner[f]
           /\ \A g \in watched : owner[g] = owner[f] => g = f
BY ChatAssumption DEF IInv, TableOK, PlaceInv, Types

LEMMA RoomInitInv == Init => RoomInv
<1> SUFFICES ASSUME Init PROVE RoomInv
  OBVIOUS
<1> USE DEF Init
<1>1. HistoryTypes
  BY EmptySeq DEF HistoryTypes
<1>2. ChunkInv /\ FreshInv /\ HearInv
  BY DEF ChunkInv, FreshInv, HearInv
<1> QED BY <1>1, <1>2 DEF RoomInv

\* Steps that hear, take and forward nothing: some who were in the room may be
\* gone from it or from the network.
LEMMA RoomStays ==
    ASSUME IInv, RoomInv,
           UNCHANGED <<taken, joined, heard, chunk, targets>>,
           said' \in [Clients -> Nat],
           watched' \subseteq watched, \A f \in watched' : owner'[f] = owner[f],
           targets \subseteq conns', pc' = "wait" => targets = {},
           \A d \in Clients : Gone(d) => Gone(d)',
           \A d \in Clients :
               peer'[d] = "new" \/ (\E i \in 1..Len(backlog') : backlog'[i] = d) =>
                   peer[d] = "new" \/ (\E i \in 1..Len(backlog) : backlog[i] = d)
    PROVE  RoomInv'
<1>1. HistoryTypes'
  BY DEF RoomInv, HistoryTypes
<1>2. ChunkInv'
  BY DEF RoomInv, ChunkInv
<1>3. FreshInv'
  BY DEF RoomInv, FreshInv
<1>4. HearInv'
  <2> SUFFICES ASSUME NEW f \in watched', NEW c \in Clients
               PROVE  IF c = owner'[f] THEN heard'[owner'[f]][c] = <<>> ELSE Hears(f, c)'
    BY DEF HearInv
  <2>1. f \in watched /\ owner'[f] = owner[f] /\ owner[f] \in Clients
    BY InTheRoom
  <2>2. Gone(owner[f]) => Gone(owner[f])'
    BY <2>1
  <2>3. OnTheWay(f, c)' = OnTheWay(f, c)
    BY DEF OnTheWay
  <2>4. IF c = owner[f] THEN heard[owner[f]][c] = <<>> ELSE Hears(f, c)
    BY <2>1 DEF RoomInv, HearInv
  <2> QED BY <2>1, <2>2, <2>3, <2>4 DEF Hears, Gone
<1> QED BY <1>1, <1>2, <1>3, <1>4 DEF RoomInv

\* A new client has heard nothing and hears from now on.
LEMMA AcceptHears ==
    ASSUME IInv, RoomInv, Accept
    PROVE  RoomInv'
<1> USE ChatAssumption
<1>1. PICK e \in ready : e.fd = Listen
  BY DEF Accept
<1>2. backlog # <<>> /\ backlog \in Seq(Clients)
  BY <1>1 DEF IInv, AcceptInv, Types
<1>3. /\ Head(backlog) \in Clients /\ Head(backlog) = backlog[1]
      /\ Len(backlog) \in Nat /\ Len(backlog) >= 1
      /\ \A i \in 1..Len(Tail(backlog)) :
            Tail(backlog)[i] = backlog[i + 1] /\ i + 1 \in 1..Len(backlog)
  BY <1>2
<1> DEFINE d == Head(backlog)
<1>4. PICK fd \in FreeFds :
         /\ owner' = [owner EXCEPT ![fd] = d] /\ watched' = watched \cup {fd}
         /\ conns' = conns \cup {fd}
         /\ joined' = [joined EXCEPT ![d] = taken]
  BY DEF Accept, Enter
<1>5. /\ fd \in Fds /\ owner[fd] = None /\ fd \notin watched
      /\ targets = {} /\ backlog' = Tail(backlog)
      /\ UNCHANGED <<said, taken, heard, chunk, targets, pc, peer>>
  BY <1>4 DEF Accept, FreeFds, Handling, clientVars, IInv, TableOK
<1>6. HistoryTypes'
  <2>1. joined' \in [Clients -> [Clients -> Nat]]
    BY <1>3, <1>4 DEF RoomInv, HistoryTypes
  <2> QED BY <1>5, <2>1 DEF RoomInv, HistoryTypes
<1>7. ChunkInv'
  BY <1>5 DEF ChunkInv
<1>8. FreshInv'
  <2> SUFFICES ASSUME NEW b \in Clients,
                      peer'[b] = "new" \/ (\E i \in 1..Len(backlog') : backlog'[i] = b)
               PROVE  \A c \in Clients : heard'[b][c] = <<>>
    BY DEF FreshInv
  <2>1. peer[b] = "new" \/ (\E i \in 1..Len(backlog) : backlog[i] = b)
    BY <1>3, <1>5
  <2> QED BY <1>5, <2>1 DEF RoomInv, FreshInv
<1>9. HearInv'
  <2> SUFFICES ASSUME NEW f \in watched', NEW c \in Clients
               PROVE  IF c = owner'[f] THEN heard'[owner'[f]][c] = <<>> ELSE Hears(f, c)'
    BY DEF HearInv
  <2>1. OnTheWay(f, c)' = 0 /\ OnTheWay(f, c) = 0
    BY <1>5 DEF OnTheWay
  <2>2. taken[c] \in Nat
    BY DEF RoomInv, HistoryTypes
  <2>3. CASE f = fd
    <3>1. owner'[f] = d
      BY <1>4, <1>5, <2>3 DEF IInv, Types
    <3>2. heard'[d][c] = <<>>
      <4>1. 1 \in 1..Len(backlog) /\ backlog[1] = d
        BY <1>3
      <4> QED BY <1>3, <1>5, <4>1 DEF RoomInv, FreshInv
    <3>3. joined'[d][c] = taken[c]
      BY <1>3, <1>4 DEF RoomInv, HistoryTypes
    <3>4. Said(taken[c], taken[c] - 0) = <<>>
      <4>1. 1..(taken[c] - 0 - taken[c]) = {}
        BY <2>2
      <4> QED BY <4>1 DEF Said
    <3>5. Hears(f, c)'
      BY <1>5, <2>1, <2>2, <3>1, <3>2, <3>3, <3>4 DEF Hears
    <3> QED BY <3>1, <3>2, <3>5
  <2>4. CASE f # fd
    <3>1. f \in watched
      BY <1>4, <2>4
    <3>2. owner'[f] = owner[f] /\ owner[f] # d /\ owner[f] \in Clients
      <4>1. 1 \in 1..Len(backlog) /\ backlog[1] = d
        BY <1>3
      <4>2. owner'[f] = owner[f]
        BY <1>4, <2>4, <3>1, InTheRoom DEF IInv, Types
      <4> QED BY <3>1, <4>1, <4>2, InTheRoom
    <3>3. joined'[owner[f]] = joined[owner[f]]
      BY <1>4, <3>2 DEF RoomInv, HistoryTypes
    <3>4. IF c = owner[f] THEN heard[owner[f]][c] = <<>> ELSE Hears(f, c)
      BY <3>1 DEF RoomInv, HearInv
    <3> QED BY <1>5, <2>1, <3>2, <3>3, <3>4 DEF Hears, Gone
  <2> QED BY <2>3, <2>4
<1> QED BY <1>6, <1>7, <1>8, <1>9 DEF RoomInv

\* What is received is on its way to everyone else.
LEMMA ReceiveHears ==
    ASSUME IInv, RoomInv, targets = {}, pc # "wait", NEW fd \in watched, NEW n \in Nat,
           Forwards(fd, owner[fd], n),
           UNCHANGED <<backlog, tableVars, peer, said, joined, heard, pc>>
    PROVE  RoomInv'
<1> USE ChatAssumption DEF tableVars
<1> DEFINE c == owner[fd]
<1>1. /\ fd \in Fds /\ fd # -1 /\ fd \in conns /\ c \in Clients
      /\ \A g \in watched : owner[g] = c => g = fd
  BY InTheRoom
<1>2. /\ taken' = [taken EXCEPT ![c] = @ + n] /\ targets' = conns \ {fd}
      /\ chunk' = IF conns = {fd} THEN Empty
                  ELSE [from |-> c, text |-> [i \in 1..n |-> taken[c] + i]]
  BY DEF Forwards
<1>3. /\ taken \in [Clients -> Nat] /\ taken[c] \in Nat
      /\ taken'[c] = taken[c] + n
      /\ \A b \in Clients \ {c} : taken'[b] = taken[b]
  BY <1>1, <1>2 DEF RoomInv, HistoryTypes
<1>4. HistoryTypes'
  BY <1>1, <1>2, <1>3 DEF RoomInv, HistoryTypes
<1>5. ASSUME conns # {fd}
      PROVE  /\ chunk'.from = c /\ chunk'.text = [i \in 1..n |-> taken[c] + i]
             /\ Len(chunk'.text) = n
  BY <1>2, <1>5
<1>6. ChunkInv'
  <2>1. CASE conns = {fd}
    <3>1. targets' = {}
      BY <1>2, <2>1
    <3> QED BY <3>1 DEF ChunkInv
  <2>2. CASE conns # {fd}
    <3>1. chunk'.text = Said(taken'[c] - n, taken'[c])
      <4>1. taken'[c] - n = taken[c] /\ taken'[c] - (taken'[c] - n) = n
        BY <1>3
      <4> QED BY <1>3, <1>5, <2>2, <4>1 DEF Said
    <3>2. n \in 0..taken'[c]
      BY <1>3
    <3>3. \A f \in watched' \cap targets' : owner'[f] # c
      BY <1>1, <1>2
    <3>4. targets' \subseteq conns' /\ pc' # "wait"
      BY <1>2
    <3> QED BY <1>1, <1>5, <2>2, <3>1, <3>2, <3>3, <3>4 DEF ChunkInv
  <2> QED BY <2>1, <2>2
<1>7. FreshInv'
  BY DEF RoomInv, FreshInv
<1>8. HearInv'
  <2> SUFFICES ASSUME NEW f \in watched, NEW b \in Clients
               PROVE  IF b = owner[f] THEN heard[owner[f]][b] = <<>> ELSE Hears(f, b)'
    BY DEF HearInv
  <2>1. IF b = owner[f] THEN heard[owner[f]][b] = <<>> ELSE Hears(f, b)
    BY DEF RoomInv, HearInv
  <2>2. OnTheWay(f, b) = 0
    BY DEF OnTheWay
  <2>3. owner[f] \in Clients /\ f \in conns /\ joined[owner[f]][b] \in Nat /\ taken[b] \in Nat
    <3>1. owner[f] \in Clients /\ f \in conns
      BY InTheRoom
    <3> QED BY <3>1 DEF RoomInv, HistoryTypes
  <2>4. CASE b # c /\ b # owner[f]
    <3>1. OnTheWay(f, b)' = 0
      <4>1. CASE conns = {fd}
        BY <1>2, <4>1 DEF OnTheWay
      <4>2. CASE conns # {fd}
        BY <1>5, <2>4, <4>2 DEF OnTheWay
      <4> QED BY <4>1, <4>2
    <3>2. taken'[b] = taken[b]
      BY <1>3, <2>4
    <3> QED BY <2>1, <2>2, <2>4, <3>1, <3>2 DEF Hears, Gone
  <2>5. CASE b = c /\ b # owner[f]
    <3>1. f # fd /\ conns # {fd}
      BY <2>3, <2>5
    <3>2. f \in targets' /\ chunk'.from = c /\ Len(chunk'.text) = n
      BY <1>2, <1>5, <2>3, <3>1
    <3>3. OnTheWay(f, b)' = n
      BY <2>5, <3>2 DEF OnTheWay
    <3>4. taken'[b] = taken[b] + n
      BY <1>3, <2>5
    <3>5. taken'[b] - n = taken[b] - 0 /\ joined[owner[f]][b] + n <= taken'[b]
      BY <2>1, <2>2, <2>3, <2>5, <3>4 DEF Hears
    <3> QED BY <2>1, <2>2, <2>5, <3>3, <3>5 DEF Hears, Gone
  <2>6. CASE b = owner[f]
    BY <2>1, <2>6
  <2> QED BY <2>4, <2>5, <2>6
<1> QED BY <1>4, <1>6, <1>7, <1>8 DEF RoomInv

\* A send: what was on its way to one target has been heard there.
LEMMA ForwardHears ==
    ASSUME IInv, RoomInv, Forward
    PROVE  RoomInv'
<1> USE ChatAssumption
<1>1. PICK k \in targets :
         /\ targets' = targets \ {k}
         /\ chunk' = IF targets = {k} THEN Empty ELSE chunk
         /\ IF k = -1 THEN UNCHANGED <<heard, overrun, unread, error, alive>>
                      ELSE ForwardTo(owner[k]) \/ ForwardFails(owner[k])
  BY DEF Forward
<1>2. /\ UNCHANGED <<backlog, peer, said, tableVars, pc, taken, joined>>
      /\ UNCHANGED <<owner, watched, conns>>
  BY DEF Forward, tableVars
<1> DEFINE b == chunk.from
<1>3. /\ targets \subseteq conns /\ pc # "wait" /\ b \in Clients
      /\ Len(chunk.text) \in 0..taken[b] /\ taken[b] \in Nat /\ Len(chunk.text) \in Nat
      /\ chunk.text = Said(taken[b] - Len(chunk.text), taken[b])
      /\ \A f \in watched \cap targets : owner[f] # b
  <2>1. /\ targets \subseteq conns /\ pc # "wait" /\ b \in Clients
        /\ Len(chunk.text) \in 0..taken[b]
        /\ chunk.text = Said(taken[b] - Len(chunk.text), taken[b])
        /\ \A f \in watched \cap targets : owner[f] # b
    BY DEF RoomInv, ChunkInv
  <2>2. taken[b] \in Nat
    BY <2>1 DEF RoomInv, HistoryTypes
  <2> QED BY <2>1, <2>2
<1>4. ChunkInv'
  <2>1. CASE targets' = {}
    BY <2>1 DEF ChunkInv
  <2>2. CASE targets' # {}
    <3>1. chunk' = chunk /\ targets' \subseteq targets
      BY <1>1, <2>2
    <3> QED BY <1>2, <1>3, <3>1 DEF ChunkInv
  <2> QED BY <2>1, <2>2
<1>5. ASSUME NEW f \in watched, NEW c \in Clients, f # k
      PROVE  OnTheWay(f, c)' = OnTheWay(f, c)
  <2>1. CASE targets' = {}
    BY <1>1, <1>5, <2>1 DEF OnTheWay
  <2>2. CASE targets' # {}
    BY <1>1, <1>5, <2>2 DEF OnTheWay
  <2> QED BY <2>1, <2>2
<1>6. \A c \in Clients : OnTheWay(k, c)' = 0
  BY <1>1 DEF OnTheWay
<1>7. ASSUME k # -1
      PROVE  k \in watched /\ owner[k] \in Clients /\ peer[owner[k]] # "new"
             /\ (\A i \in 1..Len(backlog) : backlog[i] # owner[k])
             /\ (\A g \in watched : owner[g] = owner[k] => g = k)
             /\ owner[k] # b
  <2>1. k \in watched
    BY <1>3, <1>7 DEF IInv, TableOK
  <2> QED BY <1>3, <2>1, InTheRoom
<1>8. ASSUME heard' = heard, \A f \in watched : f = k => Gone(owner[k]) PROVE RoomInv'
  <2>1. HistoryTypes'
    BY <1>2, <1>8 DEF RoomInv, HistoryTypes
  <2>2. FreshInv'
    BY <1>2, <1>8 DEF RoomInv, FreshInv
  <2>3. HearInv'
    <3> SUFFICES ASSUME NEW f \in watched, NEW c \in Clients
                 PROVE  IF c = owner[f] THEN heard[owner[f]][c] = <<>> ELSE Hears(f, c)'
      BY <1>2, <1>8 DEF HearInv
    <3>1. IF c = owner[f] THEN heard[owner[f]][c] = <<>> ELSE Hears(f, c)
      BY DEF RoomInv, HearInv
    <3>2. CASE c = owner[f]
      BY <3>1, <3>2
    <3>3. CASE c # owner[f] /\ f # k
      BY <1>2, <1>5, <1>8, <3>1, <3>3 DEF Hears, Gone
    <3>4. CASE c # owner[f] /\ f = k
      <4>1. OnTheWay(f, c) \in Nat
        BY <1>3 DEF OnTheWay
      <4>2. joined[owner[f]][c] \in Nat /\ taken[c] \in Nat
        BY InTheRoom DEF RoomInv, HistoryTypes
      <4>3. joined[owner[f]][c] + OnTheWay(f, c) <= taken[c]
        BY <3>1, <3>4 DEF Hears
      <4>4. joined[owner[f]][c] + 0 <= taken[c]
        BY <4>1, <4>2, <4>3
      <4>5. Gone(owner[f])'
        BY <1>2, <1>8, <3>4 DEF Gone
      <4> QED BY <1>2, <1>6, <3>4, <4>4, <4>5 DEF Hears
    <3> QED BY <3>2, <3>3, <3>4
  <2> QED BY <1>4, <2>1, <2>2, <2>3 DEF RoomInv
<1>9. CASE k = -1
  <2>1. heard' = heard
    BY <1>1, <1>9
  <2>2. k \notin watched
    BY <1>9, InTheRoom
  <2> QED BY <1>8, <2>1, <2>2
<1>10. CASE k # -1 /\ ForwardFails(owner[k])
  <2>1. heard' = heard /\ Gone(owner[k])
    BY <1>10 DEF ForwardFails, Gone
  <2> QED BY <1>8, <2>1
<1>11. CASE k # -1 /\ ForwardTo(owner[k])
  <2> DEFINE d == owner[k]
  <2>1. /\ k \in watched /\ d \in Clients /\ peer[d] # "new" /\ d # b
        /\ \A i \in 1..Len(backlog) : backlog[i] # d
        /\ \A g \in watched : owner[g] = d => g = k
    BY <1>7, <1>11
  <2>2. heard' = [heard EXCEPT ![d][b] = @ \o chunk.text]
    BY <1>11 DEF ForwardTo
  <2>3. heard \in [Clients -> [Clients -> Seq(Nat)]] /\ heard[d][b] \in Seq(Nat)
    BY <1>3, <2>1 DEF RoomInv, HistoryTypes
  <2>4. chunk.text \in Seq(Nat)
    <3>1. taken[b] - Len(chunk.text) \in Nat /\ taken[b] - Len(chunk.text) <= taken[b]
      BY <1>3
    <3> QED BY <1>3, <3>1, SaidSeq
  <2>5. heard[d][b] \o chunk.text \in Seq(Nat)
    BY <2>3, <2>4, ConcatProperties
  <2>6. /\ heard'[d][b] = heard[d][b] \o chunk.text
        /\ \A a, c \in Clients : a # d \/ c # b => heard'[a][c] = heard[a][c]
        /\ heard' \in [Clients -> [Clients -> Seq(Nat)]]
    BY <1>3, <2>1, <2>2, <2>3, <2>5
  <2>7. HistoryTypes'
    BY <1>2, <2>6 DEF RoomInv, HistoryTypes
  <2>8. FreshInv'
    <3> SUFFICES ASSUME NEW a \in Clients,
                        peer[a] = "new" \/ (\E i \in 1..Len(backlog) : backlog[i] = a),
                        NEW c \in Clients
                 PROVE  heard'[a][c] = <<>>
      BY <1>2 DEF FreshInv
    <3>1. a # d
      BY <2>1
    <3>2. heard[a][c] = <<>>
      BY DEF RoomInv, FreshInv
    <3> QED BY <2>6, <3>1, <3>2
  <2>9. HearInv'
    <3> SUFFICES ASSUME NEW f \in watched, NEW c \in Clients
                 PROVE  IF c = owner[f] THEN heard'[owner[f]][c] = <<>> ELSE Hears(f, c)'
      BY <1>2 DEF HearInv
    <3>1. IF c = owner[f] THEN heard[owner[f]][c] = <<>> ELSE Hears(f, c)
      BY DEF RoomInv, HearInv
    <3>2. owner[f] \in Clients
      BY InTheRoom
    <3>3. CASE f # k
      <4>1. owner[f] # d
        BY <2>1, <3>3
      <4>2. heard'[owner[f]][c] = heard[owner[f]][c]
        BY <2>6, <3>2, <4>1
      <4> QED BY <1>2, <1>5, <3>1, <3>3, <4>2 DEF Hears, Gone
    <3>4. CASE f = k /\ c = b
      <4>1. OnTheWay(f, c) = Len(chunk.text) /\ OnTheWay(f, c)' = 0
        BY <1>6, <3>4 DEF OnTheWay
      <4>2. joined[d][b] \in Nat /\ joined[d][b] + Len(chunk.text) <= taken[b]
        <5>1. joined \in [Clients -> [Clients -> Nat]]
          BY DEF RoomInv, HistoryTypes
        <5>2. joined[d][b] \in Nat
          BY <1>3, <2>1, <5>1
        <5>3. c # owner[f]
          BY <2>1, <3>4
        <5>4. joined[owner[f]][c] + OnTheWay(f, c) <= taken[c]
          BY <3>1, <5>3 DEF Hears
        <5> QED BY <3>4, <4>1, <5>2, <5>4
      <4>3. joined[d][b] + 0 <= taken[b]
        <5>1. taken[b] \in Nat /\ Len(chunk.text) \in Nat
          BY <1>3
        <5> QED BY <4>2, <5>1
      <4>4. ASSUME ~Gone(d) PROVE heard'[d][b] = Said(joined[d][b], taken[b] - 0)
        <5> DEFINE m == taken[b] - Len(chunk.text)
        <5>1. heard[d][b] = Said(joined[d][b], m)
          BY <2>1, <3>1, <3>4, <4>1, <4>4 DEF Hears
        <5>2. m \in Nat /\ joined[d][b] <= m /\ m <= taken[b] /\ taken[b] - 0 = taken[b]
          BY <1>3, <4>2
        <5>3. Said(joined[d][b], m) \o Said(m, taken[b]) = Said(joined[d][b], taken[b])
          BY <1>3, <4>2, <5>2, SaidJoins
        <5> QED BY <1>3, <2>6, <5>1, <5>2, <5>3
      <4>5. Hears(f, c)'
        BY <1>2, <3>4, <4>1, <4>3, <4>4 DEF Hears, Gone
      <4> QED BY <2>1, <3>4, <4>5
    <3>5. CASE f = k /\ c # b
      <4>1. OnTheWay(f, c) = 0 /\ OnTheWay(f, c)' = 0
        BY <1>6, <3>5 DEF OnTheWay
      <4>2. heard'[d][c] = heard[d][c]
        BY <2>1, <2>6, <3>5
      <4> QED BY <1>2, <3>1, <3>5, <4>1, <4>2 DEF Hears, Gone
    <3> QED BY <3>3, <3>4, <3>5
  <2> QED BY <1>4, <2>7, <2>8, <2>9 DEF RoomInv
<1> QED BY <1>1, <1>9, <1>10, <1>11

LEMMA RoomNext == IInv /\ RoomInv /\ [Next]_vars => RoomInv'
<1> SUFFICES ASSUME IInv, RoomInv, [Next]_vars PROVE RoomInv'
  OBVIOUS
<1> USE ChatAssumption
<1> USE DEF clientVars, tableVars, roundVars, historyVars
<1>0. /\ said \in [Clients -> Nat] /\ targets \subseteq conns /\ (pc = "wait" => targets = {})
      /\ peer \in [Clients -> {"new", "open", "closed", "reset"}]
  BY DEF RoomInv, HistoryTypes, ChunkInv, IInv, Types
<1>1. ASSUME NEW c \in Clients, Connect(c) PROVE RoomInv'
  <2>1. /\ peer[c] = "new" /\ peer' = [peer EXCEPT ![c] = "open"]
        /\ backlog' = Append(backlog, c)
        /\ UNCHANGED <<taken, joined, heard, chunk, targets, said, owner, watched, conns, pc>>
    BY <1>1 DEF Connect
  <2>2. backlog \in Seq(Clients)
    BY DEF IInv, Types
  <2>3. \A i \in 1..Len(backlog') : backlog'[i] = c \/ \E j \in 1..Len(backlog) : backlog[j] = backlog'[i]
    BY <2>1, <2>2
  <2>4. ASSUME NEW d \in Clients,
               peer'[d] = "new" \/ (\E i \in 1..Len(backlog') : backlog'[i] = d)
        PROVE  peer[d] = "new" \/ (\E i \in 1..Len(backlog) : backlog[i] = d)
    <3>1. CASE d = c
      BY <2>1, <3>1
    <3>2. CASE d # c /\ peer'[d] = "new"
      BY <1>0, <2>1, <3>2
    <3>3. CASE d # c /\ \E i \in 1..Len(backlog') : backlog'[i] = d
      BY <2>3, <3>3
    <3> QED BY <2>4, <3>1, <3>2, <3>3
  <2>5. \A d \in Clients : Gone(d) => Gone(d)'
    BY <1>0, <2>1 DEF Gone
  <2> QED BY <1>0, <2>1, <2>4, <2>5, RoomStays
<1>2. ASSUME NEW c \in Clients, Speak(c) \/ Read(c) PROVE RoomInv'
  <2>1. /\ UNCHANGED <<taken, joined, heard, chunk, targets, owner, watched, conns, pc, peer, backlog>>
        /\ said' \in [Clients -> Nat]
    BY <1>0, <1>2 DEF Speak, Read
  <2> QED BY <1>0, <2>1, RoomStays DEF Gone
<1>3. ASSUME NEW c \in Clients, Leave(c) PROVE RoomInv'
  <2>1. UNCHANGED <<taken, joined, heard, chunk, targets, said, owner, watched, conns, pc, backlog>>
    BY <1>3 DEF Leave
  <2>2. \A d \in Clients : (Gone(d) => Gone(d)') /\ (peer'[d] = "new" => peer[d] = "new")
    BY <1>0, <1>3 DEF Leave, Gone
  <2> QED BY <1>0, <2>1, <2>2, RoomStays
<1>4. ASSUME Tick \/ EpollWait \/ EpollTimesOut \/ AcceptFails \/ UNCHANGED vars PROVE RoomInv'
  <2>1. UNCHANGED <<taken, joined, heard, chunk, targets, said, owner, watched, peer, backlog>>
    BY <1>4 DEF Tick, EpollWait, EpollTimesOut, AcceptFails, vars
  <2>2. targets \subseteq conns' /\ (pc' = "wait" => targets = {})
    BY <1>0, <1>4 DEF Tick, EpollWait, EpollTimesOut, AcceptFails, Enter, vars
  <2> QED BY <1>0, <2>1, <2>2, RoomStays DEF Gone
<1>5. CASE Accept
  BY <1>5, AcceptHears
<1>6. ASSUME NEW e \in ready, e.fd # Listen, Recv(e) \/ RecvError(e) PROVE RoomInv'
  <2>1. e.fd \in watched
    BY <1>6 DEF IInv, EventsAreFresh
  <2>2. owner[e.fd] \in Clients
    BY <2>1, InTheRoom
  <2>3. targets = {} /\ pc # "wait"
    BY <1>6 DEF Recv, RecvError, Handling
  <2>4. UNCHANGED <<backlog, tableVars, peer, said, joined, heard, pc>>
    BY <1>6 DEF Recv, RecvError
  <2>5. \E n \in Nat : Forwards(e.fd, owner[e.fd], n)
    <3>1. CASE RecvError(e)
      BY <3>1 DEF RecvError
    <3>2. CASE Recv(e)
      <4> DEFINE n == said[owner[e.fd]] - taken[owner[e.fd]]
      <4>1. n > 0 /\ n \in Int
        BY <1>0, <2>2, <3>2 DEF Recv, RoomInv, HistoryTypes
      <4>2. Forwards(e.fd, owner[e.fd], IF n < BuffSize THEN n ELSE BuffSize)
        BY <3>2 DEF Recv
      <4>3. (IF n < BuffSize THEN n ELSE BuffSize) \in Nat
        BY <4>1
      <4> QED BY <4>2, <4>3
    <3> QED BY <1>6, <3>1, <3>2
  <2> QED BY <2>1, <2>3, <2>4, <2>5, ReceiveHears
<1>7. ASSUME NEW keys, CloseAll(keys), targets = {},
             UNCHANGED <<taken, joined, heard, chunk, targets, said, peer, backlog>>
      PROVE  RoomInv'
  <2>1. watched' \subseteq watched /\ \A f \in watched' : owner'[f] = owner[f]
    BY <1>7 DEF CloseAll, IInv, Types
  <2> QED BY <1>0, <1>7, <2>1, RoomStays DEF Gone
<1>8. ASSUME NEW e \in ready, RecvEnd(e) PROVE RoomInv'
  BY <1>7, <1>8 DEF RecvEnd, Handling
<1>9. CASE Reap
  BY <1>7, <1>9 DEF Reap, Handling
<1>10. CASE Forward
  BY <1>10, ForwardHears
<1> QED
  BY <1>1, <1>2, <1>3, <1>4, <1>5, <1>6, <1>8, <1>9, <1>10 DEF Next, Server, Client, HandleClient

\* For every set of clients and descriptors and every length of the buffer:
\* between two rounds those in the room have been sent exactly what the others
\* have said since they came, in order, and nothing of their own, whoever comes,
\* leaves, aborts or is closed for silence meanwhile.
THEOREM RoomHears == Spec => []EveryoneHears
<1>1. Init => IInv /\ RoomInv
  BY InitInv, RoomInitInv
<1>2. IInv /\ RoomInv /\ [Next]_vars => IInv' /\ RoomInv'
  BY Inductive, RoomNext
<1>3. IInv /\ RoomInv => EveryoneHears
  <2> SUFFICES ASSUME IInv, RoomInv, pc = "wait", NEW f \in watched, NEW c \in Clients
               PROVE  IF c = owner[f] THEN heard[owner[f]][c] = <<>>
                      ELSE peer[owner[f]] \in {"closed", "reset"}
                           \/ heard[owner[f]][c]
                                = [i \in 1..(taken[c] - joined[owner[f]][c]) |->
                                     joined[owner[f]][c] + i]
    BY DEF EveryoneHears
  <2>1. targets = {} /\ taken[c] \in Nat
    BY DEF RoomInv, ChunkInv, HistoryTypes
  <2>2. OnTheWay(f, c) = 0 /\ taken[c] - 0 = taken[c]
    BY <2>1 DEF OnTheWay
  <2> QED BY <2>2 DEF RoomInv, HearInv, Hears, Gone, Said
<1> QED BY <1>1, <1>2, <1>3, PTL DEF Spec

----------------------------------------------------------------------------
\* A message as one step

ListenInv ==
    Listening = {d \in Clients : peer[d] = "open" /\ \E f \in watched : owner[f] = d}

LEMMA ListenIs == IInv => ListenInv
BY InTheRoom DEF ListenInv, Listening

\* A step after which nobody has heard anything new and nobody has come in.
LEMMA Departs ==
    ASSUME taken' = taken, Listening' \subseteq Listening,
           \A d \in Listening' : Hearing(d)' = Hearing(d)
    PROVE  Contract!Next
<1> DEFINE h == [d \in Listening |-> Hearing(d)]
           gone == Listening \ Listening'
<1>1. Contract!Inside = Listening
  BY DEF Contract!Inside
<1>2. h' = [d \in Listening \ gone |-> h[d]]
  OBVIOUS
<1>3. Contract!Depart(gone)
  BY <1>1, <1>2 DEF Contract!Depart
<1>4. gone \in SUBSET Contract!Inside
  BY <1>1
<1> QED BY <1>3, <1>4 DEF Contract!Next

\* What is heard depends on the messages, the targets and the descriptors.
LEMMA HearingSame ==
    ASSUME UNCHANGED <<taken, heard, chunk, targets>>, ListenInv, ListenInv',
           watched' \subseteq watched, \A f \in watched' : owner'[f] = owner[f],
           targets = {} \/ watched' = watched,
           \A d \in Clients : peer'[d] = "open" /\ (\E f \in watched : owner[f] = d)
                                 => peer[d] = "open"
    PROVE  Contract!Next
<1>1. Listening' \subseteq Listening
  BY DEF ListenInv
<1>2. \A d \in Listening' : Hearing(d)' = Hearing(d)
  BY DEF Hearing
<1> QED BY <1>1, <1>2, Departs

\* Coming in.
LEMMA EnterRefines ==
    ASSUME IInv, RoomInv, ListenInv, ListenInv', Accept
    PROVE  Contract!Next
<1>1. backlog \in Seq(Clients) /\ backlog # <<>>
  BY DEF Accept, IInv, Types, AcceptInv
<1>2. PICK c \in Clients : c = Head(backlog) /\ 1 \in 1..Len(backlog) /\ backlog[1] = c
  BY <1>1
<1>3. PICK fd \in FreeFds : owner' = [owner EXCEPT ![fd] = c] /\ watched' = watched \cup {fd}
  BY <1>2 DEF Accept
<1>4. UNCHANGED <<taken, heard, chunk, targets, peer>> /\ targets = {}
  BY DEF Accept, clientVars, Handling
<1>5. \A f \in watched : owner[f] # c
  BY <1>2, InTheRoom
<1>6. fd \in Fds /\ owner[fd] = None /\ fd \notin watched /\ owner \in [Fds -> Clients \cup {None}]
      /\ watched \subseteq Fds
  BY <1>3 DEF FreeFds, IInv, TableOK, Types
<1>7. \A f \in watched' : owner'[f] = IF f = fd THEN c ELSE owner[f]
  BY <1>3, <1>6
<1>8. Listening' = IF peer[c] = "open" THEN Listening \cup {c} ELSE Listening
  BY <1>3, <1>4, <1>2, <1>6, <1>7 DEF ListenInv
<1>9. \A d \in Clients : Hearing(d) = [b \in Clients |-> heard[d][b] \o <<>>]
  BY <1>4 DEF Hearing
<1>10. \A d \in Clients : Hearing(d)' = [b \in Clients |-> heard[d][b] \o <<>>]
  BY <1>4 DEF Hearing
<1>11. \A d \in Listening' : d \in Clients
  BY DEF ListenInv
<1>12. CASE peer[c] # "open"
  BY <1>4, <1>8, <1>9, <1>10, <1>11, <1>12, Departs
<1>13. CASE peer[c] = "open"
  <2>1. Contract!Inside = Listening /\ c \notin Listening
    BY <1>5 DEF Contract!Inside, Listening
  <2>2. Hearing(c)' = [b \in Clients |-> <<>>]
    <3>1. \A b \in Clients : heard[c][b] = <<>>
      BY <1>2 DEF RoomInv, FreshInv
    <3>2. <<>> \o <<>> = <<>>
      <4>1. <<>> \in Seq(Nat)
        OBVIOUS
      <4> QED BY <4>1, ConcatEmptySeq
    <3> QED BY <1>2, <1>10, <3>1, <3>2
  <2>3. \A d \in Listening : Hearing(d)' = Hearing(d)
    BY <1>8, <1>9, <1>10, <1>11, <1>13
  <2> DEFINE h == [d \in Listening |-> Hearing(d)]
  <2>4. h' = [d \in Listening \cup {c} |-> IF d = c THEN [q \in Clients |-> <<>>] ELSE h[d]]
    <3>1. Listening' = Listening \cup {c}
      BY <1>8, <1>13
    <3> QED BY <2>1, <2>2, <2>3, <3>1
  <2>5. Contract!Enter(c)
    BY <1>4, <2>1, <2>4 DEF Contract!Enter
  <2> QED BY <1>2, <2>5 DEF Contract!Next
<1> QED BY <1>12, <1>13

\* A message, or several of one client, received for everyone else in the room.
LEMMA SayRefines ==
    ASSUME IInv, RoomInv, ListenInv, ListenInv',
           NEW fd \in watched, NEW c \in Clients, NEW n \in 0..BuffSize,
           owner[fd] = c, targets = {}, UNCHANGED <<tableVars, peer, heard>>, Forwards(fd, c, n)
    PROVE  Contract!Next
<1> USE ChatAssumption
<1> DEFINE T == [i \in 1..n |-> taken[c] + i]
<1>1. /\ chunk' = IF conns = {fd} THEN Empty ELSE [from |-> c, text |-> T]
      /\ taken' = [taken EXCEPT ![c] = @ + n] /\ targets' = conns \ {fd}
  BY DEF Forwards
<1>2. UNCHANGED <<owner, watched, conns>> /\ Listening' = Listening
  BY DEF ListenInv, tableVars
<1>3. ASSUME NEW d \in Listening
      PROVE  /\ d \in Clients
             /\ d # c => conns # {fd} /\ \E f \in targets' \cap watched' : owner'[f] = d
             /\ d = c => ~\E f \in targets' \cap watched' : owner'[f] = d
  <2>1. PICK f \in watched : owner[f] = d
    BY DEF ListenInv
  <2>2. f \in conns /\ \A g \in watched : owner[g] = d => g = f
    BY <2>1, InTheRoom
  <2>3. d \in Clients
    BY DEF ListenInv
  <2> QED BY <1>1, <1>2, <2>1, <2>2, <2>3
<1>4. ASSUME NEW d \in Listening
      PROVE  Hearing(d) = [b \in Clients |-> heard[d][b] \o <<>>]
  BY DEF Hearing
<1>5. ASSUME NEW d \in Listening
      PROVE  Hearing(d)' = [b \in Clients |->
                              heard[d][b] \o IF b = c /\ d # c THEN T ELSE <<>>]
  <2>1. CASE d = c
    BY <1>3, <2>1 DEF Hearing
  <2>2. CASE d # c
    <3>1. chunk' = [from |-> c, text |-> T]
      BY <1>1, <1>3, <2>2
    <3>2. \E f \in targets' \cap watched' : owner'[f] = d
      BY <1>3, <2>2
    <3> HIDE DEF T
    <3> QED BY <2>2, <3>1, <3>2 DEF Hearing
  <2> QED BY <2>1, <2>2
<1>6. taken \in [Clients -> Nat] /\ n \in Nat
  BY DEF RoomInv, HistoryTypes
<1>7. CASE n = 0
  <2>1. T = <<>>
    BY <1>7
  <2>2. taken' = taken
    BY <1>1, <1>6, <1>7
  <2>3. \A d \in Listening : Hearing(d)' = Hearing(d)
    BY <1>4, <1>5, <2>1
  <2> QED BY <1>2, <2>2, <2>3, Departs
<1>8. CASE n # 0
  <2> DEFINE h == [d \in Listening |-> Hearing(d)]
  <2>1. Contract!Inside = Listening
    BY DEF Contract!Inside
  <2>2. ASSUME NEW d \in Listening
        PROVE  Hearing(d)' = IF d = c THEN Hearing(d) ELSE [Hearing(d) EXCEPT ![c] = @ \o T]
    <3>1. heard[d][c] \o <<>> = heard[d][c]
      <4>1. heard[d][c] \in Seq(Nat)
        BY <1>3 DEF RoomInv, HistoryTypes
      <4> QED BY <4>1, ConcatEmptySeq
    <3> HIDE DEF T
    <3>2. Hearing(d) = [b \in Clients |-> heard[d][b] \o <<>>]
      BY <1>4
    <3>3. CASE d = c
      <4>1. Hearing(d)' = [b \in Clients |-> heard[d][b] \o <<>>]
        BY <1>5, <3>3
      <4> QED BY <3>2, <3>3, <4>1
    <3>4. CASE d # c
      <4> DEFINE X(b) == heard[d][b] \o IF b = c THEN T ELSE <<>>
                 Y(b) == IF b = c THEN (heard[d][b] \o <<>>) \o T ELSE heard[d][b] \o <<>>
      <4>1. Hearing(d)' = [b \in Clients |-> X(b)]
        BY <1>5, <3>4
      <4>2. [Hearing(d) EXCEPT ![c] = @ \o T] = [b \in Clients |-> Y(b)]
        BY <3>2
      <4>3. \A b \in Clients : X(b) = Y(b)
        BY <3>1
      <4> HIDE DEF X, Y
      <4>4. [b \in Clients |-> X(b)] = [b \in Clients |-> Y(b)]
        BY <4>3
      <4> QED BY <3>4, <4>1, <4>2, <4>4
    <3> QED BY <3>3, <3>4
  <2>3. h' = [d \in Listening |-> IF d = c THEN h[d] ELSE [h[d] EXCEPT ![c] = @ \o T]]
    BY <1>2, <2>2
  <2>4. Contract!Say(c, n)
    BY <1>1, <2>1, <2>3 DEF Contract!Say
  <2>5. n \in 1..BuffSize
    BY <1>6, <1>8
  <2> QED BY <2>4, <2>5 DEF Contract!Next
<1> QED BY <1>7, <1>8

\* A send: what counted as heard has now been sent.
LEMMA ForwardRefines ==
    ASSUME IInv, RoomInv, ListenInv, ListenInv', Forward
    PROVE  Contract!Next
<1> USE ChatAssumption
<1>1. PICK k \in targets :
         /\ targets' = targets \ {k}
         /\ chunk' = IF targets = {k} THEN Empty ELSE chunk
         /\ IF k = -1 THEN UNCHANGED <<heard, overrun, unread, error, alive>>
                      ELSE ForwardTo(owner[k]) \/ ForwardFails(owner[k])
  BY DEF Forward
<1>2. UNCHANGED <<owner, watched, conns, peer, taken>> /\ Listening' = Listening
  BY DEF Forward, tableVars, ListenInv
<1>3. PICK b \in Clients, t \in Seq(Nat) : chunk.from = b /\ chunk.text = t
  <2>1. /\ chunk.from \in Clients /\ Len(chunk.text) \in 0..taken[chunk.from]
        /\ chunk.text = Said(taken[chunk.from] - Len(chunk.text), taken[chunk.from])
    BY DEF RoomInv, ChunkInv
  <2>2. taken[chunk.from] \in Nat
    BY <2>1 DEF RoomInv, HistoryTypes
  <2>3. /\ taken[chunk.from] - Len(chunk.text) \in Nat
        /\ taken[chunk.from] - Len(chunk.text) <= taken[chunk.from]
    BY <2>1, <2>2
  <2>4. chunk.text \in Seq(Nat)
    BY <2>1, <2>2, <2>3, SaidSeq
  <2> QED BY <2>1, <2>4
<1>4. heard \in [Clients -> [Clients -> Seq(Nat)]]
  BY DEF RoomInv, HistoryTypes
<1>5. k # -1 => k \in watched
  BY DEF RoomInv, ChunkInv, IInv, TableOK
<1>6. ASSUME NEW d \in Listening PROVE Hearing(d)' = Hearing(d)
  <2>1. PICK f \in watched : d \in Clients /\ owner[f] = d /\ peer[d] = "open"
    BY DEF ListenInv
  <2>2. f # -1 /\ \A g \in watched : owner[g] = d => g = f
    BY <2>1, InTheRoom
  <2>3. CASE f # k
    <3>1. k # -1 => owner[k] # d
      BY <1>5, <2>2, <2>3
    <3>2. heard'[d] = heard[d]
      <4>1. CASE k = -1 \/ ForwardFails(owner[k])
        BY <1>1, <4>1 DEF ForwardFails
      <4>2. CASE k # -1 /\ ForwardTo(owner[k])
        BY <1>4, <2>1, <3>1, <4>2 DEF ForwardTo
      <4> QED BY <1>1, <4>1, <4>2
    <3>3. (\E g \in targets' \cap watched' : owner'[g] = d)
             <=> (\E g \in targets \cap watched : owner[g] = d)
      BY <1>1, <1>2, <2>1, <2>2, <2>3
    <3>4. CASE chunk' = chunk
      BY <3>2, <3>3, <3>4 DEF Hearing
    <3>5. CASE chunk' # chunk
      <4>1. ~\E g \in targets \cap watched : owner[g] = d
        BY <1>1, <2>2, <2>3, <3>5
      <4> QED BY <3>2, <3>3, <4>1 DEF Hearing
    <3> QED BY <3>4, <3>5
  <2>4. CASE f = k
    <3>1. ForwardTo(d)
      BY <1>1, <2>1, <2>2, <2>4 DEF ForwardFails
    <3>2. heard' = [heard EXCEPT ![d][b] = @ \o t]
      BY <1>3, <3>1 DEF ForwardTo
    <3>3. heard'[d] = [heard[d] EXCEPT ![b] = @ \o t]
      BY <1>4, <2>1, <3>2
    <3>4. heard[d][b] \o t = (heard[d][b] \o t) \o <<>>
      <4>1. heard[d][b] \in Seq(Nat)
        BY <1>4, <2>1
      <4>2. heard[d][b] \o t \in Seq(Nat)
        BY <4>1, ConcatProperties
      <4> QED BY <4>2, ConcatEmptySeq
    <3>5. Hearing(d) = [c \in Clients |-> heard[d][c] \o IF c = b THEN t ELSE <<>>]
      <4>1. \E g \in targets \cap watched : owner[g] = d
        BY <2>1, <2>4
      <4> QED BY <1>3, <4>1 DEF Hearing
    <3>6. Hearing(d)' = [c \in Clients |-> heard'[d][c] \o <<>>]
      <4>1. ~\E g \in targets' \cap watched' : owner'[g] = d
        BY <1>1, <1>2, <2>2, <2>4
      <4> QED BY <4>1 DEF Hearing
    <3>7. \A c \in Clients : heard'[d][c] = IF c = b THEN heard[d][b] \o t ELSE heard[d][c]
      BY <1>4, <2>1, <3>3
    <3>8. \A c \in Clients :
             heard'[d][c] \o <<>> = heard[d][c] \o IF c = b THEN t ELSE <<>>
      BY <3>4, <3>7
    <3> QED BY <3>5, <3>6, <3>8
  <2> QED BY <2>3, <2>4
<1> QED BY <1>2, <1>6, Departs

LEMMA RoomStepRefines ==
    ASSUME IInv, RoomInv, ListenInv, ListenInv', [Next]_vars
    PROVE  [Contract!Next]_(Contract!vars)
<1> USE ChatAssumption DEF clientVars, tableVars, roundVars, historyVars
<1>1. ASSUME NEW c \in Clients, Connect(c) PROVE Contract!Next
  <2>1. /\ UNCHANGED <<taken, heard, chunk, targets, owner, watched>>
        /\ peer[c] = "new" /\ peer' = [peer EXCEPT ![c] = "open"]
    BY <1>1 DEF Connect
  <2>2. \A f \in watched : owner[f] # c
    BY <2>1, InTheRoom
  <2>3. \A d \in Clients : peer'[d] = "open" /\ (\E f \in watched : owner[f] = d)
                              => peer[d] = "open"
    BY <2>1, <2>2 DEF IInv, Types
  <2> QED BY <2>1, <2>3, HearingSame
<1>2. ASSUME NEW c \in Clients, Speak(c) \/ Read(c) PROVE Contract!Next
  BY <1>2, HearingSame DEF Speak, Read
<1>3. ASSUME NEW c \in Clients, Leave(c) PROVE Contract!Next
  <2>1. UNCHANGED <<taken, heard, chunk, targets, owner, watched>>
    BY <1>3 DEF Leave
  <2>2. \A d \in Clients : peer'[d] = "open" => peer[d] = "open"
    BY <1>3 DEF Leave, IInv, Types
  <2> QED BY <2>1, <2>2, HearingSame
<1>4. ASSUME Tick \/ EpollWait \/ EpollTimesOut \/ AcceptFails \/ UNCHANGED vars
      PROVE  Contract!Next
  BY <1>4, HearingSame DEF Tick, EpollWait, EpollTimesOut, AcceptFails, vars
<1>5. CASE Accept
  BY <1>5, EnterRefines
<1>6. ASSUME NEW e \in ready, e.fd # Listen, Recv(e) \/ RecvError(e) PROVE Contract!Next
  <2>1. e.fd \in watched
    BY <1>6 DEF IInv, EventsAreFresh
  <2>2. PICK c \in Clients : owner[e.fd] = c
    BY <2>1, InTheRoom
  <2>3. targets = {} /\ UNCHANGED <<tableVars, peer, heard>>
    BY <1>6 DEF Recv, RecvError, Handling
  <2>4. \E n \in 0..BuffSize : Forwards(e.fd, c, n)
    <3>1. CASE RecvError(e)
      BY <2>2, <3>1 DEF RecvError
    <3>2. CASE Recv(e)
      <4> DEFINE n == said[c] - taken[c]
                 m == IF n < BuffSize THEN n ELSE BuffSize
      <4>1. n > 0 /\ n \in Int
        BY <2>2, <3>2 DEF Recv, RoomInv, HistoryTypes
      <4>2. Forwards(e.fd, c, m)
        BY <2>2, <3>2 DEF Recv
      <4>3. m \in 0..BuffSize
        BY <4>1
      <4> QED BY <4>2, <4>3
    <3> QED BY <1>6, <3>1, <3>2
  <2> QED BY <2>1, <2>2, <2>3, <2>4, SayRefines
<1>7. ASSUME NEW keys, CloseAll(keys), targets = {}, UNCHANGED <<taken, heard, chunk, targets, peer>>
      PROVE  Contract!Next
  <2>1. watched' \subseteq watched /\ \A f \in watched' : owner'[f] = owner[f]
    BY <1>7 DEF CloseAll, IInv, Types
  <2> QED BY <1>7, <2>1, HearingSame
<1>8. ASSUME NEW e \in ready, RecvEnd(e) PROVE Contract!Next
  BY <1>7, <1>8 DEF RecvEnd, Handling
<1>9. CASE Reap
  BY <1>7, <1>9 DEF Reap, Handling
<1>10. CASE Forward
  BY <1>10, ForwardRefines
<1> QED
  BY <1>1, <1>2, <1>3, <1>4, <1>5, <1>6, <1>8, <1>9, <1>10 DEF Next, Server, Client, HandleClient

\* The chat room implements Room for every set of clients and descriptors and
\* every length of the buffer: receiving is the one step in which a message is
\* heard by all the others, and the sends, with clients coming, leaving, aborting
\* and falling silent around them, change nothing that can be heard.
THEOREM ChatRoomIsRoom == Spec => ImplementsRoom
<1>1. Init => IInv /\ RoomInv /\ Contract!Init
  <2> SUFFICES ASSUME Init PROVE Contract!Init
    BY InitInv, RoomInitInv
  <2>1. Listening = {}
    BY DEF Init, Listening
  <2> QED BY <2>1 DEF Init, Contract!Init
<1>2. IInv /\ RoomInv /\ [Next]_vars => IInv' /\ RoomInv'
  BY Inductive, RoomNext
<1>3. IInv /\ RoomInv /\ ListenInv /\ ListenInv' /\ [Next]_vars => [Contract!Next]_(Contract!vars)
  BY RoomStepRefines
<1> QED BY <1>1, <1>2, <1>3, ListenIs, PTL DEF Spec, ImplementsRoom, Contract!Spec
=============================================================================

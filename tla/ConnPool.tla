------------------------------ MODULE ConnPool ------------------------------
(***************************************************************************)
(* ConnPool: a fixed set of MySQL connections that threads borrow with     *)
(* get_connect and give back with release_connect.  A user follows the     *)
(* pattern of test_ConnPool.cpp: get, run a query under Command_Mutex,     *)
(* release.  The owner builds the pool and, when the users are gone,       *)
(* destroys it.                                                            *)
(*                                                                         *)
(* Everything inside get_connect and release_connect runs under            *)
(* _connMutex, so a call is split at taking the mutex, at the wait and at  *)
(* the return.                                                             *)
(***************************************************************************)
EXTENDS Naturals, Sequences, FiniteSets

CONSTANTS
    Users,      \* the threads that borrow connections
    Owner,      \* the thread that constructs and destroys the pool
    NoThread,   \* owner of a free mutex
    Conns,      \* the connections created by the constructor
    NoConn,     \* an empty shared_ptr
    Careless,   \* the users that may release a borrowed connection again
    MaxRounds   \* bound on the borrowings of one user

Threads == Users \cup {Owner}
connectNum == Cardinality(Conns)
Conditions == {"notFull", "notEmpty"}

ASSUME PoolAssumption ==
    /\ IsFiniteSet(Conns) /\ IsFiniteSet(Users)
    /\ Owner \notin Users
    /\ NoThread \notin Users \cup {Owner}
    /\ NoConn \notin Conns
    /\ Careless \subseteq Users
    /\ MaxRounds \in Nat

VARIABLES
    owner,      \* _connMutex
    waiting,    \* _notFull and _notEmpty
    connects,   \* _connects
    pc,         \* pc[u]: where user u is
    held,       \* held[u]: the connection user u has borrowed
    rounds,     \* rounds[u]: the borrowings user u has begun
    command,    \* Command_Mutex: the user that runs a query, or NoThread
    ownerPc,    \* where the owner is in the constructor or the destructor
    dying,      \* the local variable conn of the destructor
    closes,     \* closes[c]: the calls of mysql_close for c
    answer,     \* the last value returned by avaiable()
    kept        \* history: the users that have kept a pointer they had released

INSTANCE Monitor

vars == <<owner, waiting, connects, pc, held, rounds, command,
          ownerPc, dying, closes, answer, kept>>

NoAnswer == connectNum + 1

TypeOK ==
    /\ MonitorTypeOK
    /\ connects \in Seq(Conns)
    /\ pc \in [Users -> {"idle", "getCheck", "getWait", "work", "query",
                         "worked", "releaseCheck", "releaseWait"}]
    /\ held \in [Users -> Conns \cup {NoConn}]
    /\ rounds \in [Users -> 0..MaxRounds]
    /\ command \in Users \cup {NoThread}
    /\ ownerPc \in {"construct", "up", "destroy", "drop", "gone"}
    /\ dying \in Conns \cup {NoConn}
    /\ closes \in [Conns -> Nat]
    /\ answer \in 0..NoAnswer
    /\ kept \subseteq Careless

Init ==
    /\ MonitorInit
    /\ connects = <<>>
    /\ pc = [u \in Users |-> "idle"]
    /\ held = [u \in Users |-> NoConn]
    /\ rounds = [u \in Users |-> 0]
    /\ command = NoThread
    /\ ownerPc = "construct"
    /\ dying = NoConn
    /\ closes = [c \in Conns |-> 0]
    /\ answer = NoAnswer
    /\ kept = {}

empty == Len(connects) = 0

\* Mutant: the pool is full one connection too early.
fullTooEarly == Len(connects) + 1 = connectNum

full == Len(connects) = connectNum

\* The connections in the queue.
Idle == {connects[i] : i \in 1..Len(connects)}

Goto(u, label) == pc' = [pc EXCEPT ![u] = label]

\* What get_connect and release_connect never touch.
environment == <<rounds, command, ownerPc, dying, closes, answer, kept>>

----------------------------------------------------------------------------
\* ConnPool(): one connection per round of the loop.  The
\* result of connect() is ignored: connected or not, the client goes into the
\* pool.

Construct(c) ==
    /\ ownerPc = "construct"
    /\ \A i \in 1..Len(connects) : connects[i] # c
    /\ connects' = Append(connects, c)
    /\ ownerPc' = IF Len(connects') = connectNum THEN "up" ELSE "construct"
    /\ UNCHANGED <<owner, waiting, pc, held, rounds, command, dying, closes, answer, kept>>

----------------------------------------------------------------------------
\* get_connect()

GetLock(u) ==
    /\ ownerPc = "up"
    /\ pc[u] = "idle"
    /\ rounds[u] < MaxRounds
    /\ rounds' = [rounds EXCEPT ![u] = @ + 1]
    /\ Lock(u)
    /\ Goto(u, "getCheck")
    /\ UNCHANGED <<waiting, connects, held, command, ownerPc, dying,
                   closes, answer, kept>>

GetWait(u) ==
    /\ pc[u] = "getCheck"
    /\ empty
    /\ Wait(u, "notEmpty")
    /\ Goto(u, "getWait")
    /\ UNCHANGED <<connects, held, environment>>

GetResume(u) ==
    /\ pc[u] = "getWait"
    /\ u \notin waiting["notEmpty"]
    /\ Lock(u)
    /\ Goto(u, "getCheck")
    /\ UNCHANGED <<waiting, connects, held, environment>>

\* Mutant: front() without pop().
GetTakeKeeps(u) ==
    /\ pc[u] = "getCheck"
    /\ ~empty
    /\ held' = [held EXCEPT ![u] = Head(connects)]
    /\ NotifyOne("notFull")
    /\ Unlock(u)
    /\ Goto(u, "work")
    /\ UNCHANGED <<connects, environment>>

\* Mutant: no notification.
GetTakeSilent(u) ==
    /\ pc[u] = "getCheck"
    /\ ~empty
    /\ held' = [held EXCEPT ![u] = Head(connects)]
    /\ connects' = Tail(connects)
    /\ Unlock(u)
    /\ Goto(u, "work")
    /\ UNCHANGED <<waiting, environment>>

GetTake(u) ==
    /\ pc[u] = "getCheck"
    /\ ~empty
    /\ held' = [held EXCEPT ![u] = Head(connects)]
    /\ connects' = Tail(connects)
    /\ NotifyOne("notFull")
    /\ Unlock(u)
    /\ Goto(u, "work")
    /\ UNCHANGED environment

----------------------------------------------------------------------------
\* The user's query, guarded by the global Command_Mutex.

QueryLock(u) ==
    /\ pc[u] = "work"
    /\ command = NoThread
    /\ command' = u
    /\ Goto(u, "query")
    /\ UNCHANGED <<owner, waiting, connects, held, rounds, ownerPc,
                   dying, closes, answer, kept>>

\* Mutant: Command_Mutex is not given back.
QueryDoneLocked(u) ==
    /\ pc[u] = "query"
    /\ Goto(u, "worked")
    /\ UNCHANGED <<owner, waiting, connects, held, rounds, command,
                   ownerPc, dying, closes, answer, kept>>

QueryDone(u) ==
    /\ pc[u] = "query"
    /\ command' = NoThread
    /\ Goto(u, "worked")
    /\ UNCHANGED <<owner, waiting, connects, held, rounds, ownerPc,
                   dying, closes, answer, kept>>

----------------------------------------------------------------------------
\* release_connect(elem)

ReleaseLock(u) ==
    /\ pc[u] = "worked"
    /\ Lock(u)
    /\ Goto(u, "releaseCheck")
    /\ UNCHANGED <<waiting, connects, held, environment>>

ReleaseWait(u) ==
    /\ pc[u] = "releaseCheck"
    /\ full
    /\ Wait(u, "notFull")
    /\ Goto(u, "releaseWait")
    /\ UNCHANGED <<connects, held, environment>>

ReleaseResume(u) ==
    /\ pc[u] = "releaseWait"
    /\ u \notin waiting["notFull"]
    /\ Lock(u)
    /\ Goto(u, "releaseCheck")
    /\ UNCHANGED <<waiting, connects, held, environment>>

\* Mutant: no notification.
ReleasePutSilent(u) ==
    /\ pc[u] = "releaseCheck"
    /\ ~full
    /\ connects' = Append(connects, held[u])
    /\ held' = [held EXCEPT ![u] = NoConn]
    /\ Unlock(u)
    /\ Goto(u, "idle")
    /\ UNCHANGED <<waiting, environment>>

\* The user drops its shared_ptr.  release_connect takes any pointer, so a
\* careless user may also keep it and release the same connection once more.
ReleasePut(u) ==
    /\ pc[u] = "releaseCheck"
    /\ ~full
    /\ connects' = Append(connects, held[u])
    /\ \/ /\ held' = [held EXCEPT ![u] = NoConn]
          /\ Goto(u, "idle")
          /\ UNCHANGED kept
       \/ /\ u \in Careless
          /\ kept' = kept \cup {u}
          /\ Goto(u, "worked")
          /\ UNCHANGED held
    /\ NotifyOne("notEmpty")
    /\ Unlock(u)
    /\ UNCHANGED <<rounds, command, ownerPc, dying, closes, answer>>

----------------------------------------------------------------------------
\* avaiable(), called by the owner at a moment when no thread is inside an
\* operation: a concurrent call would be a data race on _connects.
Available ==
    /\ ownerPc = "up"
    /\ owner = NoThread
    /\ answer' = connectNum - Len(connects)
    /\ UNCHANGED <<owner, waiting, connects, pc, held, rounds,
                   command, ownerPc, dying, closes, kept>>

----------------------------------------------------------------------------
\* ~ConnPool(), run when the users have stopped using the pool.

DestroyLock ==
    /\ ownerPc = "up"
    /\ \A u \in Users : pc[u] = "idle"
    /\ Lock(Owner)
    /\ ownerPc' = "destroy"
    /\ UNCHANGED <<waiting, connects, pc, held, rounds, command,
                   dying, closes, answer, kept>>

\* conn = front(); pop(); conn->~MySQLClient();
DestroyClose ==
    /\ ownerPc = "destroy"
    /\ ~empty
    /\ dying' = Head(connects)
    /\ connects' = Tail(connects)
    /\ closes' = [closes EXCEPT ![Head(connects)] = @ + 1]
    /\ ownerPc' = "drop"
    /\ UNCHANGED <<owner, waiting, pc, held, rounds, command, answer, kept>>

\* The local shared_ptr goes out of scope and, as the last one, deletes the client.
DestroyDrop ==
    /\ ownerPc = "drop"
    /\ closes' = IF dying \in Idle THEN closes ELSE [closes EXCEPT ![dying] = @ + 1]
    /\ dying' = NoConn
    /\ ownerPc' = "destroy"
    /\ UNCHANGED <<owner, waiting, connects, pc, held, rounds,
                   command, answer, kept>>

DestroyReturn ==
    /\ ownerPc = "destroy"
    /\ empty
    /\ Unlock(Owner)
    /\ ownerPc' = "gone"
    /\ UNCHANGED <<waiting, connects, pc, held, rounds, command,
                   dying, closes, answer, kept>>

Destroy == DestroyClose \/ DestroyDrop \/ DestroyReturn

----------------------------------------------------------------------------
Spurious ==
    /\ \E u \in Users : SpuriousWakeup(u)
    /\ UNCHANGED <<connects, pc, held, environment>>

\* Everything a user does once it has begun a borrowing.
User(u) ==
    \/ GetWait(u) \/ GetResume(u) \/ GetTake(u)
    \/ QueryLock(u) \/ QueryDone(u)
    \/ ReleaseLock(u) \/ ReleaseWait(u) \/ ReleaseResume(u) \/ ReleasePut(u)

Next ==
    \/ \E c \in Conns : Construct(c)
    \/ \E u \in Users : GetLock(u) \/ User(u)
    \/ Available
    \/ DestroyLock \/ Destroy
    \/ Spurious

Spec == Init /\ [][Next]_vars

\* A user that has begun a borrowing goes on with it, queries terminate.
FairSpec == Spec /\ \A u \in Users : WF_vars(User(u))

----------------------------------------------------------------------------
\* Properties

Borrowed == {held[u] : u \in Users} \ {NoConn}

\* As long as nobody has released what it no longer owned: while the pool is up
\* every connection is either idle in the queue, once, or borrowed by exactly
\* one user.  get_connect and release_connect neither lose nor duplicate a
\* connection, however they interleave.
Conservation ==
    ownerPc = "up" /\ kept = {} =>
        /\ Idle \cup Borrowed = Conns
        /\ Len(connects) + Cardinality({u \in Users : held[u] # NoConn}) = connectNum

\* The contract of the pool: see Lending.  It holds up to the step in which a user
\* keeps what it has released, whatever the interleaving of the calls.
Phase ==
    CASE ownerPc = "construct" -> "stocking"
      [] ownerPc = "up" -> "open"
      [] ownerPc \in {"destroy", "drop"} -> "closing"
      [] ownerPc = "gone" -> "closed"

Contract == INSTANCE Lending WITH idle <- connects, lent <- held, phase <- Phase

ImplementsLending ==
    Contract!Init /\ [][kept' = {} => Contract!Next \/ UNCHANGED Contract!vars]_vars

\* Under the same condition a query runs on a connection nobody else holds: two
\* threads never share a MYSQL handle.
ExclusiveUse ==
    kept = {} =>
        \A u, v \in Users :
            u # v /\ held[u] # NoConn => held[u] # held[v] /\ held[u] \notin Idle

\* A user that returns what it has borrowed never blocks in release_connect:
\* the wait on _notFull is unreachable for it.
ReleaseNeverBlocks == kept = {} => waiting["notFull"] = {}

\* No lost wakeup in get_connect: while a user sleeps on _notEmpty, every idle
\* connection has an awake user inside get_connect coming for it.
AwakeGetters ==
    {u \in Users : \/ pc[u] = "getCheck"
                   \/ pc[u] = "getWait" /\ u \notin waiting["notEmpty"]}
NoLostRelease ==
    waiting["notEmpty"] # {} => Len(connects) <= Cardinality(AwakeGetters)

\* The queue never holds more than connectNum pointers, also when careless users
\* release what they no longer own: such a release waits on _notFull.
NeverOverfull == Len(connects) <= connectNum

\* No lost wakeup in release_connect: while a user sleeps on _notFull, every
\* free place has an awake user inside release_connect coming for it.
AwakeReleasers ==
    {u \in Users : \/ pc[u] = "releaseCheck"
                   \/ pc[u] = "releaseWait" /\ u \notin waiting["notFull"]}
NoLostGet ==
    waiting["notFull"] # {} =>
        connectNum - Len(connects) <= Cardinality(AwakeReleasers)

\* One notifyOne per operation is enough on either side of the pool, although
\* awake users steal what sleeping ones have been woken for.
NoLostWakeups == NoLostRelease /\ NoLostGet

\* Once the pool is gone no connection is left open.
AllClosed == ownerPc = "gone" => \A c \in Conns : closes[c] > 0

\* Every get_connect is served in the end, as long as each user borrows a
\* bounded number of times: neither the two conditions nor Command_Mutex can
\* leave a user behind.
GetIsServed ==
    \A u \in Users : pc[u] \in {"getCheck", "getWait"} ~> held[u] # NoConn

\* What is borrowed comes back, unless somebody else's connection has been put
\* into its place.
BorrowingEnds ==
    \A u \in Users : held[u] # NoConn ~> (held[u] = NoConn \/ kept # {})

==============================================================================

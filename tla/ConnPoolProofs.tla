--------------------------- MODULE ConnPoolProofs ---------------------------
(***************************************************************************)
(* ConnPool for every number of users, careless ones included, and every   *)
(* number of connections: as long as nobody releases what it no longer     *)
(* owns the connections are conserved and used exclusively and a release   *)
(* never waits; and whatever users do, the queue is never overfull and the *)
(* destructor reaches every connection.                                    *)
(***************************************************************************)
EXTENDS ConnPool, SequenceTheorems, FiniteSetTheorems, TLAPS

----------------------------------------------------------------------------
\* Queues of connections

Elems(s) == {s[i] : i \in 1..Len(s)}
Once(s) == \A i, j \in 1..Len(s) : s[i] = s[j] => i = j

\* What append does to the elements of a queue.
LEMMA AppendElems ==
    ASSUME NEW s \in Seq(Conns), NEW c \in Conns
    PROVE  /\ Append(s, c) \in Seq(Conns)
           /\ Len(Append(s, c)) = Len(s) + 1
           /\ Elems(Append(s, c)) = Elems(s) \cup {c}
           /\ Once(s) /\ c \notin Elems(s) => Once(Append(s, c))
<1> DEFINE n == Len(s)
           a == Append(s, c)
<1>1. n \in Nat
  BY LenProperties
<1>2. a \in Seq(Conns) /\ Len(a) = n + 1
  BY AppendProperties
<1>3. (\A i \in 1..n : a[i] = s[i]) /\ a[n + 1] = c
  BY AppendProperties
<1>4. 1..Len(a) = 1..n \cup {n + 1}
  BY <1>1, <1>2
<1> HIDE DEF n, a
<1>5. Elems(a) = Elems(s) \cup {c}
  BY <1>3, <1>4 DEF Elems, n
<1>6. ASSUME Once(s), c \notin Elems(s) PROVE Once(a)
  BY <1>1, <1>3, <1>4, <1>6 DEF Once, Elems, n
<1> QED BY <1>2, <1>5, <1>6 DEF n, a

\* What pop does to them.
LEMMA TailElems ==
    ASSUME NEW s \in Seq(Conns), s # <<>>
    PROVE  /\ Head(s) \in Elems(s) /\ Head(s) \in Conns
           /\ Tail(s) \in Seq(Conns)
           /\ Len(Tail(s)) = Len(s) - 1
           /\ Elems(s) = Elems(Tail(s)) \cup {Head(s)}
           /\ Once(s) => Once(Tail(s)) /\ Head(s) \notin Elems(Tail(s))
<1> DEFINE n == Len(s)
           t == Tail(s)
<1>1. n \in Nat \ {0} /\ Head(s) = s[1] /\ Head(s) \in Conns
  BY HeadTailProperties
<1>2. t \in Seq(Conns) /\ Len(t) = n - 1 /\ \A i \in 1..Len(t) : t[i] = s[i + 1]
  BY HeadTailProperties
<1>3. /\ 1 \in 1..n
      /\ \A i \in 1..Len(t) : i + 1 \in 1..n /\ i + 1 # 1
      /\ \A i \in 1..n : i = 1 \/ (i - 1 \in 1..Len(t) /\ i = (i - 1) + 1)
      /\ \A i, j \in 1..Len(t) : i + 1 = j + 1 => i = j
  BY <1>1, <1>2
<1> HIDE DEF n, t
<1>4. Head(s) \in Elems(s)
  BY <1>1, <1>3 DEF Elems, n
<1>5. Elems(t) \subseteq Elems(s)
  BY <1>2, <1>3 DEF Elems, n
<1>6. ASSUME NEW i \in 1..n PROVE s[i] \in Elems(t) \cup {Head(s)}
  <2>1. CASE i = 1
    BY <1>1, <2>1
  <2>2. CASE i # 1
    <3>1. i - 1 \in 1..Len(t) /\ t[i - 1] = s[i]
      BY <1>2, <1>3, <2>2
    <3> QED BY <3>1 DEF Elems
  <2> QED BY <2>1, <2>2
<1>7. Elems(s) = Elems(t) \cup {Head(s)}
  BY <1>4, <1>5, <1>6 DEF Elems, n
<1>8. ASSUME Once(s) PROVE Once(t) /\ Head(s) \notin Elems(t)
  <2>1. ASSUME NEW i \in 1..Len(t), NEW j \in 1..Len(t), t[i] = t[j] PROVE i = j
    <3>1. i + 1 \in 1..n /\ j + 1 \in 1..n /\ s[i + 1] = s[j + 1]
      BY <1>2, <1>3, <2>1
    <3>2. i + 1 = j + 1
      BY <1>8, <3>1 DEF Once, n
    <3> QED BY <1>3, <3>2
  <2>2. ASSUME NEW i \in 1..Len(t) PROVE t[i] # Head(s)
    <3>1. i + 1 \in 1..n /\ 1 \in 1..n /\ i + 1 # 1 /\ t[i] = s[i + 1]
      BY <1>2, <1>3
    <3> QED BY <1>1, <1>8, <3>1 DEF Once, n
  <2> QED BY <2>1, <2>2 DEF Once, Elems
<1> QED BY <1>1, <1>2, <1>4, <1>7, <1>8 DEF n, t

LEMMA ElemsType == ASSUME NEW s \in Seq(Conns) PROVE Elems(s) \subseteq Conns
BY ElementOfSeq DEF Elems

LEMMA IdleElems == Idle = Elems(connects) /\ Idle' = Elems(connects')
BY DEF Idle, Elems

\* There are finitely many connections.
LEMMA ConnectNumType == connectNum \in Nat
BY PoolAssumption, FS_CardinalityType DEF connectNum

----------------------------------------------------------------------------
\* Control

\* A user holds a connection exactly between get_connect and release_connect.
HeldOK ==
    \A u \in Users : held[u] = NoConn <=> pc[u] \in {"idle", "getCheck", "getWait"}

\* Only users wait, and only inside the matching call.
WaitOK ==
    /\ \A u \in waiting["notEmpty"] : u \in Users /\ pc[u] = "getWait"
    /\ \A u \in waiting["notFull"] : u \in Users /\ pc[u] = "releaseWait"

\* Nobody uses the pool while it is built or destroyed.
PhaseOK ==
    /\ ownerPc # "up" => \A u \in Users : pc[u] = "idle"
    /\ ownerPc = "drop" => dying # NoConn

ControlInv == TypeOK /\ NeverOverfull /\ HeldOK /\ WaitOK /\ PhaseOK

\* A pool that is still being built has room for the connection it adds.
LEMMA ConstructHasRoom ==
    ASSUME TypeOK, NEW c \in Conns, Construct(c), Cardinality(Idle) = Len(connects)
    PROVE  /\ connects' \in Seq(Conns)
           /\ Len(connects') = Len(connects) + 1
           /\ Idle' = Idle \cup {c} /\ c \notin Idle
           /\ Cardinality(Idle') = Len(connects')
           /\ Len(connects') <= connectNum
<1>1. connects \in Seq(Conns) /\ connects' = Append(connects, c)
  BY DEF TypeOK, Construct
<1>2. /\ connects' \in Seq(Conns)
      /\ Len(connects') = Len(connects) + 1
      /\ Idle' = Idle \cup {c}
  BY <1>1, AppendElems, IdleElems
<1>3. c \notin Idle
  BY DEF Construct, Idle
<1>4. Idle \subseteq Conns /\ Idle' \subseteq Conns
  BY <1>1, <1>2, ElemsType, IdleElems
<1>5. IsFiniteSet(Idle)
  BY <1>4, PoolAssumption, FS_Subset
<1>6. Cardinality(Idle') = Cardinality(Idle) + 1
  BY <1>2, <1>3, <1>5, FS_AddElement
<1>7. Cardinality(Idle') <= connectNum
  BY <1>4, PoolAssumption, FS_Subset DEF connectNum
<1> QED BY <1>2, <1>3, <1>6, <1>7

\* While the pool is built its queue holds distinct connections.
Building == ownerPc = "construct" => Cardinality(Idle) = Len(connects)

LEMMA ControlInit == Init => ControlInv /\ Building
<1> SUFFICES ASSUME Init PROVE ControlInv /\ Building
  OBVIOUS
<1> USE PoolAssumption, ConnectNumType DEF Init, MonitorInit
<1>1. TypeOK
  BY DEF TypeOK, MonitorTypeOK, Threads, Conditions, NoAnswer
<1>2. NeverOverfull
  BY DEF NeverOverfull
<1>3. HeldOK /\ WaitOK /\ PhaseOK
  BY DEF HeldOK, WaitOK, PhaseOK, Conditions
<1>4. Building
  <2>1. Idle = {}
    BY DEF Idle
  <2> QED BY <2>1, FS_EmptySet DEF Building
<1> QED BY <1>1, <1>2, <1>3, <1>4 DEF ControlInv

LEMMA ControlNext == ControlInv /\ Building /\ [Next]_vars => ControlInv' /\ Building'
<1> SUFFICES ASSUME ControlInv, Building, [Next]_vars PROVE ControlInv' /\ Building'
  OBVIOUS
<1> USE PoolAssumption, ConnectNumType
<1> USE DEF ControlInv, environment, Goto
<1>1. ASSUME NEW c \in Conns, Construct(c) PROVE ControlInv' /\ Building'
  <2>1. Cardinality(Idle) = Len(connects) /\ TypeOK
    BY <1>1 DEF Building, Construct
  <2>2. /\ connects' \in Seq(Conns)
        /\ Cardinality(Idle') = Len(connects')
        /\ Len(connects') <= connectNum
    BY <1>1, <2>1, ConstructHasRoom
  <2>3. TypeOK'
    BY <1>1, <2>2 DEF TypeOK, MonitorTypeOK, Construct
  <2>4. NeverOverfull' /\ Building'
    BY <2>2 DEF NeverOverfull, Building
  <2>5. HeldOK' /\ WaitOK' /\ PhaseOK'
    BY <1>1 DEF HeldOK, WaitOK, PhaseOK, Construct
  <2> QED BY <2>3, <2>4, <2>5
<1>2. ASSUME NEW u \in Users, GetLock(u) PROVE ControlInv' /\ Building'
  <2>1. TypeOK'
    BY <1>2 DEF TypeOK, MonitorTypeOK, Threads, GetLock, Lock
  <2>2. NeverOverfull' /\ Building' /\ HeldOK' /\ WaitOK' /\ PhaseOK'
    BY <1>2 DEF TypeOK, MonitorTypeOK, NeverOverfull, Building, HeldOK, WaitOK, PhaseOK,
                GetLock
  <2> QED BY <2>1, <2>2
<1>3. ASSUME NEW u \in Users, GetWait(u) PROVE ControlInv' /\ Building'
  <2>1. ownerPc = "up"
    BY <1>3 DEF PhaseOK, GetWait
  <2>2. TypeOK'
    BY <1>3 DEF TypeOK, MonitorTypeOK, Conditions, Threads, GetWait, Wait, Unlock
  <2>3. WaitOK'
    BY <1>3 DEF TypeOK, MonitorTypeOK, Conditions, Threads, WaitOK, GetWait, Wait, Unlock
  <2>4. NeverOverfull' /\ Building' /\ HeldOK' /\ PhaseOK'
    BY <1>3, <2>1 DEF TypeOK, NeverOverfull, Building, HeldOK, PhaseOK, GetWait
  <2> QED BY <2>2, <2>3, <2>4
<1>4. ASSUME NEW u \in Users, GetResume(u) PROVE ControlInv' /\ Building'
  <2>1. ownerPc = "up"
    BY <1>4 DEF PhaseOK, GetResume
  <2>2. TypeOK'
    BY <1>4 DEF TypeOK, MonitorTypeOK, Threads, GetResume, Lock
  <2>3. NeverOverfull' /\ Building' /\ HeldOK' /\ WaitOK' /\ PhaseOK'
    BY <1>4, <2>1 DEF TypeOK, MonitorTypeOK, NeverOverfull, Building, HeldOK, WaitOK, PhaseOK,
                      GetResume
  <2> QED BY <2>2, <2>3
<1>5. ASSUME NEW u \in Users, GetTake(u) PROVE ControlInv' /\ Building'
  <2>1. ownerPc = "up"
    BY <1>5 DEF PhaseOK, GetTake
  <2>2. connects # <<>> /\ connects \in Seq(Conns)
    BY <1>5 DEF GetTake, empty, TypeOK
  <2>3. /\ Head(connects) \in Conns
        /\ Tail(connects) \in Seq(Conns)
        /\ Len(Tail(connects)) = Len(connects) - 1
        /\ Len(connects) \in Nat
    BY <2>2, TailElems, LenProperties
  <2>4. TypeOK'
    BY <1>5, <2>3 DEF TypeOK, MonitorTypeOK, Conditions, Threads, GetTake, NotifyOne, Unlock
  <2>5. NeverOverfull'
    BY <1>5, <2>3 DEF NeverOverfull, GetTake
  <2>6. WaitOK'
    BY <1>5 DEF TypeOK, MonitorTypeOK, Conditions, WaitOK, GetTake, NotifyOne
  <2>7. Building' /\ HeldOK' /\ PhaseOK'
    BY <1>5, <2>1, <2>3 DEF TypeOK, Building, HeldOK, PhaseOK, GetTake
  <2> QED BY <2>4, <2>5, <2>6, <2>7
<1>6. ASSUME NEW u \in Users, QueryLock(u) \/ QueryDone(u) PROVE ControlInv' /\ Building'
  <2>1. ownerPc = "up"
    BY <1>6 DEF PhaseOK, QueryLock, QueryDone
  <2>2. TypeOK'
    BY <1>6 DEF TypeOK, MonitorTypeOK, QueryLock, QueryDone
  <2>3. NeverOverfull' /\ Building' /\ HeldOK' /\ WaitOK' /\ PhaseOK'
    BY <1>6, <2>1 DEF TypeOK, MonitorTypeOK, NeverOverfull, Building, HeldOK, WaitOK, PhaseOK,
                      QueryLock, QueryDone
  <2> QED BY <2>2, <2>3
<1>7. ASSUME NEW u \in Users, ReleaseLock(u) PROVE ControlInv' /\ Building'
  <2>1. ownerPc = "up"
    BY <1>7 DEF PhaseOK, ReleaseLock
  <2>2. TypeOK'
    BY <1>7 DEF TypeOK, MonitorTypeOK, Threads, ReleaseLock, Lock
  <2>3. NeverOverfull' /\ Building' /\ HeldOK' /\ WaitOK' /\ PhaseOK'
    BY <1>7, <2>1 DEF TypeOK, MonitorTypeOK, NeverOverfull, Building, HeldOK, WaitOK, PhaseOK,
                      ReleaseLock
  <2> QED BY <2>2, <2>3
<1>8. ASSUME NEW u \in Users, ReleaseWait(u) PROVE ControlInv' /\ Building'
  <2>1. ownerPc = "up"
    BY <1>8 DEF PhaseOK, ReleaseWait
  <2>2. TypeOK'
    BY <1>8 DEF TypeOK, MonitorTypeOK, Conditions, Threads, ReleaseWait, Wait, Unlock
  <2>3. WaitOK'
    BY <1>8 DEF TypeOK, MonitorTypeOK, Conditions, Threads, WaitOK, ReleaseWait, Wait, Unlock
  <2>4. NeverOverfull' /\ Building' /\ HeldOK' /\ PhaseOK'
    BY <1>8, <2>1 DEF TypeOK, NeverOverfull, Building, HeldOK, PhaseOK, ReleaseWait
  <2> QED BY <2>2, <2>3, <2>4
<1>9. ASSUME NEW u \in Users, ReleaseResume(u) PROVE ControlInv' /\ Building'
  <2>1. ownerPc = "up"
    BY <1>9 DEF PhaseOK, ReleaseResume
  <2>2. TypeOK'
    BY <1>9 DEF TypeOK, MonitorTypeOK, Threads, ReleaseResume, Lock
  <2>3. NeverOverfull' /\ Building' /\ HeldOK' /\ WaitOK' /\ PhaseOK'
    BY <1>9, <2>1 DEF TypeOK, MonitorTypeOK, NeverOverfull, Building, HeldOK, WaitOK, PhaseOK,
                      ReleaseResume
  <2> QED BY <2>2, <2>3
<1>10. ASSUME NEW u \in Users, ReleasePut(u) PROVE ControlInv' /\ Building'
  <2>1. ownerPc = "up" /\ held[u] \in Conns
    BY <1>10 DEF PhaseOK, HeldOK, TypeOK, ReleasePut
  <2>2. /\ Append(connects, held[u]) \in Seq(Conns)
        /\ Len(Append(connects, held[u])) = Len(connects) + 1
        /\ Len(connects) \in Nat
    BY <2>1, AppendElems, LenProperties DEF TypeOK
  <2>3. TypeOK'
    <3>1. MonitorTypeOK'
      BY <1>10 DEF TypeOK, MonitorTypeOK, Conditions, Threads, ReleasePut, NotifyOne, Unlock
    <3>2. connects' \in Seq(Conns)
      BY <1>10, <2>2 DEF ReleasePut
    <3>3. /\ held' \in [Users -> Conns \cup {NoConn}]
          /\ pc' \in [Users -> {"idle", "getCheck", "getWait", "work", "query",
                                "worked", "releaseCheck", "releaseWait"}]
          /\ kept' \subseteq Careless
      BY <1>10 DEF TypeOK, ReleasePut
    <3> QED BY <1>10, <3>1, <3>2, <3>3 DEF TypeOK, ReleasePut
  <2>4. NeverOverfull'
    BY <1>10, <2>2 DEF NeverOverfull, ReleasePut, full
  <2>5. WaitOK'
    BY <1>10 DEF TypeOK, MonitorTypeOK, Conditions, WaitOK, ReleasePut, NotifyOne
  <2>6. Building' /\ HeldOK' /\ PhaseOK'
    BY <1>10, <2>1 DEF TypeOK, Building, HeldOK, PhaseOK, ReleasePut
  <2> QED BY <2>3, <2>4, <2>5, <2>6
<1>11. CASE Available
  <2>1. connectNum - Len(connects) \in 0..NoAnswer
    BY LenProperties DEF TypeOK, NeverOverfull, NoAnswer
  <2>2. TypeOK'
    BY <1>11, <2>1 DEF TypeOK, MonitorTypeOK, Available
  <2>3. NeverOverfull' /\ Building' /\ HeldOK' /\ WaitOK' /\ PhaseOK'
    BY <1>11 DEF NeverOverfull, Building, HeldOK, WaitOK, PhaseOK, Available
  <2> QED BY <2>2, <2>3
<1>12. CASE DestroyLock
  <2>1. TypeOK'
    BY <1>12 DEF TypeOK, MonitorTypeOK, Threads, DestroyLock, Lock
  <2>2. NeverOverfull' /\ Building' /\ HeldOK' /\ WaitOK' /\ PhaseOK'
    BY <1>12 DEF NeverOverfull, Building, HeldOK, WaitOK, PhaseOK, DestroyLock
  <2> QED BY <2>1, <2>2
<1>13. CASE DestroyClose
  <2>1. connects # <<>> /\ connects \in Seq(Conns)
    BY <1>13 DEF DestroyClose, empty, TypeOK
  <2>2. /\ Head(connects) \in Conns
        /\ Tail(connects) \in Seq(Conns)
        /\ Len(Tail(connects)) = Len(connects) - 1
        /\ Len(connects) \in Nat
    BY <2>1, TailElems, LenProperties
  <2>3. TypeOK'
    BY <1>13, <2>2 DEF TypeOK, MonitorTypeOK, DestroyClose
  <2>4. NeverOverfull' /\ Building' /\ HeldOK' /\ WaitOK' /\ PhaseOK'
    BY <1>13, <2>2 DEF NeverOverfull, Building, HeldOK, WaitOK, PhaseOK, DestroyClose
  <2> QED BY <2>3, <2>4
<1>14. CASE DestroyDrop
  <2>1. closes' \in [Conns -> Nat]
    BY <1>14 DEF TypeOK, PhaseOK, DestroyDrop
  <2>2. TypeOK'
    BY <1>14, <2>1 DEF TypeOK, MonitorTypeOK, DestroyDrop
  <2>3. NeverOverfull' /\ Building' /\ HeldOK' /\ WaitOK' /\ PhaseOK'
    BY <1>14 DEF NeverOverfull, Building, HeldOK, WaitOK, PhaseOK, DestroyDrop
  <2> QED BY <2>2, <2>3
<1>15. CASE DestroyReturn
  <2>1. TypeOK'
    BY <1>15 DEF TypeOK, MonitorTypeOK, DestroyReturn, Unlock
  <2>2. NeverOverfull' /\ Building' /\ HeldOK' /\ WaitOK' /\ PhaseOK'
    BY <1>15 DEF NeverOverfull, Building, HeldOK, WaitOK, PhaseOK, DestroyReturn
  <2> QED BY <2>1, <2>2
<1>16. CASE Spurious
  <2>1. TypeOK'
    BY <1>16 DEF TypeOK, MonitorTypeOK, Spurious, SpuriousWakeup
  <2>2. WaitOK'
    BY <1>16 DEF TypeOK, MonitorTypeOK, Conditions, WaitOK, Spurious, SpuriousWakeup
  <2>3. NeverOverfull' /\ Building' /\ HeldOK' /\ PhaseOK'
    BY <1>16 DEF NeverOverfull, Building, Idle, HeldOK, PhaseOK, Spurious
  <2> QED BY <2>1, <2>2, <2>3
<1>17. CASE UNCHANGED vars
  BY <1>17 DEF vars, TypeOK, MonitorTypeOK, NeverOverfull, Building, Idle, HeldOK, WaitOK,
               PhaseOK
<1> QED
  BY <1>1, <1>2, <1>3, <1>4, <1>5, <1>6, <1>7, <1>8, <1>9, <1>10, <1>11, <1>12, <1>13,
     <1>14, <1>15, <1>16, <1>17 DEF Next, User, Destroy

----------------------------------------------------------------------------
\* Connections

Holders == {u \in Users : held[u] # NoConn}

\* No connection drops out of the pool.
Covered == ownerPc = "up" => Conns \subseteq Idle \cup Borrowed

\* Nothing is in two places.
Apart ==
    kept = {} =>
        /\ Once(connects)
        /\ \A u \in Users : held[u] # NoConn => held[u] \notin Idle
        /\ \A u, v \in Users : u # v /\ held[u] # NoConn => held[u] # held[v]

Counted ==
    kept = {} /\ ownerPc = "up" => Len(connects) + Cardinality(Holders) = connectNum

\* What the destructor has not closed yet is still in the queue.
Reached ==
    /\ ownerPc \in {"destroy", "drop", "gone"} =>
          \A c \in Conns : c \in Idle \/ closes[c] > 0
    /\ ownerPc = "gone" => connects = <<>>

DataInv == Covered /\ Apart /\ Counted /\ ReleaseNeverBlocks /\ Reached

LEMMA HoldersFinite ==
    /\ IsFiniteSet(Holders)
    /\ Cardinality(Holders) \in Nat
    /\ Cardinality(Holders) = 0 <=> Holders = {}
<1>1. IsFiniteSet(Holders)
  BY PoolAssumption, FS_Subset DEF Holders
<1> QED BY <1>1, FS_CardinalityType, FS_EmptySet

\* Before and after the pool's life nobody holds anything.
LEMMA NobodyHolds ==
    ASSUME ControlInv, \A u \in Users : pc[u] = "idle"
    PROVE  (\A u \in Users : held[u] = NoConn) /\ Holders = {} /\ Borrowed = {}
<1>1. \A u \in Users : held[u] = NoConn
  BY DEF ControlInv, HeldOK
<1> QED BY <1>1 DEF Holders, Borrowed

LEMMA DataInit == Init => DataInv
<1> SUFFICES ASSUME Init PROVE DataInv
  OBVIOUS
<1> USE DEF Init, MonitorInit
<1>1. Covered /\ Counted /\ Reached
  BY DEF Covered, Counted, Reached
<1>2. Apart
  BY DEF Apart, Once
<1>3. ReleaseNeverBlocks
  BY DEF ReleaseNeverBlocks, Conditions
<1> QED BY <1>1, <1>2, <1>3 DEF DataInv

LEMMA DataNext == ControlInv /\ ControlInv' /\ Building /\ DataInv /\ [Next]_vars => DataInv'
<1> SUFFICES ASSUME ControlInv, ControlInv', Building, DataInv, [Next]_vars PROVE DataInv'
  OBVIOUS
<1> USE PoolAssumption, ConnectNumType
<1> USE DEF DataInv, environment, Goto
<1>0. /\ TypeOK /\ connects \in Seq(Conns) /\ Len(connects) \in Nat
      /\ Idle \subseteq Conns
  BY LenProperties, ElemsType, IdleElems DEF ControlInv, TypeOK
<1>1. ASSUME NEW c \in Conns, Construct(c) PROVE DataInv'
  <2>1. /\ Len(connects') = Len(connects) + 1
        /\ Idle' = Idle \cup {c} /\ c \notin Idle
        /\ Cardinality(Idle') = Len(connects')
    BY <1>0, <1>1, ConstructHasRoom DEF Building, Construct
  <2>2. /\ UNCHANGED <<held, kept, waiting>>
        /\ ownerPc' = IF Len(connects') = connectNum THEN "up" ELSE "construct"
    BY <1>1 DEF Construct
  <2>3. /\ \A u \in Users : held[u] = NoConn
        /\ Holders = {}
    BY <1>1, NobodyHolds DEF ControlInv, PhaseOK, Construct
  <2>4. Covered'
    <3>1. ASSUME ownerPc' = "up" PROVE Idle' = Conns
      <4>1. Cardinality(Idle') = Cardinality(Conns)
        BY <2>1, <2>2, <3>1 DEF connectNum
      <4> QED BY <1>0, <2>1, <4>1, FS_Subset
    <3> QED BY <3>1 DEF Covered
  <2>5. Apart'
    <3>1. connects' = Append(connects, c)
      BY <1>1 DEF Construct
    <3>2. Once(connects) => Once(connects')
      BY <1>0, <2>1, <3>1, AppendElems, IdleElems
    <3> QED BY <2>2, <2>3, <3>2 DEF Apart
  <2>6. Counted'
    <3>1. Holders' = {}
      BY <2>2, <2>3 DEF Holders
    <3>2. Cardinality(Holders') = 0
      BY <3>1, FS_EmptySet
    <3> QED BY <2>2, <3>2 DEF Counted
  <2>7. ReleaseNeverBlocks' /\ Reached'
    BY <2>2 DEF ReleaseNeverBlocks, Reached
  <2> QED BY <2>4, <2>5, <2>6, <2>7
<1>2. ASSUME NEW u \in Users, GetTake(u) PROVE DataInv'
  <2> DEFINE h == Head(connects)
  <2>1. connects # <<>> /\ connects' = Tail(connects)
    BY <1>2 DEF GetTake, empty
  <2>2. /\ h \in Idle /\ h \in Conns
        /\ Len(connects') = Len(connects) - 1
        /\ Idle = Idle' \cup {h}
        /\ Once(connects) => Once(connects') /\ h \notin Idle'
    BY <1>0, <2>1, TailElems, IdleElems
  <2>3. held[u] = NoConn
    BY <1>2 DEF ControlInv, HeldOK, GetTake
  <2>4. /\ UNCHANGED <<kept, ownerPc, closes>>
        /\ \A v \in Users : held'[v] = IF v = u THEN h ELSE held[v]
        /\ ownerPc = "up"
    BY <1>0, <1>2 DEF TypeOK, ControlInv, PhaseOK, GetTake
  <2> HIDE DEF h
  <2>5. Covered'
    <3>1. \A c \in Borrowed : c \in Borrowed'
      BY <2>3, <2>4 DEF Borrowed
    <3>2. h \in Borrowed'
      BY <2>2, <2>4 DEF Borrowed
    <3> QED BY <2>2, <2>4, <3>1, <3>2 DEF Covered
  <2>6. Apart'
    BY <2>2, <2>4 DEF Apart
  <2>7. Counted'
    <3>1. Holders' = Holders \cup {u} /\ u \notin Holders
      BY <2>2, <2>3, <2>4 DEF Holders
    <3>2. Cardinality(Holders') = Cardinality(Holders) + 1
      BY <3>1, HoldersFinite, FS_AddElement
    <3> QED BY <1>0, <2>2, <2>4, <3>2, HoldersFinite DEF Counted
  <2>8. ReleaseNeverBlocks'
    BY <1>0, <1>2, <2>4 DEF TypeOK, MonitorTypeOK, Conditions, ReleaseNeverBlocks, GetTake,
                            NotifyOne
  <2>9. Reached'
    BY <2>4 DEF Reached
  <2> QED BY <2>5, <2>6, <2>7, <2>8, <2>9
<1>3. ASSUME NEW u \in Users, ReleasePut(u) PROVE DataInv'
  <2> DEFINE x == held[u]
  <2>1. x \in Conns /\ x # NoConn /\ ownerPc = "up"
    BY <1>0, <1>3 DEF TypeOK, ControlInv, HeldOK, PhaseOK, ReleasePut
  <2>2. connects' = Append(connects, x)
    BY <1>3 DEF ReleasePut
  <2>3. /\ Len(connects') = Len(connects) + 1
        /\ Idle' = Idle \cup {x}
        /\ Once(connects) /\ x \notin Idle => Once(connects')
    BY <1>0, <2>1, <2>2, AppendElems, IdleElems
  <2>4. /\ UNCHANGED <<ownerPc, closes>>
        /\ \A v \in Users : v # u => held'[v] = held[v]
        /\ kept' = {} => kept = {} /\ held'[u] = NoConn
    BY <1>0, <1>3 DEF TypeOK, ReleasePut
  <2> HIDE DEF x
  <2>5. Covered'
    <3>1. ASSUME NEW c \in Borrowed PROVE c = x \/ c \in Borrowed'
      <4>1. PICK v \in Users : held[v] = c /\ c # NoConn
        BY DEF Borrowed
      <4> QED BY <2>4, <4>1 DEF Borrowed, x
    <3> QED BY <2>3, <2>4, <3>1 DEF Covered
  <2>6. Apart'
    BY <2>1, <2>3, <2>4 DEF Apart, x
  <2>7. Counted'
    <3> SUFFICES ASSUME kept' = {} PROVE Len(connects') + Cardinality(Holders') = connectNum
      BY DEF Counted
    <3>1. Holders' = Holders \ {u} /\ u \in Holders
      BY <2>1, <2>4 DEF Holders, x
    <3>2. Cardinality(Holders') = Cardinality(Holders) - 1
      BY <3>1, HoldersFinite, FS_RemoveElement
    <3>3. Len(connects) + Cardinality(Holders) = connectNum
      BY <2>1, <2>4 DEF Counted
    <3> QED BY <1>0, <2>3, <3>2, <3>3, HoldersFinite
  <2>8. ReleaseNeverBlocks'
    BY <1>0, <1>3, <2>4 DEF TypeOK, MonitorTypeOK, Conditions, ReleaseNeverBlocks, ReleasePut,
                            NotifyOne
  <2>9. Reached'
    BY <2>1, <2>4 DEF Reached
  <2> QED BY <2>5, <2>6, <2>7, <2>8, <2>9
\* A full queue means that nobody holds a connection, but u does.
<1>4. ASSUME NEW u \in Users, ReleaseWait(u) PROVE DataInv'
  <2>1. kept # {}
    <3> SUFFICES ASSUME kept = {} PROVE FALSE
      OBVIOUS
    <3>1. ownerPc = "up" /\ u \in Holders /\ Len(connects) = connectNum
      BY <1>4 DEF ControlInv, HeldOK, PhaseOK, Holders, ReleaseWait, full
    <3>2. Len(connects) + Cardinality(Holders) = connectNum
      BY <3>1 DEF Counted
    <3> QED BY <3>1, <3>2, HoldersFinite
  <2>2. UNCHANGED <<connects, held, kept, ownerPc, closes>>
    BY <1>4 DEF ReleaseWait
  <2> QED BY <2>1, <2>2 DEF Covered, Apart, Counted, ReleaseNeverBlocks, Reached, Idle,
                            Borrowed
<1>5. CASE DestroyLock
  <2>1. /\ UNCHANGED <<connects, held, kept, waiting, closes>>
        /\ ownerPc' = "destroy"
        /\ ownerPc = "up"
        /\ \A u \in Users : pc[u] = "idle"
    BY <1>5 DEF DestroyLock
  <2>2. Conns \subseteq Idle
    BY <2>1, NobodyHolds DEF Covered
  <2> QED BY <2>1, <2>2 DEF Covered, Apart, Counted, ReleaseNeverBlocks, Reached, Idle,
                            Borrowed
<1>6. CASE DestroyClose
  <2> DEFINE h == Head(connects)
  <2>1. /\ connects # <<>> /\ connects' = Tail(connects)
        /\ UNCHANGED <<held, kept, waiting>>
        /\ ownerPc = "destroy" /\ ownerPc' = "drop"
        /\ closes' = [closes EXCEPT ![h] = @ + 1]
    BY <1>6 DEF DestroyClose, empty
  <2>2. /\ h \in Conns
        /\ Idle = Idle' \cup {h}
        /\ Once(connects) => Once(connects')
    BY <1>0, <2>1, TailElems, IdleElems
  <2> HIDE DEF h
  <2>3. \A c \in Conns : closes'[c] = IF c = h THEN closes[c] + 1 ELSE closes[c]
    BY <1>0, <2>1 DEF TypeOK
  <2>4. closes'[h] > 0
    BY <1>0, <2>2, <2>3 DEF TypeOK
  <2>5. Reached'
    BY <2>1, <2>2, <2>3, <2>4 DEF Reached
  <2>6. Covered' /\ Apart' /\ Counted' /\ ReleaseNeverBlocks'
    BY <2>1, <2>2 DEF Covered, Apart, Counted, ReleaseNeverBlocks
  <2> QED BY <2>5, <2>6
<1>7. CASE DestroyDrop
  <2>1. /\ UNCHANGED <<connects, held, kept, waiting>>
        /\ ownerPc = "drop" /\ ownerPc' = "destroy"
    BY <1>7 DEF DestroyDrop
  <2>2. \A c \in Conns : closes[c] > 0 => closes'[c] > 0
    BY <1>0, <1>7 DEF TypeOK, DestroyDrop
  <2>3. Reached'
    BY <2>1, <2>2 DEF Reached, Idle
  <2>4. Covered' /\ Apart' /\ Counted' /\ ReleaseNeverBlocks'
    BY <2>1 DEF Covered, Apart, Counted, ReleaseNeverBlocks, Idle
  <2> QED BY <2>3, <2>4
<1>8. CASE DestroyReturn
  <2>1. /\ UNCHANGED <<connects, held, kept, waiting, closes>>
        /\ ownerPc = "destroy" /\ ownerPc' = "gone"
        /\ connects = <<>>
    BY <1>0, <1>8, EmptySeq DEF DestroyReturn, empty
  <2> QED BY <2>1 DEF Covered, Apart, Counted, ReleaseNeverBlocks, Reached, Idle
\* The remaining steps leave the connections alone.
<1>9. ASSUME UNCHANGED <<connects, held, kept, ownerPc, closes>>,
             waiting'["notFull"] \subseteq waiting["notFull"]
      PROVE  DataInv'
  BY <1>9 DEF Covered, Apart, Counted, ReleaseNeverBlocks, Reached, Idle, Borrowed, Holders
<1>10. ASSUME NEW u \in Users,
              \/ GetLock(u) \/ GetWait(u) \/ GetResume(u)
              \/ QueryLock(u) \/ QueryDone(u)
              \/ ReleaseLock(u) \/ ReleaseResume(u)
       PROVE  DataInv'
  <2>1. UNCHANGED <<connects, held, kept, ownerPc, closes>>
    BY <1>10 DEF GetLock, GetWait, GetResume, QueryLock, QueryDone, ReleaseLock, ReleaseResume
  <2>2. waiting'["notFull"] \subseteq waiting["notFull"]
    BY <1>0, <1>10 DEF TypeOK, MonitorTypeOK, Conditions, GetLock, GetWait, Wait, GetResume,
                       QueryLock, QueryDone, ReleaseLock, ReleaseResume
  <2> QED BY <1>9, <2>1, <2>2
<1>11. CASE Available \/ Spurious
  <2>1. UNCHANGED <<connects, held, kept, ownerPc, closes>>
    BY <1>11 DEF Available, Spurious
  <2>2. waiting'["notFull"] \subseteq waiting["notFull"]
    <3>1. CASE Available
      BY <3>1 DEF Available
    <3>2. CASE Spurious
      BY <1>0, <3>2 DEF TypeOK, MonitorTypeOK, Conditions, Spurious, SpuriousWakeup
    <3> QED BY <1>11, <3>1, <3>2
  <2> QED BY <1>9, <2>1, <2>2
<1>12. CASE UNCHANGED vars
  BY <1>9, <1>12 DEF vars
<1> QED
  BY <1>1, <1>2, <1>3, <1>4, <1>5, <1>6, <1>7, <1>8, <1>10, <1>11, <1>12
     DEF Next, User, Destroy

\* As long as nobody has released what it no longer owned: while the pool is up
\* every connection is either idle, once, or borrowed by exactly one user, no two
\* threads share a connection, and a release never waits.  And whatever users do:
\* the queue holds no more than connectNum pointers, and the destructor closes
\* every connection.
THEOREM PoolConserves ==
    Spec => [](/\ TypeOK
               /\ Conservation
               /\ ExclusiveUse
               /\ ReleaseNeverBlocks
               /\ NeverOverfull
               /\ AllClosed)
<1>1. Init => ControlInv /\ Building /\ DataInv
  BY ControlInit, DataInit
<1>2. ControlInv /\ Building /\ DataInv /\ [Next]_vars => ControlInv' /\ Building' /\ DataInv'
  BY ControlNext, DataNext
<1>3. ASSUME ControlInv, DataInv
      PROVE  /\ TypeOK /\ NeverOverfull /\ ReleaseNeverBlocks
             /\ Conservation /\ ExclusiveUse /\ AllClosed
  <2>1. Idle \subseteq Conns /\ Borrowed \subseteq Conns
    BY <1>3, ElemsType, IdleElems DEF ControlInv, TypeOK, Borrowed
  <2>2. Conservation
    BY <1>3, <2>1 DEF DataInv, Covered, Counted, Holders, Conservation
  <2>3. ExclusiveUse
    BY <1>3 DEF DataInv, Apart, ExclusiveUse
  <2>4. AllClosed
    <3> SUFFICES ASSUME ownerPc = "gone" PROVE \A c \in Conns : closes[c] > 0
      BY DEF AllClosed
    <3>1. connects = <<>> /\ \A c \in Conns : c \in Idle \/ closes[c] > 0
      BY <1>3 DEF DataInv, Reached
    <3>2. Idle = {}
      BY <3>1 DEF Idle
    <3> QED BY <3>1, <3>2
  <2> QED BY <1>3, <2>2, <2>3, <2>4 DEF ControlInv, DataInv
<1> QED BY <1>1, <1>2, <1>3, PTL DEF Spec

----------------------------------------------------------------------------
\* Refinement of Lending

\* As long as nobody keeps what it has released every step is one of Lending or
\* invisible to it.
LEMMA PoolStepRefines ==
    ASSUME ControlInv, Building, DataInv, DataInv', [Next]_vars, kept' = {}
    PROVE  Contract!Next \/ UNCHANGED Contract!vars
<1> USE DEF environment, Goto
<1>0. TypeOK /\ connects \in Seq(Conns) /\ Len(connects) \in Nat
  BY LenProperties DEF ControlInv, TypeOK
<1>00. Contract!InStock = Idle /\ Contract!InStock' = Idle'
  BY DEF Contract!InStock, Idle
<1>1. ASSUME NEW c \in Conns, Construct(c) PROVE Contract!Stock(c)
  <2>1. /\ Idle' = Idle \cup {c} /\ c \notin Idle
        /\ Cardinality(Idle') = Len(connects')
    BY <1>0, <1>1, ConstructHasRoom DEF Building, Construct
  <2>2. /\ UNCHANGED held
        /\ connects' = Append(connects, c)
        /\ ownerPc = "construct"
        /\ ownerPc' = IF Len(connects') = connectNum THEN "up" ELSE "construct"
    BY <1>1 DEF Construct
  <2>3. Len(connects') = connectNum <=> Conns \subseteq Idle'
    <3>1. Idle' \subseteq Conns
      BY <1>0, <2>1, ElemsType, IdleElems
    <3>2. Cardinality(Idle') = connectNum => Idle' = Conns
      BY <3>1, PoolAssumption, FS_Subset DEF connectNum
    <3>3. Conns \subseteq Idle' => Cardinality(Idle') = connectNum
      BY <3>1 DEF connectNum
    <3> QED BY <2>1, <3>2, <3>3
  <2> QED BY <1>00, <2>1, <2>2, <2>3 DEF Contract!Stock, Phase
<1>2. ASSUME NEW u \in Users, GetTake(u) PROVE Contract!Borrow(u)
  <2>1. /\ connects # <<>> /\ connects' = Tail(connects)
        /\ held' = [held EXCEPT ![u] = Head(connects)]
        /\ held[u] = NoConn
        /\ ownerPc = "up" /\ UNCHANGED <<ownerPc, kept>>
    BY <1>2 DEF GetTake, empty, ControlInv, HeldOK, PhaseOK
  <2>2. Head(connects) \in Idle /\ Head(connects) # NoConn
    BY <1>0, <2>1, TailElems, IdleElems, PoolAssumption
  <2>3. \A v \in Users : held[v] # Head(connects)
    BY <2>1, <2>2 DEF DataInv, Apart
  <2> QED BY <2>1, <2>3 DEF Contract!Borrow, Phase
<1>3. ASSUME NEW u \in Users, ReleasePut(u) PROVE Contract!GiveBack(u)
  <2>1. held[u] # NoConn /\ ownerPc = "up"
    BY <1>3 DEF ReleasePut, ControlInv, HeldOK, PhaseOK
  <2>2. /\ connects' = Append(connects, held[u])
        /\ held' = [held EXCEPT ![u] = NoConn]
        /\ kept = {} /\ UNCHANGED ownerPc
    BY <1>3 DEF ReleasePut
  <2>3. held[u] \notin Idle
    BY <2>1, <2>2 DEF DataInv, Apart
  <2> QED BY <1>00, <2>1, <2>2, <2>3 DEF Contract!GiveBack, Phase
<1>4. CASE DestroyLock
  <2>1. /\ ownerPc = "up" /\ ownerPc' = "destroy"
        /\ UNCHANGED <<connects, held>>
        /\ \A u \in Users : pc[u] = "idle"
    BY <1>4 DEF DestroyLock
  <2>2. (\A u \in Users : held[u] = NoConn) /\ Conns \subseteq Idle
    BY <2>1, NobodyHolds DEF DataInv, Covered
  <2>3. Conns = Idle
    BY <1>0, <2>2, ElemsType, IdleElems
  <2>4. Contract!Shut
    BY <1>00, <2>1, <2>2, <2>3 DEF Contract!Shut, Phase
  <2> QED BY <2>4 DEF Contract!Next
<1>5. CASE DestroyClose
  <2>1. Contract!Close
    BY <1>5 DEF DestroyClose, empty, Contract!Close, Phase
  <2> QED BY <2>1 DEF Contract!Next
<1>6. CASE DestroyReturn
  <2>1. connects = <<>>
    BY <1>0, <1>6, EmptySeq DEF DestroyReturn, empty
  <2>2. Contract!Closed
    BY <1>6, <2>1 DEF DestroyReturn, Contract!Closed, Phase
  <2> QED BY <2>2 DEF Contract!Next
<1>7. ASSUME NEW u \in Users,
             \/ GetLock(u) \/ GetWait(u) \/ GetResume(u)
             \/ QueryLock(u) \/ QueryDone(u)
             \/ ReleaseLock(u) \/ ReleaseWait(u) \/ ReleaseResume(u)
      PROVE  UNCHANGED Contract!vars
  BY <1>7 DEF Contract!vars, Phase, GetLock, GetWait, GetResume, QueryLock, QueryDone,
              ReleaseLock, ReleaseWait, ReleaseResume
<1>8. CASE Available \/ DestroyDrop \/ Spurious \/ UNCHANGED vars
  BY <1>8 DEF Contract!vars, Phase, Available, DestroyDrop, Spurious, vars
<1> QED
  BY <1>1, <1>2, <1>3, <1>4, <1>5, <1>6, <1>7, <1>8
     DEF Next, User, Destroy, Contract!Next

\* The pool implements Lending until somebody keeps what it has released: every
\* connection is lent to one user at a time, in the order in which they came
\* back, no borrowing begins before the stock is complete, and none outlives it.
THEOREM PoolIsLending == Spec => ImplementsLending
<1>1. Init => ControlInv /\ Building /\ DataInv
  BY ControlInit, DataInit
<1>2. ControlInv /\ Building /\ DataInv /\ [Next]_vars => ControlInv' /\ Building' /\ DataInv'
  BY ControlNext, DataNext
<1>3. Init => Contract!Init
  BY DEF Init, Contract!Init, Phase
<1>4. ControlInv /\ Building /\ DataInv /\ DataInv' /\ [Next]_vars =>
        [kept' = {} => Contract!Next \/ UNCHANGED Contract!vars]_vars
  BY PoolStepRefines
<1> QED BY <1>1, <1>2, <1>3, <1>4, PTL DEF Spec, ImplementsLending

----------------------------------------------------------------------------
\* Wakeups

\* How the number of awake users follows from the change of their set.
LEMMA Awake ==
    ASSUME NEW A \in SUBSET Users, NEW B \in SUBSET Users
    PROVE  /\ Cardinality(A) \in Nat
           /\ A \subseteq B => Cardinality(A) <= Cardinality(B)
           /\ \A u : A \ {u} \subseteq B => Cardinality(A) - 1 <= Cardinality(B)
           /\ \A u : u \notin A /\ A \cup {u} \subseteq B =>
                        Cardinality(A) + 1 <= Cardinality(B)
<1>1. IsFiniteSet(A) /\ IsFiniteSet(B)
  BY PoolAssumption, FS_Subset
<1>2. \A C \in SUBSET B : Cardinality(C) <= Cardinality(B)
  BY <1>1, FS_Subset
<1>3. Cardinality(A) \in Nat /\ Cardinality(B) \in Nat
  BY <1>1, FS_CardinalityType
<1>4. A \subseteq B => Cardinality(A) <= Cardinality(B)
  BY <1>2
<1>5. ASSUME NEW u, A \ {u} \subseteq B
      PROVE  Cardinality(A) - 1 <= Cardinality(B)
  <2>1. Cardinality(A \ {u}) <= Cardinality(B)
    BY <1>2, <1>5
  <2>2. Cardinality(A \ {u}) = IF u \in A THEN Cardinality(A) - 1 ELSE Cardinality(A)
    BY <1>1, FS_RemoveElement
  <2> QED BY <2>1, <2>2, <1>3
<1>6. ASSUME NEW u, u \notin A, A \cup {u} \subseteq B
      PROVE  Cardinality(A) + 1 <= Cardinality(B)
  <2>1. Cardinality(A \cup {u}) <= Cardinality(B)
    BY <1>2, <1>6
  <2>2. Cardinality(A \cup {u}) = Cardinality(A) + 1
    BY <1>1, <1>6, FS_AddElement
  <2> QED BY <2>1, <2>2
<1> QED BY <1>3, <1>4, <1>5, <1>6

\* What a step of a user or of the owner does to the queue's length.
LEMMA Lengths ==
    ASSUME ControlInv
    PROVE  /\ Len(connects) \in Nat /\ connectNum \in Nat
           /\ \A u \in Users : GetTake(u) => Len(connects') = Len(connects) - 1
           /\ \A u \in Users : ReleasePut(u) => Len(connects') = Len(connects) + 1
<1>1. connects \in Seq(Conns) /\ Len(connects) \in Nat
  BY LenProperties DEF ControlInv, TypeOK
<1>2. ASSUME NEW u \in Users, GetTake(u) PROVE Len(connects') = Len(connects) - 1
  <2>1. connects # <<>> /\ connects' = Tail(connects)
    BY <1>2 DEF GetTake, empty
  <2> QED BY <1>1, <2>1, TailElems
<1>3. ASSUME NEW u \in Users, ReleasePut(u) PROVE Len(connects') = Len(connects) + 1
  <2>1. held[u] \in Conns /\ connects' = Append(connects, held[u])
    BY <1>3 DEF ControlInv, TypeOK, HeldOK, ReleasePut
  <2> QED BY <1>1, <2>1, AppendElems
<1> QED BY <1>1, <1>2, <1>3, ConnectNumType

\* Nobody sleeps while the pool is built or destroyed.
LEMMA NobodySleeps ==
    ASSUME ControlInv, ControlInv', ownerPc # "up" \/ ownerPc' # "up",
           [Next]_vars
    PROVE  waiting'["notEmpty"] = {} /\ waiting'["notFull"] = {}
<1>1. CASE ownerPc' # "up"
  BY <1>1 DEF ControlInv, WaitOK, PhaseOK
<1>2. CASE ownerPc # "up" /\ ownerPc' = "up"
  <2>1. waiting["notEmpty"] = {} /\ waiting["notFull"] = {}
    BY <1>2 DEF ControlInv, WaitOK, PhaseOK
  <2>2. waiting' = waiting
    BY <1>2 DEF Next, User, Construct, GetLock, GetWait, GetResume, GetTake, QueryLock,
                QueryDone, ReleaseLock, ReleaseWait, ReleaseResume, ReleasePut, Available,
                DestroyLock, Destroy, DestroyClose, DestroyDrop, DestroyReturn, Spurious,
                environment, vars
  <2> QED BY <2>1, <2>2
<1> QED BY <1>1, <1>2

LEMMA NotEmptyStep ==
    ControlInv /\ ControlInv' /\ NoLostRelease /\ [Next]_vars => NoLostRelease'
<1> SUFFICES ASSUME ControlInv, ControlInv', NoLostRelease, [Next]_vars,
                    waiting'["notEmpty"] # {}
             PROVE  Len(connects') <= Cardinality(AwakeGetters')
  BY DEF NoLostRelease
<1> DEFINE A == AwakeGetters
           B == AwakeGetters'
<1>0. /\ TypeOK /\ A \in SUBSET Users /\ B \in SUBSET Users
      /\ Len(connects) \in Nat
      /\ Cardinality(A) \in Nat /\ Cardinality(B) \in Nat
      /\ ownerPc = "up" /\ ownerPc' = "up"
  BY Lengths, Awake, NobodySleeps DEF ControlInv, AwakeGetters
<1> USE DEF environment, Goto
\* Steps that only let users wake up or come in.
<1>1. ASSUME connects' = connects, waiting["notEmpty"] # {}, A \subseteq B
      PROVE  Len(connects') <= Cardinality(B)
  <2>1. Len(connects) <= Cardinality(A) /\ Cardinality(A) <= Cardinality(B)
    BY <1>0, <1>1, Awake DEF NoLostRelease
  <2> QED BY <1>0, <1>1, <2>1
<1>2. ASSUME NEW u \in Users,
             \/ GetLock(u) \/ GetResume(u)
             \/ QueryLock(u) \/ QueryDone(u)
             \/ ReleaseLock(u) \/ ReleaseWait(u) \/ ReleaseResume(u)
      PROVE  Len(connects') <= Cardinality(B)
  <2>1. connects' = connects /\ waiting["notEmpty"] # {}
    BY <1>0, <1>2 DEF TypeOK, MonitorTypeOK, Conditions, GetLock, GetResume, QueryLock,
                      QueryDone, ReleaseLock, ReleaseWait, ReleaseResume, Wait
  <2>2. A \subseteq B
    BY <1>0, <1>2 DEF TypeOK, MonitorTypeOK, Conditions, AwakeGetters, GetLock, GetResume,
                      QueryLock, QueryDone, ReleaseLock, ReleaseWait, ReleaseResume, Wait
  <2> QED BY <1>1, <2>1, <2>2
\* A user goes to sleep only if there is nothing to take.
<1>3. ASSUME NEW u \in Users, GetWait(u) PROVE Len(connects') <= Cardinality(B)
  BY <1>0, <1>3 DEF GetWait, empty
\* One connection and one awake user less.
<1>4. ASSUME NEW u \in Users, GetTake(u) PROVE Len(connects') <= Cardinality(B)
  <2>1. A \ {u} \subseteq B /\ waiting'["notEmpty"] = waiting["notEmpty"]
    BY <1>0, <1>4 DEF TypeOK, MonitorTypeOK, Conditions, AwakeGetters, GetTake, NotifyOne
  <2>2. Cardinality(A) - 1 <= Cardinality(B)
    BY <1>0, <2>1, Awake
  <2>3. Len(connects') = Len(connects) - 1 /\ Len(connects) <= Cardinality(A)
    BY <1>4, <2>1, Lengths DEF NoLostRelease
  <2> QED BY <1>0, <2>2, <2>3
\* The signal for the connection that comes back goes to a sleeper.
<1>5. ASSUME NEW u \in Users, ReleasePut(u) PROVE Len(connects') <= Cardinality(B)
  <2>1. PICK s \in waiting["notEmpty"] :
            waiting' = [waiting EXCEPT !["notEmpty"] = @ \ {s}]
    BY <1>5 DEF ReleasePut, NotifyOne
  <2>2. s \in Users /\ pc[s] = "getWait" /\ s # u
    BY <1>5, <2>1 DEF ControlInv, WaitOK, ReleasePut
  <2>3. s \notin A /\ A \cup {s} \subseteq B
    BY <1>0, <1>5, <2>1, <2>2 DEF TypeOK, MonitorTypeOK, Conditions, AwakeGetters, ReleasePut
  <2>4. Cardinality(A) + 1 <= Cardinality(B)
    BY <1>0, <2>3, Awake
  <2>5. Len(connects') = Len(connects) + 1 /\ Len(connects) <= Cardinality(A)
    BY <1>5, <2>1, Lengths DEF NoLostRelease
  <2> QED BY <1>0, <2>4, <2>5
<1>6. CASE Available \/ Spurious
  <2>1. connects' = connects /\ pc' = pc /\ waiting["notEmpty"] # {}
    BY <1>0, <1>6 DEF TypeOK, MonitorTypeOK, Conditions, Available, Spurious, SpuriousWakeup
  <2>2. A \subseteq B
    BY <1>0, <1>6 DEF TypeOK, MonitorTypeOK, Conditions, AwakeGetters, Available, Spurious,
                      SpuriousWakeup
  <2> QED BY <1>1, <2>1, <2>2
<1>7. ASSUME (\E c \in Conns : Construct(c)) \/ DestroyLock \/ Destroy PROVE FALSE
  BY <1>0, <1>7 DEF Construct, DestroyLock, Destroy, DestroyClose, DestroyDrop, DestroyReturn
<1>8. CASE UNCHANGED vars
  BY <1>1, <1>8 DEF vars, AwakeGetters
<1> QED BY <1>2, <1>3, <1>4, <1>5, <1>6, <1>7, <1>8 DEF Next, User

LEMMA NotFullStep ==
    ControlInv /\ ControlInv' /\ NoLostGet /\ [Next]_vars => NoLostGet'
<1> SUFFICES ASSUME ControlInv, ControlInv', NoLostGet, [Next]_vars,
                    waiting'["notFull"] # {}
             PROVE  connectNum - Len(connects') <= Cardinality(AwakeReleasers')
  BY DEF NoLostGet
<1> DEFINE A == AwakeReleasers
           B == AwakeReleasers'
<1>0. /\ TypeOK /\ A \in SUBSET Users /\ B \in SUBSET Users
      /\ Len(connects) \in Nat /\ connectNum \in Nat
      /\ Cardinality(A) \in Nat /\ Cardinality(B) \in Nat
      /\ ownerPc = "up" /\ ownerPc' = "up"
  BY Lengths, Awake, NobodySleeps DEF ControlInv, AwakeReleasers
<1> USE DEF environment, Goto
\* Steps that only let users wake up or come in.
<1>1. ASSUME connects' = connects, waiting["notFull"] # {}, A \subseteq B
      PROVE  connectNum - Len(connects') <= Cardinality(B)
  <2>1. connectNum - Len(connects) <= Cardinality(A) /\ Cardinality(A) <= Cardinality(B)
    BY <1>0, <1>1, Awake DEF NoLostGet
  <2> QED BY <1>0, <1>1, <2>1
<1>2. ASSUME NEW u \in Users,
             \/ GetLock(u) \/ GetWait(u) \/ GetResume(u)
             \/ QueryLock(u) \/ QueryDone(u)
             \/ ReleaseLock(u) \/ ReleaseResume(u)
      PROVE  connectNum - Len(connects') <= Cardinality(B)
  <2>1. connects' = connects /\ waiting["notFull"] # {}
    BY <1>0, <1>2 DEF TypeOK, MonitorTypeOK, Conditions, GetLock, GetWait, GetResume,
                      QueryLock, QueryDone, ReleaseLock, ReleaseResume, Wait
  <2>2. A \subseteq B
    BY <1>0, <1>2 DEF TypeOK, MonitorTypeOK, Conditions, AwakeReleasers, GetLock, GetWait,
                      GetResume, QueryLock, QueryDone, ReleaseLock, ReleaseResume, Wait
  <2> QED BY <1>1, <2>1, <2>2
\* A user goes to sleep only if there is no place.
<1>3. ASSUME NEW u \in Users, ReleaseWait(u)
      PROVE  connectNum - Len(connects') <= Cardinality(B)
  BY <1>0, <1>3 DEF ReleaseWait, full
\* One place and one awake user less.
<1>4. ASSUME NEW u \in Users, ReleasePut(u)
      PROVE  connectNum - Len(connects') <= Cardinality(B)
  <2>1. A \ {u} \subseteq B /\ waiting'["notFull"] = waiting["notFull"]
    BY <1>0, <1>4 DEF TypeOK, MonitorTypeOK, Conditions, AwakeReleasers, ReleasePut, NotifyOne
  <2>2. Cardinality(A) - 1 <= Cardinality(B)
    BY <1>0, <2>1, Awake
  <2>3. /\ Len(connects') = Len(connects) + 1
        /\ connectNum - Len(connects) <= Cardinality(A)
    BY <1>4, <2>1, Lengths DEF NoLostGet
  <2> QED BY <1>0, <2>2, <2>3
\* The signal for the new place goes to a sleeper.
<1>5. ASSUME NEW u \in Users, GetTake(u)
      PROVE  connectNum - Len(connects') <= Cardinality(B)
  <2>1. PICK s \in waiting["notFull"] :
            waiting' = [waiting EXCEPT !["notFull"] = @ \ {s}]
    BY <1>5 DEF GetTake, NotifyOne
  <2>2. s \in Users /\ pc[s] = "releaseWait" /\ s # u
    BY <1>5, <2>1 DEF ControlInv, WaitOK, GetTake
  <2>3. s \notin A /\ A \cup {s} \subseteq B
    BY <1>0, <1>5, <2>1, <2>2 DEF TypeOK, MonitorTypeOK, Conditions, AwakeReleasers, GetTake
  <2>4. Cardinality(A) + 1 <= Cardinality(B)
    BY <1>0, <2>3, Awake
  <2>5. /\ Len(connects') = Len(connects) - 1
        /\ connectNum - Len(connects) <= Cardinality(A)
    BY <1>5, <2>1, Lengths DEF NoLostGet
  <2> QED BY <1>0, <2>4, <2>5
<1>6. CASE Available \/ Spurious
  <2>1. connects' = connects /\ pc' = pc /\ waiting["notFull"] # {}
    BY <1>0, <1>6 DEF TypeOK, MonitorTypeOK, Conditions, Available, Spurious, SpuriousWakeup
  <2>2. A \subseteq B
    BY <1>0, <1>6 DEF TypeOK, MonitorTypeOK, Conditions, AwakeReleasers, Available, Spurious,
                      SpuriousWakeup
  <2> QED BY <1>1, <2>1, <2>2
<1>7. ASSUME (\E c \in Conns : Construct(c)) \/ DestroyLock \/ Destroy PROVE FALSE
  BY <1>0, <1>7 DEF Construct, DestroyLock, Destroy, DestroyClose, DestroyDrop, DestroyReturn
<1>8. CASE UNCHANGED vars
  BY <1>1, <1>8 DEF vars, AwakeReleasers
<1> QED BY <1>2, <1>3, <1>4, <1>5, <1>6, <1>7, <1>8 DEF Next, User

\* No wakeup is lost on either condition, whatever users release: whenever a user
\* sleeps in get_connect, as many users are awake inside it as there are idle
\* connections, and whenever one sleeps in release_connect, as many are awake
\* inside that as there are free places.
THEOREM PoolLosesNoWakeup == Spec => []NoLostWakeups
<1>1. Init => ControlInv /\ Building /\ NoLostRelease /\ NoLostGet
  <2>1. Init => NoLostRelease /\ NoLostGet
    BY DEF Init, MonitorInit, Conditions, NoLostRelease, NoLostGet
  <2> QED BY <2>1, ControlInit
<1>2. ControlInv /\ Building /\ NoLostRelease /\ NoLostGet /\ [Next]_vars =>
        ControlInv' /\ Building' /\ NoLostRelease' /\ NoLostGet'
  BY ControlNext, NotEmptyStep, NotFullStep
<1>3. NoLostRelease /\ NoLostGet => NoLostWakeups
  BY DEF NoLostWakeups
<1> QED BY <1>1, <1>2, <1>3, PTL DEF Spec

\* Whoever gives back what it borrowed finds a free place.
COROLLARY ReleasesFindRoom == Spec => []ReleaseNeverBlocks
BY PoolConserves, PTL
==============================================================================

--------------------------- MODULE TaskQueueProofs ---------------------------
(***************************************************************************)
(* TaskQueue for every set of threads, every set of elements and every     *)
(* capacity: the queue's safety invariants, and that it implements the     *)
(* closable bounded buffer of BoundedFifo.                                 *)
(***************************************************************************)
EXTENDS TaskQueue, SequenceTheorems, FiniteSetTheorems, TLAPS

\* The inductive invariant.  Mutual exclusion is what makes the rest inductive:
\* between a test of the queue and the step that relies on it nobody else moves
\* the queue.
IInv ==
    /\ TypeOK
    /\ MutualExclusion
    /\ WaitSetsOK
    /\ CapacityOK
    /\ PopSeesElement
    /\ FifoOK

\* Moving the head of t to the end of s does not change s \o t: a pop keeps the
\* order of the elements.
LEMMA MoveHead ==
    ASSUME NEW S, NEW s \in Seq(S), NEW t \in Seq(S), t # <<>>
    PROVE  /\ Head(t) \in S
           /\ Tail(t) \in Seq(S)
           /\ Len(Tail(t)) = Len(t) - 1
           /\ Append(s, Head(t)) \in Seq(S)
           /\ Append(s, Head(t)) \o Tail(t) = s \o t
<1>1. Head(t) \in S /\ Tail(t) \in Seq(S) /\ Len(Tail(t)) = Len(t) - 1
  BY HeadTailProperties
<1>2. Append(s, Head(t)) \in Seq(S)
  BY <1>1, AppendProperties
<1>3. Append(s, Head(t)) \o Tail(t) = s \o t
  OBVIOUS
<1> QED BY <1>1, <1>2, <1>3

\* Appending to t is appending to s \o t: a push keeps the order.
LEMMA AppendRight ==
    ASSUME NEW S, NEW s \in Seq(S), NEW t \in Seq(S), NEW e \in S
    PROVE  /\ Append(t, e) \in Seq(S)
           /\ Len(Append(t, e)) = Len(t) + 1
           /\ s \o Append(t, e) = Append(s \o t, e)
<1>1. Append(t, e) \in Seq(S) /\ Len(Append(t, e)) = Len(t) + 1
  BY AppendProperties
<1>2. s \o Append(t, e) = Append(s \o t, e)
  OBVIOUS
<1> QED BY <1>1, <1>2

\* The first state satisfies the invariant.
LEMMA InitInv == Init => IInv
<1> SUFFICES ASSUME Init PROVE IInv
  OBVIOUS
<1> USE QueueAssumption DEF Init, MonitorInit
<1>1. TypeOK
  BY DEF TypeOK, MonitorTypeOK, Conditions, PushPoints, PopPoints
<1>2. MutualExclusion /\ WaitSetsOK
  BY DEF MutualExclusion, Critical, WaitSetsOK, Conditions
<1>3. CapacityOK /\ PopSeesElement
  BY DEF CapacityOK, PopSeesElement
<1>4. FifoOK
  BY DEF FifoOK
<1> QED BY <1>1, <1>2, <1>3, <1>4 DEF IInv

\* Every step of the queue preserves the invariant, one step of the proof per
\* action.
LEMMA NextInv == IInv /\ [Next]_queueVars => IInv'
<1> SUFFICES ASSUME IInv, [Next]_queueVars PROVE IInv'
  OBVIOUS
<1> USE QueueAssumption
<1> USE DEF IInv, PushPoints, PopPoints, Critical, Conditions
<1>1. ASSUME NEW t \in Threads, NEW e \in Elements, PushLock(t, e)
      PROVE  IInv'
  <2>1. TypeOK'
    BY <1>1 DEF TypeOK, MonitorTypeOK, PushLock, Lock, Goto
  <2>2. MutualExclusion' /\ WaitSetsOK'
    BY <1>1 DEF TypeOK, MonitorTypeOK, MutualExclusion, WaitSetsOK, PushLock, Lock, Goto
  <2>3. CapacityOK' /\ FifoOK'
    BY <1>1 DEF CapacityOK, FifoOK, PushLock
  <2>4. PopSeesElement'
    BY <1>1 DEF TypeOK, PopSeesElement, PushLock, Lock, Goto
  <2> QED BY <2>1, <2>2, <2>3, <2>4
<1>2. ASSUME NEW t \in Threads, PushWait(t)
      PROVE  IInv'
  <2>1. TypeOK'
    BY <1>2 DEF TypeOK, MonitorTypeOK, PushWait, Wait, Unlock, Goto, full
  <2>2. MutualExclusion' /\ WaitSetsOK'
    BY <1>2 DEF TypeOK, MonitorTypeOK, MutualExclusion, WaitSetsOK, PushWait, Wait, Unlock, Goto, full
  <2>3. CapacityOK' /\ FifoOK'
    BY <1>2 DEF CapacityOK, FifoOK, PushWait
  <2>4. PopSeesElement'
    BY <1>2 DEF TypeOK, PopSeesElement, PushWait, Wait, Unlock, Goto, full
  <2> QED BY <2>1, <2>2, <2>3, <2>4
<1>3. ASSUME NEW t \in Threads, PushResume(t)
      PROVE  IInv'
  <2>1. TypeOK'
    BY <1>3 DEF TypeOK, MonitorTypeOK, PushResume, Lock, Woken, Goto
  <2>2. MutualExclusion' /\ WaitSetsOK'
    BY <1>3 DEF TypeOK, MonitorTypeOK, MutualExclusion, WaitSetsOK, PushResume, Lock, Woken, Goto
  <2>3. CapacityOK' /\ FifoOK'
    BY <1>3 DEF CapacityOK, FifoOK, PushResume
  <2>4. PopSeesElement'
    BY <1>3 DEF TypeOK, PopSeesElement, PushResume, Lock, Woken, Goto
  <2> QED BY <2>1, <2>2, <2>3, <2>4
<1>4. ASSUME NEW t \in Threads, PushStore(t)
      PROVE  IInv'
  <2>1. /\ Append(que, item[t]) \in Seq(Elements)
        /\ Append(pushed, item[t]) \in Seq(Elements)
        /\ Len(Append(que, item[t])) = Len(que) + 1
        /\ taken \o Append(que, item[t]) = Append(taken \o que, item[t])
    BY AppendRight DEF TypeOK
  <2>2. TypeOK'
    BY <1>4, <2>1 DEF TypeOK, MonitorTypeOK, PushStore, NotifyOne, Return, Unlock, Goto
  <2>3. MutualExclusion' /\ WaitSetsOK'
    BY <1>4 DEF TypeOK, MonitorTypeOK, MutualExclusion, WaitSetsOK,
                PushStore, NotifyOne, Return, Unlock, Goto
  <2>4. CapacityOK'
    BY <1>4, <2>1 DEF TypeOK, CapacityOK, PushStore, full
  <2>5. FifoOK'
    BY <1>4, <2>1 DEF FifoOK, PushStore
  <2>6. PopSeesElement'
    BY <1>4, <2>1 DEF TypeOK, MutualExclusion, PopSeesElement, PushStore, Return, Goto
  <2> QED BY <2>2, <2>3, <2>4, <2>5, <2>6
<1>5. ASSUME NEW t \in Threads, PopLock(t)
      PROVE  IInv'
  <2>1. TypeOK'
    BY <1>5 DEF TypeOK, MonitorTypeOK, PopLock, Lock, Goto
  <2>2. MutualExclusion' /\ WaitSetsOK'
    BY <1>5 DEF TypeOK, MonitorTypeOK, MutualExclusion, WaitSetsOK, PopLock, Lock, Goto
  <2>3. CapacityOK' /\ FifoOK'
    BY <1>5 DEF CapacityOK, FifoOK, PopLock
  <2>4. PopSeesElement'
    BY <1>5 DEF TypeOK, PopSeesElement, PopLock, Lock, Goto
  <2> QED BY <2>1, <2>2, <2>3, <2>4
<1>6. ASSUME NEW t \in Threads, PopTest(t)
      PROVE  IInv'
  <2>1. TypeOK'
    BY <1>6 DEF TypeOK, MonitorTypeOK, PopTest, Goto, empty
  <2>2. MutualExclusion' /\ WaitSetsOK'
    BY <1>6 DEF TypeOK, MonitorTypeOK, MutualExclusion, WaitSetsOK, PopTest, Goto, empty
  <2>3. CapacityOK' /\ FifoOK'
    BY <1>6 DEF CapacityOK, FifoOK, PopTest
  <2>4. PopSeesElement'
    BY <1>6 DEF TypeOK, PopSeesElement, PopTest, Goto, empty
  <2> QED BY <2>1, <2>2, <2>3, <2>4
<1>7. ASSUME NEW t \in Threads, PopWait(t)
      PROVE  IInv'
  <2>1. TypeOK'
    BY <1>7 DEF TypeOK, MonitorTypeOK, PopWait, Wait, Unlock, Goto
  <2>2. MutualExclusion' /\ WaitSetsOK'
    BY <1>7 DEF TypeOK, MonitorTypeOK, MutualExclusion, WaitSetsOK, PopWait, Wait, Unlock, Goto
  <2>3. CapacityOK' /\ FifoOK'
    BY <1>7 DEF CapacityOK, FifoOK, PopWait
  <2>4. PopSeesElement'
    BY <1>7 DEF TypeOK, PopSeesElement, PopWait, Wait, Unlock, Goto
  <2> QED BY <2>1, <2>2, <2>3, <2>4
<1>8. ASSUME NEW t \in Threads, PopResume(t)
      PROVE  IInv'
  <2>1. TypeOK'
    BY <1>8 DEF TypeOK, MonitorTypeOK, PopResume, Lock, Woken, Goto
  <2>2. MutualExclusion' /\ WaitSetsOK'
    BY <1>8 DEF TypeOK, MonitorTypeOK, MutualExclusion, WaitSetsOK, PopResume, Lock, Woken, Goto
  <2>3. CapacityOK' /\ FifoOK'
    BY <1>8 DEF CapacityOK, FifoOK, PopResume
  <2>4. PopSeesElement'
    BY <1>8 DEF TypeOK, PopSeesElement, PopResume, Lock, Woken, Goto
  <2> QED BY <2>1, <2>2, <2>3, <2>4
<1>9. ASSUME NEW t \in Threads, PopTake(t)
      PROVE  IInv'
  <2>1. que # <<>>
    BY <1>9 DEF PopSeesElement, PopTake
  <2>2. /\ Head(que) \in Elements
        /\ Tail(que) \in Seq(Elements)
        /\ Len(Tail(que)) = Len(que) - 1
        /\ Append(taken, Head(que)) \in Seq(Elements)
        /\ Append(taken, Head(que)) \o Tail(que) = taken \o que
    BY <2>1, MoveHead DEF TypeOK
  <2>3. TypeOK'
    BY <1>9, <2>2 DEF TypeOK, MonitorTypeOK, PopTake, NotifyOne, Return, Unlock, Goto
  <2>4. MutualExclusion' /\ WaitSetsOK'
    BY <1>9 DEF TypeOK, MonitorTypeOK, MutualExclusion, WaitSetsOK,
                PopTake, NotifyOne, Return, Unlock, Goto
  <2>5. CapacityOK'
    BY <1>9, <2>2 DEF TypeOK, CapacityOK, PopTake
  <2>6. FifoOK'
    BY <1>9, <2>2 DEF FifoOK, PopTake
  \* Nobody else is past the loop of pop: t held the mutex.
  <2>7. PopSeesElement'
    BY <1>9 DEF TypeOK, MutualExclusion, PopSeesElement, PopTake, Return, Unlock, Goto
  <2> QED BY <2>3, <2>4, <2>5, <2>6, <2>7
<1>10. ASSUME NEW t \in Threads, PopNull(t)
      PROVE  IInv'
  <2>1. TypeOK'
    BY <1>10 DEF TypeOK, MonitorTypeOK, PopNull, Return, Unlock, Goto
  <2>2. MutualExclusion' /\ WaitSetsOK'
    BY <1>10 DEF TypeOK, MonitorTypeOK, MutualExclusion, WaitSetsOK, PopNull, Return, Unlock, Goto
  <2>3. CapacityOK' /\ FifoOK'
    BY <1>10 DEF CapacityOK, FifoOK, PopNull
  <2>4. PopSeesElement'
    BY <1>10 DEF TypeOK, PopSeesElement, PopNull, Return, Unlock, Goto
  <2> QED BY <2>1, <2>2, <2>3, <2>4
<1>11. ASSUME NEW t \in Threads, WakeupClear(t)
      PROVE  IInv'
  <2>1. TypeOK'
    BY <1>11 DEF TypeOK, MonitorTypeOK, WakeupClear, Goto
  <2>2. MutualExclusion' /\ WaitSetsOK'
    BY <1>11 DEF TypeOK, MonitorTypeOK, MutualExclusion, WaitSetsOK, WakeupClear, Goto
  <2>3. CapacityOK' /\ FifoOK'
    BY <1>11 DEF CapacityOK, FifoOK, WakeupClear
  <2>4. PopSeesElement'
    BY <1>11 DEF TypeOK, PopSeesElement, WakeupClear, Goto
  <2> QED BY <2>1, <2>2, <2>3, <2>4
<1>12. ASSUME NEW t \in Threads, WakeupNotify(t)
      PROVE  IInv'
  <2>1. TypeOK'
    BY <1>12 DEF TypeOK, MonitorTypeOK, WakeupNotify, NotifyAll, Goto
  <2>2. MutualExclusion' /\ WaitSetsOK'
    BY <1>12 DEF TypeOK, MonitorTypeOK, MutualExclusion, WaitSetsOK, WakeupNotify, NotifyAll, Goto
  <2>3. CapacityOK' /\ FifoOK'
    BY <1>12 DEF CapacityOK, FifoOK, WakeupNotify
  <2>4. PopSeesElement'
    BY <1>12 DEF TypeOK, PopSeesElement, WakeupNotify, NotifyAll, Goto
  <2> QED BY <2>1, <2>2, <2>3, <2>4
<1>13. ASSUME NEW t \in Threads, Spurious(t)
      PROVE  IInv'
  <2>1. TypeOK'
    BY <1>13 DEF TypeOK, MonitorTypeOK, Spurious, SpuriousWakeup
  <2>2. MutualExclusion' /\ WaitSetsOK'
    BY <1>13 DEF TypeOK, MonitorTypeOK, MutualExclusion, WaitSetsOK, Spurious, SpuriousWakeup
  <2>3. CapacityOK' /\ FifoOK'
    BY <1>13 DEF CapacityOK, FifoOK, Spurious
  <2>4. PopSeesElement'
    BY <1>13 DEF TypeOK, PopSeesElement, Spurious, SpuriousWakeup
  <2> QED BY <2>1, <2>2, <2>3, <2>4
<1>14. CASE UNCHANGED queueVars
  BY <1>14 DEF queueVars, TypeOK, MonitorTypeOK, MutualExclusion, WaitSetsOK,
               CapacityOK, PopSeesElement, FifoOK
<1> QED
  BY <1>1, <1>2, <1>3, <1>4, <1>5, <1>6, <1>7, <1>8, <1>9, <1>10, <1>11, <1>12,
     <1>13, <1>14 DEF Next, Push, Pop

\* Type correctness and the safety of the queue in every reachable state: a
\* thread is in a critical section exactly if it owns the mutex, wait sets hold
\* only threads inside wait(), the queue is within its capacity, pop never reads
\* an empty queue, and elements leave in the order they came.
THEOREM QueueSafe ==
    Spec => [](/\ TypeOK
               /\ MutualExclusion
               /\ WaitSetsOK
               /\ CapacityOK
               /\ PopSeesElement
               /\ FifoOK)
<1>1. Init => IInv
  BY InitInv
<1>2. IInv /\ [Next]_queueVars => IInv'
  BY NextInv
<1>3. IInv => /\ TypeOK
              /\ MutualExclusion
              /\ WaitSetsOK
              /\ CapacityOK
              /\ PopSeesElement
              /\ FifoOK
  BY DEF IInv
<1> QED BY <1>1, <1>2, <1>3, PTL DEF Spec

----------------------------------------------------------------------------
\* TaskQueue implements BoundedFifo

\* A step of the queue is a Put, a Take, a Close or nothing for its users.
LEMMA StepRefines == IInv /\ [Next]_queueVars => [Abstract!Next]_(Abstract!vars)
<1> SUFFICES ASSUME IInv, [Next]_queueVars
             PROVE  [Abstract!Next]_(Abstract!vars)
  OBVIOUS
<1> USE DEF Abstract!vars
<1>1. ASSUME NEW t \in Threads, PushStore(t) PROVE Abstract!Next
  <2>1. item[t] \in Elements /\ Len(que) < QueSize
    BY <1>1, QueueAssumption DEF IInv, TypeOK, CapacityOK, PushStore, full
  <2>2. Abstract!Put(item[t])
    BY <1>1, <2>1 DEF PushStore, Abstract!Put
  <2> QED BY <2>1, <2>2 DEF Abstract!Next
<1>2. ASSUME NEW t \in Threads, PopTake(t) PROVE Abstract!Next
  <2>1. que # <<>>
    BY <1>2 DEF IInv, PopSeesElement, PopTake
  <2>2. Abstract!Take
    BY <1>2, <2>1 DEF PopTake, Abstract!Take
  <2> QED BY <2>2 DEF Abstract!Next
<1>3. ASSUME NEW t \in Threads, WakeupClear(t) PROVE Abstract!Next
  <2>1. Abstract!Close
    BY <1>3 DEF WakeupClear, Abstract!Close
  <2> QED BY <2>1 DEF Abstract!Next
\* The remaining steps move program counters, the mutex and the wait sets.
<1>4. ASSUME NEW t \in Threads,
             \/ \E e \in Elements : PushLock(t, e)
             \/ PushWait(t) \/ PushResume(t)
             \/ PopLock(t) \/ PopTest(t) \/ PopWait(t) \/ PopResume(t) \/ PopNull(t)
             \/ WakeupNotify(t)
             \/ Spurious(t)
      PROVE  UNCHANGED Abstract!vars
  BY <1>4 DEF PushLock, PushWait, PushResume, PopLock, PopTest, PopWait, PopResume,
              PopNull, WakeupNotify, Spurious
<1>5. CASE UNCHANGED queueVars
  BY <1>5 DEF queueVars
<1> QED BY <1>1, <1>2, <1>3, <1>4, <1>5 DEF Next, Push, Pop

\* The queue keeps the promise of BoundedFifo: a first-in first-out buffer
\* within its capacity that hands out nothing any more once it is closed.
THEOREM QueueImplementsFifo == Spec => ImplementsFifo
<1>1. Init => Abstract!Init
  BY DEF Init, Abstract!Init
<1>2. IInv /\ [Next]_queueVars => [Abstract!Next]_(Abstract!vars)
  BY StepRefines
<1>3. Init => IInv
  BY InitInv
<1>4. IInv /\ [Next]_queueVars => IInv'
  BY NextInv
<1> QED BY <1>1, <1>2, <1>3, <1>4, PTL DEF Spec, ImplementsFifo, Abstract!Spec

----------------------------------------------------------------------------
\* No wakeup is lost: one notifyOne per push and per pop is enough while the
\* queue is open, for any number of threads and any capacity.

\* A consumer that is about to wait has seen, and still sees, an empty queue:
\* it has held the mutex since the test.
SleepSeesEmpty == \A t \in Threads : pc[t] = "popSleep" => que = <<>>

WInv == IInv /\ SleepSeesEmpty /\ NoLostNotEmpty /\ NoLostNotFull

\* How the number of awake threads follows from the change of their set.
LEMMA Awake ==
    ASSUME NEW A \in SUBSET Threads, NEW B \in SUBSET Threads
    PROVE  /\ Cardinality(A) \in Nat
           /\ A \subseteq B => Cardinality(A) <= Cardinality(B)
           /\ \A t : A \ {t} \subseteq B => Cardinality(A) - 1 <= Cardinality(B)
           /\ \A t : t \notin A /\ A \cup {t} \subseteq B =>
                        Cardinality(A) + 1 <= Cardinality(B)
<1>1. IsFiniteSet(A) /\ IsFiniteSet(B)
  BY QueueAssumption, FS_Subset
<1>2. \A C \in SUBSET B : Cardinality(C) <= Cardinality(B)
  BY <1>1, FS_Subset
<1>3. Cardinality(A) \in Nat /\ Cardinality(B) \in Nat
  BY <1>1, FS_CardinalityType
<1>4. A \subseteq B => Cardinality(A) <= Cardinality(B)
  BY <1>2
<1>5. ASSUME NEW t, A \ {t} \subseteq B
      PROVE  Cardinality(A) - 1 <= Cardinality(B)
  <2>1. Cardinality(A \ {t}) <= Cardinality(B)
    BY <1>2, <1>5
  <2>2. Cardinality(A \ {t}) = IF t \in A THEN Cardinality(A) - 1 ELSE Cardinality(A)
    BY <1>1, FS_RemoveElement
  <2> QED BY <2>1, <2>2, <1>3
<1>6. ASSUME NEW t, t \notin A, A \cup {t} \subseteq B
      PROVE  Cardinality(A) + 1 <= Cardinality(B)
  <2>1. Cardinality(A \cup {t}) <= Cardinality(B)
    BY <1>2, <1>6
  <2>2. Cardinality(A \cup {t}) = Cardinality(A) + 1
    BY <1>1, <1>6, FS_AddElement
  <2> QED BY <2>1, <2>2
<1> QED BY <1>3, <1>4, <1>5, <1>6

\* The lengths the counting is about.
LEMMA Lengths ==
    ASSUME TypeOK
    PROVE  /\ Len(que) \in Nat
           /\ ActivePoppers \in SUBSET Threads
           /\ ActivePushers \in SUBSET Threads
           /\ \A e \in Elements : Len(Append(que, e)) = Len(que) + 1
           /\ que # <<>> => Len(Tail(que)) = Len(que) - 1
<1>1. Len(que) \in Nat
  BY LenProperties DEF TypeOK
<1>2. \A e \in Elements : Len(Append(que, e)) = Len(que) + 1
  BY AppendProperties DEF TypeOK
<1>3. que # <<>> => Len(Tail(que)) = Len(que) - 1
  BY HeadTailProperties DEF TypeOK
<1> QED BY <1>1, <1>2, <1>3 DEF ActivePoppers, ActivePushers

LEMMA WakeupInit == Init => WInv
<1> SUFFICES ASSUME Init PROVE WInv
  OBVIOUS
<1>1. IInv
  BY InitInv
<1>2. SleepSeesEmpty /\ NoLostNotEmpty /\ NoLostNotFull
  BY DEF Init, MonitorInit, SleepSeesEmpty, NoLostNotEmpty, NoLostNotFull, Conditions
<1> QED BY <1>1, <1>2 DEF WInv

\* The consumer that sleeps is alone with the mutex.
LEMMA SleepStep == WInv /\ [Next]_queueVars => SleepSeesEmpty'
<1> SUFFICES ASSUME WInv, [Next]_queueVars PROVE SleepSeesEmpty'
  OBVIOUS
<1> USE DEF WInv, IInv, TypeOK, SleepSeesEmpty, Goto
<1>1. ASSUME NEW t \in Threads, PopTest(t) PROVE SleepSeesEmpty'
  <2>1. empty => que = <<>>
    BY EmptySeq DEF empty
  <2>2. \A s \in Threads : pc[s] # "popSleep" \/ s = t
    BY <1>1 DEF PopTest, MutualExclusion, Critical
  <2> QED BY <1>1, <2>1, <2>2 DEF PopTest
<1>2. ASSUME NEW t \in Threads, PushStore(t) \/ PopTake(t) PROVE SleepSeesEmpty'
  <2>1. owner = t /\ pc[t] # "popSleep"
    BY <1>2 DEF PushStore, PopTake, Return, Unlock
  <2>2. \A s \in Threads : pc[s] # "popSleep"
    BY <2>1 DEF MutualExclusion, Critical
  <2> QED BY <1>2, <2>2 DEF PushStore, PopTake, Return
<1>3. ASSUME NEW t \in Threads,
             \/ \E e \in Elements : PushLock(t, e)
             \/ PushWait(t) \/ PushResume(t)
             \/ PopLock(t) \/ PopWait(t) \/ PopResume(t) \/ PopNull(t)
             \/ WakeupClear(t) \/ WakeupNotify(t)
      PROVE  SleepSeesEmpty'
  BY <1>3 DEF PushLock, PushWait, PushResume, PopLock, PopWait, PopResume, PopNull,
              WakeupClear, WakeupNotify, Return
<1>4. ASSUME NEW t \in Threads, Spurious(t) PROVE SleepSeesEmpty'
  BY <1>4 DEF Spurious
<1>5. CASE UNCHANGED queueVars
  BY <1>5 DEF queueVars
<1> QED BY <1>1, <1>2, <1>3, <1>4, <1>5 DEF Next, Push, Pop

----------------------------------------------------------------------------
\* _notEmpty

LEMMA NotEmptyStep == WInv /\ [Next]_queueVars => NoLostNotEmpty'
<1> SUFFICES ASSUME WInv, [Next]_queueVars,
                    flag', waiting'["notEmpty"] # {}
             PROVE  Len(que') <= Cardinality(ActivePoppers')
  BY DEF NoLostNotEmpty
<1> DEFINE A == ActivePoppers
           B == ActivePoppers'
<1>0. /\ TypeOK /\ TypeOK'
      /\ A \in SUBSET Threads /\ B \in SUBSET Threads
      /\ Len(que) \in Nat
  BY NextInv, Lengths DEF WInv, IInv, ActivePoppers
\* Steps that only let threads wake up or come in.
<1>1. ASSUME que' = que, flag, waiting["notEmpty"] # {}, A \subseteq B
      PROVE  Len(que') <= Cardinality(B)
  BY <1>0, <1>1, Awake DEF WInv, NoLostNotEmpty
<1>2. ASSUME NEW t \in Threads,
             \/ \E e \in Elements : PushLock(t, e)
             \/ PushWait(t) \/ PushResume(t)
             \/ PopLock(t) \/ PopResume(t)
             \/ Spurious(t)
      PROVE  Len(que') <= Cardinality(B)
  <2>1. que' = que /\ flag /\ waiting["notEmpty"] # {}
    BY <1>2, <1>0 DEF PushLock, PushWait, PushResume, PopLock, PopResume, Spurious,
          SpuriousWakeup, Wait, TypeOK, MonitorTypeOK, Conditions
  <2>2. A \subseteq B
    BY <1>2, <1>0 DEF PushLock, PushWait, PushResume, PopLock, PopResume, Spurious,
          SpuriousWakeup, Wait, Goto, Woken, ActivePoppers, TypeOK, MonitorTypeOK,
          Conditions
  <2> QED BY <1>1, <2>1, <2>2
\* The new element's signal goes to a sleeper, who becomes active.
<1>3. ASSUME NEW t \in Threads, PushStore(t) PROVE Len(que') <= Cardinality(B)
  <2>1. PICK s \in waiting["notEmpty"] :
            waiting' = [waiting EXCEPT !["notEmpty"] = @ \ {s}]
    BY <1>3 DEF PushStore, NotifyOne
  <2>2. s \in Threads /\ pc[s] = "popWait" /\ s # t
    BY <1>0, <1>3, <2>1 DEF WInv, IInv, TypeOK, MonitorTypeOK, WaitSetsOK, Conditions,
          PushStore
  <2>3. s \notin A /\ A \cup {s} \subseteq B
    BY <1>0, <1>3, <2>1, <2>2 DEF ActivePoppers, Woken, PushStore, Return, Goto, TypeOK,
          MonitorTypeOK, Conditions
  <2>4. Cardinality(A) + 1 <= Cardinality(B) /\ Cardinality(A) \in Nat
    BY <1>0, <2>3, Awake
  <2>5. Len(que') = Len(que) + 1
    BY <1>0, <1>3, Lengths DEF PushStore, TypeOK
  <2>6. Len(que) <= Cardinality(A)
    BY <1>3, <2>1 DEF PushStore, WInv, NoLostNotEmpty
  <2>7. Cardinality(B) \in Nat
    BY <1>0, Awake
  <2> QED BY <1>0, <2>4, <2>5, <2>6, <2>7
\* The test sends a consumer to sleep only if there is nothing to take.
<1>4. ASSUME NEW t \in Threads, PopTest(t) PROVE Len(que') <= Cardinality(B)
  <2>1. CASE empty
    BY <1>0, <1>4, <2>1, Awake DEF PopTest, empty
  <2>2. CASE ~empty
    <3>1. A \subseteq B
      BY <1>0, <1>4, <2>2 DEF ActivePoppers, Woken, PopTest, Goto, TypeOK
    <3> QED BY <1>1, <1>4, <3>1 DEF PopTest
  <2> QED BY <2>1, <2>2
<1>5. ASSUME NEW t \in Threads, PopWait(t) PROVE Len(que') <= Cardinality(B)
  <2>1. que' = <<>>
    BY <1>5 DEF PopWait, WInv, SleepSeesEmpty
  <2> QED BY <1>0, <2>1, Awake, EmptySeq
\* One element and one awake consumer less.
<1>6. ASSUME NEW t \in Threads, PopTake(t) PROVE Len(que') <= Cardinality(B)
  <2>1. que # <<>>
    BY <1>6 DEF WInv, IInv, PopSeesElement, PopTake
  <2>2. Len(que') = Len(que) - 1
    BY <1>0, <1>6, <2>1, Lengths DEF PopTake
  <2>3. A \ {t} \subseteq B /\ waiting'["notEmpty"] = waiting["notEmpty"]
    BY <1>0, <1>6 DEF ActivePoppers, Woken, PopTake, NotifyOne, Return, Goto, TypeOK,
          MonitorTypeOK, Conditions
  <2>4. Cardinality(A) - 1 <= Cardinality(B)
    BY <1>0, <2>3, Awake
  <2>5. Len(que) <= Cardinality(A)
    BY <1>6, <2>3 DEF PopTake, WInv, NoLostNotEmpty
  <2>6. Cardinality(A) \in Nat /\ Cardinality(B) \in Nat
    BY <1>0, Awake
  <2> QED BY <1>0, <2>2, <2>4, <2>5, <2>6
\* Not possible while the queue is open, or wakes everybody.
<1>7. ASSUME NEW t \in Threads, PopNull(t) \/ WakeupClear(t) \/ WakeupNotify(t)
      PROVE  FALSE
  BY <1>0, <1>7 DEF PopNull, WakeupClear, WakeupNotify, NotifyAll, TypeOK, MonitorTypeOK,
        Conditions
<1>8. CASE UNCHANGED queueVars
  BY <1>0, <1>1, <1>8 DEF queueVars, ActivePoppers, Woken
<1> QED
  BY <1>2, <1>3, <1>4, <1>5, <1>6, <1>7, <1>8 DEF Next, Push, Pop

----------------------------------------------------------------------------
\* _notFull

LEMMA NotFullStep == WInv /\ [Next]_queueVars => NoLostNotFull'
<1> SUFFICES ASSUME WInv, [Next]_queueVars, waiting'["notFull"] # {}
             PROVE  QueSize - Len(que') <= Cardinality(ActivePushers')
  BY DEF NoLostNotFull
<1> DEFINE A == ActivePushers
           B == ActivePushers'
<1>0. /\ TypeOK /\ TypeOK'
      /\ A \in SUBSET Threads /\ B \in SUBSET Threads
      /\ Len(que) \in Nat /\ QueSize \in Nat
  BY NextInv, Lengths, QueueAssumption DEF WInv, IInv, ActivePushers
\* Steps that only let threads wake up or come in.
<1>1. ASSUME que' = que, waiting["notFull"] # {}, A \subseteq B
      PROVE  QueSize - Len(que') <= Cardinality(B)
  <2>1. QueSize - Len(que) <= Cardinality(A)
    BY <1>1 DEF WInv, NoLostNotFull
  <2>2. /\ Cardinality(A) \in Nat /\ Cardinality(B) \in Nat
        /\ Cardinality(A) <= Cardinality(B)
    BY <1>0, <1>1, Awake
  <2> QED BY <1>0, <1>1, <2>1, <2>2
<1>2. ASSUME NEW t \in Threads,
             \/ \E e \in Elements : PushLock(t, e)
             \/ PushResume(t)
             \/ PopLock(t) \/ PopTest(t) \/ PopWait(t) \/ PopResume(t) \/ PopNull(t)
             \/ WakeupClear(t) \/ WakeupNotify(t)
             \/ Spurious(t)
      PROVE  QueSize - Len(que') <= Cardinality(B)
  <2>1. que' = que /\ waiting["notFull"] # {}
    BY <1>2, <1>0 DEF PushLock, PushResume, PopLock, PopTest, PopWait, PopResume, PopNull,
          WakeupClear, WakeupNotify, NotifyAll, Spurious, SpuriousWakeup, Wait, TypeOK,
          MonitorTypeOK, Conditions
  <2>2. A \subseteq B
    BY <1>2, <1>0 DEF PushLock, PushResume, PopLock, PopTest, PopWait, PopResume, PopNull,
          WakeupClear, WakeupNotify, NotifyAll, Spurious, SpuriousWakeup, Wait, Goto,
          Return, Woken, ActivePushers, TypeOK, MonitorTypeOK, Conditions
  <2> QED BY <1>1, <2>1, <2>2
\* A producer goes to sleep only if there is no place.
<1>3. ASSUME NEW t \in Threads, PushWait(t)
      PROVE  QueSize - Len(que') <= Cardinality(B)
  BY <1>0, <1>3, Awake DEF PushWait, full
\* One place and one awake producer less.
<1>4. ASSUME NEW t \in Threads, PushStore(t)
      PROVE  QueSize - Len(que') <= Cardinality(B)
  <2>1. Len(que') = Len(que) + 1
    BY <1>0, <1>4, Lengths DEF PushStore, TypeOK
  <2>2. A \ {t} \subseteq B /\ waiting'["notFull"] = waiting["notFull"]
    BY <1>0, <1>4 DEF ActivePushers, Woken, PushStore, NotifyOne, Return, Goto, TypeOK,
          MonitorTypeOK, Conditions
  <2>3. Cardinality(A) - 1 <= Cardinality(B)
    BY <1>0, <2>2, Awake
  <2>4. QueSize - Len(que) <= Cardinality(A)
    BY <2>2 DEF WInv, NoLostNotFull
  <2>5. Cardinality(A) \in Nat /\ Cardinality(B) \in Nat
    BY <1>0, Awake
  <2> QED BY <1>0, <2>1, <2>3, <2>4, <2>5
\* The signal for the new place goes to a sleeper, who becomes active.
<1>5. ASSUME NEW t \in Threads, PopTake(t)
      PROVE  QueSize - Len(que') <= Cardinality(B)
  <2>1. PICK s \in waiting["notFull"] :
            waiting' = [waiting EXCEPT !["notFull"] = @ \ {s}]
    BY <1>5 DEF PopTake, NotifyOne
  <2>2. s \in Threads /\ pc[s] = "pushWait" /\ s # t
    BY <1>0, <1>5, <2>1 DEF WInv, IInv, TypeOK, MonitorTypeOK, WaitSetsOK, Conditions,
          PopTake
  <2>3. s \notin A /\ A \cup {s} \subseteq B
    BY <1>0, <1>5, <2>1, <2>2 DEF ActivePushers, Woken, PopTake, Return, Goto, TypeOK,
          MonitorTypeOK, Conditions
  <2>4. Cardinality(A) + 1 <= Cardinality(B)
    BY <1>0, <2>3, Awake
  <2>5. que # <<>>
    BY <1>5 DEF WInv, IInv, PopSeesElement, PopTake
  <2>6. Len(que') = Len(que) - 1
    BY <1>0, <1>5, <2>5, Lengths DEF PopTake
  <2>7. QueSize - Len(que) <= Cardinality(A)
    BY <2>1 DEF WInv, NoLostNotFull
  <2>8. Cardinality(A) \in Nat /\ Cardinality(B) \in Nat
    BY <1>0, Awake
  <2> QED BY <1>0, <2>4, <2>6, <2>7, <2>8
<1>6. CASE UNCHANGED queueVars
  BY <1>0, <1>1, <1>6 DEF queueVars, ActivePushers, Woken
<1> QED
  BY <1>2, <1>3, <1>4, <1>5, <1>6 DEF Next, Push, Pop

----------------------------------------------------------------------------
\* No wakeup is lost on either condition: whenever a consumer of the open queue
\* sleeps, as many consumers are awake inside pop as there are elements, and
\* whenever a producer sleeps, as many producers are awake inside push as there
\* are free places.
THEOREM NoLostWakeup == Spec => []NoLostWakeups
<1>1. Init => WInv
  BY WakeupInit
<1>2. WInv /\ [Next]_queueVars => WInv'
  BY NextInv, SleepStep, NotEmptyStep, NotFullStep DEF WInv
<1>3. WInv => NoLostWakeups
  BY DEF WInv, NoLostWakeups
<1> QED BY <1>1, <1>2, <1>3, PTL DEF Spec

\* front() is never called on an empty queue, however consumers steal from each
\* other and wake up for nothing.
COROLLARY PopIsDefined == Spec => []PopSeesElement
BY QueueSafe, PTL
==============================================================================

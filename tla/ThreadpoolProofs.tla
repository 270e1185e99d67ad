-------------------------- MODULE ThreadpoolProofs --------------------------
(***************************************************************************)
(* Threadpool for every number of workers, producers and tasks: seen from  *)
(* the queue it is one more client, so what is proved of TaskQueue holds   *)
(* inside the pool; its own types; and that a worker runs real tasks only. *)
(***************************************************************************)
EXTENDS Threadpool, TaskQueueProofs

\* Every step of the pool is a step of the queue or leaves the queue alone.
LEMMA PoolStepIsQueueStep == [PoolNext]_vars => [Next]_queueVars
<1> SUFFICES ASSUME [PoolNext]_vars PROVE [Next]_queueVars
  OBVIOUS
<1> USE PoolAssumption
<1>1. ASSUME NEW w \in Workers, Worker(w) PROVE [Next]_queueVars
  BY <1>1 DEF Worker, TestExit, CallPop, InPop, PopReturnsTask, PopReturnsNull, RunTask,
              Next, Pop
<1>2. ASSUME NEW p \in Producers, AddTask(p) \/ FinishAdd(p) PROVE [Next]_queueVars
  BY <1>2 DEF AddTask, FinishAdd, Next
<1>3. ASSUME StopStep PROVE [Next]_queueVars
  BY <1>3 DEF StopStep, StopReadTail, StopReadHead, StopSetExit, StopWakeupClear,
              StopWakeupNotify, StopJoin, Next
<1>4. ASSUME (\E w \in Workers : StartWorker(w)) \/ StartReturn \/ StopCall
      PROVE  [Next]_queueVars
  BY <1>4 DEF StartWorker, StartReturn, StopCall
<1>5. ASSUME SpuriousStep PROVE [Next]_queueVars
  BY <1>5 DEF SpuriousStep, Next
<1>6. CASE UNCHANGED vars
  BY <1>6 DEF vars
<1> QED BY <1>1, <1>2, <1>3, <1>4, <1>5, <1>6 DEF PoolNext

\* The pool's threads use the queue only through its operations: whatever
\* addTask, doTask and stop do, the queue behaves as TaskQueue says.
THEOREM PoolUsesQueue == PoolSpec => Spec
<1>1. PoolInit => Init
  BY DEF PoolInit
<1> QED BY <1>1, PoolStepIsQueueStep, PTL DEF PoolSpec, Spec

\* Hence inside the pool no wakeup is lost before stop(), the queue is a FIFO
\* within its capacity, and it implements the closable buffer BoundedFifo.
THEOREM PoolQueueSafe ==
    PoolSpec => /\ [](CapacityOK /\ PopSeesElement /\ FifoOK)
                /\ []NoLostWakeups
                /\ ImplementsFifo
<1>1. PoolSpec => [](CapacityOK /\ PopSeesElement /\ FifoOK)
  BY PoolUsesQueue, QueueSafe, PTL
<1>2. PoolSpec => []NoLostWakeups
  BY PoolUsesQueue, NoLostWakeup, PTL
<1>3. PoolSpec => ImplementsFifo
  BY PoolUsesQueue, QueueImplementsFifo, PTL
<1> QED BY <1>1, <1>2, <1>3, PTL

----------------------------------------------------------------------------
\* The pool's own invariant

\* A worker is inside the queue only while doTask is calling pop.
PopOnlyInside == \A w \in Workers : pc[w] # "idle" => phase[w] = "pop"

\* What has left the queue has been executed or is in a worker's hands.
TakenIsAccounted ==
    \A i \in 1..Len(taken) :
        \/ \E j \in 1..Len(done) : done[j] = taken[i]
        \/ \E w \in Workers : holding[w] = taken[i]

\* The polling loop ends when everything stored before its last look has left
\* the queue.
PollPassed ==
    ownerPc \in {"setExit", "wakeup", "notify", "join", "done"} =>
        sawTail <= Len(taken)

AllJoined ==
    ownerPc = "done" => \A w \in Workers : phase[w] \in {"exited", "failed"}

PInv ==
    /\ IInv
    /\ PoolTypeOK
    /\ RunsRealTask
    /\ PopOnlyInside
    /\ TakenIsAccounted
    /\ PollPassed
    /\ AllJoined

\* The first state satisfies the invariant.
LEMMA PoolInitInv == PoolInit => PInv
<1> SUFFICES ASSUME PoolInit PROVE PInv
  OBVIOUS
<1> USE PoolAssumption
<1>1. IInv
  BY InitInv DEF PoolInit
<1>2. PoolTypeOK
  <2>1. TypeOK
    BY <1>1 DEF IInv
  <2>2. done \in Seq(Elements) /\ sawTail \in Nat /\ submitted \subseteq Elements
    BY EmptySeq DEF PoolInit
  <2> QED BY <2>1, <2>2 DEF PoolTypeOK, PoolInit
<1>3. RunsRealTask /\ PopOnlyInside /\ TakenIsAccounted /\ PollPassed /\ AllJoined
  BY DEF PoolInit, Init, RunsRealTask, PopOnlyInside, TakenIsAccounted, PollPassed, AllJoined
<1> QED BY <1>1, <1>2, <1>3 DEF PInv

\* Every step preserves it.  Only a pop and the end of a task move tasks, so
\* only these two need an argument about sequences.
LEMMA PoolNextInv == PInv /\ [PoolNext]_vars => PInv'
<1> SUFFICES ASSUME PInv, [PoolNext]_vars PROVE PInv'
  OBVIOUS
<1> USE PoolAssumption DEF PInv
<1>0. IInv' /\ TypeOK /\ TypeOK'
  BY PoolStepIsQueueStep, NextInv DEF IInv
<1>1. ASSUME NEW w \in Workers, StartWorker(w)
       PROVE  PInv'
  <2>1. PoolTypeOK' /\ PollPassed' /\ AllJoined'
    BY <1>0, <1>1 DEF PoolTypeOK, TypeOK, PollPassed, AllJoined, PopOnlyInside,
          StartWorker, Enter, queueVars
  <2>2. RunsRealTask' /\ PopOnlyInside'
    BY <1>0, <1>1 DEF PoolTypeOK, TypeOK, RunsRealTask, PopOnlyInside,
          StartWorker, Enter, queueVars
  <2>3. TakenIsAccounted'
    BY <1>0, <1>1 DEF PoolTypeOK, TakenIsAccounted,
          StartWorker, Enter, queueVars
  <2> QED BY <1>0, <2>1, <2>2, <2>3
<1>2. ASSUME StartReturn
       PROVE  PInv'
  BY <1>0, <1>2 DEF PoolTypeOK, TypeOK, RunsRealTask, PopOnlyInside, TakenIsAccounted,
         PollPassed, AllJoined,
         StartReturn, queueVars
<1>3. ASSUME NEW p \in Producers, AddTask(p)
       PROVE  PInv'
  BY <1>0, <1>3 DEF PoolTypeOK, TypeOK, RunsRealTask, PopOnlyInside, TakenIsAccounted,
         PollPassed, AllJoined,
         AddTask, PushLock, Goto, queueVars
<1>4. ASSUME NEW p \in Producers, FinishAdd(p)
       PROVE  PInv'
  <2>1. PoolTypeOK' /\ PollPassed' /\ AllJoined'
    BY <1>0, <1>4 DEF PoolTypeOK, TypeOK, PollPassed, AllJoined, PopOnlyInside,
          FinishAdd, Push, PushWait, PushResume, PushStore, Return, Goto,
          poolVars, queueVars
  <2>2. RunsRealTask' /\ PopOnlyInside'
    BY <1>0, <1>4 DEF PoolTypeOK, TypeOK, RunsRealTask, PopOnlyInside,
          FinishAdd, Push, PushWait, PushResume, PushStore, Return, Goto,
          poolVars, queueVars
  <2>3. TakenIsAccounted'
    BY <1>0, <1>4 DEF PoolTypeOK, TakenIsAccounted,
          FinishAdd, Push, PushWait, PushResume, PushStore, Return, Goto,
          poolVars, queueVars
  <2> QED BY <1>0, <2>1, <2>2, <2>3
<1>5. ASSUME NEW w \in Workers, TestExit(w)
       PROVE  PInv'
  BY <1>0, <1>5 DEF PoolTypeOK, TypeOK, RunsRealTask, PopOnlyInside, TakenIsAccounted,
         PollPassed, AllJoined,
         TestExit, Enter, queueVars
<1>6. ASSUME NEW w \in Workers, CallPop(w)
       PROVE  PInv'
  BY <1>0, <1>6 DEF PoolTypeOK, TypeOK, RunsRealTask, PopOnlyInside, TakenIsAccounted,
         PollPassed, AllJoined,
         CallPop, PopLock, Goto, poolVars, queueVars
<1>7. ASSUME NEW w \in Workers, InPop(w)
       PROVE  PInv'
  <2>1. PoolTypeOK' /\ PollPassed' /\ AllJoined'
    BY <1>0, <1>7 DEF PoolTypeOK, TypeOK, PollPassed, AllJoined, PopOnlyInside,
          InPop, PopTest, PopWait, PopResume, Goto, poolVars, queueVars
  <2>2. RunsRealTask' /\ PopOnlyInside'
    BY <1>0, <1>7 DEF PoolTypeOK, TypeOK, RunsRealTask, PopOnlyInside,
          InPop, PopTest, PopWait, PopResume, Goto, poolVars, queueVars
  <2>3. TakenIsAccounted'
    BY <1>0, <1>7 DEF PoolTypeOK, TakenIsAccounted,
          InPop, PopTest, PopWait, PopResume, Goto, poolVars, queueVars
  <2> QED BY <1>0, <2>1, <2>2, <2>3
<1>8. ASSUME NEW w \in Workers, PopReturnsNull(w)
       PROVE  PInv'
  BY <1>0, <1>8 DEF PoolTypeOK, TypeOK, RunsRealTask, PopOnlyInside, TakenIsAccounted,
         PollPassed, AllJoined,
         PopReturnsNull, PopNull, Enter, Return, Goto, queueVars
<1>9. ASSUME StopCall
       PROVE  PInv'
  BY <1>0, <1>9 DEF PoolTypeOK, TypeOK, RunsRealTask, PopOnlyInside, TakenIsAccounted,
         PollPassed, AllJoined,
         StopCall, OwnerGoto, queueVars
<1>10. ASSUME StopReadTail
       PROVE  PInv'
  BY <1>0, <1>10 DEF PoolTypeOK, TypeOK, RunsRealTask, PopOnlyInside, TakenIsAccounted,
         PollPassed, AllJoined,
         StopReadTail, OwnerGoto, queueVars
<1>11. ASSUME StopReadHead
       PROVE  PInv'
  BY <1>0, <1>11 DEF PoolTypeOK, TypeOK, RunsRealTask, PopOnlyInside, TakenIsAccounted,
         PollPassed, AllJoined,
         StopReadHead, OwnerGoto, queueVars
<1>12. ASSUME StopSetExit
       PROVE  PInv'
  BY <1>0, <1>12 DEF PoolTypeOK, TypeOK, RunsRealTask, PopOnlyInside, TakenIsAccounted,
         PollPassed, AllJoined,
         StopSetExit, OwnerGoto, queueVars
<1>13. ASSUME StopWakeupClear
       PROVE  PInv'
  BY <1>0, <1>13 DEF PoolTypeOK, TypeOK, RunsRealTask, PopOnlyInside, TakenIsAccounted,
         PollPassed, AllJoined,
         StopWakeupClear, WakeupClear, OwnerGoto, Goto, queueVars
<1>14. ASSUME StopWakeupNotify
       PROVE  PInv'
  BY <1>0, <1>14 DEF PoolTypeOK, TypeOK, RunsRealTask, PopOnlyInside, TakenIsAccounted,
         PollPassed, AllJoined,
         StopWakeupNotify, WakeupNotify, OwnerGoto, Goto, queueVars
<1>15. ASSUME StopJoin
       PROVE  PInv'
  BY <1>0, <1>15 DEF PoolTypeOK, TypeOK, RunsRealTask, PopOnlyInside, TakenIsAccounted,
         PollPassed, AllJoined,
         StopJoin, OwnerGoto, queueVars
<1>16. ASSUME SpuriousStep
       PROVE  PInv'
  BY <1>0, <1>16 DEF PoolTypeOK, TypeOK, RunsRealTask, PopOnlyInside, TakenIsAccounted,
         PollPassed, AllJoined,
         SpuriousStep, Spurious, poolVars, queueVars
<1>17. ASSUME NEW w \in Workers, PopReturnsTask(w) PROVE PInv'
  <2>1. que # <<>>
    BY <1>17 DEF IInv, PopSeesElement, PopReturnsTask, PopTake
  <2>2. /\ Head(que) \in Elements
        /\ Append(taken, Head(que)) \in Seq(Elements)
        /\ Len(taken') = Len(taken) + 1 /\ Len(taken) \in Nat
        /\ taken'[Len(taken) + 1] = Head(que)
        /\ \A i \in 1..Len(taken) : taken'[i] = taken[i]
    BY <1>0, <1>17, <2>1, MoveHead, AppendProperties, LenProperties
       DEF TypeOK, PopReturnsTask, PopTake
  <2>3. pc[w] = "popTake" /\ phase[w] = "pop"
    BY <1>17 DEF PopReturnsTask, PopTake, PopOnlyInside
  <2>4. PoolTypeOK'
    BY <1>0, <1>17, <2>2 DEF PoolTypeOK, PopReturnsTask, Enter
  <2>5. RunsRealTask' /\ PopOnlyInside'
    BY <1>0, <1>17, <2>2, <2>3 DEF PoolTypeOK, TypeOK, RunsRealTask, PopOnlyInside,
          PopReturnsTask, PopTake, Enter, Return, Goto
  \* w held nothing before, so no task is forgotten.
  <2>6. holding[w] = NoTask
    BY <2>3 DEF RunsRealTask
  <2>7. TakenIsAccounted'
    <3> SUFFICES ASSUME NEW i \in 1..Len(taken')
                 PROVE  \/ \E j \in 1..Len(done') : done'[j] = taken'[i]
                        \/ \E v \in Workers : holding'[v] = taken'[i]
      BY DEF TakenIsAccounted
    <3>1. CASE i = Len(taken) + 1
      BY <1>17, <2>2, <3>1 DEF PopReturnsTask, PoolTypeOK
    <3>2. CASE i \in 1..Len(taken)
      <4>1. taken[i] \in Elements /\ taken[i] # NoTask
        BY <1>0, <3>2, ElementOfSeq DEF TypeOK
      <4> QED BY <1>17, <2>2, <2>6, <3>2, <4>1
              DEF PopReturnsTask, PoolTypeOK, TakenIsAccounted
    <3> QED BY <2>2, <3>1, <3>2
  <2>8. PollPassed' /\ AllJoined'
    BY <1>17, <2>2, <2>3 DEF PollPassed, AllJoined, PopReturnsTask, PoolTypeOK, Enter
  <2> QED BY <1>0, <2>4, <2>5, <2>7, <2>8
<1>18. ASSUME NEW w \in Workers, RunTask(w) PROVE PInv'
  <2>1. holding[w] \in Elements /\ holding[w] # NoTask /\ pc[w] = "idle"
    BY <1>0, <1>18 DEF PoolTypeOK, RunsRealTask, PopOnlyInside, RunTask
  <2>2. /\ done' \in Seq(Elements)
        /\ Len(done') = Len(done) + 1 /\ Len(done) \in Nat
        /\ done'[Len(done) + 1] = holding[w]
        /\ \A i \in 1..Len(done) : done'[i] = done[i]
    BY <1>18, <2>1, AppendProperties, LenProperties DEF PoolTypeOK, RunTask
  <2>3. PoolTypeOK'
    BY <1>0, <1>18, <2>2 DEF PoolTypeOK, RunTask, Enter
  <2>4. RunsRealTask' /\ PopOnlyInside'
    BY <1>0, <1>18, <2>1 DEF PoolTypeOK, TypeOK, RunsRealTask, PopOnlyInside, RunTask,
          Enter, queueVars
  <2>5. TakenIsAccounted'
    <3> SUFFICES ASSUME NEW i \in 1..Len(taken)
                 PROVE  \/ \E j \in 1..Len(done') : done'[j] = taken[i]
                        \/ \E v \in Workers : holding'[v] = taken[i]
      BY <1>18 DEF TakenIsAccounted, RunTask, queueVars
    <3>1. CASE holding[w] = taken[i]
      BY <2>2, <3>1
    <3>2. CASE holding[w] # taken[i] /\ \E v \in Workers : holding[v] = taken[i]
      BY <1>18, <3>2 DEF PoolTypeOK, RunTask
    <3>3. CASE \E j \in 1..Len(done) : done[j] = taken[i]
      BY <2>2, <3>3
    <3> QED BY <3>1, <3>2, <3>3 DEF TakenIsAccounted
  <2>6. PollPassed' /\ AllJoined'
    BY <1>18 DEF PollPassed, AllJoined, RunTask, PoolTypeOK, Enter, queueVars
  <2> QED BY <1>0, <2>3, <2>4, <2>5, <2>6
<1>19. CASE UNCHANGED vars
  BY <1>0, <1>19 DEF vars, poolVars, queueVars, PoolTypeOK, RunsRealTask, PopOnlyInside,
        TakenIsAccounted, PollPassed, AllJoined
<1> QED
  BY <1>1, <1>2, <1>3, <1>4, <1>5, <1>6, <1>7, <1>8, <1>9, <1>10, <1>11, <1>12, <1>13,
     <1>14, <1>15, <1>16, <1>17, <1>18, <1>19 DEF PoolNext, Worker, StopStep

----------------------------------------------------------------------------
\* What the invariant gives

\* The first task taken is the first task stored, and so on.
LEMMA TakenIsPrefix ==
    ASSUME TypeOK, FifoOK, NEW i \in 1..Len(taken)
    PROVE  pushed[i] = taken[i] /\ i \in 1..Len(pushed)
BY ConcatProperties, LenProperties DEF TypeOK, FifoOK

\* A stopped pool has executed everything its polling loop saw stored.
LEMMA StopWaits == PInv => StopWaitsForEarlierTasks
<1> SUFFICES ASSUME PInv, ownerPc = "done", NEW i \in 1..sawTail
             PROVE  \E j \in 1..Len(done) : done[j] = pushed[i]
  BY DEF StopWaitsForEarlierTasks
<1> USE PoolAssumption DEF PInv
<1>1. i \in 1..Len(taken)
  BY LenProperties DEF PollPassed, PoolTypeOK, TypeOK
<1>2. pushed[i] = taken[i] /\ taken[i] \in Elements
  BY <1>1, TakenIsPrefix, ElementOfSeq DEF IInv, PoolTypeOK, TypeOK
<1>3. \A w \in Workers : holding[w] # taken[i]
  BY <1>2 DEF AllJoined, RunsRealTask
<1> QED BY <1>1, <1>2, <1>3 DEF TakenIsAccounted

\* A stopped pool has no thread left that could take or execute a task.
LEMMA NothingRuns ==
    PInv /\ [PoolNext]_vars => (ownerPc = "done" => UNCHANGED <<taken, done, holding>>)
<1> SUFFICES ASSUME PInv, [PoolNext]_vars, ownerPc = "done"
             PROVE  UNCHANGED <<taken, done, holding>>
  OBVIOUS
<1> USE PoolAssumption DEF PInv
<1>1. \A w \in Workers : phase[w] \in {"exited", "failed"} /\ pc[w] = "idle"
  BY DEF AllJoined, PopOnlyInside
<1>2. ASSUME NEW w \in Workers, StartWorker(w) \/ Worker(w)
      PROVE  UNCHANGED <<taken, done, holding>>
  BY <1>1, <1>2 DEF StartWorker, Worker, TestExit, CallPop, InPop, PopTest, PopWait,
        PopResume, PopReturnsTask, PopTake, PopReturnsNull, PopNull, RunTask
<1>3. ASSUME NEW p \in Producers, AddTask(p) \/ FinishAdd(p)
      PROVE  UNCHANGED <<taken, done, holding>>
  BY <1>3 DEF AddTask, PushLock, FinishAdd, Push, PushWait, PushResume, PushStore, poolVars
<1>4. ASSUME StartReturn \/ StopCall \/ StopStep
      PROVE  UNCHANGED <<taken, done, holding>>
  BY <1>4 DEF StartReturn, StopCall, StopStep, StopReadTail, StopReadHead, StopSetExit,
        StopWakeupClear, WakeupClear, StopWakeupNotify, WakeupNotify, StopJoin, queueVars
<1>5. CASE SpuriousStep
  BY <1>5 DEF SpuriousStep, Spurious, poolVars
<1>6. CASE UNCHANGED vars
  BY <1>6 DEF vars, queueVars, poolVars
<1> QED BY <1>2, <1>3, <1>4, <1>5, <1>6 DEF PoolNext

\* Whatever the number of threads and tasks and however addTask, doTask and
\* stop interleave: the variables keep their types, a worker executes a real
\* task and never the nullptr of a closed queue, and stop() returns only after
\* every task its polling loop saw has been executed.
THEOREM PoolSafe ==
    PoolSpec => [](PoolTypeOK /\ RunsRealTask /\ StopWaitsForEarlierTasks)
<1>1. PoolSpec => []PInv
  BY PoolInitInv, PoolNextInv, PTL DEF PoolSpec
<1>2. PInv => PoolTypeOK /\ RunsRealTask /\ StopWaitsForEarlierTasks
  BY StopWaits DEF PInv
<1> QED BY <1>1, <1>2, PTL

\* After stop() has returned nothing is executed any more, although addTask
\* goes on storing tasks.
THEOREM PoolIsQuietAfterStop == PoolSpec => NothingRunsAfterStop
<1>1. PoolSpec => []PInv
  BY PoolInitInv, PoolNextInv, PTL DEF PoolSpec
<1>2. PInv /\ [PoolNext]_vars
        => [ownerPc = "done" => UNCHANGED <<taken, done, holding>>]_vars
  BY NothingRuns
<1> QED BY <1>1, <1>2, PTL DEF PoolSpec, NothingRunsAfterStop

----------------------------------------------------------------------------
\* Where a task is

\* TaskAccounting without counting: a submitted task has one place, another
\* one has none.
Placed ==
    \A e \in Elements : IF e \in submitted THEN \E x : Places(e) = {x} ELSE Places(e) = {}

\* A task in some place has been submitted, and is nowhere else.
LEMMA OnlyPlace ==
    ASSUME Placed, NEW e \in Elements, NEW x \in Places(e)
    PROVE  e \in submitted /\ Places(e) = {x}
BY DEF Placed

\* A step that leaves the queue, the workers' tasks and the results alone, and
\* no producer in or out of push, moves no task.
LEMMA PlacesStay ==
    ASSUME NEW e, UNCHANGED <<que, holding, done, item>>,
           \A p \in Producers : pc'[p] \in PushPoints <=> pc[p] \in PushPoints
    PROVE  Places(e)' = Places(e)
<1>1. {q \in Producers : pc'[q] \in PushPoints /\ item'[q] = e}
        = {q \in Producers : pc[q] \in PushPoints /\ item[q] = e}
  OBVIOUS
<1> QED BY <1>1 DEF Places

\* The quiet steps keep Placed.
LEMMA PlacedStays ==
    ASSUME Placed, UNCHANGED <<que, holding, done, item, submitted>>,
           \A p \in Producers : pc'[p] \in PushPoints <=> pc[p] \in PushPoints
    PROVE  Placed'
BY PlacesStay DEF Placed

\* addTask puts a task that was nowhere into the hands of its producer.
LEMMA AddTaskPlaces ==
    ASSUME PInv, Placed, NEW p \in Producers, AddTask(p)
    PROVE  Placed'
<1> USE PoolAssumption
<1>0. p \in Threads /\ TypeOK
  BY DEF PInv, IInv
<1>1. PICK e \in Elements \ submitted : PushLock(p, e) /\ submitted' = submitted \cup {e}
  BY DEF AddTask
<1>2. /\ pc[p] \notin PushPoints /\ pc'[p] \in PushPoints /\ item'[p] = e
      /\ \A q \in Producers \ {p} : pc'[q] = pc[q] /\ item'[q] = item[q]
      /\ UNCHANGED <<que, holding, done>>
  BY <1>0, <1>1 DEF AddTask, PushLock, Goto, TypeOK, PushPoints
<1>3. Places(e) = {}
  BY DEF Placed
<1>4. Places(e)' = {<<"push", p>>}
  <2>1. {q \in Producers : pc'[q] \in PushPoints /\ item'[q] = e}
          = {q \in Producers : pc[q] \in PushPoints /\ item[q] = e} \cup {p}
    BY <1>2
  <2>2. {q \in Producers : pc[q] \in PushPoints /\ item[q] = e} = {}
    <3> SUFFICES ASSUME NEW q \in Producers, pc[q] \in PushPoints, item[q] = e PROVE FALSE
      OBVIOUS
    <3>1. <<"push", q>> \in Places(e)
      BY DEF Places
    <3> QED BY <1>3, <3>1
  <2>3. Places(e)' = Places(e) \cup {<<"push", p>>}
    BY <1>2, <2>1, <2>2 DEF Places
  <2> QED BY <1>3, <2>3
<1>5. ASSUME NEW f \in Elements, f # e PROVE Places(f)' = Places(f)
  <2>1. {q \in Producers : pc'[q] \in PushPoints /\ item'[q] = f}
          = {q \in Producers : pc[q] \in PushPoints /\ item[q] = f}
    BY <1>2, <1>5
  <2> QED BY <1>2, <2>1 DEF Places
<1> QED BY <1>1, <1>4, <1>5 DEF Placed

\* The end of push: from the producer to the end of the queue.
LEMMA PushStorePlaces ==
    ASSUME PInv, Placed, NEW p \in Producers, PushStore(p), UNCHANGED poolVars
    PROVE  Placed'
<1> USE PoolAssumption
<1> DEFINE e == item[p]
<1> DEFINE n == Len(que) + 1
<1>0. p \in Threads /\ TypeOK
  BY DEF PInv, IInv
<1>1. e \in Elements /\ Len(que) \in Nat
  BY <1>0, LenProperties DEF TypeOK
<1>2. /\ pc[p] \in PushPoints /\ pc'[p] \notin PushPoints
      /\ \A q \in Producers \ {p} : pc'[q] = pc[q]
      /\ UNCHANGED <<item, holding, done, submitted>>
  BY <1>0 DEF PushStore, Return, Goto, TypeOK, PushPoints, poolVars
<1>3. /\ Len(que') = n /\ que'[n] = e
      /\ \A i \in 1..Len(que) : que'[i] = que[i]
  BY <1>0, <1>1, AppendProperties DEF PushStore, TypeOK
<1>4. <<"push", p>> \in Places(e)
  BY <1>2 DEF Places
<1>5. e \in submitted /\ Places(e) = {<<"push", p>>}
  BY <1>1, <1>4, OnlyPlace
<1>6. Places(e)' = {<<"queue", n>>}
  <2>1. {q \in Producers : pc'[q] \in PushPoints /\ item'[q] = e} = {}
    <3> SUFFICES ASSUME NEW q \in Producers, pc'[q] \in PushPoints, item'[q] = e PROVE FALSE
      OBVIOUS
    <3>1. q # p /\ pc[q] \in PushPoints /\ item[q] = e
      BY <1>2
    <3>2. <<"push", q>> \in Places(e)
      BY <3>1 DEF Places
    <3> QED BY <1>5, <3>1, <3>2
  <2>2. {j \in 1..Len(que') : que'[j] = e} = {n}
    <3>1. \A i \in 1..Len(que) : que[i] # e
      <4> SUFFICES ASSUME NEW i \in 1..Len(que), que[i] = e PROVE FALSE
        OBVIOUS
      <4>1. <<"queue", i>> \in Places(e)
        BY DEF Places
      <4> QED BY <1>5, <4>1
    <3> QED BY <1>1, <1>3, <3>1
  <2>3. \A w \in Workers : holding[w] # e
    <3> SUFFICES ASSUME NEW w \in Workers, holding[w] = e PROVE FALSE
      OBVIOUS
    <3>1. <<"worker", w>> \in Places(e)
      BY DEF Places
    <3> QED BY <1>5, <3>1
  <2>4. \A i \in 1..Len(done) : done[i] # e
    <3> SUFFICES ASSUME NEW i \in 1..Len(done), done[i] = e PROVE FALSE
      OBVIOUS
    <3>1. <<"done", i>> \in Places(e)
      BY DEF Places
    <3> QED BY <1>5, <3>1
  <2> HIDE DEF n
  <2>5. e' = e
    BY <1>2
  <2> QED BY <1>2, <2>1, <2>2, <2>3, <2>4, <2>5 DEF Places
<1>7. ASSUME NEW f \in Elements, f # e PROVE Places(f)' = Places(f)
  <2>1. {q \in Producers : pc'[q] \in PushPoints /\ item'[q] = f}
          = {q \in Producers : pc[q] \in PushPoints /\ item[q] = f}
    BY <1>2, <1>7
  <2>2. {j \in 1..Len(que') : que'[j] = f} = {j \in 1..Len(que) : que[j] = f}
    BY <1>1, <1>3, <1>7
  <2> QED BY <1>2, <2>1, <2>2 DEF Places
<1> QED BY <1>1, <1>2, <1>5, <1>6, <1>7 DEF Placed

\* pop: from the head of the queue to the worker; the others move up.
LEMMA PopPlaces ==
    ASSUME PInv, Placed, NEW w \in Workers, PopReturnsTask(w)
    PROVE  Placed'
<1> USE PoolAssumption
<1> DEFINE e == Head(que)
<1>0. w \in Threads /\ TypeOK /\ PoolTypeOK
  BY DEF PInv, IInv
<1>1. que # <<>> /\ que \in Seq(Elements) /\ Len(que) \in Nat /\ Len(que) >= 1
  BY <1>0, EmptySeq, LenProperties DEF PInv, IInv, PopSeesElement, PopReturnsTask, PopTake, TypeOK
<1>2. /\ e \in Elements /\ e = que[1] /\ e # NoTask
      /\ Len(que') = Len(que) - 1
      /\ \A i \in 1..Len(que') : que'[i] = que[i + 1]
  BY <1>1, HeadTailProperties DEF PopReturnsTask, PopTake
<1>3. /\ \A q \in Producers : pc'[q] = pc[q]
      /\ UNCHANGED <<item, done, submitted>>
      /\ holding' = [holding EXCEPT ![w] = e]
  BY <1>0 DEF PopReturnsTask, PopTake, Return, Goto, TypeOK
<1>4. holding[w] = NoTask
  BY <1>0 DEF PInv, RunsRealTask, PopOnlyInside, PopReturnsTask, PopTake
<1>5. e \in submitted /\ Places(e) = {<<"queue", 1>>}
  <2>1. <<"queue", 1>> \in Places(e)
    BY <1>1, <1>2 DEF Places
  <2> QED BY <1>2, <2>1, OnlyPlace
<1>6. \A q \in Producers : ~(pc[q] \in PushPoints /\ item[q] = e)
  <2> SUFFICES ASSUME NEW q \in Producers, pc[q] \in PushPoints, item[q] = e PROVE FALSE
    OBVIOUS
  <2>1. <<"push", q>> \in Places(e)
    BY DEF Places
  <2> QED BY <1>5, <2>1
<1>7. \A i \in 1..Len(que) : que[i] = e => i = 1
  <2> SUFFICES ASSUME NEW i \in 1..Len(que), que[i] = e PROVE i = 1
    OBVIOUS
  <2>1. <<"queue", i>> \in Places(e)
    BY DEF Places
  <2> QED BY <1>5, <2>1
<1>8. \A v \in Workers : holding[v] # e
  <2> SUFFICES ASSUME NEW v \in Workers, holding[v] = e PROVE FALSE
    OBVIOUS
  <2>1. <<"worker", v>> \in Places(e)
    BY DEF Places
  <2> QED BY <1>5, <2>1
<1>9. \A i \in 1..Len(done) : done[i] # e
  <2> SUFFICES ASSUME NEW i \in 1..Len(done), done[i] = e PROVE FALSE
    OBVIOUS
  <2>1. <<"done", i>> \in Places(e)
    BY DEF Places
  <2> QED BY <1>5, <2>1
<1>10. ASSUME NEW f, f = e PROVE Places(f)' = {<<"worker", w>>}
  <2>1. {q \in Producers : pc'[q] \in PushPoints /\ item'[q] = f} = {}
    BY <1>3, <1>6, <1>10
  <2>2. {j \in 1..Len(que') : que'[j] = f} = {}
    BY <1>1, <1>2, <1>7, <1>10
  <2>3. {v \in Workers : holding'[v] = f} = {w}
    BY <1>0, <1>3, <1>8, <1>10 DEF PoolTypeOK
  <2>4. {j \in 1..Len(done') : done'[j] = f} = {}
    BY <1>3, <1>9, <1>10
  <2> QED BY <2>1, <2>2, <2>3, <2>4 DEF Places
<1>11. ASSUME NEW f \in Elements, f # e
       PROVE  /\ {q \in Producers : pc'[q] \in PushPoints /\ item'[q] = f}
                   = {q \in Producers : pc[q] \in PushPoints /\ item[q] = f}
              /\ {v \in Workers : holding'[v] = f} = {v \in Workers : holding[v] = f}
              /\ {j \in 1..Len(done') : done'[j] = f} = {j \in 1..Len(done) : done[j] = f}
  <2>1. {v \in Workers : holding'[v] = f} = {v \in Workers : holding[v] = f}
    BY <1>0, <1>3, <1>4, <1>11 DEF PoolTypeOK
  <2> QED BY <1>3, <2>1
<1>12. ASSUME NEW f \in Elements, f # e, \A i \in 1..Len(que) : que[i] # f
       PROVE  Places(f)' = Places(f)
  <2>1. {j \in 1..Len(que') : que'[j] = f} = {j \in 1..Len(que) : que[j] = f}
    BY <1>1, <1>2, <1>12
  <2> QED BY <1>11, <1>12, <2>1 DEF Places
<1>13. ASSUME NEW f \in Elements, f # e, NEW i \in 1..Len(que), que[i] = f
       PROVE  f \in submitted /\ Places(f)' = {<<"queue", i - 1>>}
  <2>1. <<"queue", i>> \in Places(f)
    BY <1>13 DEF Places
  <2>2. f \in submitted /\ Places(f) = {<<"queue", i>>}
    BY <2>1, OnlyPlace
  <2>3. {q \in Producers : pc[q] \in PushPoints /\ item[q] = f} = {}
    <3> SUFFICES ASSUME NEW q \in Producers, pc[q] \in PushPoints, item[q] = f PROVE FALSE
      OBVIOUS
    <3>1. <<"push", q>> \in Places(f)
      BY DEF Places
    <3> QED BY <2>2, <3>1
  <2>4. {v \in Workers : holding[v] = f} = {}
    <3> SUFFICES ASSUME NEW v \in Workers, holding[v] = f PROVE FALSE
      OBVIOUS
    <3>1. <<"worker", v>> \in Places(f)
      BY DEF Places
    <3> QED BY <2>2, <3>1
  <2>5. {j \in 1..Len(done) : done[j] = f} = {}
    <3> SUFFICES ASSUME NEW j \in 1..Len(done), done[j] = f PROVE FALSE
      OBVIOUS
    <3>1. <<"done", j>> \in Places(f)
      BY DEF Places
    <3> QED BY <2>2, <3>1
  <2>6. \A j \in 1..Len(que) : que[j] = f => j = i
    <3> SUFFICES ASSUME NEW j \in 1..Len(que), que[j] = f PROVE j = i
      OBVIOUS
    <3>1. <<"queue", j>> \in Places(f)
      BY DEF Places
    <3> QED BY <2>2, <3>1
  <2>7. i \in Nat /\ i # 1 /\ i <= Len(que) /\ i >= 1
    BY <1>1, <1>2, <1>13
  <2>8. i - 1 \in 1..Len(que') /\ que'[i - 1] = f
    <3>1. i - 1 \in 1..Len(que')
      BY <1>1, <1>2, <2>7
    <3>2. que'[i - 1] = que[(i - 1) + 1] /\ (i - 1) + 1 = i
      BY <1>2, <2>7, <3>1
    <3> QED BY <1>13, <3>1, <3>2
  <2>9. \A j \in 1..Len(que') : que'[j] = f => j = i - 1
    BY <1>1, <1>2, <2>6, <2>7
  <2>10. {j \in 1..Len(que') : que'[j] = f} = {i - 1}
    BY <2>8, <2>9
  <2>11. Places(f)' = {<<"queue", i - 1>>}
    BY <1>11, <1>13, <2>3, <2>4, <2>5, <2>10 DEF Places
  <2> QED BY <2>2, <2>11
<1> HIDE DEF e
<1>14. ASSUME NEW f \in Elements
       PROVE  IF f \in submitted' THEN \E x : Places(f)' = {x} ELSE Places(f)' = {}
  <2>1. CASE f = e
    BY <1>3, <1>5, <1>10, <2>1
  <2>2. CASE f # e /\ \A i \in 1..Len(que) : que[i] # f
    BY <1>3, <1>12, <2>2 DEF Placed
  <2>3. CASE f # e /\ \E i \in 1..Len(que) : que[i] = f
    BY <1>3, <1>13, <2>3
  <2> QED BY <2>1, <2>2, <2>3
<1> QED BY <1>14 DEF Placed

\* The end of a task: from the worker to the results.
LEMMA RunPlaces ==
    ASSUME PInv, Placed, NEW w \in Workers, RunTask(w)
    PROVE  Placed'
<1> USE PoolAssumption
<1> DEFINE e == holding[w]
<1> DEFINE n == Len(done) + 1
<1>0. PoolTypeOK
  BY DEF PInv
<1>1. e \in Elements /\ e # NoTask /\ Len(done) \in Nat
  BY <1>0, LenProperties DEF PInv, RunsRealTask, RunTask, PoolTypeOK
<1>2. /\ UNCHANGED <<pc, item, que, submitted>>
      /\ holding' = [holding EXCEPT ![w] = NoTask]
  BY DEF RunTask, queueVars
<1>3. /\ Len(done') = n /\ done'[n] = e
      /\ \A i \in 1..Len(done) : done'[i] = done[i]
  BY <1>0, <1>1, AppendProperties DEF RunTask, PoolTypeOK
<1>4. e \in submitted /\ Places(e) = {<<"worker", w>>}
  <2>1. <<"worker", w>> \in Places(e)
    BY DEF Places
  <2> QED BY <1>1, <2>1, OnlyPlace
<1>5. ASSUME NEW f, f = e PROVE Places(f)' = {<<"done", n>>}
  <2>1. {q \in Producers : pc'[q] \in PushPoints /\ item'[q] = f} = {}
    <3> SUFFICES ASSUME NEW q \in Producers, pc[q] \in PushPoints, item[q] = f PROVE FALSE
      BY <1>2
    <3>1. <<"push", q>> \in Places(f)
      BY DEF Places
    <3> QED BY <1>4, <1>5, <3>1
  <2>2. {j \in 1..Len(que') : que'[j] = f} = {}
    <3> SUFFICES ASSUME NEW j \in 1..Len(que), que[j] = f PROVE FALSE
      BY <1>2
    <3>1. <<"queue", j>> \in Places(f)
      BY DEF Places
    <3> QED BY <1>4, <1>5, <3>1
  <2>3. {v \in Workers : holding'[v] = f} = {}
    <3> SUFFICES ASSUME NEW v \in Workers, holding'[v] = f PROVE FALSE
      OBVIOUS
    <3>1. v # w /\ holding[v] = f
      BY <1>0, <1>1, <1>2, <1>5 DEF PoolTypeOK
    <3>2. <<"worker", v>> \in Places(f)
      BY <3>1 DEF Places
    <3> QED BY <1>4, <1>5, <3>1, <3>2
  <2>4. \A j \in 1..Len(done) : done[j] # f
    <3> SUFFICES ASSUME NEW j \in 1..Len(done), done[j] = f PROVE FALSE
      OBVIOUS
    <3>1. <<"done", j>> \in Places(f)
      BY DEF Places
    <3> QED BY <1>4, <1>5, <3>1
  <2>5. {j \in 1..Len(done') : done'[j] = f} = {n}
    BY <1>1, <1>3, <1>5, <2>4
  <2> HIDE DEF n
  <2> QED BY <2>1, <2>2, <2>3, <2>5 DEF Places
<1>6. ASSUME NEW f \in Elements, f # e PROVE Places(f)' = Places(f)
  <2>1. {v \in Workers : holding'[v] = f} = {v \in Workers : holding[v] = f}
    BY <1>0, <1>2, <1>6 DEF PoolTypeOK
  <2>2. {j \in 1..Len(done') : done'[j] = f} = {j \in 1..Len(done) : done[j] = f}
    BY <1>1, <1>3, <1>6
  <2> QED BY <1>2, <2>1, <2>2 DEF Places
<1> HIDE DEF e, n
<1> QED BY <1>2, <1>4, <1>5, <1>6 DEF Placed

\* Every step keeps each task in its place or moves it to the next.
LEMMA PlacedNext == PInv /\ Placed /\ [PoolNext]_vars => Placed'
<1> SUFFICES ASSUME PInv, Placed, [PoolNext]_vars PROVE Placed'
  OBVIOUS
<1> USE PoolAssumption
<1>0. TypeOK
  BY DEF PInv, IInv
<1>1. ASSUME NEW w \in Workers, StartWorker(w) \/ TestExit(w) PROVE Placed'
  <2>1. UNCHANGED <<que, holding, done, item, submitted, pc>>
    BY <1>1 DEF StartWorker, TestExit, queueVars
  <2> QED BY <2>1, PlacedStays
<1>2. ASSUME NEW w \in Workers, CallPop(w) \/ InPop(w) \/ PopReturnsNull(w) PROVE Placed'
  <2>1. UNCHANGED <<que, holding, done, item, submitted>>
    BY <1>2 DEF CallPop, PopLock, InPop, PopTest, PopWait, PopResume, PopReturnsNull, PopNull,
          poolVars
  <2>2. \A p \in Producers : pc'[p] = pc[p]
    BY <1>0, <1>2 DEF CallPop, PopLock, InPop, PopTest, PopWait, PopResume, PopReturnsNull,
          PopNull, Return, Goto, TypeOK
  <2> QED BY <2>1, <2>2, PlacedStays
<1>3. ASSUME StartReturn \/ StopCall \/ StopStep \/ SpuriousStep \/ UNCHANGED vars PROVE Placed'
  <2>1. UNCHANGED <<que, holding, done, item, submitted>>
    BY <1>3 DEF StartReturn, StopCall, StopStep, StopReadTail, StopReadHead, StopSetExit,
          StopWakeupClear, WakeupClear, StopWakeupNotify, WakeupNotify, StopJoin,
          SpuriousStep, Spurious, vars, queueVars, poolVars
  <2>2. \A p \in Producers : pc'[p] = pc[p]
    BY <1>0, <1>3 DEF StartReturn, StopCall, StopStep, StopReadTail, StopReadHead, StopSetExit,
          StopWakeupClear, WakeupClear, StopWakeupNotify, WakeupNotify, StopJoin,
          SpuriousStep, Spurious, vars, queueVars, poolVars, Goto, TypeOK
  <2> QED BY <2>1, <2>2, PlacedStays
<1>4. ASSUME NEW p \in Producers, AddTask(p) PROVE Placed'
  BY <1>4, AddTaskPlaces
<1>5. ASSUME NEW p \in Producers, FinishAdd(p) PROVE Placed'
  <2>1. CASE PushStore(p)
    BY <1>5, <2>1, PushStorePlaces DEF FinishAdd
  <2>2. CASE PushWait(p) \/ PushResume(p)
    <3>1. UNCHANGED <<que, holding, done, item, submitted>>
      BY <1>5, <2>2 DEF FinishAdd, PushWait, PushResume, poolVars
    <3>2. \A q \in Producers : pc'[q] \in PushPoints <=> pc[q] \in PushPoints
      BY <1>0, <2>2 DEF PushWait, PushResume, Goto, TypeOK, PushPoints
    <3> QED BY <3>1, <3>2, PlacedStays
  <2> QED BY <1>5, <2>1, <2>2 DEF FinishAdd, Push
<1>6. ASSUME NEW w \in Workers, PopReturnsTask(w) PROVE Placed'
  BY <1>6, PopPlaces
<1>7. ASSUME NEW w \in Workers, RunTask(w) PROVE Placed'
  BY <1>7, RunPlaces
<1> QED BY <1>1, <1>2, <1>3, <1>4, <1>5, <1>6, <1>7 DEF PoolNext, Worker

LEMMA PlacedInit == PoolInit => Placed
<1> SUFFICES ASSUME PoolInit, NEW e \in Elements PROVE e \notin submitted /\ Places(e) = {}
  BY DEF Placed
<1>1. \A q \in Producers : pc[q] = "idle"
  BY PoolAssumption DEF PoolInit, Init
<1>2. que = <<>> /\ done = <<>> /\ submitted = {} /\ \A w \in Workers : holding[w] # e
  BY PoolAssumption DEF PoolInit, Init
<1> QED BY <1>1, <1>2 DEF Places, PushPoints

\* No task is lost in the pool and none is executed twice, for any number of
\* tasks, producers and workers and however addTask, doTask and stop
\* interleave: a task handed to addTask is in one place, any other nowhere.
THEOREM TasksAreAccounted == PoolSpec => []TaskAccounting
<1>1. PoolInit => Placed
  BY PlacedInit
<1>2. PoolSpec => [](PInv /\ Placed)
  BY <1>1, PoolInitInv, PoolNextInv, PlacedNext, PTL DEF PoolSpec
<1>3. Placed => TaskAccounting
  <2> SUFFICES ASSUME Placed, NEW e \in Elements
               PROVE  Cardinality(Places(e)) = IF e \in submitted THEN 1 ELSE 0
    BY DEF TaskAccounting
  <2>1. CASE e \in submitted
    <3>1. PICK x : Places(e) = {x}
      BY <2>1 DEF Placed
    <3> QED BY <2>1, <3>1, FS_Singleton
  <2>2. CASE e \notin submitted
    BY <2>2, FS_EmptySet DEF Placed
  <2> QED BY <2>1, <2>2
<1> QED BY <1>2, <1>3, PTL

----------------------------------------------------------------------------
\* Refinement of Executor

\* The queue is open until stop() closes it.
FlagOK == flag = (ownerPc \notin {"notify", "join", "done"})

LEMMA FlagInit == PoolInit => FlagOK
BY DEF PoolInit, Init, FlagOK

LEMMA FlagNext == PInv /\ FlagOK /\ [PoolNext]_vars => FlagOK'
<1> SUFFICES ASSUME PInv, FlagOK, [PoolNext]_vars PROVE FlagOK'
  OBVIOUS
<1> USE DEF FlagOK
<1>1. ASSUME NEW w \in Workers, StartWorker(w) \/ Worker(w) PROVE FlagOK'
  BY <1>1 DEF StartWorker, Worker, TestExit, CallPop, PopLock, InPop, PopTest, PopWait,
        PopResume, PopReturnsTask, PopTake, PopReturnsNull, PopNull, RunTask, queueVars, poolVars
<1>2. ASSUME NEW p \in Producers, AddTask(p) \/ FinishAdd(p) PROVE FlagOK'
  BY <1>2 DEF AddTask, PushLock, FinishAdd, Push, PushWait, PushResume, PushStore, poolVars
<1>3. ASSUME StartReturn \/ StopCall \/ StopStep PROVE FlagOK'
  BY <1>3 DEF StartReturn, StopCall, StopStep, StopReadTail, StopReadHead, StopSetExit,
        StopWakeupClear, WakeupClear, StopWakeupNotify, WakeupNotify, StopJoin, queueVars,
        OwnerGoto
<1>4. CASE SpuriousStep \/ UNCHANGED vars
  BY <1>4 DEF SpuriousStep, Spurious, vars, queueVars, poolVars
<1> QED BY <1>1, <1>2, <1>3, <1>4 DEF PoolNext

\* What is stored is in the queue, with a worker or executed.
LEMMA StoredIsPlaced ==
    ASSUME PInv, NEW i \in 1..Len(pushed)
    PROVE  \/ \E j \in 1..Len(que) : que[j] = pushed[i]
           \/ \E w \in Workers : holding[w] = pushed[i]
           \/ \E j \in 1..Len(done) : done[j] = pushed[i]
<1>1. /\ que \in Seq(Elements) /\ taken \in Seq(Elements) /\ pushed = taken \o que
      /\ Len(que) \in Nat /\ Len(taken) \in Nat
  BY LenProperties DEF PInv, IInv, TypeOK, FifoOK
<1>2. /\ Len(pushed) = Len(taken) + Len(que)
      /\ pushed[i] = IF i <= Len(taken) THEN taken[i] ELSE que[i - Len(taken)]
  BY <1>1, ConcatProperties
<1>3. CASE i <= Len(taken)
  <2>1. i \in 1..Len(taken) /\ pushed[i] = taken[i]
    BY <1>1, <1>2, <1>3
  <2> QED BY <2>1 DEF PInv, TakenIsAccounted
<1>4. CASE ~(i <= Len(taken))
  <2>1. i - Len(taken) \in 1..Len(que) /\ pushed[i] = que[i - Len(taken)]
    BY <1>1, <1>2, <1>4
  <2> QED BY <2>1
<1> QED BY <1>3, <1>4

\* push stores a task that has never been stored before.
LEMMA PushStores ==
    ASSUME PInv, Placed, NEW p \in Producers, PushStore(p), UNCHANGED poolVars
    PROVE  Contract!Store(item[p])
<1> USE PoolAssumption
<1> DEFINE e == item[p]
<1>1. p \in Threads /\ e \in Elements /\ e # NoTask /\ pc[p] \in PushPoints
  BY DEF PInv, IInv, TypeOK, PushStore, PushPoints
<1>2. <<"push", p>> \in Places(e)
  BY <1>1 DEF Places
<1>3. e \in submitted /\ Places(e) = {<<"push", p>>}
  BY <1>1, <1>2, OnlyPlace
<1> HIDE DEF e
<1>4. \A j \in 1..Len(que) : que[j] # e
  <2> SUFFICES ASSUME NEW j \in 1..Len(que), que[j] = e PROVE FALSE
    OBVIOUS
  <2>1. <<"queue", j>> \in Places(e)
    BY DEF Places
  <2> QED BY <1>3, <2>1
<1>5. \A w \in Workers : holding[w] # e
  <2> SUFFICES ASSUME NEW w \in Workers, holding[w] = e PROVE FALSE
    OBVIOUS
  <2>1. <<"worker", w>> \in Places(e)
    BY DEF Places
  <2> QED BY <1>3, <2>1
<1>6. \A j \in 1..Len(done) : done[j] # e
  <2> SUFFICES ASSUME NEW j \in 1..Len(done), done[j] = e PROVE FALSE
    OBVIOUS
  <2>1. <<"done", j>> \in Places(e)
    BY DEF Places
  <2> QED BY <1>3, <2>1
<1>7. ~Contract!Among(e, pushed)
  BY <1>4, <1>5, <1>6, StoredIsPlaced DEF Contract!Among
<1>8. pushed' = Append(pushed, e) /\ UNCHANGED <<taken, flag, poolVars>>
  BY DEF PushStore, e
<1>9. Contract!Store(e)
  BY <1>3, <1>7, <1>8 DEF Contract!Store, poolVars
<1> QED BY <1>9 DEF e

\* pop gives the worker the oldest task that has not been started.
LEMMA PopStarts ==
    ASSUME PInv, FlagOK, NEW w \in Workers, PopReturnsTask(w)
    PROVE  Contract!Start(w)
<1> USE PoolAssumption
<1>1. /\ flag /\ que # <<>>
      /\ taken' = Append(taken, Head(que))
      /\ holding' = [holding EXCEPT ![w] = Head(que)]
      /\ UNCHANGED <<flag, pushed, submitted, done, sawTail, ownerPc>>
  BY DEF PopReturnsTask, PopTake, PInv, IInv, PopSeesElement
<1>2. holding[w] = NoTask
  BY DEF PInv, RunsRealTask, PopOnlyInside, PopReturnsTask, PopTake
<1>3. /\ que \in Seq(Elements) /\ taken \in Seq(Elements) /\ pushed = taken \o que
      /\ Len(que) \in Nat \ {0} /\ Len(taken) \in Nat
      /\ Head(que) = que[1] /\ Head(que) \in Elements
  BY <1>1, LenProperties, EmptySeq, HeadTailProperties DEF PInv, IInv, TypeOK, FifoOK
<1>4. Len(taken') = Len(taken) + 1
  BY <1>1, <1>3, AppendProperties
<1>5. Len(taken) < Len(pushed) /\ pushed[Len(taken) + 1] = Head(que)
  <2>1. /\ Len(pushed) = Len(taken) + Len(que)
        /\ \A i \in 1..(Len(taken) + Len(que)) :
              pushed[i] = IF i <= Len(taken) THEN taken[i] ELSE que[i - Len(taken)]
    BY <1>3, ConcatProperties
  <2>2. /\ Len(taken) + 1 \in 1..(Len(taken) + Len(que))
        /\ ~(Len(taken) + 1 <= Len(taken)) /\ (Len(taken) + 1) - Len(taken) = 1
        /\ Len(taken) < Len(taken) + Len(que)
    BY <1>3
  <2> QED BY <1>3, <2>1, <2>2
<1> QED BY <1>1, <1>2, <1>4, <1>5 DEF Contract!Start

\* A task in a worker's hands has not been executed.
LEMMA RunFinishes ==
    ASSUME PInv, Placed, NEW w \in Workers, RunTask(w)
    PROVE  Contract!Finish(w)
<1> USE PoolAssumption
<1> DEFINE e == holding[w]
<1>1. e \in Elements /\ e # NoTask /\ ownerPc # "done"
  BY DEF PInv, RunsRealTask, PoolTypeOK, AllJoined, RunTask
<1>2. <<"worker", w>> \in Places(e)
  BY DEF Places
<1>3. Places(e) = {<<"worker", w>>}
  BY <1>1, <1>2, OnlyPlace
<1> HIDE DEF e
<1>4. ~Contract!Among(e, done)
  <2> SUFFICES ASSUME NEW j \in 1..Len(done), done[j] = e PROVE FALSE
    BY DEF Contract!Among
  <2>1. <<"done", j>> \in Places(e)
    BY DEF Places
  <2> QED BY <1>3, <2>1
<1>5. /\ done' = Append(done, e)
      /\ holding' = [holding EXCEPT ![w] = NoTask]
      /\ UNCHANGED <<queueVars, isExit, ownerPc, sawTail, submitted>>
  BY DEF RunTask, e
<1> QED BY <1>1, <1>4, <1>5 DEF Contract!Finish, queueVars, e

\* stop() returns with nothing in execution and all it has seen executed.
LEMMA JoinStops ==
    ASSUME PInv, FlagOK, StopWaitsForEarlierTasks', StopJoin
    PROVE  Contract!Stop
<1>1. /\ ownerPc = "join" /\ ownerPc' = "done"
      /\ \A w \in Workers : phase[w] \in {"exited", "failed"}
      /\ UNCHANGED <<queueVars, phase, holding, sawTail, submitted, done>>
  BY DEF StopJoin, OwnerGoto
<1>2. \A w \in Workers : holding[w] = NoTask
  BY <1>1 DEF PInv, RunsRealTask
<1>3. ~flag
  BY <1>1 DEF FlagOK
<1>4. \A i \in 1..sawTail : Contract!Among(pushed[i], done)
  BY <1>1 DEF StopWaitsForEarlierTasks, Contract!Among, queueVars
<1> QED BY <1>1, <1>2, <1>3, <1>4 DEF Contract!Stop, queueVars

\* Every step of the pool is one of Executor or invisible to it.
LEMMA PoolStepRefines ==
    ASSUME PInv, Placed, FlagOK, StopWaitsForEarlierTasks', [PoolNext]_vars
    PROVE  [Contract!Next]_(Contract!vars)
<1> USE PoolAssumption
<1>1. ASSUME NEW p \in Producers, AddTask(p) PROVE Contract!Next
  <2>1. PICK e \in Elements \ submitted : PushLock(p, e) /\ submitted' = submitted \cup {e}
    BY <1>1 DEF AddTask
  <2>2. Contract!Ask(e)
    BY <1>1, <2>1 DEF AddTask, PushLock, Contract!Ask
  <2> QED BY <2>2 DEF Contract!Next
<1>2. ASSUME NEW p \in Producers, FinishAdd(p) PROVE [Contract!Next]_(Contract!vars)
  <2>1. CASE PushStore(p)
    <3>1. Contract!Store(item[p])
      BY <1>2, <2>1, PushStores DEF FinishAdd
    <3>2. item[p] \in Elements
      BY DEF PInv, IInv, TypeOK
    <3> QED BY <3>1, <3>2 DEF Contract!Next
  <2>2. CASE PushWait(p) \/ PushResume(p)
    BY <1>2, <2>2 DEF FinishAdd, PushWait, PushResume, poolVars, Contract!vars
  <2> QED BY <1>2, <2>1, <2>2 DEF FinishAdd, Push
<1>3. ASSUME NEW w \in Workers, PopReturnsTask(w) PROVE Contract!Next
  BY <1>3, PopStarts DEF Contract!Next
<1>4. ASSUME NEW w \in Workers, RunTask(w) PROVE Contract!Next
  BY <1>4, RunFinishes DEF Contract!Next
<1>5. CASE StopReadTail
  <2>1. Contract!Look
    BY <1>5 DEF StopReadTail, OwnerGoto, FlagOK, queueVars, Contract!Look
  <2> QED BY <2>1 DEF Contract!Next
<1>6. CASE StopWakeupClear
  <2>1. sawTail <= Len(taken)
    BY <1>6 DEF StopWakeupClear, PInv, PollPassed
  <2>2. Contract!Close
    BY <1>6, <2>1 DEF StopWakeupClear, WakeupClear, OwnerGoto, Contract!Close
  <2> QED BY <2>2 DEF Contract!Next
<1>7. CASE StopJoin
  BY <1>7, JoinStops DEF Contract!Next
\* The remaining steps move no task.
<1>8. ASSUME NEW w \in Workers,
             \/ StartWorker(w) \/ TestExit(w) \/ CallPop(w) \/ InPop(w) \/ PopReturnsNull(w)
      PROVE  UNCHANGED Contract!vars
  BY <1>8 DEF StartWorker, TestExit, CallPop, PopLock, InPop, PopTest, PopWait, PopResume,
        PopReturnsNull, PopNull, queueVars, poolVars, Contract!vars
<1>9. CASE StartReturn \/ StopCall \/ StopReadHead \/ StopSetExit \/ StopWakeupNotify
           \/ SpuriousStep \/ UNCHANGED vars
  BY <1>9 DEF StartReturn, StopCall, StopReadHead, StopSetExit, StopWakeupNotify,
        WakeupNotify, SpuriousStep, Spurious, OwnerGoto, vars, queueVars, poolVars,
        Contract!vars
<1> QED
  BY <1>1, <1>2, <1>3, <1>4, <1>5, <1>6, <1>7, <1>8, <1>9 DEF PoolNext, Worker, StopStep

\* The pool implements Executor: tasks are started in the order in which addTask
\* stored them, each is executed once, nothing starts after the closing, and
\* stop() returns with everything it has seen executed and nothing running.
THEOREM PoolIsExecutor == PoolSpec => ImplementsExecutor
<1>1. PoolInit => PInv /\ Placed /\ FlagOK
  BY PoolInitInv, PlacedInit, FlagInit
<1>2. PInv /\ Placed /\ FlagOK /\ [PoolNext]_vars => PInv' /\ Placed' /\ FlagOK'
  BY PoolNextInv, PlacedNext, FlagNext
<1>3. PoolInit => Contract!Init
  <2> SUFFICES ASSUME PoolInit PROVE Contract!Init
    OBVIOUS
  <2>1. Len(taken) = 0
    BY DEF PoolInit, Init
  <2> QED BY <2>1 DEF PoolInit, Init, Contract!Init
<1>4. PInv => StopWaitsForEarlierTasks
  BY StopWaits
<1>5. PInv /\ Placed /\ FlagOK /\ StopWaitsForEarlierTasks' /\ [PoolNext]_vars
        => [Contract!Next]_(Contract!vars)
  BY PoolStepRefines
<1> QED
  BY <1>1, <1>2, <1>3, <1>4, <1>5, PTL DEF PoolSpec, ImplementsExecutor, Contract!Spec

----------------------------------------------------------------------------
\* The safety half of StopReturnsUnlessRaced

\* The queue has been closed, no worker is about to wait for it, and after the
\* broadcast none waits.
Unraced ==
    /\ ownerPc \in {"notify", "join", "done"}
    /\ \A w \in Workers :
          /\ pc[w] # "popSleep"
          /\ ownerPc # "notify" => w \notin waiting["notEmpty"]

LEMMA UnracedNext == PInv /\ FlagOK /\ Unraced /\ [PoolNext]_vars => Unraced'
<1> SUFFICES ASSUME PInv, FlagOK, Unraced, [PoolNext]_vars PROVE Unraced'
  OBVIOUS
<1> USE PoolAssumption
<1>0. ~flag /\ TypeOK
  BY DEF FlagOK, Unraced, PInv, IInv
<1>1. ASSUME NEW w \in Workers, StartWorker(w) \/ Worker(w) PROVE Unraced'
  <2>1. UNCHANGED ownerPc
    BY <1>1 DEF StartWorker, Worker, TestExit, CallPop, InPop, PopReturnsTask,
          PopReturnsNull, RunTask, poolVars
  <2>2. \A v \in Workers : pc'[v] # "popSleep"
    BY <1>0, <1>1 DEF Unraced, StartWorker, Worker, TestExit, CallPop, PopLock, InPop, PopTest,
          PopWait, PopResume, PopReturnsTask, PopTake, PopReturnsNull, PopNull, RunTask,
          Return, Goto, TypeOK, queueVars
  <2>3. waiting'["notEmpty"] \subseteq waiting["notEmpty"]
    BY <1>0, <1>1 DEF Unraced, StartWorker, Worker, TestExit, CallPop, PopLock, InPop, PopTest,
          PopWait, PopResume, PopReturnsTask, PopTake, PopReturnsNull, PopNull, RunTask,
          NotifyOne, TypeOK, MonitorTypeOK, Conditions, queueVars
  <2> QED BY <2>1, <2>2, <2>3 DEF Unraced
<1>2. ASSUME NEW p \in Producers, AddTask(p) \/ FinishAdd(p) PROVE Unraced'
  <2>1. UNCHANGED ownerPc /\ p \notin Workers
    BY <1>2 DEF AddTask, FinishAdd, poolVars
  <2>2. \A w \in Workers : pc'[w] = pc[w]
    BY <1>0, <1>2 DEF AddTask, PushLock, FinishAdd, Push, PushWait, PushResume, PushStore,
          Return, Goto, TypeOK
  <2>3. waiting'["notEmpty"] \subseteq waiting["notEmpty"]
    BY <1>0, <1>2 DEF AddTask, PushLock, FinishAdd, Push, PushWait, PushResume, PushStore,
          Wait, NotifyOne, TypeOK, MonitorTypeOK, Conditions
  <2> QED BY <2>1, <2>2, <2>3 DEF Unraced
\* The broadcast wakes whoever sleeps.
<1>3. CASE StopWakeupNotify
  <2>1. ownerPc' = "join" /\ waiting'["notEmpty"] = {} /\ \A w \in Workers : pc'[w] = pc[w]
    BY <1>0, <1>3 DEF StopWakeupNotify, WakeupNotify, NotifyAll, OwnerGoto, Goto, TypeOK,
          MonitorTypeOK, Conditions
  <2> QED BY <2>1 DEF Unraced
<1>4. CASE StopJoin
  BY <1>4 DEF Unraced, StopJoin, OwnerGoto, queueVars
<1>5. ASSUME StartReturn \/ StopCall \/ StopReadTail \/ StopReadHead \/ StopSetExit
             \/ StopWakeupClear
      PROVE  FALSE
  BY <1>5 DEF Unraced, StartReturn, StopCall, StopReadTail, StopReadHead, StopSetExit,
        StopWakeupClear
<1>6. CASE SpuriousStep
  <2>1. UNCHANGED <<ownerPc, pc>> /\ waiting'["notEmpty"] \subseteq waiting["notEmpty"]
    BY <1>0, <1>6 DEF SpuriousStep, Spurious, SpuriousWakeup, poolVars, TypeOK, MonitorTypeOK,
          Conditions
  <2> QED BY <2>1 DEF Unraced
<1>7. CASE UNCHANGED vars
  BY <1>7 DEF Unraced, vars, queueVars, poolVars
<1> QED BY <1>1, <1>2, <1>3, <1>4, <1>5, <1>6, <1>7 DEF PoolNext, StopStep

\* If no worker stands between its test of the flag and its wait once stop() has
\* cleared the flag, no worker sleeps from the broadcast on: each one goes through
\* pop to the end of doTask, and stop() is left with joining threads that run.
THEOREM UnracedStaysAwake == PoolSpec => [](Unraced => []Unraced)
<1>1. PoolInit => PInv /\ FlagOK
  BY PoolInitInv, FlagInit
<1>2. PInv /\ FlagOK /\ [PoolNext]_vars => PInv' /\ FlagOK'
  BY PoolNextInv, FlagNext
<1>3. PInv /\ FlagOK /\ Unraced /\ [PoolNext]_vars => Unraced'
  BY UnracedNext
<1> QED BY <1>1, <1>2, <1>3, PTL DEF PoolSpec

==============================================================================

----------------------------- MODULE Threadpool -----------------------------
(***************************************************************************)
(* Threadpool: Worker threads that run doTask over one TaskQueue, threads  *)
(* that hand it tasks with addTask, and the owner, which starts and stops  *)
(* the pool.  The queue's own steps come from TaskQueue; this module adds  *)
(* the loop of doTask, Thread::start/join and the body of stop().          *)
(*                                                                         *)
(* _isExit and the length read by stop()'s polling loop are plain memory,  *)
(* accessed without the mutex.  deque::size() subtracts two positions:     *)
(* StopReadTail and StopReadHead are the two reads, between which the      *)
(* queue may move.                                                         *)
(***************************************************************************)
EXTENDS TaskQueue

CONSTANTS
    Workers,    \* the pool's threads (_threads)
    Producers,  \* the threads that call addTask
    Owner,      \* the thread that calls start and stop
    MayFail,    \* the workers whose pthread_create may fail
    NoTask      \* an empty Task (nullptr)

ASSUME PoolAssumption ==
    /\ Threads = Workers \cup Producers \cup {Owner}
    /\ Workers \cap Producers = {}
    /\ Owner \notin Workers \cup Producers
    /\ MayFail \subseteq Workers
    /\ NoTask \notin Elements

VARIABLES
    phase,      \* phase[w]: where worker w is in doTask
    holding,    \* holding[w]: the local variable task of doTask
    isExit,     \* _isExit
    ownerPc,    \* where the owner is in start or stop
    sawTail,    \* the end position stop() last read from the queue
    submitted,  \* the tasks handed to addTask
    done        \* history: the tasks that have been executed, in order

poolVars == <<phase, holding, isExit, ownerPc, sawTail, submitted, done>>
vars == <<queueVars, poolVars>>

PoolTypeOK ==
    /\ TypeOK
    /\ phase \in [Workers -> {"unborn", "failed", "test", "pop", "run", "exited"}]
    /\ holding \in [Workers -> Elements \cup {NoTask}]
    /\ isExit \in BOOLEAN
    /\ ownerPc \in {"start", "up", "poll", "pollHead", "setExit", "wakeup",
                    "notify", "join", "done"}
    /\ sawTail \in Nat
    /\ submitted \subseteq Elements
    /\ done \in Seq(Elements)

PoolInit ==
    /\ Init
    /\ phase = [w \in Workers |-> "unborn"]
    /\ holding = [w \in Workers |-> NoTask]
    /\ isExit = FALSE
    /\ ownerPc = "start"
    /\ sawTail = 0
    /\ submitted = {}
    /\ done = <<>>

Enter(w, p) == phase' = [phase EXCEPT ![w] = p]

----------------------------------------------------------------------------
\* start(): Thread::start for each worker.  A thread that could not be
\* created is reported and never joined.

StartWorker(w) ==
    /\ ownerPc = "start"
    /\ phase[w] = "unborn"
    /\ \/ Enter(w, "test")
       \/ w \in MayFail /\ Enter(w, "failed")
    /\ UNCHANGED <<queueVars, holding, isExit, ownerPc, sawTail, submitted, done>>

StartReturn ==
    /\ ownerPc = "start"
    /\ \A w \in Workers : phase[w] # "unborn"
    /\ ownerPc' = "up"
    /\ UNCHANGED <<queueVars, phase, holding, isExit, sawTail, submitted, done>>

----------------------------------------------------------------------------
\* addTask(task): only non-empty tasks reach the queue.

AddTask(p) ==
    /\ ownerPc # "start"
    /\ \E e \in Elements \ submitted :
          /\ PushLock(p, e)
          /\ submitted' = submitted \cup {e}
    /\ UNCHANGED <<phase, holding, isExit, ownerPc, sawTail, done>>

FinishAdd(p) == Push(p) /\ UNCHANGED poolVars

----------------------------------------------------------------------------
\* doTask()

\* while(!_isExit)
TestExit(w) ==
    /\ phase[w] = "test"
    /\ Enter(w, IF isExit THEN "exited" ELSE "pop")
    /\ UNCHANGED <<queueVars, holding, isExit, ownerPc, sawTail, submitted, done>>

CallPop(w) ==
    /\ phase[w] = "pop"
    /\ PopLock(w)
    /\ UNCHANGED poolVars

InPop(w) == (PopTest(w) \/ PopWait(w) \/ PopResume(w)) /\ UNCHANGED poolVars

\* Mutant: the exit flag is tested once more after pop, and the task dropped.
PopReturnsTaskUnlessExit(w) ==
    /\ PopTake(w)
    /\ holding' = [holding EXCEPT ![w] = IF isExit THEN NoTask ELSE Head(que)]
    /\ Enter(w, IF isExit THEN "test" ELSE "run")
    /\ UNCHANGED <<isExit, ownerPc, sawTail, submitted, done>>

PopReturnsTask(w) ==
    /\ PopTake(w)
    /\ holding' = [holding EXCEPT ![w] = Head(que)]
    /\ Enter(w, "run")
    /\ UNCHANGED <<isExit, ownerPc, sawTail, submitted, done>>

\* An empty task is not executed: back to the loop's test.
PopReturnsNull(w) ==
    /\ PopNull(w)
    /\ Enter(w, "test")
    /\ UNCHANGED <<holding, isExit, ownerPc, sawTail, submitted, done>>

\* Mutant: doTask without its loop.
RunTaskOnce(w) ==
    /\ phase[w] = "run"
    /\ done' = Append(done, holding[w])
    /\ holding' = [holding EXCEPT ![w] = NoTask]
    /\ Enter(w, "exited")
    /\ UNCHANGED <<queueVars, isExit, ownerPc, sawTail, submitted>>

\* task(), then the local variable goes out of scope.
RunTask(w) ==
    /\ phase[w] = "run"
    /\ done' = Append(done, holding[w])
    /\ holding' = [holding EXCEPT ![w] = NoTask]
    /\ Enter(w, "test")
    /\ UNCHANGED <<queueVars, isExit, ownerPc, sawTail, submitted>>

----------------------------------------------------------------------------
\* stop()

OwnerGoto(p) == ownerPc' = p

StopCall ==
    /\ ownerPc = "up"
    /\ OwnerGoto("poll")
    /\ UNCHANGED <<queueVars, phase, holding, isExit, sawTail, submitted, done>>

\* while(!_taskque.empty()) sleep(1): two unlocked reads.
StopReadTail ==
    /\ ownerPc = "poll"
    /\ sawTail' = Len(pushed)
    /\ OwnerGoto("pollHead")
    /\ UNCHANGED <<queueVars, phase, holding, isExit, submitted, done>>

StopReadHead ==
    /\ ownerPc = "pollHead"
    /\ OwnerGoto(IF Len(taken) = sawTail THEN "setExit" ELSE "poll")
    /\ UNCHANGED <<queueVars, phase, holding, isExit, sawTail, submitted, done>>

StopSetExit ==
    /\ ownerPc = "setExit"
    /\ isExit' = TRUE
    /\ OwnerGoto("wakeup")
    /\ UNCHANGED <<queueVars, phase, holding, sawTail, submitted, done>>

StopWakeupClear ==
    /\ ownerPc = "wakeup"
    /\ WakeupClear(Owner)
    /\ OwnerGoto("notify")
    /\ UNCHANGED <<phase, holding, isExit, sawTail, submitted, done>>

StopWakeupNotify ==
    /\ ownerPc = "notify"
    /\ WakeupNotify(Owner)
    /\ OwnerGoto("join")
    /\ UNCHANGED <<phase, holding, isExit, sawTail, submitted, done>>

\* Mutant: join returns with the first thread that has ended.
StopJoinOne ==
    /\ ownerPc = "join"
    /\ \E w \in Workers : phase[w] \in {"exited", "failed"}
    /\ OwnerGoto("done")
    /\ UNCHANGED <<queueVars, phase, holding, isExit, sawTail, submitted, done>>

\* Thread::join for every thread that runs.
StopJoin ==
    /\ ownerPc = "join"
    /\ \A w \in Workers : phase[w] \in {"exited", "failed"}
    /\ OwnerGoto("done")
    /\ UNCHANGED <<queueVars, phase, holding, isExit, sawTail, submitted, done>>

StopStep ==
    \/ StopReadTail \/ StopReadHead \/ StopSetExit
    \/ StopWakeupClear \/ StopWakeupNotify \/ StopJoin

----------------------------------------------------------------------------
Worker(w) ==
    \/ TestExit(w) \/ CallPop(w) \/ InPop(w)
    \/ PopReturnsTask(w) \/ PopReturnsNull(w) \/ RunTask(w)

SpuriousStep == \E t \in Threads : Spurious(t) /\ UNCHANGED poolVars

PoolNext ==
    \/ \E w \in Workers : StartWorker(w) \/ Worker(w)
    \/ StartReturn
    \/ \E p \in Producers : AddTask(p) \/ FinishAdd(p)
    \/ StopCall
    \/ StopStep
    \/ SpuriousStep

PoolSpec == PoolInit /\ [][PoolNext]_vars

\* Every running thread goes on, tasks terminate, and start() completes;
\* nobody has to add a task, to stop the pool or to be woken spuriously.
Fairness ==
    /\ \A w \in Workers : WF_vars(StartWorker(w)) /\ WF_vars(Worker(w))
    /\ WF_vars(StartReturn)
    /\ \A p \in Producers : WF_vars(FinishAdd(p))
    /\ WF_vars(StopStep)

FairPoolSpec == PoolSpec /\ Fairness

----------------------------------------------------------------------------
\* Properties

\* Where a task is: with a producer inside push, in the queue, with a worker,
\* or executed.
Places(e) ==
    {<<"push", p>> : p \in {q \in Producers : pc[q] \in PushPoints /\ item[q] = e}}
    \cup {<<"queue", i>> : i \in {j \in 1..Len(que) : que[j] = e}}
    \cup {<<"worker", w>> : w \in {v \in Workers : holding[v] = e}}
    \cup {<<"done", i>> : i \in {j \in 1..Len(done) : done[j] = e}}

\* A task handed to addTask is always in exactly one place, so it is never
\* lost inside the pool and never executed twice, whatever the interleaving
\* of addTask, doTask and stop.
TaskAccounting ==
    \A e \in Elements : Cardinality(Places(e)) = IF e \in submitted THEN 1 ELSE 0

\* A worker between pop() and the end of task() holds a real task, and only
\* then: `if(task)` filters the nullptr that pop returns at shutdown.
RunsRealTask ==
    \A w \in Workers : phase[w] = "run" <=> holding[w] # NoTask

\* When stop() has returned, every task that was stored before the last,
\* unlocked look at the queue has been executed: the polling loop and the
\* joins together wait for the task in execution as well as for the queued ones.
StopWaitsForEarlierTasks ==
    ownerPc = "done" =>
        \A i \in 1..sawTail : \E j \in 1..Len(done) : done[j] = pushed[i]

\* No task is executed, and none leaves the queue, after stop() has returned.
NothingRunsAfterStop ==
    [][ownerPc = "done" => UNCHANGED <<taken, done, holding>>]_vars

\* A task that is stored is executed in the end unless the pool is stopped.
TaskIsExecuted ==
    \A e \in Elements :
        (\E i \in 1..Len(que) : que[i] = e)
            ~> (\/ \E j \in 1..Len(done) : done[j] = e
                \/ ownerPc \notin {"start", "up"})

\* A producer blocked in addTask on a full queue gets through in the end
\* unless the pool is stopped.
AddTaskReturns ==
    \A p \in Producers :
        pc[p] \in PushPoints ~> (pc[p] = "idle" \/ ownerPc \notin {"start", "up"})

\* stop(): "notify all the sub threads, they must wake up from wait" and then
\* join each of them.  Once the exit flag is set, stop() returns.
StopReturns == ownerPc = "wakeup" ~> ownerPc = "done"

\* What the code does guarantee: stop() returns unless, at the moment of the
\* broadcast, some worker has found the queue open and empty without having
\* begun to wait.  Only such a worker can miss the notification: every other
\* one leaves pop and the loop, whatever the tasks in execution and the threads
\* still blocked in addTask do.
StopReturnsUnlessRaced ==
    ownerPc = "notify" /\ (\A w \in Workers : pc[w] # "popSleep") ~> ownerPc = "done"

\* The pool as its users see it: a closable FIFO that keeps delivering.
ImplementsFairFifo == Abstract!FairSpec

\* The contract of the pool as a whole: see Executor.
Contract == INSTANCE Executor
                WITH Tasks <- Elements, asked <- submitted, stored <- pushed,
                     started <- Len(taken), running <- holding, due <- sawTail,
                     closed <- ~flag, stopped <- ownerPc = "done"
ImplementsExecutor == Contract!Spec

==============================================================================

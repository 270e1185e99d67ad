------------------------------ MODULE TaskQueue ------------------------------
(***************************************************************************)
(* TaskQueue: the bounded queue between the IO thread (push) and the       *)
(* worker threads (pop) of the reactor's thread pool.                      *)
(*                                                                         *)
(* push and pop run under the queue's mutex, so a call is split only       *)
(* where another thread can see or influence what it does: taking the      *)
(* mutex, the tests of _flag (which wakeup() writes WITHOUT the mutex),    *)
(* the wait, and the return.                                               *)
(*                                                                         *)
(*   push:  PushLock -> (PushWait -> PushResume)* -> PushStore             *)
(*   pop:   PopLock -> PopTest -> (PopWait -> PopResume -> PopTest)*       *)
(*                   -> PopTake or PopNull                                 *)
(*   wakeup: WakeupClear -> WakeupNotify                                   *)
(***************************************************************************)
EXTENDS Naturals, Sequences, FiniteSets

CONSTANTS
    Threads,    \* every thread that calls an operation of the queue
    NoThread,   \* owner of a free mutex
    Elements,   \* the tasks that may be pushed
    QueSize     \* _queSize

ASSUME QueueAssumption ==
    /\ IsFiniteSet(Threads)
    /\ NoThread \notin Threads
    /\ QueSize \in Nat

Conditions == {"notFull", "notEmpty"}

VARIABLES
    owner,      \* _mutex
    waiting,    \* _notFull and _notEmpty
    que,        \* _que
    flag,       \* _flag
    pc,         \* pc[t]: where thread t is inside push, pop or wakeup
    item,       \* item[t]: the argument e of the push that t is executing
    pushed,     \* history: every element stored so far, in order
    taken       \* history: every element returned by pop, in order

INSTANCE Monitor

queueVars == <<owner, waiting, que, flag, pc, item, pushed, taken>>

PushPoints == {"pushCheck", "pushWait"}
PopPoints  == {"popCheck", "popSleep", "popTake", "popWait"}

\* The points at which a thread holds the mutex.
Critical == {"pushCheck", "popCheck", "popSleep", "popTake"}

TypeOK ==
    /\ MonitorTypeOK
    /\ que \in Seq(Elements)
    /\ flag \in BOOLEAN
    /\ pc \in [Threads -> {"idle", "wakeNotify"} \cup PushPoints \cup PopPoints]
    /\ item \in [Threads -> Elements]
    /\ pushed \in Seq(Elements)
    /\ taken \in Seq(Elements)

Init ==
    /\ MonitorInit
    /\ que = <<>>
    /\ flag = TRUE
    /\ pc = [t \in Threads |-> "idle"]
    /\ item \in {[t \in Threads |-> e] : e \in Elements}
    /\ pushed = <<>>
    /\ taken = <<>>

empty == Len(que) = 0

full == Len(que) = QueSize

Goto(t, label) == pc' = [pc EXCEPT ![t] = label]

\* Leave the operation: the guard's destructor gives the mutex back.
Return(t) == Unlock(t) /\ Goto(t, "idle")

\* A thread blocked on c has been notified and may compete for the mutex.
Woken(t, c) == t \notin waiting[c]

----------------------------------------------------------------------------
\* push(e)

PushLock(t, e) ==
    /\ pc[t] = "idle"
    /\ Lock(t)
    /\ item' = [item EXCEPT ![t] = e]
    /\ Goto(t, "pushCheck")
    /\ UNCHANGED <<waiting, que, flag, pushed, taken>>

PushWait(t) ==
    /\ pc[t] = "pushCheck"
    /\ full
    /\ Wait(t, "notFull")
    /\ Goto(t, "pushWait")
    /\ UNCHANGED <<que, flag, item, pushed, taken>>

PushResume(t) ==
    /\ pc[t] = "pushWait"
    /\ Woken(t, "notFull")
    /\ Lock(t)
    /\ Goto(t, "pushCheck")
    /\ UNCHANGED <<waiting, que, flag, item, pushed, taken>>

\* Mutant: no notification.
PushStoreSilent(t) ==
    /\ pc[t] = "pushCheck"
    /\ ~full
    /\ que' = Append(que, item[t])
    /\ pushed' = Append(pushed, item[t])
    /\ Return(t)
    /\ UNCHANGED <<waiting, flag, item, taken>>

PushStore(t) ==
    /\ pc[t] = "pushCheck"
    /\ ~full
    /\ que' = Append(que, item[t])
    /\ pushed' = Append(pushed, item[t])
    /\ NotifyOne("notEmpty")
    /\ Return(t)
    /\ UNCHANGED <<flag, item, taken>>

----------------------------------------------------------------------------
\* pop()

PopLock(t) ==
    /\ pc[t] = "idle"
    /\ Lock(t)
    /\ Goto(t, "popCheck")
    /\ UNCHANGED <<waiting, que, flag, item, pushed, taken>>

\* The loop's test.  Having found the condition true, the thread is bound to
\* wait, whatever wakeup() does before pthread_cond_wait enqueues it.
PopTest(t) ==
    /\ pc[t] = "popCheck"
    /\ Goto(t, IF flag /\ empty THEN "popSleep" ELSE "popTake")
    /\ UNCHANGED <<owner, waiting, que, flag, item, pushed, taken>>

PopWait(t) ==
    /\ pc[t] = "popSleep"
    /\ Wait(t, "notEmpty")
    /\ Goto(t, "popWait")
    /\ UNCHANGED <<que, flag, item, pushed, taken>>

\* Mutant: `if` in place of `while`.
PopResumeOnce(t) ==
    /\ pc[t] = "popWait"
    /\ Woken(t, "notEmpty")
    /\ Lock(t)
    /\ Goto(t, "popTake")
    /\ UNCHANGED <<waiting, que, flag, item, pushed, taken>>

PopResume(t) ==
    /\ pc[t] = "popWait"
    /\ Woken(t, "notEmpty")
    /\ Lock(t)
    /\ Goto(t, "popCheck")
    /\ UNCHANGED <<waiting, que, flag, item, pushed, taken>>

\* Mutant: no notification.
PopTakeSilent(t) ==
    /\ pc[t] = "popTake"
    /\ flag
    /\ que' = Tail(que)
    /\ taken' = Append(taken, Head(que))
    /\ Return(t)
    /\ UNCHANGED <<waiting, flag, item, pushed>>

\* Mutant: a closed queue is drained.
PopTakeDrains(t) ==
    /\ pc[t] = "popTake"
    /\ que # <<>>
    /\ que' = Tail(que)
    /\ taken' = Append(taken, Head(que))
    /\ NotifyOne("notFull")
    /\ Return(t)
    /\ UNCHANGED <<flag, item, pushed>>

\* After the loop _flag is read a second time: front() is called only if it
\* is still set.
PopTake(t) ==
    /\ pc[t] = "popTake"
    /\ flag
    /\ que' = Tail(que)
    /\ taken' = Append(taken, Head(que))
    /\ NotifyOne("notFull")
    /\ Return(t)
    /\ UNCHANGED <<flag, item, pushed>>

\* tmp = nullptr: what is still queued stays there.
PopNull(t) ==
    /\ pc[t] = "popTake"
    /\ ~flag
    /\ Return(t)
    /\ UNCHANGED <<waiting, que, flag, item, pushed, taken>>

----------------------------------------------------------------------------
\* wakeup(): two unsynchronised statements.

WakeupClear(t) ==
    /\ pc[t] = "idle"
    /\ flag' = FALSE
    /\ Goto(t, "wakeNotify")
    /\ UNCHANGED <<owner, waiting, que, item, pushed, taken>>

\* Mutant: notifyOne in place of notifyAll.
WakeupNotifyOne(t) ==
    /\ pc[t] = "wakeNotify"
    /\ NotifyOne("notEmpty")
    /\ Goto(t, "idle")
    /\ UNCHANGED <<owner, que, flag, item, pushed, taken>>

WakeupNotify(t) ==
    /\ pc[t] = "wakeNotify"
    /\ NotifyAll("notEmpty")
    /\ Goto(t, "idle")
    /\ UNCHANGED <<owner, que, flag, item, pushed, taken>>

----------------------------------------------------------------------------
\* What the condition variables do on their own.
Spurious(t) ==
    /\ SpuriousWakeup(t)
    /\ UNCHANGED <<que, flag, pc, item, pushed, taken>>

\* The steps of calls already begun.
Push(t) == PushWait(t) \/ PushResume(t) \/ PushStore(t)
Pop(t) == PopTest(t) \/ PopWait(t) \/ PopResume(t) \/ PopTake(t) \/ PopNull(t)

Next ==
    \E t \in Threads :
        \/ \E e \in Elements : PushLock(t, e)
        \/ Push(t)
        \/ PopLock(t)
        \/ Pop(t)
        \/ WakeupClear(t)
        \/ WakeupNotify(t)
        \/ Spurious(t)

Spec == Init /\ [][Next]_queueVars

----------------------------------------------------------------------------
\* Properties

\* The mutex is held exactly by the thread that is inside a critical section
\* of push or pop, so no two threads touch _que at once: MutexLockGuard's
\* scope covers each access, and wait() gives the mutex up and takes it back.
MutualExclusion ==
    \A t \in Threads : pc[t] \in Critical <=> owner = t

\* A thread is in a wait set only while it is inside the matching wait() call.
WaitSetsOK ==
    /\ \A t \in waiting["notFull"] : pc[t] = "pushWait"
    /\ \A t \in waiting["notEmpty"] : pc[t] = "popWait"

\* The queue never grows beyond _queSize although full() tests with == and a
\* woken producer may find its slot taken by another one.
CapacityOK == Len(que) <= QueSize

\* front() and pop() are never called on an empty queue (undefined behaviour
\* of std::queue), although _flag may change between pop's two reads of it and
\* a woken consumer may find its element taken by another one.
PopSeesElement ==
    \A t \in Threads : pc[t] = "popTake" /\ flag => que # <<>>

\* Elements come out in the order they went in, none is lost or duplicated.
FifoOK == pushed = taken \o que

\* The threads that will look at the queue again before they can block.
ActivePoppers ==
    {t \in Threads : \/ pc[t] \in {"popCheck", "popTake"}
                     \/ pc[t] = "popWait" /\ Woken(t, "notEmpty")}
ActivePushers ==
    {t \in Threads : \/ pc[t] = "pushCheck"
                     \/ pc[t] = "pushWait" /\ Woken(t, "notFull")}

\* No lost wakeup on _notEmpty: while the queue is open and some consumer
\* sleeps, every queued element has an awake consumer inside pop() coming for it.
\* One notifyOne per push is enough, also when elements are stolen.
NoLostNotEmpty ==
    flag /\ waiting["notEmpty"] # {} => Len(que) <= Cardinality(ActivePoppers)

\* No lost wakeup on _notFull: while some producer sleeps, every free slot has
\* an awake producer inside push() coming for it.
NoLostNotFull ==
    waiting["notFull"] # {} => QueSize - Len(que) <= Cardinality(ActivePushers)

\* One notifyOne per push and per pop is enough, whoever steals elements or
\* slots in between.
NoLostWakeups == NoLostNotEmpty /\ NoLostNotFull

\* The contract the queue promises to its users: see BoundedFifo.
Abstract == INSTANCE BoundedFifo
                WITH buf <- que, open <- flag, delivered <- taken, Capacity <- QueSize
ImplementsFifo == Abstract!Spec

==============================================================================

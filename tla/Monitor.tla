------------------------------- MODULE Monitor -------------------------------
(***************************************************************************)
(* MutexLock, MutexLockGuard and Condition: the thin wrappers over         *)
(* pthread_mutex_t and pthread_cond_t that every queue and pool of the     *)
(* repository is built from.  One mutex serves all the conditions of an    *)
(* object.                                                                 *)
(*                                                                         *)
(* A thread that waits on a condition gives the mutex up and joins the     *)
(* condition's wait set in one atomic step (pthread_cond_wait).  Once it   *)
(* has been removed from the set it must take the mutex again before it    *)
(* goes on: the thread's own program counter remembers that.               *)
(***************************************************************************)
CONSTANTS
    Threads,    \* the threads that share the monitor
    Conditions, \* the names of its condition variables
    NoThread    \* "nobody owns the mutex"

VARIABLES
    owner,      \* MutexLock::_mutex: its owner, or NoThread
    waiting     \* Condition::_cond: the set of threads blocked on each one

monitorVars == <<owner, waiting>>

MonitorTypeOK ==
    /\ owner \in Threads \cup {NoThread}
    /\ waiting \in [Conditions -> SUBSET Threads]

MonitorInit ==
    /\ owner = NoThread
    /\ waiting = [c \in Conditions |-> {}]

\* MutexLock::lock, MutexLockGuard's constructor.
Lock(t) == owner = NoThread /\ owner' = t

\* MutexLock::unlock, MutexLockGuard's destructor.
Unlock(t) == owner = t /\ owner' = NoThread

\* Condition::wait.  The release and the enqueueing are one step.
Wait(t, c) ==
    /\ Unlock(t)
    /\ waiting' = [waiting EXCEPT ![c] = @ \cup {t}]

\* Condition::notifyOne: some waiter is released, or the signal is lost.
NotifyOne(c) ==
    \/ waiting[c] = {} /\ UNCHANGED waiting
    \/ \E t \in waiting[c] : waiting' = [waiting EXCEPT ![c] = @ \ {t}]

\* Condition::notifyAll.
NotifyAll(c) == waiting' = [waiting EXCEPT ![c] = {}]

\* pthread_cond_wait may return without any notification.
SpuriousWakeup(t) ==
    /\ \E c \in Conditions :
          /\ t \in waiting[c]
          /\ waiting' = [waiting EXCEPT ![c] = @ \ {t}]
    /\ UNCHANGED owner

==============================================================================

----------------------------- MODULE MCTaskQueue -----------------------------
(***************************************************************************)
(* TaskQueue on small instances: some threads push, some pop, one of them  *)
(* also calls wakeup(), at most MaxPush elements are stored.               *)
(***************************************************************************)
EXTENDS TaskQueue

CONSTANTS
    Producers,  \* the threads that push
    Consumers,  \* the threads that pop
    Closers,    \* the threads that call wakeup
    MaxPush     \* bound on the number of elements stored

ASSUME Producers \cup Consumers \cup Closers \subseteq Threads

\* Thread t may start another push: it and those on their way stay in bounds.
MayPush == Len(pushed) + Cardinality({t \in Threads : pc[t] \in PushPoints}) < MaxPush

MCNext ==
    \/ \E t \in Producers, e \in Elements : MayPush /\ PushLock(t, e)
    \/ \E t \in Producers : Push(t)
    \/ \E t \in Consumers : PopLock(t) \/ Pop(t)
    \/ \E t \in Closers : WakeupClear(t) \/ WakeupNotify(t)
    \/ \E t \in Threads : Spurious(t)

MCSpec == Init /\ [][MCNext]_queueVars

==============================================================================

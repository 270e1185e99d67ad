---------------------------- MODULE MCThreadpool ----------------------------
(***************************************************************************)
(* Threadpool on small instances.  Spurious wakeups are bounded, so that   *)
(* the liveness runs do not depend on a thread losing the race for the     *)
(* mutex against infinitely many of them.                                  *)
(***************************************************************************)
EXTENDS Threadpool

CONSTANTS
    MaxSpurious \* bound on the number of spurious wakeups

VARIABLE spurious   \* the spurious wakeups so far

mcVars == <<vars, spurious>>

MCInit ==
    /\ PoolInit
    /\ \A t \in Threads : item[t] = CHOOSE e \in Elements : TRUE
    /\ spurious = 0

Quiet ==
    \/ \E w \in Workers : StartWorker(w) \/ Worker(w)
    \/ StartReturn
    \/ \E p \in Producers : AddTask(p) \/ FinishAdd(p)
    \/ StopCall
    \/ StopStep

MCNext ==
    \/ Quiet /\ UNCHANGED spurious
    \/ SpuriousStep /\ spurious < MaxSpurious /\ spurious' = spurious + 1

MCSpec == MCInit /\ [][MCNext]_mcVars

MCFairSpec == MCSpec /\ Fairness

==============================================================================

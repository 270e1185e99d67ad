----------------------------- MODULE MCEventLoop -----------------------------
(***************************************************************************)
(* EventLoop on small instances: at most MaxPosts functors are posted.     *)
(***************************************************************************)
EXTENDS EventLoop

CONSTANTS
    MaxPosts    \* bound on the functors posted

MCNext ==
    \/ \E t \in Posters :
          \/ \E f \in Functors : Len(posted) < MaxPosts /\ PostAppend(t, f)
          \/ PostWakeup(t)
    \/ Unloop
    \/ LoopInternal
    \/ \E R \in SUBSET Sources : EpollReturns(R)
    \/ EpollTimesOut
    \/ \E s \in Sources : HandleSource(s)

MCSpec == LoopInit /\ [][MCNext]_eventVars
MCFairSpec == MCSpec /\ LoopFairness

\* Every functor posted with runInLoop is run by the IO thread in the end,
\* unless a running loop is told to stop.
FunctorsRun ==
    \A n \in 1..MaxPosts :
        Len(posted) >= n ~> (Len(ran) >= n \/ unlooped = "inLoop")

==============================================================================

----------------------------- MODULE MCConnPool -----------------------------
(***************************************************************************)
(* ConnPool on small instances.                                            *)
(***************************************************************************)
EXTENDS ConnPool

CONSTANTS
    MaxSpurious \* bound on the number of spurious wakeups

VARIABLE spurious   \* the spurious wakeups so far

mcVars == <<vars, spurious>>

MCInit == Init /\ spurious = 0

Quiet ==
    \/ \E c \in Conns : Construct(c)
    \/ \E u \in Users : GetLock(u) \/ User(u)
    \/ Available
    \/ DestroyLock \/ Destroy

MCNext ==
    \/ Quiet /\ UNCHANGED spurious
    \/ Spurious /\ spurious < MaxSpurious /\ spurious' = spurious + 1

MCSpec == MCInit /\ [][MCNext]_mcVars
MCFairSpec == MCSpec /\ \A u \in Users : WF_vars(User(u))

==============================================================================

----------------------------- MODULE BoundedFifo -----------------------------
(***************************************************************************)
(* What a TaskQueue promises: a first-in first-out buffer of bounded       *)
(* capacity that delivers while it is open and delivers nothing any more   *)
(* once it has been closed.  A closed buffer still accepts elements: push  *)
(* does not look at the flag.                                              *)
(***************************************************************************)
EXTENDS Naturals, Sequences

CONSTANTS
    Elements,
    Capacity

VARIABLES
    buf,        \* the elements in the buffer
    open,       \* TRUE until the buffer is closed
    delivered   \* every element handed out, in order

vars == <<buf, open, delivered>>

Init ==
    /\ buf = <<>>
    /\ open = TRUE
    /\ delivered = <<>>

Put(e) ==
    /\ Len(buf) < Capacity
    /\ buf' = Append(buf, e)
    /\ UNCHANGED <<open, delivered>>

Take ==
    /\ open
    /\ buf # <<>>
    /\ buf' = Tail(buf)
    /\ delivered' = Append(delivered, Head(buf))
    /\ UNCHANGED open

Close ==
    /\ open' = FALSE
    /\ UNCHANGED <<buf, delivered>>

Next == (\E e \in Elements : Put(e)) \/ Take \/ Close

Spec == Init /\ [][Next]_vars

\* Every element that stays at the head is delivered in the end, as long as
\* the buffer stays open.
FairSpec == Spec /\ WF_vars(Take)

==============================================================================

------------------------------- MODULE Mailbox -------------------------------
(***************************************************************************)
(* What runInLoop promises: whatever threads hand over is carried out one  *)
(* by one, each once, in the order in which it was handed over.            *)
(***************************************************************************)
EXTENDS Sequences

CONSTANT Messages

VARIABLES
    box,        \* what has been handed over and not carried out yet
    done        \* what has been carried out, in order

vars == <<box, done>>

Init == box = <<>> /\ done = <<>>

Post(m) ==
    /\ box' = Append(box, m)
    /\ UNCHANGED done

CarryOut ==
    /\ box # <<>>
    /\ box' = Tail(box)
    /\ done' = Append(done, Head(box))

Next == (\E m \in Messages : Post(m)) \/ CarryOut

Spec == Init /\ [][Next]_vars

==============================================================================

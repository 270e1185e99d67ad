------------------------------- MODULE Lending -------------------------------
(***************************************************************************)
(* What ConnPool promises its users: a fixed stock of connections is lent  *)
(* to one user at a time, the one that has been idle longest first; what   *)
(* is given back goes to the end; and the pool is closed only when         *)
(* everything is back.                                                     *)
(***************************************************************************)
EXTENDS Naturals, Sequences

CONSTANTS Users, Conns, NoConn

VARIABLES
    idle,       \* the connections nobody uses, the next one to lend first
    lent,       \* lent[u]: the connection user u has, or NoConn
    phase       \* "stocking", "open", "closing" or "closed"

vars == <<idle, lent, phase>>

InStock == {idle[i] : i \in 1..Len(idle)}

Init ==
    /\ idle = <<>>
    /\ lent = [u \in Users |-> NoConn]
    /\ phase = "stocking"

\* The pool opens as soon as every connection is in stock.
Stock(c) ==
    /\ phase = "stocking"
    /\ c \notin InStock
    /\ idle' = Append(idle, c)
    /\ phase' = IF Conns \subseteq InStock' THEN "open" ELSE "stocking"
    /\ UNCHANGED lent

Borrow(u) ==
    /\ phase = "open"
    /\ lent[u] = NoConn
    /\ idle # <<>>
    /\ \A v \in Users : lent[v] # Head(idle)
    /\ lent' = [lent EXCEPT ![u] = Head(idle)]
    /\ idle' = Tail(idle)
    /\ UNCHANGED phase

GiveBack(u) ==
    /\ phase = "open"
    /\ lent[u] # NoConn
    /\ lent[u] \notin InStock
    /\ idle' = Append(idle, lent[u])
    /\ lent' = [lent EXCEPT ![u] = NoConn]
    /\ UNCHANGED phase

Shut ==
    /\ phase = "open"
    /\ Conns = InStock
    /\ \A u \in Users : lent[u] = NoConn
    /\ phase' = "closing"
    /\ UNCHANGED <<idle, lent>>

Close ==
    /\ phase = "closing"
    /\ idle # <<>>
    /\ idle' = Tail(idle)
    /\ UNCHANGED <<lent, phase>>

Closed ==
    /\ phase = "closing"
    /\ idle = <<>>
    /\ phase' = "closed"
    /\ UNCHANGED <<idle, lent>>

Next ==
    \/ \E c \in Conns : Stock(c)
    \/ \E u \in Users : Borrow(u) \/ GiveBack(u)
    \/ Shut \/ Close \/ Closed

Spec == Init /\ [][Next]_vars

==============================================================================

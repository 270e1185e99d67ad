-------------------------------- MODULE Room --------------------------------
(***************************************************************************)
(* What a chat room promises: people come and go, and whatever one of them *)
(* says is heard by all the others inside, at once, in order and complete. *)
(* The n-th message of a person is the number n.                           *)
(***************************************************************************)
EXTENDS Naturals, Sequences

CONSTANTS
    People,
    Most        \* messages that are passed on together

VARIABLES
    spoken,     \* spoken[p]: the messages of p that have been passed on
    heard       \* heard[d][p]: what d, who is inside, has heard of p

vars == <<spoken, heard>>

Inside == DOMAIN heard

Init ==
    /\ spoken = [p \in People |-> 0]
    /\ heard = [d \in {} |-> <<>>]

Enter(p) ==
    /\ p \notin Inside
    /\ heard' = [d \in Inside \cup {p} |-> IF d = p THEN [q \in People |-> <<>>] ELSE heard[d]]
    /\ UNCHANGED spoken

Depart(gone) ==
    /\ heard' = [d \in Inside \ gone |-> heard[d]]
    /\ UNCHANGED spoken

\* The words of one who has just left are passed on as well.
Say(p, n) ==
    /\ spoken' = [spoken EXCEPT ![p] = @ + n]
    /\ heard' = [d \in Inside |->
                    IF d = p THEN heard[d]
                    ELSE [heard[d] EXCEPT ![p] = @ \o [i \in 1..n |-> spoken[p] + i]]]

Next ==
    \/ \E p \in People : Enter(p)
    \/ \E gone \in SUBSET Inside : Depart(gone)
    \/ \E p \in People : \E n \in 1..Most : Say(p, n)

Spec == Init /\ [][Next]_vars

=============================================================================

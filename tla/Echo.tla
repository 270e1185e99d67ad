-------------------------------- MODULE Echo --------------------------------
(***************************************************************************)
(* What the echo server promises its clients: every line it takes is owed  *)
(* an answer, which is sent once, to the client that sent the line; the    *)
(* debt ends with the answer, or when the client leaves.                   *)
(***************************************************************************)
EXTENDS Naturals, Sequences

CONSTANT Clients

VARIABLES
    sent,       \* sent[c]: the lines client c has sent
    taken,      \* taken[c]: those of them the server has taken
    owed,       \* the lines <<c, n>> that wait for their answer
    answers,    \* answers[c]: what client c has been answered
    gone        \* the clients that have left

vars == <<sent, taken, owed, answers, gone>>

Init ==
    /\ sent = [c \in Clients |-> 0] /\ taken = [c \in Clients |-> 0]
    /\ owed = {}
    /\ answers = [c \in Clients |-> <<>>]
    /\ gone = {}

Say(c) ==
    /\ c \notin gone
    /\ sent' = [sent EXCEPT ![c] = @ + 1]
    /\ UNCHANGED <<taken, owed, answers, gone>>

\* The lines of a client that has left are taken as well, but nothing is owed.
Take(c) ==
    /\ taken[c] < sent[c]
    /\ taken' = [taken EXCEPT ![c] = @ + 1]
    /\ owed' = IF c \in gone THEN owed ELSE owed \cup {<<c, taken'[c]>>}
    /\ UNCHANGED <<sent, answers, gone>>

Answer(l) ==
    /\ owed' = owed \ {l}
    /\ answers' = [answers EXCEPT ![l[1]] = Append(@, l)]
    /\ UNCHANGED <<sent, taken, gone>>

Leave(c) ==
    /\ c \notin gone
    /\ gone' = gone \cup {c}
    /\ owed' = {l \in owed : l[1] # c}
    /\ UNCHANGED <<sent, taken, answers>>

Next ==
    \/ \E c \in Clients : Say(c) \/ Take(c) \/ Leave(c)
    \/ \E l \in owed : Answer(l)

Spec == Init /\ [][Next]_vars

=============================================================================

----------------------------- MODULE Transcoder -----------------------------
(***************************************************************************)
(* What the decoder and the encoder do with every stream, whatever buffers *)
(* the items travel in: items are made one after the other, the codec      *)
(* takes them by value, none twice and none left out, keeps a few of them  *)
(* back, and gives out each of them once, in an order of its own.  A call  *)
(* that fails may lose what the codec holds, and is the last to give it    *)
(* anything.                                                               *)
(***************************************************************************)
EXTENDS Naturals, Sequences, FiniteSets

CONSTANTS Streams, Delay

VARIABLES
    made,       \* made[s]: the items of stream s made so far
    inside,     \* inside[s]: the items the codec of s has taken
    closed,     \* closed[s]: the codec of s has been told that nothing follows
    out,        \* out[s]: what has left the codec of s
    failed      \* a call has failed

vars == <<made, inside, closed, out, failed>>

Init ==
    /\ made = [s \in Streams |-> 0]
    /\ inside = [s \in Streams |-> {}]
    /\ closed = [s \in Streams |-> FALSE]
    /\ out = [s \in Streams |-> <<>>]
    /\ failed = FALSE

Make(s) ==
    /\ ~closed[s] /\ ~failed
    /\ made' = [made EXCEPT ![s] = @ + 1]
    /\ UNCHANGED <<inside, closed, out, failed>>

\* The items of s that the codec has not been given.
Waiting(s) ==
    {<<s, n>> : n \in 1..made[s]} \ (inside[s] \cup {out[s][i] : i \in 1..Len(out[s])})

\* The item just made goes to the codec, those before it have gone there.
Accept(s) ==
    /\ ~closed[s] /\ ~failed
    /\ Waiting(s) = {<<s, made[s]>>}
    /\ Cardinality(inside[s]) <= Delay
    /\ inside' = [inside EXCEPT ![s] = @ \cup Waiting(s)]
    /\ UNCHANGED <<made, closed, out, failed>>

Emit(s) ==
    /\ \E x \in inside[s] :
        /\ out' = [out EXCEPT ![s] = Append(@, x)]
        /\ inside' = [inside EXCEPT ![s] = @ \ {x}]
    /\ UNCHANGED <<made, closed, failed>>

Finish(s) ==
    /\ closed' = [closed EXCEPT ![s] = TRUE]
    /\ UNCHANGED <<made, inside, out, failed>>

\* Items are lost; the one just made may have been taken before the failure.
Fail(s) ==
    /\ failed' = TRUE
    /\ \E kept \in SUBSET (inside[s] \cup IF failed THEN {} ELSE Waiting(s)) :
        inside' = [inside EXCEPT ![s] = kept]
    /\ UNCHANGED <<made, closed, out>>

Next == \E s \in Streams : Make(s) \/ Accept(s) \/ Emit(s) \/ Finish(s) \/ Fail(s)

Spec == Init /\ [][Next]_vars

=============================================================================

----------------------------- MODULE LineStream -----------------------------
(***************************************************************************)
(* What SocketIO makes of a stream of bytes: messages, each up to and with *)
(* a newline or as long as the buffer allows, taken in one step when all   *)
(* their bytes are there; and what has been taken is sent back in order.   *)
(* The n-th byte of the stream is the number n.                            *)
(***************************************************************************)
EXTENDS Naturals, Sequences

CONSTANTS
    Most,       \* the length of the longest message
    Mark        \* what a message has in place of a newline

VARIABLES
    arrived,    \* the bytes 1..arrived are there
    newlines,   \* those of them that end a line
    ended,      \* the other end has sent all it has to send
    broken,     \* the other end has aborted the connection
    text,       \* the messages, one after the other
    cuts,       \* where they end
    delivered   \* what has been sent back

vars == <<arrived, newlines, ended, broken, text, cuts, delivered>>

Init ==
    /\ arrived = 0 /\ newlines = {}
    /\ ended = FALSE /\ broken = FALSE
    /\ text = <<>> /\ cuts = {}
    /\ delivered = <<>>

Arrive ==
    /\ ~ended /\ ~broken
    /\ arrived' = arrived + 1
    /\ newlines' \in {newlines, newlines \cup {arrived'}}
    /\ UNCHANGED <<ended, broken, text, cuts, delivered>>

End ==
    /\ ~ended /\ ~broken
    /\ ended' = TRUE
    /\ UNCHANGED <<arrived, newlines, broken, text, cuts, delivered>>

Abort ==
    /\ ~broken
    /\ broken' = TRUE
    /\ UNCHANGED <<arrived, newlines, ended, text, cuts, delivered>>

\* The next n bytes are a message.
Take(n) ==
    LET t == Len(text) IN
    /\ t + n <= arrived
    /\ \A i \in 1..(n - 1) : t + i \notin newlines
    /\ t + n \in newlines \/ n = Most
    /\ text' = text \o [i \in 1..n |-> IF t + i \in newlines THEN Mark ELSE t + i]
    /\ cuts' = cuts \cup {t + n}
    /\ UNCHANGED <<arrived, newlines, ended, broken, delivered>>

\* Nothing goes out after the connection has been aborted.
Send(n) ==
    /\ ~broken
    /\ delivered' = SubSeq(text, 1, n)
    /\ UNCHANGED <<arrived, newlines, ended, broken, text, cuts>>

Next ==
    \/ Arrive \/ End \/ Abort
    \/ \E n \in 1..Most : Take(n)
    \/ \E n \in (Len(delivered) + 1)..Len(text) : Send(n)

Spec == Init /\ [][Next]_vars

=============================================================================

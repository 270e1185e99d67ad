------------------------------ MODULE Executor ------------------------------
(***************************************************************************)
(* What a Threadpool promises: the tasks handed to it are stored one after *)
(* the other, each once, and the workers start them in that order, one at  *)
(* a time each, and execute each once.  Who stops the pool looks at what   *)
(* has been stored, closes the pool when all of it has been started, and   *)
(* leaves it with all of it executed and nothing in execution.             *)
(***************************************************************************)
EXTENDS Naturals, Sequences

CONSTANTS Tasks, Workers, NoTask

VARIABLES
    asked,      \* the tasks handed over
    stored,     \* the tasks ever stored, in order
    started,    \* how many of them have been started
    running,    \* running[w]: the task worker w executes, or NoTask
    done,       \* the tasks executed, in order
    due,        \* how many had been stored at the last look
    closed,     \* nothing is started any more
    stopped     \* the pool has been left

vars == <<asked, stored, started, running, done, due, closed, stopped>>

Among(e, s) == \E i \in 1..Len(s) : s[i] = e

Init ==
    /\ asked = {}
    /\ stored = <<>> /\ started = 0 /\ done = <<>>
    /\ running = [w \in Workers |-> NoTask]
    /\ due = 0 /\ closed = FALSE /\ stopped = FALSE

Ask(e) ==
    /\ e \notin asked
    /\ asked' = asked \cup {e}
    /\ UNCHANGED <<stored, started, running, done, due, closed, stopped>>

Store(e) ==
    /\ e \in asked /\ ~Among(e, stored)
    /\ stored' = Append(stored, e)
    /\ UNCHANGED <<asked, started, running, done, due, closed, stopped>>

Start(w) ==
    /\ ~closed
    /\ running[w] = NoTask /\ started < Len(stored)
    /\ running' = [running EXCEPT ![w] = stored[started + 1]]
    /\ started' = started + 1
    /\ UNCHANGED <<asked, stored, done, due, closed, stopped>>

Finish(w) ==
    /\ ~stopped
    /\ running[w] # NoTask /\ ~Among(running[w], done)
    /\ done' = Append(done, running[w])
    /\ running' = [running EXCEPT ![w] = NoTask]
    /\ UNCHANGED <<asked, stored, started, due, closed, stopped>>

Look ==
    /\ ~closed
    /\ due' = Len(stored)
    /\ UNCHANGED <<asked, stored, started, running, done, closed, stopped>>

Close ==
    /\ due <= started
    /\ closed' = TRUE
    /\ UNCHANGED <<asked, stored, started, running, done, due, stopped>>

Stop ==
    /\ closed
    /\ \A w \in Workers : running[w] = NoTask
    /\ \A i \in 1..due : Among(stored[i], done)
    /\ stopped' = TRUE
    /\ UNCHANGED <<asked, stored, started, running, done, due, closed>>

Next ==
    \/ \E e \in Tasks : Ask(e) \/ Store(e)
    \/ \E w \in Workers : Start(w) \/ Finish(w)
    \/ Look \/ Close \/ Stop

Spec == Init /\ [][Next]_vars

=============================================================================

---------------------------- MODULE MCEchoServer ----------------------------
(***************************************************************************)
(* EchoServer on small instances.                                          *)
(***************************************************************************)
EXTENDS EchoServer, TLC

CONSTANTS
    Chatty      \* the clients that send two lines, the others send one

MCLines == (Clients \X {1}) \cup (Chatty \X {2})

\* The workers are interchangeable.
Symmetric == Permutations(Posters)

==============================================================================

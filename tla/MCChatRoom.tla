----------------------------- MODULE MCChatRoom -----------------------------
(***************************************************************************)
(* ChatRoom for TLC: three clients, two descriptors, so that one waits or  *)
(* takes over a number, and a round that may be too short for all events.  *)
(***************************************************************************)
EXTENDS ChatRoom, TLC
CONSTANTS ann, bob, cat
MCTalk == ann :> 2 @@ bob :> 1 @@ cat :> 0
=============================================================================

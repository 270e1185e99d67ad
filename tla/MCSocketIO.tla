----------------------------- MODULE MCSocketIO -----------------------------
(***************************************************************************)
(* SocketIO for TLC: a buffer of three bytes and a terminator, and streams *)
(* of up to six bytes, so that a line may be longer than the buffer and    *)
(* end exactly at its last byte.  send() takes two bytes before the peer   *)
(* reads, so that one message already needs a peer that does.              *)
(***************************************************************************)
EXTENDS SocketIO
=============================================================================

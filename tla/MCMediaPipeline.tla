--------------------------- MODULE MCMediaPipeline ---------------------------
(***************************************************************************)
(* MediaPipeline for TLC: more items than the codec keeps back.            *)
(***************************************************************************)
EXTENDS MediaPipeline
=============================================================================

--------------------------- MODULE MCRuntimeStreams ---------------------------
(***************************************************************************)
(* A small outbox for TLC: two rows reach its quota and the stream limit,  *)
(* one question fills the queue of deferred bodies.                        *)
(***************************************************************************)
EXTENDS RuntimeStreams
=============================================================================

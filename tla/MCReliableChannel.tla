-------------------------- MODULE MCReliableChannel --------------------------
(* Small instances of ReliableChannel for TLC. *)
EXTENDS ReliableChannel
=============================================================================

--------------------------- MODULE MCModelTransfer ---------------------------
(* ModelTransfer with a transfer that replaces and one that skips. *)
EXTENDS ModelTransfer
=============================================================================

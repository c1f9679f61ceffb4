-------------------------- MODULE MCCommandDelivery --------------------------
(* Model values for CommandDelivery: one command of each kind. *)
EXTENDS CommandDelivery
=============================================================================

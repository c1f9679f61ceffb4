-------------------------- MODULE MCConnectorCommands --------------------------
(* ConnectorCommands with one command of each kind, and a read too many. *)
EXTENDS ConnectorCommands
=============================================================================

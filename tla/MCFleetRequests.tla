--------------------------- MODULE MCFleetRequests ---------------------------
(* FleetRequests with two runtimes, a list, a search and a change. *)
EXTENDS FleetRequests
=============================================================================

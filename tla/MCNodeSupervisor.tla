--------------------------- MODULE MCNodeSupervisor ---------------------------
(***************************************************************************)
(* One profile with two plugins for TLC.  Three requests let an update be  *)
(* rolled back after another one, a restoration follow a write, and two    *)
(* faults let a recovery fail as well.                                     *)
(***************************************************************************)
EXTENDS NodeSupervisor, TLC

Symmetry == Permutations(Plugins)
=============================================================================

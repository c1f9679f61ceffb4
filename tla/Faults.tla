-------------------------------- MODULE Faults --------------------------------
(***************************************************************************)
(* What goes wrong is counted: each lost connection, crash or failed call  *)
(* of a behaviour is one of at most MaxFaults.                             *)
(***************************************************************************)
EXTENDS Naturals

CONSTANT MaxFaults
VARIABLE faults

Fault == faults < MaxFaults /\ faults' = faults + 1
=============================================================================

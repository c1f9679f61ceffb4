---------------------------- MODULE MCNodeAdmission ----------------------------
(* Node admission for TLC: the constants come from the .cfg files.           *)
EXTENDS NodeAdmission
=============================================================================

-------------------------- MODULE MCSessionLifecycle --------------------------
(* Two sessions of one Runtime, two callers, a log and one older           *)
(* generation of it.                                                       *)
EXTENDS SessionLifecycle, TLC

CONSTANTS s1, s2, c1, c2, startup, v3, v4

MCSessions == {s1, s2}
MCCallers == {c1, c2}
MCFiles == {v3, v4}

\* Sessions and callers are interchangeable.
MCSymmetry == Permutations(MCSessions) \cup Permutations(MCCallers)
=============================================================================

---------------------------- MODULE MC_AppRegistry ----------------------------
(* Model values for checking AppRegistry with TLC. *)
EXTENDS AppRegistry, TLC

CONSTANTS a1, a2, r1, r2, r3

MCApps == {a1, a2}
MCOneApp == {a1}
MCRegistrants == {r1, r2, r3}

(* Registrants and apps are interchangeable. *)
MCSymmetry == Permutations(MCApps) \cup Permutations(MCRegistrants)
=============================================================================

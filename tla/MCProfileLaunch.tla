--------------------------- MODULE MCProfileLaunch ---------------------------
(* Instances of ProfileLaunch for TLC. *)
EXTENDS ProfileLaunch, TLC

Symmetry == Permutations(Launchers)
=============================================================================

-------------------------- MODULE MCRoastCoordinator --------------------------
(***************************************************************************)
(* RoastCoordinator on small sets of signers.  All signers are alike.      *)
(***************************************************************************)
EXTENDS RoastCoordinator, TLC

Symmetry == Permutations(Parties)
=============================================================================

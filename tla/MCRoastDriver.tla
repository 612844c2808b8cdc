----------------------------- MODULE MCRoastDriver -----------------------------
(***************************************************************************)
(* RoastDriver on a small set of signers.                                  *)
(***************************************************************************)
EXTENDS RoastDriver
=============================================================================

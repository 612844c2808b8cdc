-------------------------------- MODULE MCRoast --------------------------------
(***************************************************************************)
(* Small ROAST signings.                                                   *)
(***************************************************************************)
EXTENDS Roast
=============================================================================

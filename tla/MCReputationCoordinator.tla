------------------------ MODULE MCReputationCoordinator ------------------------
(***************************************************************************)
(* ReputationCoordinator on a small set of signers.                        *)
(***************************************************************************)
EXTENDS ReputationCoordinator
=============================================================================

------------------------------- MODULE MCSchnorr -------------------------------
(***************************************************************************)
(* Two parties, two contexts, two secrets, a group of order 5.             *)
(***************************************************************************)
EXTENDS Schnorr

\* Takes all values.
MCSha512(data) == (data[1] + 2 * data[2] + 3 * data[3] + data[4]) % Q
=============================================================================

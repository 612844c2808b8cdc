----------------------------- MODULE RoastSession -----------------------------
(***************************************************************************)
(* FROST sessions as ROAST uses them: pkg/roast/session.go and crypto.go,  *)
(* shared by both coordinators.                                            *)
(*                                                                         *)
(* Group arithmetic is symbolic.  A pre-signature share (D_i, E_i) is a    *)
(* value of PreShares; a signature share is the record of what it was      *)
(* computed from: the nonce that was spent and the commitments of the      *)
(* session (which fix the signer set, the binding factors, the aggregate   *)
(* nonce and the challenge).                                               *)
(***************************************************************************)
EXTENDS Integers, FiniteSets

CONSTANTS
    Parties,     \* pk.PartyIDs
    T,           \* c.t, the threshold plus one
    PreShares,   \* the values a PreSignatureShare can take
    NoPreShare,  \* no entry in a map of pre-signature shares
    NilShare,    \* sigShare == nil
    NilSignature \* signature == nil

\* Key generation accepts thresholds 1 .. n, so T may exceed n by one.
ASSUME RoastAssumption ==
    /\ IsFiniteSet(Parties)
    /\ T \in 1 .. Cardinality(Parties) + 1
    /\ NoPreShare \notin PreShares

N == Cardinality(Parties)

PreShareMap == [Parties -> PreShares \cup {NoPreShare}]

SigShare == [nonce : PreShares, preShares : PreShareMap]

SigShareMap == [Parties -> SigShare \cup {NilShare}]

Session == [signerSet : SUBSET Parties,
            preShares : PreShareMap,
            sigShares : SigShareMap]

\* The aggregate nonce, as the commitments it is made of, and the sum of the
\* shares, as its summands.
Signature == [R : PreShareMap, S : SigShareMap]

\* The keys of a map of signature shares.
Holders(shares) == {p \in Parties : shares[p] # NilShare}

\* nil is neither a share nor a signature.
ASSUME NilAssumption == NilShare \notin SigShare /\ NilSignature \notin Signature

-----------------------------------------------------------------------------
(* Sessions *)

\* Only the pre-signature shares of the chosen signers enter the session.
SessionPreShares(signerSet, pre) ==
    [p \in Parties |-> IF p \in signerSet THEN pre[p] ELSE NoPreShare]

NewSession(signerSet, pre) ==
    [signerSet |-> signerSet, preShares |-> pre,
     sigShares |-> [p \in Parties |-> NilShare]]

\* A share verifies against the nonce commitment of its signer iff it spends
\* that nonce and answers the commitments and signer set of this session.
ShareVal(session, id, sigShare) ==
    /\ sigShare.nonce = session.preShares[id]
    /\ sigShare.preShares = session.preShares

\* Mutant: the share is stored without being checked.
ValidateUnchecked(session, id, sigShare) == id \in session.signerSet

Validate(session, id, sigShare) ==
    /\ id \in session.signerSet
    /\ ShareVal(session, id, sigShare)

Store(session, id, sigShare) ==
    [session EXCEPT !.sigShares = [@ EXCEPT ![id] = sigShare]]

IsComplete(session) == Cardinality(Holders(session.sigShares)) = T

SignAgg(session) == [R |-> session.preShares, S |-> session.sigShares]

\* The sum of the shares opens the aggregate nonce iff every signer whose
\* commitment is part of it has contributed its share for this very nonce, and
\* nobody else has contributed anything.
Verify(sig) ==
    \A p \in Parties :
        IF sig.R[p] = NoPreShare THEN sig.S[p] = NilShare
        ELSE sig.S[p] = [nonce |-> sig.R[p], preShares |-> sig.R]
=============================================================================

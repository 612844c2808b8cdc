------------------------------ MODULE RoastCrypto ------------------------------
(***************************************************************************)
(* The arithmetic of ROAST, pkg/roast/crypto.go: a second implementation   *)
(* of the formulas of pkg/frost/sign, for any signer set and without       *)
(* rounds.  RoastSession has the same operations without arithmetic.       *)
(***************************************************************************)
EXTENDS FrostSign

\* preShares: for each signer its commitments (Di, Ei).
ComputeBindingFactors(signerSet, preShares) ==
    [id \in signerSet |->
        sha512Scalar("rho", <<id, Message, [q \in signerSet |-> preShares[q].Di],
                                           [q \in signerSet |-> preShares[q].Ei]>>)]

\* Mutant: the binding factor goes to the wrong commitment.
ComputeNonceCommitmentsSwapped(signerSet, preShares) ==
    LET rho == ComputeBindingFactors(signerSet, preShares)
    IN  [id \in signerSet |-> Add(ScalarMult(rho[id], preShares[id].Di), preShares[id].Ei)]

ComputeNonceCommitments(signerSet, preShares) ==
    LET rho == ComputeBindingFactors(signerSet, preShares)
    IN  [id \in signerSet |-> Add(ScalarMult(rho[id], preShares[id].Ei), preShares[id].Di)]

SessionChallenge(signerSet, preShares) ==
    ComputeChallenge(SumElements(ComputeNonceCommitments(signerSet, preShares)))

ShareVal(signerSet, id, preShares, sigShare) ==
    LET weightedPublic == ScalarMult(Lagrange(id, signerSet), key.public.Shares[id])
    IN  VarTimeDoubleScalarBaseMult(SessionChallenge(signerSet, preShares),
                                    Negate(weightedPublic), sigShare)
            = ComputeNonceCommitments(signerSet, preShares)[id]

SignRound(id, secret, signerSet, d, e, preShares) ==
    (Lagrange(id, signerSet) * secret * SessionChallenge(signerSet, preShares)
        + e * ComputeBindingFactors(signerSet, preShares)[id] + d) % Q

SignAgg(signerSet, preShares, sigShares) ==
    [R |-> SumElements(ComputeNonceCommitments(signerSet, preShares)),
     S |-> SumScalars(sigShares)]
=============================================================================

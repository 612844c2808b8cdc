------------------------------ MODULE KeygenSign ------------------------------
(***************************************************************************)
(* From the key to the signature: the key generation of ChillDKG, run by   *)
(* cmd/keygen, or the dealer of pkg/helpers that the tests use, and then   *)
(* the lock-step signing of FrostSign, run by cmd/signer.                  *)
(***************************************************************************)
EXTENDS ChillDKG, RoastCrypto

CONSTANT Coefficients  \* the scalars a dealer may draw

\* The coordinator is part of cmd/keygen and follows the code.
ASSUME KeygenAssumption ==
    IDs = 1 .. N /\ Coefficients \subseteq Scalar /\ Coordinators \subseteq {TRUE}

maxN == 100

kvars == <<vars, fvars>>

\* The arguments cmd/keygen admits.
KeygenArgs == N <= maxN /\ params.Threshold < N

\* The end of cmd/keygen: the outputs of all participants become signing keys.
Keygen ==
    /\ key = None
    /\ KeygenArgs
    /\ \A p \in Participants : output[p] # None
    /\ LET keys == OutputToFROST(output)
       IN  key' = [public |-> keys.public, secrets |-> keys.secretShares, poly |-> None]
    /\ UNCHANGED <<vars, signers, offset, round, past, mail, calls, command, failure>>

\* GenerateSecrets and GeneratePublic, instead of a key generation.
Deal ==
    /\ key = None
    /\ params.Threshold < N
    /\ coord.phase = "start" /\ \A p \in Participants : phase[p] = "start"
    /\ \E secret \in Coefficients, randoms \in [1 .. params.Threshold -> Coefficients] :
          LET poly    == NewPolynomial(secret, randoms)
              secrets == GenerateSecrets(1 .. N, poly)
          IN  key' = [public  |-> GeneratePublic(params.Threshold, secrets),
                      secrets |-> secrets, poly |-> poly]
    /\ UNCHANGED <<vars, signers, offset, round, past, mail, calls, command, failure>>

KInit == Init /\ FInit

KNext ==
    \/ key = None /\ Next /\ UNCHANGED fvars
    \/ Keygen
    \/ Deal
    \/ FNext /\ UNCHANGED vars

KSpec == KInit /\ [][KNext]_kvars

\* cmd/signer has a step to take.
SignerRuns ==
    \/ command = "idle" /\ key # None
    \/ command = "loaded"
    \/ command = "signing"

\* Both commands are sequential programs that run to their end.  (The last
\* conjunct is the weak fairness of FNext, with SignerRuns for its ENABLED.)
KFairSpec ==
    /\ KSpec
    /\ \A p \in Honest : WF_kvars(key = None /\ UNCHANGED fvars /\
          (ParticipantStep1(p) \/ ParticipantStep2(p) \/ ParticipantFinalize(p)))
    /\ WF_kvars(key = None /\ UNCHANGED fvars /\ (CoordinatorStep1 \/ CoordinatorFinalize))
    /\ WF_kvars(Keygen)
    /\ []<>(~ SignerRuns) \/ []<><<FNext>>_fvars

-----------------------------------------------------------------------------
(* What the arithmetic is measured against *)

GroupSecret == CHOOSE s \in Scalar : ScalarBaseMult(s) = key.public.GroupKey

\* The shares needed: ChillDKG's polynomials have t coefficients, the dealer's
\* t + 1.
Needed == key.public.Threshold + IF key.poly = None THEN 0 ELSE 1

\* What the shares that the signers hold add up to.
HeldSecret == SumScalars([p \in signers |-> (Lagrange(p, signers) * Held(p)) % Q])

\* The aggregate nonce the signers have committed to.
NonceSecret ==
    SumScalars([p \in signers |-> (past[p].d + past[p].e * past[p].Pi[p]) % Q])

\* All commitments and shares are out, and the last pass begins.
ThirdPass == command = "signing" /\ \A p \in signers : calls[p] = 2

PreShareOf(p) == [Di |-> round[p].Di[p], Ei |-> round[p].Ei[p]]

-----------------------------------------------------------------------------
(* Properties *)

\* The outputs of a session make signing keys that fit together; NewPublic
\* refuses them just when t = n.
SigningKeys ==
    LET keys == OutputToFROST(output)
    IN  IF params.Threshold = N THEN keys.public = None
        ELSE \A id \in 1 .. N :
                 ScalarBaseMult(keys.secretShares[id]) = keys.public.Shares[id]

\* If all follow the code and the parameters are valid, key generation gives
\* everybody an output, whatever the order of the steps, and OutputToFROST
\* turns the outputs into signing keys.  (Or a dealer has made the keys.)
AllKeyed ==
    ParamsValidate /\ (\A p \in Participants : HostPubkeyGen(HostSeckeys[p]) = params.HostPubkeys[p])
        ~> \/ (\A p \in Participants : output[p] # None) /\ SigningKeys
           \/ key # None /\ key.poly # None

\* Any set of signers that is large enough, with shares of this key, signs:
\* cmd/signer ends with a signature, and all signers have the same one.
EnoughSign ==
    (signers # {} /\ Cardinality(signers) >= Needed /\ \A p \in signers : offset[p] = 0)
        ~> /\ command = "success"
           /\ \A p, q \in signers : /\ round[p].Signature # None
                                    /\ round[p].Signature = round[q].Signature

\* Nobody else signs.  A signature that comes out is the signature of the
\* group key's secret under the nonces committed to, and unless the challenge
\* is 0 the shares of the signers add up to that secret: neither too few
\* signers nor signers with shares of another key get that far.
OnlyTheKeySigns ==
    \A p \in signers :
        command \in {"signing", "success"} /\ calls[p] = 3 =>
            /\ round[p].Signature.S =
                   (NonceSecret + past[p].C * GroupSecret) % Q
            /\ past[p].C = 0 \/ HeldSecret = GroupSecret

\* A signer is accused only if the share it holds is not of this key, and an
\* error that names nobody (ErrValidateSignature) means that the reporting
\* signer itself holds a wrong share, or that the signers are too few.
StaleShareNamed ==
    failure # None =>
        IF failure.culprit # 0 THEN failure.culprit # failure.by /\ offset[failure.culprit] # 0
        ELSE failure.round = 2 /\ (offset[failure.by] # 0 \/ Cardinality(signers) < Needed)

\* The check of a share in round 2 accepts exactly the share that the signer
\* computes from its share of the key and the nonces it committed to, and no
\* other scalar: this is what SignState takes for granted.
ShareCheckExact ==
    ThirdPass =>
        \A p, q \in signers :
            \A z \in Scalar :
                ShareOpens(round[p], q, z) <=>
                    z = (round[q].d + round[q].e * round[p].Pi[q]
                         + Lagrange(q, signers) * key.secrets[q] * round[p].C) % Q

\* ROAST computes with the same numbers: for the same nonces its signers make
\* the shares of the FROST signers, ShareVal accepts exactly those made from
\* shares of the key, and if these are enough, they add up to a signature.
\* This is what RoastSession takes for granted.
RoastAgrees ==
    ThirdPass =>
        LET pre     == [p \in signers |-> PreShareOf(p)]
            Sign(p, secret) ==
                SignRound(p, secret, signers, round[p].d, round[p].e, pre)
            right   == [p \in signers |-> Sign(p, key.secrets[p])]
        IN  /\ \A p \in signers :
                  /\ round[p].Zi[p] = Sign(p, Held(p))
                  /\ \A z \in Scalar : ShareVal(signers, p, pre, z) <=> z = right[p]
            /\ Cardinality(signers) >= Needed => Verify(SignAgg(signers, pre, right))

\* The three evaluations of an Exponent agree with the polynomial it was made
\* from, sums of Exponents with sums of polynomials, also after they were
\* encoded; polynomials of different degree cannot be added.
ExponentAgrees ==
    key # None /\ key.poly # None =>
        LET f == key.poly
            F == UnmarshalExponent(MarshalExponent(NewPolynomialExponent(f)))
        IN  /\ \A x \in Scalar \ {0} :
                  ScalarBaseMult(Evaluate(f, x)) = evaluateClassic(F, x)
            /\ \A x \in Scalar : /\ evaluateVar(F, x) = evaluateClassic(F, x)
                                 /\ evaluateHorner(F, x) = evaluateClassic(F, x)
            /\ EvaluateMulti(F, 1 .. N) = key.public.Shares
            /\ \A g \in [1 .. Len(f) -> Coefficients] :
                  LET G == NewPolynomialExponent(g)
                  IN  SumExponents(<<F, G, F>>) = NewPolynomialExponent(
                          [i \in 1 .. Len(f) |-> (f[i] + g[i] + f[i]) % Q])
            /\ SumExponents(<<F, Append(F, Identity), F>>) = None

\* FrostSign implements Signing: a signer releases one share, for the nonces it
\* has seen, and signs only what all of the group have released shares for.
Commitments == {[Di |-> ScalarBaseMult(n[1]), Ei |-> ScalarBaseMult(n[2])] : n \in Nonces}

View(p) ==
    [q \in IDs |-> IF q \in signers
                   THEN [Di |-> past[p].Di[q], Ei |-> past[p].Ei[q]] ELSE None]

Abstract ==
    INSTANCE Signing WITH
        Parties  <- IDs,
        Faulty   <- {},
        Sessions <- [IDs -> Commitments \cup {None}],
        group    <- signers,
        shares   <- {[party |-> p, session |-> View(p)] :
                        p \in {q \in DOMAIN round : round[q].number = 2}},
        signed   <- {[party |-> p, session |-> View(p)] :
                        p \in {q \in DOMAIN round : round[q].Signature # None}},
        failed   <- {p \in DOMAIN round : round[p].err # None}

ImplementsSigning == Abstract!Spec
=============================================================================

------------------------------- MODULE FrostSign -------------------------------
(***************************************************************************)
(* FROST signing in lock step, with its arithmetic: the rounds of          *)
(* pkg/frost/sign, PartyRoutine of pkg/helpers, and the command            *)
(* cmd/signer, which calls PartyRoutine three times for every signer.  The *)
(* command signs with all parties, test/sign_test.go with fewer.           *)
(*                                                                         *)
(* Of the State of pkg/state what lock step can reach is modelled here:    *)
(* every message has the type of the current round, so none is queued, and *)
(* there is no timeout.  (SignState has the rest, without arithmetic.)     *)
(*                                                                         *)
(* Every signer follows the code, but the share it holds may be off, for   *)
(* instance one of an earlier key.                                         *)
(***************************************************************************)
EXTENDS Polynomial

CONSTANTS
    IDs,               \* the parties that have a share of the key
    Groups,            \* the sets of signers
    Offsets,           \* by how much the shares the parties hold may be off
    Nonces,            \* the pairs (d, e) a signer may draw
    Message,           \* what is signed
    sha512Scalar(_, _) \* the hash to scalars, by use and data

ASSUME FrostAssumption ==
    /\ IDs \subseteq Scalar \ {0}
    /\ Groups \subseteq SUBSET IDs /\ {} \notin Groups
    /\ Offsets \subseteq [IDs -> Scalar]
    /\ Nonces \subseteq (Scalar \ {0}) \X (Scalar \ {0})

\* Hashes are scalars.
ASSUME HashToScalar ==
    /\ \A S \in Groups : \A D, E \in [S -> Element], q \in S :
          sha512Scalar("rho", <<q, Message, D, E>>) \in Scalar
    /\ \A R, A \in Element : sha512Scalar("challenge", <<R, A, Message>>) \in Scalar

\* nil is not a message, a signature, an error or a polynomial.
ASSUME NilAssumption ==
    /\ None \notin [type : {1}, from : IDs, Di : Element, Ei : Element]
    /\ None \notin [type : {2}, from : IDs, Zi : Scalar]
    /\ None \notin [R : Element, S : Scalar]
    /\ None \notin [culprit : Scalar, round : 0 .. 2]
    /\ \A n \in Scalar : None \notin [1 .. n -> Scalar] /\ None \notin [1 .. n -> Element]

VARIABLES
    key,     \* the public part, the shares, and the polynomial if there was a dealer
    signers, \* partyIDs
    offset,  \* by how much the share of each party is off
    round,   \* round[p]: the State of signer p and its round
    past,    \* history: the same, but as it was before Reset
    mail,    \* mail[k]: the messages of the k-th pass, encoded
    calls,   \* calls[p]: how often PartyRoutine was called for p
    command, \* where cmd/signer is
    failure  \* the error it stopped with: the party that reported it, the culprit

fvars == <<key, signers, offset, round, past, mail, calls, command, failure>>

-----------------------------------------------------------------------------
(* Messages: type and sender, then blocks of 32 bytes.  All are broadcast. *)

\* Mutant: the two commitments change places on the wire.
MarshalSwapped(m) ==
    [type |-> m.type, from |-> m.from, to |-> 0,
     body |-> IF m.type = 1 THEN <<m.Ei, m.Di>> ELSE <<m.Zi>>]

Marshal(m) ==
    [type |-> m.type, from |-> m.from, to |-> 0,
     body |-> IF m.type = 1 THEN <<m.Di, m.Ei>> ELSE <<m.Zi>>]

HeaderOK(data) == data.type \in {1, 2} /\ data.to = 0 /\ data.from # 0

\* A body that cannot be decoded leaves the payload nil without an error.
Unmarshal(data) ==
    IF ~ HeaderOK(data) THEN None
    ELSE IF data.type = 1 /\ Len(data.body) = 2
    THEN [type |-> 1, from |-> data.from, Di |-> data.body[1], Ei |-> data.body[2]]
    ELSE IF data.type = 2 /\ Len(data.body) = 1
    THEN [type |-> 2, from |-> data.from, Zi |-> data.body[1]]
    ELSE [type |-> data.type, from |-> data.from]

-----------------------------------------------------------------------------
(* The rounds *)

\* Mutant: the own share is not normalised.
NewRoundUnweighted(p, secret) ==
    [number |-> 0, received |-> [q \in signers \ {p} |-> None],
     Public |-> [q \in signers |->
                    ScalarMult(Lagrange(q, signers), key.public.Shares[q])],
     SecretKeyShare |-> secret, d |-> 0, e |-> 0,
     Di |-> [q \in signers |-> Identity], Ei |-> [q \in signers |-> Identity],
     Pi |-> [q \in signers |-> 0], Ri |-> [q \in signers |-> Identity],
     Zi |-> [q \in signers |-> 0], R |-> Identity, C |-> 0, err |-> None, Signature |-> None]

\* NewRound and NewBaseState: shares multiplied with the Lagrange coefficients
\* of this group, and a nil entry for each other signer.
NewRound(p, secret) ==
    [number |-> 0, received |-> [q \in signers \ {p} |-> None],
     Public |-> [q \in signers |->
                    ScalarMult(Lagrange(q, signers), key.public.Shares[q])],
     SecretKeyShare |-> (Lagrange(p, signers) * secret) % Q, d |-> 0, e |-> 0,
     Di |-> [q \in signers |-> Identity], Ei |-> [q \in signers |-> Identity],
     Pi |-> [q \in signers |-> 0], Ri |-> [q \in signers |-> Identity],
     Zi |-> [q \in signers |-> 0], R |-> Identity, C |-> 0, err |-> None, Signature |-> None]

Rho(r, q) == sha512Scalar("rho", <<q, Message, r.Di, r.Ei>>)

\* Mutant: the binding factor is left out.
NonceShareUnbound(r, q) == Add(r.Ei[q], r.Di[q])

\* Ri = D + [rho] E
NonceShare(r, q) == Add(ScalarMult(r.Pi[q], r.Ei[q]), r.Di[q])

ComputeChallenge(R) == sha512Scalar("challenge", <<R, key.public.GroupKey, Message>>)

\* The binding factors, the nonce, the challenge and the own share
\* z = d + e rho + s c.
ComputeShare(r, p) ==
    LET r1 == [r EXCEPT !.Pi = [q \in signers |-> Rho(r, q)]]
        Ri == [q \in signers |-> NonceShare(r1, q)]
        R  == SumElements(Ri)
        C  == ComputeChallenge(R)
    IN  [r1 EXCEPT !.Ri = Ri, !.R = R, !.C = C,
                   !.Zi[p] = (r.d + r.e * r1.Pi[p] + r.SecretKeyShare * C) % Q]

\* Mutant: the share is checked against the group key.
ShareOpensGroup(r, q, z) ==
    VarTimeDoubleScalarBaseMult(r.C, Negate(key.public.GroupKey), z) = r.Ri[q]

\* [c](-A) + [z]B = Ri
ShareOpens(r, q, z) ==
    VarTimeDoubleScalarBaseMult(r.C, Negate(r.Public[q]), z) = r.Ri[q]

\* ProcessMessage of the three rounds accepts the message of q.
Accepts(r, q) ==
    /\ r.number = 1 => Identity \notin {r.received[q].Di, r.received[q].Ei}
    /\ r.number = 2 => ShareOpens(r, q, r.received[q].Zi)

\* The round once ProcessMessage has taken the messages of the others.
Processed(r) ==
    LET Taken(old, field) ==
            [q \in signers |-> IF q \in DOMAIN r.received
                               THEN r.received[q][field] ELSE old[q]]
    IN  IF r.number = 1 THEN [r EXCEPT !.Di = Taken(@, "Di"), !.Ei = Taken(@, "Ei")]
        ELSE IF r.number = 2 THEN [r EXCEPT !.Zi = Taken(@, "Zi")]
        ELSE r

\* The processed messages are deleted.
NextRound(r) == [r EXCEPT !.number = @ + 1, !.received = <<>>]

\* Mutant: only the encoding is checked.
VerifyEncoding(sig) == sig.S \in Scalar

\* PublicKey.Verify.
Verify(sig) ==
    VarTimeDoubleScalarBaseMult(ComputeChallenge(sig.R), Negate(key.public.GroupKey), sig.S)
        = sig.R

\* The aggregation of round 2.
Signature(r) == [R |-> r.R, S |-> SumScalars(r.Zi)]

-----------------------------------------------------------------------------
(* State.HandleMessage and State.ProcessAll, called by PartyRoutine *)

\* Own messages are ignored, others refused or stored.
Refuses(r, p, m) ==
    \/ m = None
    \/ m.from # p /\ (m.from \notin signers \/ m.from \in DOMAIN r.received
                        \/ m.type # r.number)

HandleMessages(r, p, msgs) ==
    [r EXCEPT !.received =
        [q \in DOMAIN @ \cup ({m.from : m \in msgs} \ {p}) |->
            IF q \in DOMAIN @ THEN @[q] ELSE CHOOSE m \in msgs : m.from = q]]

HaveAll(r) == Cardinality(DOMAIN r.received) = Cardinality(signers) - 1

\* The outcomes of ProcessAll at p: the new round and the message sent, if any.
Step(r, msg) == [round |-> r, past |-> r, msg |-> msg]

\* finish wipes the round: the secrets, and what is known of the signers.
Reset(r) ==
    [r EXCEPT !.SecretKeyShare = 0, !.d = 0, !.e = 0, !.C = 0, !.R = Identity,
              !.Public = <<>>, !.Di = <<>>, !.Ei = <<>>, !.Pi = <<>>, !.Ri = <<>>, !.Zi = <<>>]

Finished(r) == [round |-> Reset(r), past |-> r, msg |-> None]

Failed(r, culprit) == Finished([r EXCEPT !.err = [culprit |-> culprit, round |-> r.number]])

Generate(r, p) ==
    IF r.number = 0
    THEN {LET r1 == [r EXCEPT !.d = n[1], !.e = n[2],
                              !.Di[p] = ScalarBaseMult(n[1]),
                              !.Ei[p] = ScalarBaseMult(n[2])]
          IN  Step(NextRound(r1), [type |-> 1, from |-> p,
                                   Di |-> r1.Di[p], Ei |-> r1.Ei[p]]) : n \in Nonces}
    ELSE IF r.number = 1
    THEN LET r1 == ComputeShare(r, p)
         IN  {Step(NextRound(r1), [type |-> 2, from |-> p, Zi |-> r1.Zi[p]])}
    ELSE {IF Verify(Signature(r))
          THEN Finished([r EXCEPT !.Signature = Signature(r), !.received = <<>>])
          ELSE Failed(r, 0)}

ProcessAll(r, p) ==
    LET rejected == {q \in signers \ {p} : ~ Accepts(r, q)}
    IN  IF ~ HaveAll(r) THEN {Step(r, None)}
        ELSE IF rejected # {} THEN {Failed(r, q) : q \in rejected}
        ELSE Generate(Processed(r), p)

-----------------------------------------------------------------------------
(* The command *)

Stop(how, error) == command' = how /\ failure' = error

\* The shares the signers hold.
Held(p) == (key.secrets[p] + offset[p]) % Q

\* The key file, with the public key and the secrets of the signers, is read.
ReadKeys ==
    /\ command = "idle"
    /\ key # None
    /\ signers' \in Groups
    /\ offset' \in Offsets
    /\ \/ UnmarshalPublic(key.public) = None /\ Stop("failed", None)
       \/ UnmarshalPublic(key.public) # None /\ Stop("loaded", None)
    /\ UNCHANGED <<key, round, past, mail, calls>>

\* A State is made for every signer.
NewStates ==
    /\ command = "loaded"
    /\ round' = [p \in signers |-> NewRound(p, Held(p))]
    /\ past' = round'
    /\ calls' = [p \in signers |-> 0]
    /\ command' = "signing"
    /\ UNCHANGED <<key, signers, offset, mail, failure>>

\* The three loops visit the signers in the order of a Go map, each loop after
\* the one before.
Turn(p) ==
    /\ command = "signing"
    /\ calls[p] < 3
    /\ \A q \in signers : calls[q] >= calls[p]

\* One call of PartyRoutine; the command returns at the first error.
PartyRoutine(p) ==
    /\ Turn(p)
    /\ calls' = [calls EXCEPT ![p] = @ + 1]
    /\ LET msgs == IF calls[p] = 0 THEN {} ELSE {Unmarshal(m) : m \in mail[calls[p]]}
       IN  \/ /\ \E m \in msgs : Refuses(round[p], p, m)
              /\ Stop("failed", [by |-> p, culprit |-> 0, round |-> round[p].number])
              /\ UNCHANGED <<round, past, mail>>
           \/ /\ ~ \E m \in msgs : Refuses(round[p], p, m)
              /\ \E step \in ProcessAll(HandleMessages(round[p], p, msgs), p) :
                    /\ round' = [round EXCEPT ![p] = step.round]
                    /\ past' = [past EXCEPT ![p] = step.past]
                    /\ mail' = IF step.msg = None THEN mail
                               ELSE [mail EXCEPT ![calls[p] + 1] = @ \cup {Marshal(step.msg)}]
                    /\ IF step.round.err = None THEN UNCHANGED <<command, failure>>
                       ELSE Stop("failed", [by      |-> p,
                                            culprit |-> step.round.err.culprit,
                                            round   |-> step.round.err.round])
    /\ UNCHANGED <<key, signers, offset>>

\* The signature of the first signer is checked and printed.
Conclude ==
    /\ command = "signing"
    /\ \A p \in signers : calls[p] = 3
    /\ LET id0 == CHOOSE p \in signers : \A q \in signers : p <= q
           sig == round[id0].Signature
       IN  IF sig = None \/ ~ Verify(sig) THEN Stop("failed", None)
           ELSE Stop("success", None)
    /\ UNCHANGED <<key, signers, offset, round, past, mail, calls>>

FInit ==
    /\ key = None
    /\ signers = {}
    /\ offset = None
    /\ round = <<>>
    /\ past = <<>>
    /\ mail = <<{}, {}>>
    /\ calls = <<>>
    /\ command = "idle"
    /\ failure = None

FNext == ReadKeys \/ NewStates \/ (\E p \in signers : PartyRoutine(p)) \/ Conclude
=============================================================================

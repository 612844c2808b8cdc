------------------------------- MODULE ChillDKG -------------------------------
(***************************************************************************)
(* Key generation: pkg/frost/chilldkg.                                     *)
(*                                                                         *)
(* N participants and a coordinator that relays between them.  Honest      *)
(* participants follow participant.go, the others send what they like; the *)
(* coordinator either follows coordinator.go or sends each participant its *)
(* own version of the messages.  A participant may lose its state at any   *)
(* time and come back with its host key and somebody's recovery data.      *)
(*                                                                         *)
(* Shares, commitments and encryption are computed in the small group of   *)
(* Group.tla.  Hashes are an arbitrary operator, Schnorr signatures are    *)
(* records that only the owner of the key can make.                        *)
(***************************************************************************)
EXTENDS Keys

CONSTANTS
    N,                      \* the number of participants
    HostSeckeys,            \* the host secret key of each participant
    HostLists,              \* the lists of host public keys a session may have
    Thresholds,             \* ... and its thresholds
    Honest,                 \* the participants that follow the code
    Coordinators,           \* whether the coordinator does: TRUE, FALSE or both
    Randoms,                \* the randomness honest participants may draw
    FaultyRandoms,          \* ... and the others
    Faults,                 \* what faulty participants may do to a message
    Degrees,                \* the degrees that a commitment may wrongly be given
    MaxForged,              \* how many contributions a coordinator may make up
    Crashes,                \* whether participants may lose their state
    taggedHashScalar(_, _)  \* the hash, by tag and data

\* Participants are numbered from 0, as in the code.
Participants == 0 .. N - 1

ASSUME ChillAssumption ==
    /\ N \in Nat /\ N < Q
    /\ HostSeckeys \in [Participants -> Scalar \ {0}]
    /\ HostLists \subseteq [Participants -> Element]
    /\ Thresholds \subseteq Nat
    /\ Honest \subseteq Participants
    /\ Coordinators \subseteq BOOLEAN /\ Crashes \in BOOLEAN
    /\ None \notin Nat /\ None \notin Element
    /\ Faults \subseteq [kind : {"shares"}, err : [Participants -> Scalar]]
                       \cup [kind : {"identity", "pop"}, err : {None}]
                       \cup [kind : {"degree"}, err : Degrees]
    /\ Degrees \subseteq Nat /\ MaxForged \in Nat

\* The secret that an honest participant draws is not 0.  (Only a hash that
\* happens to be 0 modulo the order of the group could make it so.)
ASSUME HashAssumption ==
    \A p \in Honest, random \in Randoms,
       prm \in [HostPubkeys : HostLists, Threshold : Thresholds] :
          ScalarBaseMult(taggedHashScalar("vss coeffs",
                             <<<<HostSeckeys[p], random, prm>>, 0>>)) # Identity

\* Hashes are scalars, for whatever the participants hash.
ASSUME HashRange ==
    LET sessions == [HostPubkeys : HostLists, Threshold : Thresholds]
        contexts == Participants \X sessions
    IN  /\ \A p \in Participants, random \in Randoms \cup FaultyRandoms, prm \in sessions :
              LET seed == <<HostSeckeys[p], random, prm>>
              IN  /\ taggedHashScalar("encpedpop secnonce", seed) \in Scalar
                  /\ \A d \in Participants \cup Degrees : \A i \in 0 .. d :
                        taggedHashScalar("vss coeffs", <<seed, i>>) \in Scalar
        /\ \A shared, pubnonce, enckey \in Element, ctx \in contexts :
              taggedHashScalar("encpedpop ecdh", <<shared, pubnonce, enckey, ctx>>) \in Scalar
        /\ \A symkey \in Scalar, nonce \in Element, ctx \in contexts :
              taggedHashScalar("encaps_multi self_pad", <<symkey, nonce, ctx>>) \in Scalar

VARIABLES
    params,   \* the session parameters everybody was given
    phase,    \* where each participant is
    state1,   \* ParticipantState1 of each participant
    pmsgs1,   \* the ParticipantMsg1 sent to the coordinator
    cmsg1,    \* the CoordinatorMsg1 each participant gets
    state2,   \* ParticipantState2 of each participant
    pmsgs2,   \* the ParticipantMsg2 sent to the coordinator
    cmsg2,    \* the CoordinatorMsg2 each participant gets
    coord,    \* the state of the coordinator, and whether it follows the code
    output,   \* the DKGOutput each participant has got
    recovery, \* the RecoveryData each participant has got
    error     \* the error each participant has got

vars == <<params, phase, state1, pmsgs1, cmsg1, state2, pmsgs2, cmsg2, coord,
          output, recovery, error>>

-----------------------------------------------------------------------------
(* Parameters and errors *)

ParamsValidate ==
    /\ params.Threshold \in 1 .. N
    /\ \A i, j \in Participants :
          params.HostPubkeys[i] = params.HostPubkeys[j] => i = j

HostPubkeyGen(hostseckey) == ScalarBaseMult(hostseckey)

\* The positions of a key in the list of host keys.
Positions(hostseckey, hostpubkeys) ==
    {i \in Participants : hostpubkeys[i] = HostPubkeyGen(hostseckey)}

ErrorKinds == {"InvalidParams", "HostkeyMismatch", "FaultyCoordinator",
               "FaultyParticipant", "FaultyParticipantOrCoord",
               "InvalidCertificate", "InvalidRecoveryData"}

Errors == [kind : ErrorKinds, index : Participants \cup {None}]

ASSUME ErrorAssumption == None \notin Errors

Err(kind) == [kind |-> kind, index |-> None]

FaultyParticipantError(i) == [kind |-> "FaultyParticipant", index |-> i]

\* In a list without duplicates, a participant is at the position of its number.
ASSUME ListAssumption ==
    \A list \in HostLists :
        (\A i, j \in Participants : list[i] = list[j] => i = j) =>
            \A p, i \in Participants : list[i] = HostPubkeyGen(HostSeckeys[p]) => i = p

First(S) == CHOOSE i \in S : \A j \in S : i <= j

-----------------------------------------------------------------------------
(* Schnorr signatures: proofs of possession and the certificate *)

schnorrSign(pubkey, msg) == [pk |-> pubkey, msg |-> msg]

schnorrVerify(pubkey, msg, sig) == sig = schnorrSign(pubkey, msg)

\* Mutant: the encrypted shares are appended after the transcript is signed.
certeqMessageNoShares(eqInput, idx) == <<idx, [eqInput EXCEPT !.encSecshares = None]>>

certeqMessage(eqInput, idx) == <<idx, eqInput>>

certeqSign(hostpubkey, idx, eqInput) ==
    schnorrSign(hostpubkey, certeqMessage(eqInput, idx))

\* Mutant: the signatures need not be on the same transcript.
certeqVerifyAnyInput(hostpubkeys, eqInput, cert) ==
    IF \E i \in Participants : cert[i] = None THEN Err("InvalidCertificate") ELSE None

\* The error for a certificate; a missing signature makes it too short.
certeqVerify(hostpubkeys, eqInput, cert) ==
    LET faulty == {i \in Participants :
            ~ schnorrVerify(hostpubkeys[i], certeqMessage(eqInput, i), cert[i])}
    IN  IF \E i \in Participants : cert[i] = None THEN Err("InvalidCertificate")
        ELSE IF faulty # {} THEN FaultyParticipantError(First(faulty))
        ELSE None

-----------------------------------------------------------------------------
(* Verifiable secret sharing *)

vssGenerate(seed, t) ==
    [i \in 1 .. t |-> taggedHashScalar("vss coeffs", <<seed, i - 1>>)]

secshares(coeffs) == [i \in Participants |-> Evaluate(coeffs, i + 1)]

commit(coeffs) == [i \in DOMAIN coeffs |-> ScalarBaseMult(coeffs[i])]

pubshare(com, i) == EvaluateExponent(com, i + 1)

vssVerifySecshare(secshare, pub) == ScalarBaseMult(secshare) = pub

-----------------------------------------------------------------------------
(* Encryption of the shares.  The context of a pad is the receiver's index *)
(* and the session parameters.                                             *)

\* Mutant: each side puts its own key first.
ecdhPadOwnFirst(seckey, my, their, ctx, sending) ==
    taggedHashScalar("encpedpop ecdh", <<ScalarMult(seckey, their), my, their, ctx>>)

ecdhPad(seckey, my, their, ctx, sending) ==
    LET shared == ScalarMult(seckey, their)
    IN  taggedHashScalar("encpedpop ecdh",
            IF sending THEN <<shared, my, their, ctx>> ELSE <<shared, their, my, ctx>>)

selfPad(symkey, nonce, ctx) ==
    taggedHashScalar("encaps_multi self_pad", <<symkey, nonce, ctx>>)

encryptMulti(secnonce, deckey, enckeys, context, idx, plaintexts) ==
    LET pubnonce == ScalarBaseMult(secnonce)
        pad(i)   == IF i = idx THEN selfPad(deckey, pubnonce, <<i, context>>)
                    ELSE ecdhPad(secnonce, pubnonce, enckeys[i], <<i, context>>, TRUE)
    IN  [i \in Participants |-> (plaintexts[i] + pad(i)) % Q]

decapsMulti(deckey, enckey, pubnonces, context, idx) ==
    [i \in Participants |->
        IF i = idx THEN selfPad(deckey, pubnonces[i], <<idx, context>>)
        ELSE ecdhPad(deckey, enckey, pubnonces[i], <<idx, context>>, FALSE)]

decryptSum(deckey, enckey, pubnonces, context, idx, sumCiphertext) ==
    (sumCiphertext - SumScalars(decapsMulti(deckey, enckey, pubnonces, context, idx))) % Q

-----------------------------------------------------------------------------
(* The messages and the transcript *)

\* The commitment, the proof of possession and the shares of a dealer.
simplPedPopParticipantStep1(seed, t, idx) ==
    LET coeffs == vssGenerate(seed, t)
        com    == commit(coeffs)
    IN  [com |-> com, pop |-> schnorrSign(com[1], idx), shares |-> secshares(coeffs)]

\* What ParticipantStep1 sends: the same with the shares encrypted.  (Those who
\* follow the code take the threshold for the number t of coefficients.)
Contribution(hostseckey, t, idx, random) ==
    LET seed     == <<hostseckey, random, params>>
        simpl    == simplPedPopParticipantStep1(seed, t, idx)
        secnonce == taggedHashScalar("encpedpop secnonce", seed)
    IN  [com       |-> simpl.com,
         pop       |-> simpl.pop,
         pubnonce  |-> ScalarBaseMult(secnonce),
         encShares |-> encryptMulti(secnonce, hostseckey, params.HostPubkeys,
                                    params, idx, simpl.shares)]

\* The sums of the commitments to the non-constant terms, for so many terms as
\* there are slots; what is missing in a shorter commitment counts as identity.
sumComsToNonconstTerms(msgs, slots) ==
    [k \in 1 .. slots |->
        SumElements([i \in Participants |->
            IF k < Len(msgs[i].com) THEN msgs[i].com[k + 1] ELSE Identity])]

\* What the coordinator makes of the messages of all participants.
Aggregate(msgs, slots) ==
    [comsToSecrets |-> [i \in Participants |-> msgs[i].com[1]],
     nonconstTerms |-> sumComsToNonconstTerms(msgs, slots),
     pops          |-> [i \in Participants |-> msgs[i].pop],
     pubnonces     |-> [i \in Participants |-> msgs[i].pubnonce],
     encSecshares  |-> [i \in Participants |->
                           SumScalars([j \in Participants |-> msgs[j].encShares[i]])]]

assembleSumComs(c) == <<SumElements(c.comsToSecrets)>> \o c.nonconstTerms

EqInput(c) ==
    [t            |-> params.Threshold,
     sumComs      |-> assembleSumComs(c),
     hostpubkeys  |-> params.HostPubkeys,
     pubnonces    |-> c.pubnonces,
     encSecshares |-> c.encSecshares]

\* The DKGOutput that a commitment to the sum of the polynomials determines.
DKGOutput(sumComs, secshare) ==
    [SecShare        |-> secshare,
     ThresholdPubkey |-> sumComs[1],
     PubShares       |-> [i \in Participants |-> pubshare(sumComs, i)]]

\* The type DKGOutput.
DKGOutputs ==
    [SecShare : Scalar, ThresholdPubkey : Element, PubShares : [Participants -> Element]]

ASSUME OutputAssumption == None \notin DKGOutputs

-----------------------------------------------------------------------------
(* Honest participants *)

\* Mutant: the error is returned but the session goes on.
FailAndGoOn(p, e) ==
    /\ error' = [error EXCEPT ![p] = e]
    /\ UNCHANGED <<params, phase, state1, pmsgs1, cmsg1, state2, pmsgs2, cmsg2, coord,
                   output, recovery>>

Fail(p, e) ==
    /\ phase' = [phase EXCEPT ![p] = "failed"]
    /\ error' = [error EXCEPT ![p] = e]
    /\ UNCHANGED <<params, state1, pmsgs1, cmsg1, state2, pmsgs2, cmsg2, coord,
                   output, recovery>>

ParticipantStep1(p) ==
    /\ phase[p] = "start"
    /\ \/ ~ ParamsValidate /\ Fail(p, Err("InvalidParams"))
       \/ /\ ParamsValidate
          /\ Positions(HostSeckeys[p], params.HostPubkeys) = {}
          /\ Fail(p, Err("HostkeyMismatch"))
       \/ /\ ParamsValidate
          /\ \E idx \in Positions(HostSeckeys[p], params.HostPubkeys), random \in Randoms :
                LET msg == Contribution(HostSeckeys[p], params.Threshold, idx, random)
                IN  /\ state1' = [state1 EXCEPT ![p] =
                                     [idx         |-> idx,
                                      comToSecret |-> msg.com[1],
                                      pubnonce    |-> msg.pubnonce]]
                    /\ pmsgs1' = [pmsgs1 EXCEPT ![idx] = msg]
          /\ phase' = [phase EXCEPT ![p] = "step1"]
          /\ UNCHANGED <<params, cmsg1, state2, pmsgs2, cmsg2, coord, output,
                         recovery, error>>

\* Mutant: the proofs of possession are verified for the own index.
FaultyContributionsOwnIdx(c, idx) ==
    {i \in Participants \ {idx} :
        \/ c.comsToSecrets[i] = Identity
        \/ ~ schnorrVerify(c.comsToSecrets[i], idx, c.pops[i])}

FaultyContributions(c, idx) ==
    {i \in Participants \ {idx} :
        \/ c.comsToSecrets[i] = Identity
        \/ ~ schnorrVerify(c.comsToSecrets[i], i, c.pops[i])}

Secshare(p, c) ==
    LET idx == state1[p].idx
    IN  decryptSum(HostSeckeys[p], params.HostPubkeys[idx], c.pubnonces, params,
                   idx, c.encSecshares[idx])

\* The first check that fails, in the order of the three layers.
Step2Error(p, c) ==
    LET s == state1[p]
    IN  IF c.pubnonces[s.idx] # s.pubnonce \/ c.comsToSecrets[s.idx] # s.comToSecret
        THEN Err("FaultyCoordinator")
        ELSE IF FaultyContributions(c, s.idx) # {}
        THEN FaultyParticipantError(First(FaultyContributions(c, s.idx)))
        ELSE IF ~ vssVerifySecshare(Secshare(p, c), pubshare(assembleSumComs(c), s.idx))
        THEN Err("FaultyParticipantOrCoord")
        ELSE None

ParticipantStep2(p) ==
    /\ phase[p] = "step1"
    /\ cmsg1[p] # None
    /\ LET c   == cmsg1[p]
           e   == Step2Error(p, c)
           idx == state1[p].idx
       IN  \/ e # None /\ Fail(p, e)
           \/ /\ e = None
              /\ state2' = [state2 EXCEPT ![p] =
                    [eqInput   |-> EqInput(c),
                     dkgOutput |-> DKGOutput(assembleSumComs(c), Secshare(p, c))]]
              /\ pmsgs2' = [pmsgs2 EXCEPT ![idx] =
                    certeqSign(HostPubkeyGen(HostSeckeys[p]), idx, EqInput(c))]
              /\ phase' = [phase EXCEPT ![p] = "step2"]
              /\ UNCHANGED <<params, state1, pmsgs1, cmsg1, cmsg2, coord, output,
                             recovery, error>>

ParticipantFinalize(p) ==
    /\ phase[p] = "step2"
    /\ cmsg2[p] # None
    /\ LET e   == state2[p].eqInput
           err == certeqVerify(params.HostPubkeys, e, cmsg2[p])
       IN  \/ err # None /\ Fail(p, err)
           \/ /\ err = None
              /\ output' = [output EXCEPT ![p] = state2[p].dkgOutput]
              /\ recovery' = [recovery EXCEPT ![p] = [eqInput |-> e, cert |-> cmsg2[p]]]
              /\ phase' = [phase EXCEPT ![p] = "done"]
              /\ UNCHANGED <<params, state1, pmsgs1, cmsg1, state2, pmsgs2, cmsg2,
                             coord, error>>

-----------------------------------------------------------------------------
(* The coordinator that follows coordinator.go *)

\* Commitments with more terms than the coordinator has slots for: the index
\* is out of range, and the coordinator panics instead of returning an error.
TooLong == {i \in Participants : Len(pmsgs1[i].com) > params.Threshold}

CoordinatorStep1 ==
    /\ coord.honest
    /\ coord.phase = "start"
    /\ \/ /\ ~ ParamsValidate
          /\ coord' = [coord EXCEPT !.phase = "failed", !.error = Err("InvalidParams")]
          /\ UNCHANGED cmsg1
       \/ /\ ParamsValidate
          /\ \A i \in Participants : pmsgs1[i] # None
          /\ \/ /\ TooLong # {}
                /\ coord' = [coord EXCEPT !.phase = "panicked"]
                /\ UNCHANGED cmsg1
             \/ /\ TooLong = {}
                /\ LET c == Aggregate(pmsgs1, params.Threshold - 1)
                   IN  /\ cmsg1' = [p \in Participants |-> c]
                       /\ coord' = [coord EXCEPT !.phase = "step1", !.eqInput = EqInput(c),
                                       !.dkgOutput = DKGOutput(assembleSumComs(c), None)]
    /\ UNCHANGED <<params, phase, state1, pmsgs1, state2, pmsgs2, cmsg2, output,
                   recovery, error>>

\* A signature of the wrong length.
ShortSig == schnorrSign(None, None)

CoordinatorFinalize ==
    /\ coord.honest
    /\ coord.phase = "step1"
    /\ \A i \in Participants : pmsgs2[i] # None
    /\ LET short == {i \in Participants : pmsgs2[i] = ShortSig}
           err   == IF short # {} THEN FaultyParticipantError(First(short))
                    ELSE certeqVerify(params.HostPubkeys, coord.eqInput, pmsgs2)
       IN  \/ /\ err # None
              /\ coord' = [coord EXCEPT !.phase = "failed", !.error = err]
              /\ UNCHANGED cmsg2
           \/ /\ err = None
              /\ cmsg2' = [p \in Participants |-> pmsgs2]
              /\ coord' = [coord EXCEPT !.phase = "done",
                              !.recovery = [eqInput |-> coord.eqInput, cert |-> pmsgs2]]
    /\ UNCHANGED <<params, phase, state1, pmsgs1, cmsg1, state2, pmsgs2, output,
                   recovery, error>>

-----------------------------------------------------------------------------
(* Participants and a coordinator that do not follow the code *)

\* A polynomial of another degree, wrong shares, the identity as commitment, a
\* wrong proof of possession.
Forge(i, random, fault) ==
    LET t   == IF fault.kind = "degree" THEN fault.err + 1 ELSE params.Threshold
        msg == Contribution(HostSeckeys[i], t, i, random)
    IN  IF fault.kind = "degree"
        THEN msg
        ELSE IF fault.kind = "shares"
        THEN [msg EXCEPT !.encShares = [j \in Participants |-> (@[j] + fault.err[j]) % Q]]
        ELSE IF fault.kind = "identity"
        THEN [msg EXCEPT !.com[1] = Identity, !.pop = schnorrSign(Identity, i)]
        ELSE [msg EXCEPT !.pop = schnorrSign(None, i)]

\* (A faulty coordinator speaks for the faulty participants.)
FaultyStep1(i) ==
    /\ coord.honest
    /\ pmsgs1[i] = None
    /\ ParamsValidate
    /\ \E random \in FaultyRandoms, fault \in Faults :
          pmsgs1' = [pmsgs1 EXCEPT ![i] = Forge(i, random, fault)]
    /\ UNCHANGED <<params, phase, state1, cmsg1, state2, pmsgs2, cmsg2, coord, output,
                   recovery, error>>

FaultyStep2(i) ==
    /\ coord.phase = "step1"
    /\ pmsgs2[i] = None
    /\ \E sig \in {certeqSign(params.HostPubkeys[i], i, coord.eqInput),
                    schnorrSign(params.HostPubkeys[i], None), ShortSig} :
          pmsgs2' = [pmsgs2 EXCEPT ![i] = sig]
    /\ UNCHANGED <<params, phase, state1, pmsgs1, cmsg1, state2, cmsg2, coord, output,
                   recovery, error>>

\* Which contributions to make up and how (at least those of silent
\* participants), and what the coordinator then aggregates.
Choices ==
    {choice \in [Participants -> {None} \cup (FaultyRandoms \X Faults)] :
        /\ \A i \in Participants : choice[i] = None => pmsgs1[i] # None
        /\ Cardinality({i \in Participants : choice[i] # None}) <= MaxForged}

Mixed(choice) ==
    [i \in Participants |-> IF choice[i] = None THEN pmsgs1[i]
                            ELSE Forge(i, choice[i][1], choice[i][2])]

\* The coordinator may replace what anybody has sent, the receiver included,
\* and send more or fewer terms: the receiver takes as many as it gets.
FaultyCoordinatorStep1(p) ==
    /\ ~ coord.honest
    /\ phase[p] = "step1"
    /\ cmsg1[p] = None
    /\ \E msgs \in {Mixed(choice) : choice \in Choices},
          slots \in Degrees \cup {params.Threshold - 1} :
          cmsg1' = [cmsg1 EXCEPT ![p] = Aggregate(msgs, slots)]
    /\ UNCHANGED <<params, phase, state1, pmsgs1, state2, pmsgs2, cmsg2, coord, output,
                   recovery, error>>

\* The transcripts the coordinator has shown, and the signatures it has for
\* one: those honest participants have made, and any of the others.
Transcripts == {EqInput(cmsg1[p]) : p \in {q \in Honest : cmsg1[q] # None}}

Certificate(eqInput) ==
    [i \in Participants |->
        IF i \in Honest THEN pmsgs2[i]
        ELSE certeqSign(params.HostPubkeys[i], i, eqInput)]

FaultyCoordinatorFinalize(p) ==
    /\ ~ coord.honest
    /\ phase[p] = "step2"
    /\ cmsg2[p] = None
    /\ \E eqInput \in Transcripts :
          cmsg2' = [cmsg2 EXCEPT ![p] = Certificate(eqInput)]
    /\ UNCHANGED <<params, phase, state1, pmsgs1, cmsg1, state2, pmsgs2, coord, output,
                   recovery, error>>

-----------------------------------------------------------------------------
(* Loss of state and recovery *)

\* What Recover returns for a host key, or for none (the coordinator).  It
\* reads t points; if there are more or fewer, what follows has the wrong
\* length, or is read from the wrong place and the certificate does not fit.
RecoverFrom(hostseckey, data) ==
    LET e      == data.eqInput
        pos    == Positions(hostseckey, e.hostpubkeys)
        idx    == First(pos)
        share  == decryptSum(hostseckey, e.hostpubkeys[idx], e.pubnonces,
                             [HostPubkeys |-> e.hostpubkeys, Threshold |-> e.t],
                             idx, e.encSecshares[idx])
        Ok(s)  == [output |-> DKGOutput(e.sumComs, s), error |-> None]
        Bad(k) == [output |-> None, error |-> Err(k)]
    IN  IF Len(e.sumComs) # e.t THEN Bad("InvalidRecoveryData")
        ELSE IF certeqVerify(e.hostpubkeys, e, data.cert) # None THEN Bad("InvalidRecoveryData")
        ELSE IF hostseckey = None THEN Ok(None)
        ELSE IF pos = {} THEN Bad("HostkeyMismatch")
        ELSE IF ~ vssVerifySecshare(share, pubshare(e.sumComs, idx))
             THEN Bad("InvalidRecoveryData")
        ELSE Ok(share)

\* Everything in memory is gone; recovery data are kept elsewhere.
Crash(p) ==
    /\ Crashes
    /\ phase[p] \notin {"start", "crashed"}
    /\ phase' = [phase EXCEPT ![p] = "crashed"]
    /\ state1' = [state1 EXCEPT ![p] = None]
    /\ state2' = [state2 EXCEPT ![p] = None]
    /\ output' = [output EXCEPT ![p] = None]
    /\ error' = [error EXCEPT ![p] = None]
    /\ UNCHANGED <<params, pmsgs1, cmsg1, pmsgs2, cmsg2, coord, recovery>>

\* Recovery data of honest participants and of the coordinator, or what a
\* coordinator that is not honest puts together.
RecoveryData ==
    ({recovery[q] : q \in Honest} \cup {coord.recovery}
     \cup (IF coord.honest THEN {}
           ELSE {[eqInput |-> e, cert |-> Certificate(e)] : e \in Transcripts})) \ {None}

Recover(p) ==
    /\ phase[p] = "crashed"
    /\ \E data \in RecoveryData :
          LET r == RecoverFrom(HostSeckeys[p], data)
          IN  /\ output' = [output EXCEPT ![p] = r.output]
              /\ error' = [error EXCEPT ![p] = r.error]
              /\ recovery' = [recovery EXCEPT ![p] = IF r.error = None THEN data ELSE @]
              /\ phase' = [phase EXCEPT ![p] = IF r.error = None THEN "done" ELSE @]
    /\ UNCHANGED <<params, state1, pmsgs1, cmsg1, state2, pmsgs2, cmsg2, coord>>

-----------------------------------------------------------------------------
(* The conversion of the outputs to signing keys.  Party IDs start at 1. *)

OutputToFROST(outputs) ==
    [public |-> NewPublic([id \in 1 .. N |-> outputs[0].PubShares[id - 1]],
                          params.Threshold),
     secretShares |-> [id \in 1 .. N |-> outputs[id - 1].SecShare]]

-----------------------------------------------------------------------------
Nobody == [p \in Participants |-> None]

Init ==
    /\ params \in [HostPubkeys : HostLists, Threshold : Thresholds]
    /\ phase = [p \in Participants |-> "start"]
    /\ state1 = Nobody /\ state2 = Nobody
    /\ pmsgs1 = Nobody /\ pmsgs2 = Nobody
    /\ cmsg1 = Nobody /\ cmsg2 = Nobody
    /\ coord \in [honest : Coordinators, phase : {"start"}, eqInput : {None},
                  dkgOutput : {None}, recovery : {None}, error : {None}]
    /\ output = Nobody /\ recovery = Nobody /\ error = Nobody

Next ==
    \/ \E p \in Honest : \/ ParticipantStep1(p)
                         \/ ParticipantStep2(p)
                         \/ ParticipantFinalize(p)
                         \/ Crash(p)
                         \/ Recover(p)
                         \/ FaultyCoordinatorStep1(p)
                         \/ FaultyCoordinatorFinalize(p)
    \/ CoordinatorStep1
    \/ CoordinatorFinalize
    \/ \E i \in Participants \ Honest : FaultyStep1(i) \/ FaultyStep2(i)

Spec == Init /\ [][Next]_vars

-----------------------------------------------------------------------------
(* Properties *)

\* Types: a participant has an output exactly when it is done, and an error
\* only after a step or a recovery has failed.
DKGTypeOK ==
    /\ phase \in [Participants -> {"start", "step1", "step2", "done", "failed", "crashed"}]
    /\ coord.phase \in {"start", "step1", "done", "failed", "panicked"}
    /\ \A p \in Participants :
          /\ phase[p] = "done" <=> output[p] # None
          /\ error[p] # None => phase[p] \in {"failed", "crashed"}

\* Whatever the coordinator shows to whom, all honest participants that
\* ParticipantFinalize or Recover gave an output have the same transcript, the
\* same group key and the same public shares.
Agreement ==
    \A p, q \in Honest :
        output[p] # None /\ output[q] # None =>
            /\ output[p].ThresholdPubkey = output[q].ThresholdPubkey
            /\ output[p].PubShares = output[q].PubShares
            /\ recovery[p].eqInput = recovery[q].eqInput

\* Recovery needs as many commitments in the transcript as the threshold says.
\* Nobody counts them when signing, so a coordinator that does not follow the
\* code may have the participants finalise a transcript with more or fewer, and
\* Recover then refuses it for everybody.  Otherwise, and always if the
\* coordinator follows the code, every honest participant gets from the
\* recovery data of any honest one that has finalised and from its own host key
\* a share for the same group key, and the very share that it computed itself
\* in ParticipantStep2 if it still has it; without a host key the public part
\* comes back.
Recoverable ==
    \A q \in {h \in Honest : recovery[h] # None} :
        LET complete == Len(recovery[q].eqInput.sumComs) = params.Threshold
        IN  /\ coord.honest => complete
            /\ \A p \in Honest :
                  LET r == RecoverFrom(HostSeckeys[p], recovery[q])
                  IN  /\ r.error = None <=> complete
                      /\ complete /\ state2[p] # None => r.output = state2[p].dkgOutput
            /\ RecoverFrom(None, recovery[q]).error = None <=> complete

\* A key that an honest participant accepts can be used by as many signers as
\* its transcript has commitments: its own share belongs to its public share,
\* that many public shares, whichever, interpolate to the group key, and so does
\* the group key that NewPublic computes from all of them; NewPublic refuses the
\* outputs just when t = n.  If the coordinator follows the code, t signers are
\* enough; one that does not may raise the number, since nobody compares it with
\* the threshold.
UsableKey ==
    \A p \in {h \in Honest : output[h] # None} :
        LET out    == output[p]
            needed == Len(recovery[p].eqInput.sumComs)
            shares == [id \in 1 .. N |-> out.PubShares[id - 1]]
            public == NewPublic(shares, params.Threshold)
        IN  /\ ScalarBaseMult(out.SecShare) = out.PubShares[p]
            /\ coord.honest => needed = params.Threshold
            /\ \A C \in SUBSET (1 .. N) : Cardinality(C) >= needed =>
                  computeGroupKey(C, shares) = out.ThresholdPubkey
            /\ IF params.Threshold = N THEN public = None
               ELSE needed <= N => public.GroupKey = out.ThresholdPubkey

\* With an honest coordinator neither it nor an honest participant is accused
\* by the checks of ParticipantStep2, ParticipantFinalize and
\* CoordinatorFinalize.
DKGBlameSound ==
    coord.honest =>
        \A e \in {error[p] : p \in Honest} \cup {coord.error} : e # None =>
            /\ e.kind # "FaultyCoordinator"
            /\ e.kind = "FaultyParticipant" => e.index \in Participants \ Honest

\* README.md: t is the number of parties that may be corrupted and the
\* polynomials have degree t.  Then the shares of t parties are compatible with
\* every group secret.
TSharesHideKey ==
    \A C \in SUBSET Honest :
        Cardinality(C) = params.Threshold /\ (\A i \in C : output[i] # None) =>
            \A p \in C, s \in Scalar :
                \E coeffs \in [1 .. Len(recovery[p].eqInput.sumComs) -> Scalar] :
                    /\ coeffs[1] = s
                    /\ \A i \in C : Evaluate(coeffs, i + 1) = output[i].SecShare
=============================================================================

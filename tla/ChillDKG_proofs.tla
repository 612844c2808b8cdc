---------------------------- MODULE ChillDKG_proofs ----------------------------
(***************************************************************************)
(* Agreement and recoverability of ChillDKG for every number of            *)
(* participants, threshold, group and hash, whatever the coordinator and   *)
(* the faulty participants send.                                           *)
(*                                                                         *)
(* Both rest on the certificate: an honest participant signs one           *)
(* transcript only, and only after it has checked that its own share can   *)
(* be decrypted from this very transcript (SignedOnce, SignedChecked);     *)
(* nobody gets a signature of an honest participant that it has not made   *)
(* (Genuine), and a certificate needs all of them.                         *)
(***************************************************************************)
EXTENDS ChillDKG, Group_proofs

\* The share that a transcript holds for participant p, which is at position p.
ShareIn(e, p) ==
    decryptSum(HostSeckeys[p], e.hostpubkeys[p], e.pubnonces,
               [HostPubkeys |-> e.hostpubkeys, Threshold |-> e.t], p, e.encSecshares[p])

Checked(p, e) ==
    /\ e.t = params.Threshold /\ e.hostpubkeys = params.HostPubkeys
    /\ Positions(HostSeckeys[p], e.hostpubkeys) = {p}
    /\ vssVerifySecshare(ShareIn(e, p), pubshare(e.sumComs, p))

IsMap(f) == f = [p \in Participants |-> f[p]]

Maps ==
    /\ IsMap(phase) /\ IsMap(state1) /\ IsMap(state2) /\ IsMap(pmsgs2)
    /\ IsMap(cmsg2) /\ IsMap(output) /\ IsMap(recovery)
    /\ params \in [HostPubkeys : HostLists, Threshold : Thresholds]
    /\ coord = [honest |-> coord.honest, phase |-> coord.phase, eqInput |-> coord.eqInput,
                dkgOutput |-> coord.dkgOutput, recovery |-> coord.recovery,
                error |-> coord.error]

\* A participant knows its position.
Numbered ==
    \A p \in Honest : phase[p] = "step1" =>
        state1[p].idx = p /\ Positions(HostSeckeys[p], params.HostPubkeys) = {p}

\* Nothing is signed before ParticipantStep2, which happens once.
SignedOnce ==
    \A p \in Honest : phase[p] \in {"start", "step1"} => pmsgs2[p] = None

\* What is signed has been checked ...
SignedChecked ==
    \A p \in Honest : pmsgs2[p] # None =>
        /\ pmsgs2[p] = [pk |-> pmsgs2[p].pk, msg |-> <<p, pmsgs2[p].msg[2]>>]
        /\ Checked(p, pmsgs2[p].msg[2])

\* ... and is what the participant remembers.
Remembered ==
    \A p \in Honest : state2[p] # None \/ phase[p] = "step2" =>
        LET e == state2[p].eqInput
        IN  /\ e.hostpubkeys = params.HostPubkeys
            /\ pmsgs2[p] = certeqSign(HostPubkeyGen(HostSeckeys[p]), p, e)
            /\ state2[p].dkgOutput = DKGOutput(e.sumComs, ShareIn(e, p))

\* Signatures of honest participants come from them.
Genuine(sigs, cert) == \A q \in Honest : cert[q] = None \/ cert[q] = sigs[q]

CertsGenuine ==
    /\ \A p \in Honest : cmsg2[p] # None => Genuine(pmsgs2, cmsg2[p])
    /\ coord.recovery # None => Genuine(pmsgs2, coord.recovery.cert)

Valid(sigs, data) ==
    /\ certeqVerify(data.eqInput.hostpubkeys, data.eqInput, data.cert) = None
    /\ Genuine(sigs, data.cert)

\* Recovery data are complete, and an output is what they determine.
Finalised ==
    \A p \in Honest :
        /\ recovery[p] # None => Valid(pmsgs2, recovery[p])
        /\ output[p] # None =>
              /\ Valid(pmsgs2, recovery[p])
              /\ output[p] = DKGOutput(recovery[p].eqInput.sumComs,
                                       ShareIn(recovery[p].eqInput, p))

\* The inductive invariant.
DKGInv ==
    /\ Maps /\ Numbered /\ SignedOnce /\ SignedChecked /\ Remembered
    /\ CertsGenuine /\ Finalised

-----------------------------------------------------------------------------
(* Facts about certificates and recovery *)

\* The first of several participants, as loops over the participants find it.
LEMMA FirstIn ==
    ASSUME NEW S \in SUBSET Participants, S # {}
    PROVE  First(S) \in S
<1> DEFINE R == OpToRel(<, Nat)
<1>1. S \subseteq Nat
    BY ChillAssumption DEF Participants
<1>2. IsWellFoundedOn(R, Nat)
    BY NatLessThanWellFounded, Zenon
<1>3. \A x, y \in Nat : x < y => <<x, y>> \in R
    BY DEF OpToRel
<1> HIDE DEF R
<1>4. PICK x \in S : \A y \in S : ~ (<<y, x>> \in R)
    BY <1>1, <1>2, WFMin
<1>5. ASSUME NEW y \in S PROVE x <= y
    <2>1. x \in Nat /\ y \in Nat
        BY <1>1
    <2>2. ~ (y < x)
        BY <1>3, <1>4, <2>1, Zenon
    <2>3. QED
        BY <2>1, <2>2
<1>6. QED
    BY <1>5 DEF First

\* A certificate that certeqVerify accepts has the signature of everybody on
\* the transcript.
LEMMA CertificateComplete ==
    ASSUME NEW keys, NEW e, NEW cert, certeqVerify(keys, e, cert) = None
    PROVE  \A i \in Participants :
               cert[i] # None /\ cert[i] = [pk |-> keys[i], msg |-> <<i, e>>]
<1> DEFINE faulty == {i \in Participants :
        ~ schnorrVerify(keys[i], certeqMessage(e, i), cert[i])}
<1>1. Err("InvalidCertificate") # None
    BY ErrorAssumption DEF Err, Errors, ErrorKinds
<1>2. \A i \in Participants : cert[i] # None
    BY <1>1 DEF certeqVerify
<1>3. faulty = {}
    <2>1. SUFFICES ASSUME faulty # {} PROVE FALSE
        OBVIOUS
    <2>2. First(faulty) \in Participants
        BY <2>1, FirstIn
    <2>3. FaultyParticipantError(First(faulty)) # None
        BY <2>2, ErrorAssumption DEF FaultyParticipantError, Errors, ErrorKinds
    <2>4. QED
        BY <1>2, <2>1, <2>3 DEF certeqVerify
<1>4. QED
    BY <1>2, <1>3 DEF schnorrVerify, schnorrSign, certeqMessage

\* What an honest participant has signed is the transcript of every
\* certificate that is complete.
LEMMA SignedIsCertified ==
    ASSUME DKGInv, NEW data, Valid(pmsgs2, data), NEW p \in Honest
    PROVE  /\ pmsgs2[p] # None
           /\ pmsgs2[p] = [pk |-> data.eqInput.hostpubkeys[p], msg |-> <<p, data.eqInput>>]
           /\ pmsgs2[p].msg[2] = data.eqInput
           /\ Checked(p, data.eqInput)
<1>1. p \in Participants
    BY ChillAssumption
<1>2. data.cert[p] # None /\ data.cert[p] = [pk |-> data.eqInput.hostpubkeys[p], msg |-> <<p, data.eqInput>>]
    BY <1>1, CertificateComplete DEF Valid
<1>3. pmsgs2[p] = data.cert[p]
    BY <1>2 DEF Valid, Genuine
<1>4. pmsgs2[p].msg[2] = data.eqInput
    BY <1>2, <1>3
<1>5. QED
    BY <1>2, <1>3, <1>4 DEF DKGInv, SignedChecked

\* Recover succeeds with complete data, and returns the share they hold.
LEMMA RecoverSucceeds ==
    ASSUME DKGInv, NEW data, Valid(pmsgs2, data), NEW p \in Honest,
           Len(data.eqInput.sumComs) = data.eqInput.t
    PROVE  RecoverFrom(HostSeckeys[p], data) =
             [output |-> DKGOutput(data.eqInput.sumComs, ShareIn(data.eqInput, p)),
              error |-> None]
<1> DEFINE e == data.eqInput
<1>1. Checked(p, e)
    BY SignedIsCertified
<1>2. HostSeckeys[p] # None
    BY ChillAssumption, GroupAssumption DEF Scalar
<1>3. Positions(HostSeckeys[p], e.hostpubkeys) = {p}
    BY <1>1 DEF Checked
<1>4. First({p}) = p
    <2>1. {p} \in SUBSET Participants /\ {p} # {}
        BY ChillAssumption
    <2>2. First({p}) \in {p}
        BY ONLY <2>1, FirstIn
    <2>3. QED
        BY <2>2
<1>5. QED
    BY <1>1, <1>2, <1>3, <1>4 DEF RecoverFrom, Valid, Checked, ShareIn

\* ... and whenever it succeeds the transcript and the certificate were complete.
LEMMA RecoverVerifies ==
    ASSUME NEW key, NEW data, RecoverFrom(key, data).error = None
    PROVE  /\ Len(data.eqInput.sumComs) = data.eqInput.t
           /\ certeqVerify(data.eqInput.hostpubkeys, data.eqInput, data.cert) = None
<1>1. /\ Err("InvalidRecoveryData") # None
      /\ Err("HostkeyMismatch") # None
    BY ErrorAssumption DEF Err, Errors, ErrorKinds
<1>2. QED
    BY <1>1 DEF RecoverFrom


\* ... and when it does not, it returns nothing.
LEMMA RecoverFails ==
    ASSUME NEW key, NEW data, RecoverFrom(key, data).error # None
    PROVE  RecoverFrom(key, data).output = None
BY DEF RecoverFrom

\* A signature that an honest participant has made stays in its place, and so a
\* certificate stays genuine.
LEMMA GenuineStays ==
    ASSUME NEW old, NEW new, NEW cert, Genuine(old, cert),
           \A q \in Honest : old[q] = None \/ new[q] = old[q]
    PROVE  Genuine(new, cert)
BY DEF Genuine

-----------------------------------------------------------------------------
(* The invariant is inductive *)

\* Initially nothing has been signed.
LEMMA DKGInit == Init => DKGInv
<1> SUFFICES ASSUME Init PROVE DKGInv
    OBVIOUS
<1> USE ChillAssumption
<1>1. Maps
    BY DEF Init, Maps, IsMap, Nobody
<1>2. Numbered /\ SignedOnce /\ SignedChecked
    BY DEF Init, Nobody, Numbered, SignedOnce, SignedChecked
<1>3. Remembered
    BY DEF Init, Nobody, Remembered
<1>4. CertsGenuine /\ Finalised
    BY DEF Init, Nobody, CertsGenuine, Finalised
<1>5. QED
    BY <1>1, <1>2, <1>3, <1>4 DEF DKGInv

\* A participant that gives up keeps what it has sent.
LEMMA FailInv ==
    ASSUME DKGInv, NEW p \in Honest, \E e : Fail(p, e)
    PROVE  DKGInv'
<1> USE DEF DKGInv, Fail
<1>0. p \in Participants
    BY ChillAssumption
<1>1. /\ phase'[p] = "failed"
      /\ \A q \in Honest \ {p} : phase'[q] = phase[q]
    BY <1>0, ChillAssumption DEF Maps, IsMap
<1>2. Maps'
    BY <1>0 DEF Maps, IsMap
<1>3. Numbered'
    BY <1>1 DEF Numbered
<1>4. SignedOnce' /\ SignedChecked'
    BY <1>1 DEF SignedOnce, SignedChecked, Checked
<1>5. Remembered'
    BY <1>1 DEF Remembered
<1>6. CertsGenuine' /\ Finalised'
    BY DEF CertsGenuine, Finalised
<1>7. QED
    BY <1>2, <1>3, <1>4, <1>5, <1>6

\* A participant finds itself at the position of its number.
LEMMA Step1Inv ==
    ASSUME DKGInv, NEW p \in Honest, ParticipantStep1(p)
    PROVE  DKGInv'
<1> USE DEF DKGInv
<1>0. p \in Participants
    BY ChillAssumption
<1>1. CASE \E e : Fail(p, e)
    BY <1>1, FailInv
<1>2. CASE ~ \E e : Fail(p, e)
    <2>1. PICK idx \in Positions(HostSeckeys[p], params.HostPubkeys), random \in Randoms :
              /\ state1' = [state1 EXCEPT ![p] =
                     [idx         |-> idx,
                      comToSecret |-> Contribution(HostSeckeys[p], params.Threshold, idx,
                                                   random).com[1],
                      pubnonce    |-> Contribution(HostSeckeys[p], params.Threshold, idx,
                                                   random).pubnonce]]
              /\ ParamsValidate
              /\ phase[p] = "start"
              /\ phase' = [phase EXCEPT ![p] = "step1"]
              /\ UNCHANGED <<params, cmsg1, state2, pmsgs2, cmsg2, coord, output,
                             recovery, error>>
        BY <1>2 DEF ParticipantStep1
    <2>2. /\ phase'[p] = "step1" /\ state1'[p].idx = idx
          /\ \A q \in Honest \ {p} : phase'[q] = phase[q] /\ state1'[q] = state1[q]
        BY <1>0, <2>1, ChillAssumption DEF Maps, IsMap
    <2>3. \A i \in Positions(HostSeckeys[p], params.HostPubkeys) : i = p
        BY <1>0, <2>1, ListAssumption DEF Maps, ParamsValidate, Positions
    <2>4. Maps'
        BY <1>0, <2>1 DEF Maps, IsMap
    <2>5. Numbered'
        BY <2>1, <2>2, <2>3 DEF Numbered
    <2>6. SignedOnce'
        BY <2>1, <2>2 DEF SignedOnce
    <2>7. SignedChecked'
        BY <2>1 DEF SignedChecked, Checked
    <2>8. Remembered'
        BY <2>1, <2>2 DEF Remembered
    <2>9. CertsGenuine' /\ Finalised'
        BY <2>1 DEF CertsGenuine, Finalised
    <2>10. QED
        BY <2>4, <2>5, <2>6, <2>7, <2>8, <2>9
<1>3. QED
    BY <1>1, <1>2

\* ParticipantStep2 signs only a transcript that holds its share.
LEMMA Step2Checks ==
    ASSUME DKGInv, NEW p \in Honest, phase[p] = "step1", Step2Error(p, cmsg1[p]) = None
    PROVE  /\ Checked(p, EqInput(cmsg1[p]))
           /\ Secshare(p, cmsg1[p]) = ShareIn(EqInput(cmsg1[p]), p)
<1> DEFINE c == cmsg1[p]
<1>1. /\ state1[p].idx = p
      /\ Positions(HostSeckeys[p], params.HostPubkeys) = {p}
    BY DEF DKGInv, Numbered
<1>2. Err("FaultyCoordinator") # None /\ Err("FaultyParticipantOrCoord") # None
    BY ErrorAssumption DEF Err, Errors, ErrorKinds
<1>3. FaultyContributions(c, p) = {}
    <2>1. SUFFICES ASSUME FaultyContributions(c, p) # {} PROVE FALSE
        OBVIOUS
    <2>2. First(FaultyContributions(c, p)) \in Participants
        BY <2>1, FirstIn DEF FaultyContributions
    <2>3. FaultyParticipantError(First(FaultyContributions(c, p))) # None
        BY <2>2, ErrorAssumption DEF FaultyParticipantError, Errors, ErrorKinds
    <2>4. QED
        BY <1>1, <1>2, <2>1, <2>3 DEF Step2Error
<1>4. vssVerifySecshare(Secshare(p, c), pubshare(assembleSumComs(c), p))
    BY <1>1, <1>2, <1>3 DEF Step2Error
<1>5. params = [HostPubkeys |-> params.HostPubkeys, Threshold |-> params.Threshold]
    BY DEF DKGInv, Maps
<1>6. Secshare(p, c) = ShareIn(EqInput(c), p)
    BY <1>1, <1>5 DEF Secshare, ShareIn, EqInput
<1>7. QED
    BY <1>1, <1>4, <1>6 DEF Checked, EqInput

\* ParticipantStep2 signs for the first time.
LEMMA Step2Inv ==
    ASSUME DKGInv, NEW p \in Honest, ParticipantStep2(p)
    PROVE  DKGInv'
<1> USE DEF DKGInv
<1> DEFINE e   == EqInput(cmsg1[p])
           sig == certeqSign(HostPubkeyGen(HostSeckeys[p]), p, e)
<1>0. p \in Participants /\ phase[p] = "step1"
    BY ChillAssumption DEF ParticipantStep2
<1>1. CASE \E err : Fail(p, err)
    BY <1>1, FailInv
<1>2. CASE ~ \E err : Fail(p, err)
    <2>1. state1[p].idx = p /\ pmsgs2[p] = None
        BY <1>0 DEF Numbered, SignedOnce
    <2>2. /\ Step2Error(p, cmsg1[p]) = None
          /\ state2' = [state2 EXCEPT ![p] =
                [eqInput   |-> e,
                 dkgOutput |-> DKGOutput(assembleSumComs(cmsg1[p]), Secshare(p, cmsg1[p]))]]
          /\ pmsgs2' = [pmsgs2 EXCEPT ![p] = sig]
          /\ phase' = [phase EXCEPT ![p] = "step2"]
          /\ UNCHANGED <<params, state1, pmsgs1, cmsg1, cmsg2, coord, output,
                         recovery, error>>
        BY <1>2, <2>1 DEF ParticipantStep2
    <2>3. Checked(p, e) /\ Secshare(p, cmsg1[p]) = ShareIn(e, p)
        BY <1>0, <2>2, Step2Checks
    <2> HIDE DEF e
    <2>4. /\ phase'[p] = "step2" /\ pmsgs2'[p] = sig
          /\ state2'[p] = [eqInput |-> e,
                 dkgOutput |-> DKGOutput(assembleSumComs(cmsg1[p]), Secshare(p, cmsg1[p]))]
          /\ \A q \in Honest \ {p} : /\ phase'[q] = phase[q]
                                     /\ pmsgs2'[q] = pmsgs2[q]
                                     /\ state2'[q] = state2[q]
        BY <1>0, <2>2, ChillAssumption DEF Maps, IsMap
    <2>5. \A q \in Honest : pmsgs2[q] = None \/ pmsgs2'[q] = pmsgs2[q]
        BY <2>1, <2>4
    <2>6. \A cert : Genuine(pmsgs2, cert) => Genuine(pmsgs2', cert)
        BY <2>5, GenuineStays
    <2>7. Maps'
        BY <1>0, <2>2 DEF Maps, IsMap
    <2>8. Numbered' /\ SignedOnce'
        BY <2>2, <2>4 DEF Numbered, SignedOnce
    <2>9. SignedChecked'
        BY <2>2, <2>3, <2>4 DEF SignedChecked, Checked, certeqSign, schnorrSign, certeqMessage
    <2>10. Remembered'
        <3>1. DKGOutput(assembleSumComs(cmsg1[p]), Secshare(p, cmsg1[p]))
                = DKGOutput(e.sumComs, ShareIn(e, p))
            BY <2>3 DEF e, EqInput
        <3>2. QED
            BY <2>2, <2>3, <2>4, <3>1 DEF Remembered, Checked
    <2>11. CertsGenuine'
        BY <2>2, <2>6 DEF CertsGenuine
    <2>12. Finalised'
        BY <2>2, <2>6 DEF Finalised, Valid
    <2>13. QED
        BY <2>7, <2>8, <2>9, <2>10, <2>11, <2>12
<1>3. QED
    BY <1>1, <1>2

\* ParticipantFinalize keeps the certificate it has verified.
LEMMA FinalizeInv ==
    ASSUME DKGInv, NEW p \in Honest, ParticipantFinalize(p)
    PROVE  DKGInv'
<1> USE DEF DKGInv
<1> DEFINE e == state2[p].eqInput
<1>0. p \in Participants /\ phase[p] = "step2" /\ cmsg2[p] # None
    BY ChillAssumption DEF ParticipantFinalize
<1>1. CASE \E err : Fail(p, err)
    BY <1>1, FailInv
<1>2. CASE ~ \E err : Fail(p, err)
    <2>1. /\ certeqVerify(params.HostPubkeys, e, cmsg2[p]) = None
          /\ output' = [output EXCEPT ![p] = state2[p].dkgOutput]
          /\ recovery' = [recovery EXCEPT ![p] = [eqInput |-> e, cert |-> cmsg2[p]]]
          /\ phase' = [phase EXCEPT ![p] = "done"]
          /\ UNCHANGED <<params, state1, pmsgs1, cmsg1, state2, pmsgs2, cmsg2,
                         coord, error>>
        BY <1>2 DEF ParticipantFinalize
    <2>2. /\ phase'[p] = "done" /\ output'[p] = state2[p].dkgOutput
          /\ recovery'[p] = [eqInput |-> e, cert |-> cmsg2[p]]
          /\ \A q \in Honest \ {p} : /\ phase'[q] = phase[q]
                                     /\ output'[q] = output[q]
                                     /\ recovery'[q] = recovery[q]
        BY <1>0, <2>1, ChillAssumption DEF Maps, IsMap
    <2>3. /\ e.hostpubkeys = params.HostPubkeys
          /\ state2[p].dkgOutput = DKGOutput(e.sumComs, ShareIn(e, p))
        BY <1>0 DEF Remembered
    <2>4. Genuine(pmsgs2, cmsg2[p])
        BY <1>0 DEF CertsGenuine
    <2>5. Maps'
        BY <1>0, <2>1 DEF Maps, IsMap
    <2>6. Numbered' /\ SignedOnce' /\ SignedChecked' /\ CertsGenuine'
        BY <2>1, <2>2 DEF Numbered, SignedOnce, SignedChecked, Checked, CertsGenuine
    <2>7. Remembered'
        BY <2>1, <2>2 DEF Remembered
    <2>8. Finalised'
        <3>1. Valid(pmsgs2, recovery'[p])
            BY <2>1, <2>2, <2>3, <2>4 DEF Valid
        <3>2. output'[p] = DKGOutput(e.sumComs, ShareIn(e, p))
            BY <2>2, <2>3
        <3>3. QED
            BY <2>1, <2>2, <3>1, <3>2 DEF Finalised
    <2>9. QED
        BY <2>5, <2>6, <2>7, <2>8
<1>3. QED
    BY <1>1, <1>2

\* A crash loses what is in memory, not what has been sent or stored.
LEMMA CrashInv ==
    ASSUME DKGInv, NEW p \in Honest, Crash(p)
    PROVE  DKGInv'
<1> USE DEF DKGInv, Crash
<1>0. p \in Participants
    BY ChillAssumption
<1>1. /\ phase'[p] = "crashed" /\ state2'[p] = None /\ output'[p] = None
      /\ \A q \in Honest \ {p} : /\ phase'[q] = phase[q] /\ state1'[q] = state1[q]
                                 /\ state2'[q] = state2[q] /\ output'[q] = output[q]
    BY <1>0, ChillAssumption DEF Maps, IsMap
<1>2. Maps'
    BY <1>0 DEF Maps, IsMap
<1>3. Numbered' /\ SignedOnce' /\ SignedChecked' /\ CertsGenuine'
    BY <1>1 DEF Numbered, SignedOnce, SignedChecked, Checked, CertsGenuine
<1>4. Remembered'
    BY <1>1 DEF Remembered
<1>5. Finalised'
    BY <1>1 DEF Finalised
<1>6. QED
    BY <1>2, <1>3, <1>4, <1>5

\* Recover accepts only data with a complete certificate, whoever they are from.
LEMMA RecoverInv ==
    ASSUME DKGInv, NEW p \in Honest, Recover(p)
    PROVE  DKGInv'
<1> USE DEF DKGInv
<1>0. p \in Participants /\ phase[p] = "crashed"
    BY ChillAssumption DEF Recover
<1>1. PICK data \in RecoveryData :
          LET r == RecoverFrom(HostSeckeys[p], data)
          IN  /\ output' = [output EXCEPT ![p] = r.output]
              /\ error' = [error EXCEPT ![p] = r.error]
              /\ recovery' = [recovery EXCEPT ![p] = IF r.error = None THEN data ELSE @]
              /\ phase' = [phase EXCEPT ![p] = IF r.error = None THEN "done" ELSE @]
    BY DEF Recover
<1> DEFINE r == RecoverFrom(HostSeckeys[p], data)
<1>2. UNCHANGED <<params, state1, pmsgs1, cmsg1, state2, pmsgs2, cmsg2, coord>>
    BY DEF Recover
<1> HIDE DEF r
<1>3. /\ output'[p] = r.output
      /\ recovery'[p] = (IF r.error = None THEN data ELSE recovery[p])
      /\ phase'[p] \in {"done", "crashed"}
      /\ \A q \in Honest \ {p} : /\ phase'[q] = phase[q] /\ output'[q] = output[q]
                                 /\ recovery'[q] = recovery[q]
    BY <1>0, <1>1, ChillAssumption DEF Maps, IsMap, r
<1>4. Genuine(pmsgs2, data.cert)
    <2>1. CASE \E q \in Honest : data = recovery[q] /\ recovery[q] # None
        BY <2>1 DEF Finalised, Valid
    <2>2. CASE data = coord.recovery /\ coord.recovery # None
        BY <2>2 DEF CertsGenuine
    <2>3. CASE \E e \in Transcripts : data = [eqInput |-> e, cert |-> Certificate(e)]
        BY <2>3, ChillAssumption DEF Genuine, Certificate
    <2>4. QED
        BY <2>1, <2>2, <2>3 DEF RecoveryData
<1>5. Maps'
    BY <1>0, <1>1, <1>2 DEF Maps, IsMap
<1>6. Numbered' /\ SignedOnce' /\ SignedChecked' /\ CertsGenuine'
    BY <1>2, <1>3 DEF Numbered, SignedOnce, SignedChecked, Checked, CertsGenuine
<1>7. Remembered'
    BY <1>2, <1>3 DEF Remembered
<1>8. Finalised'
    <2>1. CASE r.error = None
        <3>1. Valid(pmsgs2, data) /\ Len(data.eqInput.sumComs) = data.eqInput.t
            BY <1>4, <2>1, RecoverVerifies DEF Valid, r
        <3>2. r.output = DKGOutput(data.eqInput.sumComs, ShareIn(data.eqInput, p))
            <4>1. RecoverFrom(HostSeckeys[p], data) =
                    [output |-> DKGOutput(data.eqInput.sumComs, ShareIn(data.eqInput, p)),
                     error |-> None]
                BY <3>1, RecoverSucceeds
            <4>2. QED
                BY <4>1 DEF r
        <3>3. output'[p] = DKGOutput(data.eqInput.sumComs, ShareIn(data.eqInput, p))
            BY <1>3, <3>2
        <3>4. QED
            BY <1>2, <1>3, <2>1, <3>1, <3>3 DEF Finalised
    <2>2. CASE r.error # None
        <3>1. r.output = None
            BY <2>2, RecoverFails DEF r
        <3>2. QED
            BY <1>2, <1>3, <2>2, <3>1 DEF Finalised
    <2>3. QED
        BY <2>1, <2>2
<1>9. QED
    BY <1>5, <1>6, <1>7, <1>8

\* The steps of the coordinator, honest or not, and of faulty participants put
\* no signature of an honest participant where it was not.
LEMMA OthersInv ==
    ASSUME DKGInv,
           \/ \E p \in Honest : FaultyCoordinatorStep1(p) \/ FaultyCoordinatorFinalize(p)
           \/ CoordinatorStep1 \/ CoordinatorFinalize
           \/ \E i \in Participants \ Honest : FaultyStep1(i) \/ FaultyStep2(i)
    PROVE  DKGInv'
<1> USE DEF DKGInv
<1>1. UNCHANGED <<params, phase, state1, state2, output, recovery>>
    BY DEF FaultyCoordinatorStep1, FaultyCoordinatorFinalize, CoordinatorStep1,
           CoordinatorFinalize, FaultyStep1, FaultyStep2
<1>2. /\ \A q \in Honest : pmsgs2'[q] = pmsgs2[q]
      /\ IsMap(pmsgs2)'
    BY ChillAssumption
    DEF FaultyCoordinatorStep1, FaultyCoordinatorFinalize, CoordinatorStep1,
        CoordinatorFinalize, FaultyStep1, FaultyStep2, Maps, IsMap
<1>3. \A cert : Genuine(pmsgs2, cert) => Genuine(pmsgs2', cert)
    BY <1>2 DEF Genuine
<1>4. Maps' /\ CertsGenuine'
    <2>1. CASE \E p \in Honest : FaultyCoordinatorFinalize(p)
        <3>1. PICK p \in Honest, eqInput \in Transcripts :
                  /\ cmsg2' = [cmsg2 EXCEPT ![p] = Certificate(eqInput)]
                  /\ UNCHANGED <<coord, pmsgs2>>
            BY <2>1 DEF FaultyCoordinatorFinalize
        <3>2. Genuine(pmsgs2', Certificate(eqInput))
            BY <3>1, ChillAssumption DEF Genuine, Certificate
        <3>3. \A q \in Honest : cmsg2'[q] = cmsg2[q] \/ cmsg2'[q] = Certificate(eqInput)
            BY <3>1, ChillAssumption DEF Maps, IsMap
        <3>4. QED
            BY <1>1, <1>2, <1>3, <3>1, <3>2, <3>3, ChillAssumption DEF Maps, IsMap, CertsGenuine
    <2>2. CASE CoordinatorFinalize
        <3>1. /\ UNCHANGED pmsgs2
              /\ \/ UNCHANGED cmsg2 /\ coord'.recovery = coord.recovery
                 \/ /\ cmsg2' = [p \in Participants |-> pmsgs2]
                    /\ coord'.recovery = [eqInput |-> coord.eqInput, cert |-> pmsgs2]
              /\ coord' = [honest |-> coord'.honest, phase |-> coord'.phase,
                           eqInput |-> coord'.eqInput,
                           dkgOutput |-> coord'.dkgOutput, recovery |-> coord'.recovery,
                           error |-> coord'.error]
            BY <2>2 DEF CoordinatorFinalize, Maps
        <3>2. Genuine(pmsgs2, pmsgs2)
            BY DEF Genuine
        <3>3. CertsGenuine'
            BY <3>1, <3>2, ChillAssumption DEF CertsGenuine
        <3>4. QED
            BY <1>1, <1>2, <3>1, <3>3 DEF Maps, IsMap
    <2>3. CASE CoordinatorStep1
        <3>1. /\ UNCHANGED <<cmsg2, pmsgs2>> /\ coord'.recovery = coord.recovery
              /\ coord' = [honest |-> coord'.honest, phase |-> coord'.phase,
                           eqInput |-> coord'.eqInput,
                           dkgOutput |-> coord'.dkgOutput, recovery |-> coord'.recovery,
                           error |-> coord'.error]
            BY <2>3 DEF CoordinatorStep1, Maps
        <3>2. QED
            BY <1>1, <1>2, <3>1 DEF Maps, IsMap, CertsGenuine
    <2>4. CASE \/ \E p \in Honest : FaultyCoordinatorStep1(p)
               \/ \E i \in Participants \ Honest : FaultyStep1(i) \/ FaultyStep2(i)
        <3>1. UNCHANGED <<cmsg2, coord>>
            BY <2>4 DEF FaultyCoordinatorStep1, FaultyStep1, FaultyStep2
        <3>2. QED
            BY <1>1, <1>2, <1>3, <3>1 DEF Maps, IsMap, CertsGenuine
    <2>5. QED
        BY <2>1, <2>2, <2>3, <2>4
<1>5. Numbered' /\ SignedOnce' /\ SignedChecked'
    BY <1>1, <1>2 DEF Numbered, SignedOnce, SignedChecked, Checked
<1>6. Remembered'
    BY <1>1, <1>2 DEF Remembered
<1>7. Finalised'
    BY <1>1, <1>3 DEF Finalised, Valid
<1>8. QED
    BY <1>4, <1>5, <1>6, <1>7

-----------------------------------------------------------------------------
(* The theorems *)

\* The invariant holds in every state that the protocol reaches.
THEOREM DKGInvariant == Spec => []DKGInv
<1>1. ASSUME DKGInv, [Next]_vars PROVE DKGInv'
    <2>1. CASE Next
        BY <1>1, <2>1, Step1Inv, Step2Inv, FinalizeInv, CrashInv, RecoverInv, OthersInv
        DEF Next
    <2>2. CASE UNCHANGED vars
        BY <1>1, <2>2 DEF vars, DKGInv, Maps, IsMap, Numbered, SignedOnce, SignedChecked,
            Checked, Remembered, CertsGenuine, Finalised
    <2>3. QED
        BY <1>1, <2>1, <2>2
<1>2. QED
    BY <1>1, DKGInit, PTL DEF Spec

\* All honest participants that ParticipantFinalize or Recover gave an output
\* have the same group key, public shares and transcript, for every number of
\* participants, every hash and every behaviour of the coordinator.
THEOREM DKGAgreement == Spec => []Agreement
<1>1. DKGInv => Agreement
    <2>1. SUFFICES ASSUME DKGInv, NEW p \in Honest, NEW q \in Honest,
                          output[p] # None, output[q] # None
                   PROVE  /\ output[p].ThresholdPubkey = output[q].ThresholdPubkey
                          /\ output[p].PubShares = output[q].PubShares
                          /\ recovery[p].eqInput = recovery[q].eqInput
        BY DEF Agreement
    <2>2. \A h \in {p, q} :
              /\ Valid(pmsgs2, recovery[h])
              /\ output[h] = DKGOutput(recovery[h].eqInput.sumComs,
                                       ShareIn(recovery[h].eqInput, h))
        BY <2>1 DEF DKGInv, Finalised
    <2>3. \A h \in {p, q} : pmsgs2[p].msg[2] = recovery[h].eqInput
        BY <2>1, <2>2, SignedIsCertified
    <2>4. recovery[p].eqInput = recovery[q].eqInput
        BY <2>3
    <2>5. \A h \in {p, q} :
              /\ output[h].ThresholdPubkey = recovery[h].eqInput.sumComs[1]
              /\ output[h].PubShares =
                    [i \in Participants |-> pubshare(recovery[h].eqInput.sumComs, i)]
        BY <2>2 DEF DKGOutput
    <2>6. QED
        BY <2>4, <2>5
<1>2. QED
    BY <1>1, DKGInvariant, PTL

\* The share in every output that ParticipantFinalize or Recover returns is the
\* secret behind the public share of its owner, whatever the hash, the
\* coordinator and the other participants do.
THEOREM DKGOwnShare ==
    Spec => [](\A p \in Honest : output[p] # None =>
                   ScalarBaseMult(output[p].SecShare) = output[p].PubShares[p])
<1>1. DKGInv => \A p \in Honest : output[p] # None =>
                    ScalarBaseMult(output[p].SecShare) = output[p].PubShares[p]
    <2>1. SUFFICES ASSUME DKGInv, NEW p \in Honest, output[p] # None
                   PROVE  ScalarBaseMult(output[p].SecShare) = output[p].PubShares[p]
        OBVIOUS
    <2> DEFINE e == recovery[p].eqInput
    <2>2. Valid(pmsgs2, recovery[p]) /\ output[p] = DKGOutput(e.sumComs, ShareIn(e, p))
        BY <2>1 DEF DKGInv, Finalised
    <2>3. vssVerifySecshare(ShareIn(e, p), pubshare(e.sumComs, p))
        BY <2>1, <2>2, SignedIsCertified DEF Checked
    <2>4. p \in Participants
        BY ChillAssumption
    <2>5. output[p].SecShare = ShareIn(e, p) /\ output[p].PubShares[p] = pubshare(e.sumComs, p)
        BY <2>2, <2>4 DEF DKGOutput
    <2>6. QED
        BY <2>3, <2>5 DEF vssVerifySecshare
<1>2. QED
    BY <1>1, DKGInvariant, PTL

-----------------------------------------------------------------------------
(* Blame *)

\* What an honest participant sends passes the checks of the others.
Acceptable(i, msg) ==
    msg.com[1] # Identity /\ msg.pop = schnorrSign(msg.com[1], i)

\* Honest participants send once, and remember what they have sent.
SentOnce ==
    \A p \in Honest :
        /\ phase[p] = "start" => pmsgs1[p] = None
        /\ pmsgs1[p] # None => Acceptable(p, pmsgs1[p])
        /\ phase[p] = "step1" => /\ state1[p].pubnonce = pmsgs1[p].pubnonce
                                 /\ state1[p].comToSecret = pmsgs1[p].com[1]

\* A transcript with as many commitments as the threshold says.
Complete(e) == Len(e.sumComs) = params.Threshold

\* An honest coordinator relays it as it is, the same to everybody.
Relayed(c) ==
    /\ EqInput(c) = coord.eqInput /\ Complete(coord.eqInput)
    /\ \A q \in Honest :
          /\ pmsgs1[q] # None
          /\ c.comsToSecrets[q] = pmsgs1[q].com[1]
          /\ c.pops[q] = pmsgs1[q].pop
          /\ c.pubnonces[q] = pmsgs1[q].pubnonce

\* Everybody signs the transcript of the coordinator, which verifies the
\* certificate before it hands it out.
HonestlyRun ==
    /\ coord.phase = "start" =>
          \A p \in Honest : /\ cmsg1[p] = None /\ pmsgs2[p] = None /\ cmsg2[p] = None
                            /\ phase[p] # "step2"
    /\ \A p \in Honest :
          /\ cmsg1[p] # None => Relayed(cmsg1[p])
          /\ pmsgs2[p] # None =>
                /\ pmsgs2[p] = certeqSign(params.HostPubkeys[p], p, coord.eqInput)
                /\ Complete(coord.eqInput)
          /\ phase[p] = "step2" => state2[p].eqInput = coord.eqInput
          /\ cmsg2[p] # None =>
                certeqVerify(params.HostPubkeys, coord.eqInput, cmsg2[p]) = None

BlameInv ==
    /\ IsMap(pmsgs1) /\ IsMap(cmsg1) /\ IsMap(error)
    /\ SentOnce
    /\ coord.honest => HonestlyRun
    /\ DKGBlameSound

\* An error that accuses neither the coordinator nor an honest participant.
Harmless(e) ==
    e # None => /\ e.kind # "FaultyCoordinator"
                /\ e.kind = "FaultyParticipant" => e.index \in Participants \ Honest

\* Before the first step nothing was sent and nobody is accused.
LEMMA BlameInit == Init => BlameInv
<1> SUFFICES ASSUME Init PROVE BlameInv
    OBVIOUS
<1>0. Honest \subseteq Participants
    BY ChillAssumption
<1>1. IsMap(pmsgs1) /\ IsMap(cmsg1) /\ IsMap(error)
    BY DEF Init, IsMap, Nobody
<1>2. SentOnce
    BY <1>0 DEF Init, Nobody, SentOnce
<1>3. HonestlyRun
    BY <1>0 DEF Init, Nobody, HonestlyRun
<1>4. DKGBlameSound
    <2>1. \A p \in Honest : error[p] = None
        BY <1>0 DEF Init, Nobody
    <2>2. coord.error = None
        BY DEF Init
    <2>3. QED
        BY <2>1, <2>2 DEF DKGBlameSound
<1>5. QED
    BY <1>1, <1>2, <1>3, <1>4 DEF BlameInv

\* DKGBlameSound, one error at a time.
LEMMA BlameByError ==
    DKGBlameSound <=>
        (coord.honest => /\ Harmless(coord.error)
                         /\ \A p \in Honest : Harmless(error[p]))
BY DEF DKGBlameSound, Harmless

\* What is relayed stays so as long as the coordinator does nothing.
LEMMA RelayedStays ==
    ASSUME UNCHANGED <<params, pmsgs1, coord>>
    PROVE  /\ \A c : Relayed(c)' <=> Relayed(c)
           /\ Complete(coord.eqInput)' <=> Complete(coord.eqInput)
BY DEF Relayed, EqInput, assembleSumComs, Complete

\* A participant that gives up, with an error that accuses nobody honest.
LEMMA FailBlame ==
    ASSUME DKGInv, BlameInv, NEW p \in Honest, NEW e, Fail(p, e),
           coord.honest => Harmless(e)
    PROVE  BlameInv'
<1>0. p \in Participants /\ Honest \subseteq Participants
    BY ChillAssumption
<1>1. UNCHANGED <<params, state1, pmsgs1, cmsg1, state2, pmsgs2, cmsg2, coord>>
    BY DEF Fail
<1>2. /\ phase'[p] = "failed" /\ error'[p] = e
      /\ \A q \in Honest \ {p} : phase'[q] = phase[q] /\ error'[q] = error[q]
    BY <1>0 DEF Fail, DKGInv, Maps, BlameInv, IsMap
<1>3. IsMap(pmsgs1)' /\ IsMap(cmsg1)' /\ IsMap(error)'
    BY <1>0, <1>1 DEF Fail, BlameInv, IsMap
<1>4. SentOnce'
    BY <1>1, <1>2 DEF BlameInv, SentOnce, Acceptable
<1>5. coord.honest => HonestlyRun'
    BY <1>1, <1>2, RelayedStays DEF BlameInv, HonestlyRun
<1>6. DKGBlameSound'
    <2>1. coord.honest => Harmless(coord.error) /\ \A q \in Honest : Harmless(error[q])
        BY BlameByError DEF BlameInv
    <2>2. coord.honest => \A q \in Honest : Harmless(error'[q])
        BY <1>2, <2>1
    <2>3. coord'.honest => Harmless(coord'.error) /\ \A q \in Honest : Harmless(error'[q])
        BY <1>1, <2>1, <2>2
    <2>4. QED
        BY <2>3 DEF DKGBlameSound, Harmless
<1>7. QED
    BY <1>1, <1>3, <1>4, <1>5, <1>6 DEF BlameInv

\* A contribution that an honest participant makes passes the checks.
LEMMA ContributionAcceptable ==
    ASSUME ParamsValidate, NEW p \in Honest, NEW random \in Randoms,
           params \in [HostPubkeys : HostLists, Threshold : Thresholds]
    PROVE  Acceptable(p, Contribution(HostSeckeys[p], params.Threshold, p, random))
<1> DEFINE seed   == <<HostSeckeys[p], random, params>>
           coeffs == vssGenerate(seed, params.Threshold)
           com    == commit(coeffs)
           msg    == Contribution(HostSeckeys[p], params.Threshold, p, random)
<1>1. params.Threshold \in Nat /\ 1 \in 1 .. params.Threshold
    BY ChillAssumption DEF ParamsValidate
<1>2. DOMAIN coeffs = 1 .. params.Threshold
      /\ coeffs[1] = taggedHashScalar("vss coeffs", <<seed, 0>>)
    BY <1>1 DEF vssGenerate
<1> HIDE DEF coeffs
<1>3. com[1] = ScalarBaseMult(coeffs[1])
    BY <1>1, <1>2 DEF commit
<1>4. com[1] # Identity
    BY <1>2, <1>3, HashAssumption
<1>5. msg.com = com /\ msg.pop = schnorrSign(com[1], p)
    BY DEF Contribution, simplPedPopParticipantStep1, coeffs
<1>6. QED
    BY <1>4, <1>5 DEF Acceptable

\* ParticipantStep1: what an honest participant sends passes every check.
LEMMA Step1Blame ==
    ASSUME DKGInv, BlameInv, NEW p \in Honest, ParticipantStep1(p)
    PROVE  BlameInv'
<1>0. p \in Participants /\ Honest \subseteq Participants
    BY ChillAssumption
<1>1. CASE \E e \in {Err("InvalidParams"), Err("HostkeyMismatch")} : Fail(p, e)
    <2>1. \A e \in {Err("InvalidParams"), Err("HostkeyMismatch")} : Harmless(e)
        BY DEF Err, Harmless
    <2>2. QED
        BY <1>1, <2>1, FailBlame
<1>2. CASE ~ \E e \in {Err("InvalidParams"), Err("HostkeyMismatch")} : Fail(p, e)
    <2>1. PICK idx \in Positions(HostSeckeys[p], params.HostPubkeys), random \in Randoms :
              LET msg == Contribution(HostSeckeys[p], params.Threshold, idx, random)
              IN  /\ state1' = [state1 EXCEPT ![p] =
                         [idx         |-> idx,
                          comToSecret |-> msg.com[1],
                          pubnonce    |-> msg.pubnonce]]
                  /\ pmsgs1' = [pmsgs1 EXCEPT ![idx] = msg]
        BY <1>2 DEF ParticipantStep1
    <2>2. /\ ParamsValidate /\ phase[p] = "start"
          /\ phase' = [phase EXCEPT ![p] = "step1"]
          /\ UNCHANGED <<params, cmsg1, state2, pmsgs2, cmsg2, coord, error>>
        BY <1>2 DEF ParticipantStep1
    <2>3. idx = p
        BY <1>0, <2>1, <2>2, ListAssumption DEF DKGInv, Maps, ParamsValidate, Positions
    <2> DEFINE msg == Contribution(HostSeckeys[p], params.Threshold, p, random)
    <2>4. Acceptable(p, msg)
        BY <2>2, ContributionAcceptable DEF DKGInv, Maps
    <2>5. /\ state1' = [state1 EXCEPT ![p] =
                 [idx |-> p, comToSecret |-> msg.com[1], pubnonce |-> msg.pubnonce]]
          /\ pmsgs1' = [pmsgs1 EXCEPT ![p] = msg]
        BY <2>1, <2>3
    <2> HIDE DEF msg
    <2>6. /\ phase'[p] = "step1" /\ pmsgs1'[p] = msg
          /\ state1'[p].comToSecret = msg.com[1] /\ state1'[p].pubnonce = msg.pubnonce
          /\ \A q \in Honest \ {p} : /\ phase'[q] = phase[q] /\ state1'[q] = state1[q]
                                     /\ pmsgs1'[q] = pmsgs1[q]
        BY <1>0, <2>2, <2>5 DEF DKGInv, Maps, BlameInv, IsMap
    <2>7. IsMap(pmsgs1)' /\ IsMap(cmsg1)' /\ IsMap(error)'
        BY <1>0, <2>2, <2>5 DEF BlameInv, IsMap
    <2>8. SentOnce'
        BY <2>4, <2>6 DEF BlameInv, SentOnce, Acceptable
    <2>9. coord.honest => \A q \in Honest : cmsg1[q] = None
        BY <2>2 DEF BlameInv, SentOnce, HonestlyRun, Relayed
    <2>10. coord.honest => HonestlyRun'
        BY <2>2, <2>6, <2>9 DEF BlameInv, HonestlyRun, Complete
    <2>11. DKGBlameSound'
        BY <2>2 DEF BlameInv, DKGBlameSound
    <2>12. QED
        BY <2>2, <2>7, <2>8, <2>10, <2>11 DEF BlameInv
<1>3. QED
    BY <1>1, <1>2

\* What an honest coordinator relays makes ParticipantStep2 accuse nobody that
\* is honest.
LEMMA Step2Harmless ==
    ASSUME DKGInv, BlameInv, coord.honest, NEW p \in Honest, phase[p] = "step1",
           cmsg1[p] # None
    PROVE  Harmless(Step2Error(p, cmsg1[p]))
<1> DEFINE c == cmsg1[p]
           F == FaultyContributions(c, p)
<1>1. state1[p].idx = p
    BY DEF DKGInv, Numbered
<1>2. Relayed(c)
    BY DEF BlameInv, HonestlyRun
<1>3. c.pubnonces[p] = state1[p].pubnonce /\ c.comsToSecrets[p] = state1[p].comToSecret
    BY <1>2 DEF Relayed, BlameInv, SentOnce
<1>4. F \subseteq Participants \ Honest
    <2>1. ASSUME NEW q \in Honest
          PROVE  /\ c.comsToSecrets[q] # Identity
                 /\ schnorrVerify(c.comsToSecrets[q], q, c.pops[q])
        BY <1>2 DEF Relayed, BlameInv, SentOnce, Acceptable, schnorrVerify
    <2>2. QED
        BY <2>1 DEF FaultyContributions
<1>5. F # {} => First(F) \in Participants \ Honest
    BY <1>4, FirstIn
<1> HIDE DEF F
<1>6. F # {} => Harmless(FaultyParticipantError(First(F)))
    BY <1>5 DEF Harmless, FaultyParticipantError
<1>7. Harmless(Err("FaultyParticipantOrCoord")) /\ Harmless(None)
    BY DEF Harmless, Err
<1>8. \/ F # {} /\ Step2Error(p, c) = FaultyParticipantError(First(F))
      \/ Step2Error(p, c) = Err("FaultyParticipantOrCoord")
      \/ Step2Error(p, c) = None
    BY <1>1, <1>3 DEF Step2Error, F
<1>9. QED
    BY <1>6, <1>7, <1>8

\* ParticipantStep2: its checks fail only for contributions of faulty
\* participants, as long as the coordinator follows the code.
LEMMA Step2Blame ==
    ASSUME DKGInv, BlameInv, NEW p \in Honest, ParticipantStep2(p)
    PROVE  BlameInv'
<1> DEFINE c == cmsg1[p]
<1>0. p \in Participants /\ Honest \subseteq Participants
      /\ phase[p] = "step1" /\ c # None
    BY ChillAssumption DEF ParticipantStep2
<1>1. CASE Fail(p, Step2Error(p, c))
    <2>1. coord.honest => Harmless(Step2Error(p, c))
        BY <1>0, Step2Harmless
    <2>2. QED
        BY <1>1, <2>1, FailBlame
<1>2. CASE ~ Fail(p, Step2Error(p, c))
    <2>1. state1[p].idx = p /\ Positions(HostSeckeys[p], params.HostPubkeys) = {p}
        BY <1>0 DEF DKGInv, Numbered
    <2>2. HostPubkeyGen(HostSeckeys[p]) = params.HostPubkeys[p]
        BY <2>1 DEF Positions
    <2>3. /\ state2' = [state2 EXCEPT ![p] =
                [eqInput   |-> EqInput(c),
                 dkgOutput |-> DKGOutput(assembleSumComs(c), Secshare(p, c))]]
          /\ pmsgs2' = [pmsgs2 EXCEPT ![p] = certeqSign(params.HostPubkeys[p], p, EqInput(c))]
          /\ phase' = [phase EXCEPT ![p] = "step2"]
          /\ UNCHANGED <<params, state1, pmsgs1, cmsg1, cmsg2, coord, error>>
        BY <1>2, <2>1, <2>2 DEF ParticipantStep2
    <2>4. /\ phase'[p] = "step2" /\ state2'[p].eqInput = EqInput(c)
          /\ pmsgs2'[p] = certeqSign(params.HostPubkeys[p], p, EqInput(c))
          /\ \A q \in Honest \ {p} : /\ phase'[q] = phase[q] /\ state2'[q] = state2[q]
                                     /\ pmsgs2'[q] = pmsgs2[q]
        BY <1>0, <2>3 DEF DKGInv, Maps, IsMap
    <2>5. IsMap(pmsgs1)' /\ IsMap(cmsg1)' /\ IsMap(error)'
        BY <2>3 DEF BlameInv, IsMap
    <2>6. SentOnce'
        BY <2>3, <2>4 DEF BlameInv, SentOnce, Acceptable
    <2>7. coord.honest => HonestlyRun'
        <3>1. SUFFICES ASSUME coord.honest PROVE HonestlyRun'
            OBVIOUS
        <3>2. HonestlyRun
            BY <3>1 DEF BlameInv
        <3>3. Relayed(c) /\ coord.phase # "start"
            BY <1>0, <3>2 DEF HonestlyRun
        <3>4. EqInput(c) = coord.eqInput /\ Complete(coord.eqInput)
            BY <3>3 DEF Relayed
        <3>5. \A q \in Honest : cmsg1'[q] # None => Relayed(cmsg1[q])'
            BY <2>3, <3>2 DEF HonestlyRun, Relayed, EqInput, assembleSumComs, Complete
        <3>6. Complete(coord.eqInput)'
            BY <2>3, <3>4 DEF Complete
        <3>7. QED
            BY <2>3, <2>4, <3>2, <3>3, <3>4, <3>5, <3>6 DEF HonestlyRun
    <2>8. DKGBlameSound'
        BY <2>3 DEF BlameInv, DKGBlameSound
    <2>9. QED
        BY <2>3, <2>5, <2>6, <2>7, <2>8 DEF BlameInv
<1>3. QED
    BY <1>1, <1>2

\* With an honest coordinator ParticipantFinalize never fails.
LEMMA FinalizeBlame ==
    ASSUME DKGInv, BlameInv, NEW p \in Honest, ParticipantFinalize(p)
    PROVE  BlameInv'
<1> DEFINE e == state2[p].eqInput
           err == certeqVerify(params.HostPubkeys, e, cmsg2[p])
<1>0. p \in Participants /\ Honest \subseteq Participants
      /\ phase[p] = "step2" /\ cmsg2[p] # None
    BY ChillAssumption DEF ParticipantFinalize
<1>1. coord.honest => err = None
    BY <1>0 DEF BlameInv, HonestlyRun
<1>2. CASE Fail(p, err)
    <2>1. coord.honest => Harmless(err)
        BY <1>1 DEF Harmless
    <2> HIDE DEF err
    <2>2. QED
        BY <1>2, <2>1, FailBlame
<1>3. CASE ~ Fail(p, err)
    <2>1. /\ phase' = [phase EXCEPT ![p] = "done"]
          /\ UNCHANGED <<params, state1, pmsgs1, cmsg1, state2, pmsgs2, cmsg2, coord, error>>
        BY <1>3 DEF ParticipantFinalize
    <2>2. /\ phase'[p] = "done"
          /\ \A q \in Honest \ {p} : phase'[q] = phase[q]
        BY <1>0, <2>1 DEF DKGInv, Maps, IsMap
    <2>3. IsMap(pmsgs1)' /\ IsMap(cmsg1)' /\ IsMap(error)'
        BY <2>1 DEF BlameInv, IsMap
    <2>4. SentOnce'
        BY <2>1, <2>2 DEF BlameInv, SentOnce, Acceptable
    <2>5. coord.honest => HonestlyRun'
        BY <2>1, <2>2, RelayedStays DEF BlameInv, HonestlyRun
    <2>6. DKGBlameSound'
        BY <2>1 DEF BlameInv, DKGBlameSound
    <2>7. QED
        BY <2>1, <2>3, <2>4, <2>5, <2>6 DEF BlameInv
<1>4. QED
    BY <1>2, <1>3

\* A crash loses the memory of a participant, not what it has sent.
LEMMA CrashBlame ==
    ASSUME DKGInv, BlameInv, NEW p \in Honest, Crash(p) \/ Recover(p)
    PROVE  BlameInv'
<1>0. p \in Participants /\ Honest \subseteq Participants
    BY ChillAssumption
<1>1. /\ UNCHANGED <<params, pmsgs1, cmsg1, pmsgs2, cmsg2, coord>>
      /\ phase'[p] \in {"crashed", "done"}
      /\ \A q \in Honest \ {p} : /\ phase'[q] = phase[q] /\ state1'[q] = state1[q]
                                 /\ state2'[q] = state2[q] /\ error'[q] = error[q]
      /\ IsMap(error)'
    BY <1>0 DEF Crash, Recover, DKGInv, Maps, BlameInv, IsMap
<1>2. Harmless(error'[p])
    <2>1. CASE Crash(p)
        BY <1>0, <2>1 DEF Crash, BlameInv, IsMap, Harmless
    <2>2. CASE Recover(p)
        <3>1. PICK data : error' = [error EXCEPT ![p] = RecoverFrom(HostSeckeys[p], data).error]
            BY <2>2 DEF Recover
        <3>2. RecoverFrom(HostSeckeys[p], data).error
                 \in {None, Err("InvalidRecoveryData"), Err("HostkeyMismatch")}
            BY DEF RecoverFrom
        <3>3. error'[p] = RecoverFrom(HostSeckeys[p], data).error
            BY <1>0, <3>1 DEF BlameInv, IsMap
        <3>4. Harmless(None) /\ Harmless(Err("InvalidRecoveryData"))
              /\ Harmless(Err("HostkeyMismatch"))
            BY DEF Harmless, Err
        <3>5. QED
            BY <3>2, <3>3, <3>4
    <2>3. QED
        BY <2>1, <2>2
<1>3. IsMap(pmsgs1)' /\ IsMap(cmsg1)'
    BY <1>1 DEF BlameInv, IsMap
<1>4. SentOnce'
    BY <1>1 DEF BlameInv, SentOnce, Acceptable
<1>5. coord.honest => HonestlyRun'
    BY <1>1, RelayedStays DEF BlameInv, HonestlyRun
<1>6. DKGBlameSound'
    <2>1. coord.honest => Harmless(coord.error) /\ \A q \in Honest : Harmless(error[q])
        BY BlameByError DEF BlameInv
    <2>2. coord'.honest => Harmless(coord'.error) /\ \A q \in Honest : Harmless(error'[q])
        BY <1>1, <1>2, <2>1
    <2>3. QED
        BY <2>2 DEF DKGBlameSound, Harmless
<1>7. QED
    BY <1>1, <1>3, <1>4, <1>5, <1>6 DEF BlameInv

\* The transcript has one commitment more than there are slots for the terms.
LEMMA AggregateLength ==
    ASSUME NEW msgs, NEW slots \in Nat
    PROVE  Len(EqInput(Aggregate(msgs, slots)).sumComs) = slots + 1
<1> DEFINE s == sumComsToNonconstTerms(msgs, slots)
           x == SumElements(Aggregate(msgs, slots).comsToSecrets)
           S == {x} \cup {s[k] : k \in 1 .. slots}
<1>1. EqInput(Aggregate(msgs, slots)).sumComs = <<x>> \o s
    BY DEF EqInput, assembleSumComs, Aggregate
<1>2. s \in [1 .. slots -> S]
    BY DEF sumComsToNonconstTerms
<1> HIDE DEF s, x, S
<1>3. s \in Seq(S) /\ Len(s) = slots
    BY <1>2
<1>4. <<x>> \in Seq(S) /\ Len(<<x>>) = 1
    BY DEF S
<1>5. Len(<<x>> \o s) = 1 + slots
    BY <1>3, <1>4
<1>6. QED
    BY <1>1, <1>5

\* CoordinatorStep1 relays the messages of all participants.
LEMMA CoordinatorStep1Blame ==
    ASSUME DKGInv, BlameInv, CoordinatorStep1
    PROVE  BlameInv'
<1>0. Honest \subseteq Participants /\ coord.honest /\ coord.phase = "start"
    BY ChillAssumption DEF CoordinatorStep1
<1>1. UNCHANGED <<params, phase, state1, pmsgs1, state2, pmsgs2, cmsg2, error>>
    BY DEF CoordinatorStep1
<1>2. HonestlyRun
    BY <1>0 DEF BlameInv
<1>3. SentOnce'
    BY <1>1 DEF BlameInv, SentOnce, Acceptable
<1>4. coord.honest => Harmless(coord.error) /\ \A q \in Honest : Harmless(error[q])
    BY BlameByError DEF BlameInv
<1>5. CASE /\ UNCHANGED cmsg1
           /\ \/ coord' = [coord EXCEPT !.phase = "failed", !.error = Err("InvalidParams")]
              \/ coord' = [coord EXCEPT !.phase = "panicked"]
    <2>1. /\ coord'.phase \in {"failed", "panicked"}
          /\ coord'.error \in {Err("InvalidParams"), coord.error}
          /\ coord'.honest = coord.honest /\ coord'.eqInput = coord.eqInput
        BY <1>5 DEF DKGInv, Maps
    <2>2. HonestlyRun'
        BY <1>1, <1>2, <1>5, <2>1 DEF HonestlyRun, Relayed, EqInput, assembleSumComs, Complete
    <2>3. Harmless(coord'.error)
        BY <1>0, <1>4, <2>1 DEF Harmless, Err
    <2>4. DKGBlameSound'
        BY <1>0, <1>1, <1>4, <2>3 DEF DKGBlameSound, Harmless
    <2>5. QED
        BY <1>1, <1>3, <1>5, <2>2, <2>4 DEF BlameInv, IsMap
<1>6. CASE ParamsValidate /\ TooLong = {}
    <2> DEFINE slots == params.Threshold - 1
               c == Aggregate(pmsgs1, slots)
    <2>1. /\ \A i \in Participants : pmsgs1[i] # None
          /\ cmsg1' = [p \in Participants |-> c]
          /\ coord' = [coord EXCEPT !.phase = "step1", !.eqInput = EqInput(c),
                          !.dkgOutput = DKGOutput(assembleSumComs(c), None)]
        BY <1>6 DEF CoordinatorStep1
    <2>2. /\ coord'.phase = "step1" /\ coord'.error = coord.error
          /\ coord'.honest = coord.honest /\ coord'.eqInput = EqInput(c)
        BY <2>1 DEF DKGInv, Maps
    <2>3. \A q \in Participants : /\ c.comsToSecrets[q] = pmsgs1[q].com[1]
                                  /\ c.pops[q] = pmsgs1[q].pop
                                  /\ c.pubnonces[q] = pmsgs1[q].pubnonce
        BY DEF Aggregate
    <2> HIDE DEF c
    <2>4. \A p \in Honest : cmsg1'[p] = c
        BY <1>0, <2>1
    <2>5. Complete(coord.eqInput)'
        <3>1. params.Threshold \in Nat /\ slots \in Nat /\ slots + 1 = params.Threshold
            BY <1>6, ChillAssumption DEF ParamsValidate
        <3>2. Len(EqInput(c).sumComs) = slots + 1
            BY <3>1, AggregateLength DEF c
        <3>3. QED
            BY <1>1, <2>2, <3>1, <3>2 DEF Complete
    <2>7. \A p \in Honest : Relayed(cmsg1[p])'
        <3>1. \A p \in Honest : EqInput(cmsg1[p])' = EqInput(c)
            BY <1>1, <2>4 DEF EqInput, assembleSumComs
        <3>2. QED
            BY <1>0, <1>1, <2>1, <2>2, <2>3, <2>4, <2>5, <3>1 DEF Relayed
    <2>8. \A p \in Honest : /\ pmsgs2'[p] = None /\ cmsg2'[p] = None /\ phase'[p] # "step2"
        BY <1>0, <1>1, <1>2 DEF HonestlyRun
    <2>9. HonestlyRun'
        BY <2>2, <2>7, <2>8 DEF HonestlyRun
    <2>10. DKGBlameSound'
        BY <1>0, <1>1, <1>4, <2>2 DEF DKGBlameSound, Harmless
    <2>11. QED
        BY <1>1, <1>3, <2>1, <2>9, <2>10 DEF BlameInv, IsMap
<1>7. QED
    <2>1. CASE ParamsValidate /\ TooLong = {}
        BY <1>6, <2>1
    <2>2. CASE ~ (ParamsValidate /\ TooLong = {})
        BY <1>5, <2>2 DEF CoordinatorStep1
    <2>3. QED
        BY <2>1, <2>2

\* CoordinatorFinalize finds the signatures of honest participants good.
LEMMA CoordinatorFinalizeBlame ==
    ASSUME DKGInv, BlameInv, CoordinatorFinalize
    PROVE  BlameInv'
<1> DEFINE short == {i \in Participants : pmsgs2[i] = ShortSig}
           faulty == {i \in Participants :
               ~ schnorrVerify(params.HostPubkeys[i], certeqMessage(coord.eqInput, i), pmsgs2[i])}
           err == IF short # {} THEN FaultyParticipantError(First(short))
                  ELSE certeqVerify(params.HostPubkeys, coord.eqInput, pmsgs2)
<1>0. /\ Honest \subseteq Participants /\ coord.honest /\ coord.phase = "step1"
      /\ \A i \in Participants : pmsgs2[i] # None
    BY ChillAssumption DEF CoordinatorFinalize
<1>1. UNCHANGED <<params, phase, state1, pmsgs1, cmsg1, state2, pmsgs2, error>>
    BY DEF CoordinatorFinalize
<1>2. HonestlyRun
    BY <1>0 DEF BlameInv
<1>3. \A q \in Honest : pmsgs2[q] = certeqSign(params.HostPubkeys[q], q, coord.eqInput)
    BY <1>0, <1>2 DEF HonestlyRun
<1>4. \A q \in Honest : q \notin short
    <2>1. \A q \in Honest : params.HostPubkeys[q] # None
        BY <1>0, ChillAssumption DEF DKGInv, Maps
    <2>2. ASSUME NEW q \in Honest PROVE pmsgs2[q].pk = params.HostPubkeys[q]
        <3>1. pmsgs2[q] = [pk  |-> params.HostPubkeys[q],
                           msg |-> certeqMessage(coord.eqInput, q)]
            BY <1>3, Zenon DEF certeqSign, schnorrSign
        <3>2. QED
            BY ONLY <3>1
    <2>3. ShortSig.pk = None
        BY DEF ShortSig, schnorrSign
    <2>4. QED
        BY <2>1, <2>2, <2>3
<1>5. \A q \in Honest : q \notin faulty
    BY <1>3 DEF certeqSign, schnorrVerify
<1>6. /\ short # {} => First(short) \in Participants \ Honest
      /\ faulty # {} => First(faulty) \in Participants \ Honest
    BY <1>4, <1>5, FirstIn
<1>7. certeqVerify(params.HostPubkeys, coord.eqInput, pmsgs2)
        = IF faulty # {} THEN FaultyParticipantError(First(faulty)) ELSE None
    BY <1>0 DEF certeqVerify
<1> HIDE DEF short, faulty
<1>8. Harmless(err)
    <2>1. \A i \in Participants \ Honest : Harmless(FaultyParticipantError(i))
        BY DEF Harmless, FaultyParticipantError
    <2>2. Harmless(None)
        BY DEF Harmless
    <2>3. QED
        BY <1>6, <1>7, <2>1, <2>2
<1>9. err = None => certeqVerify(params.HostPubkeys, coord.eqInput, pmsgs2) = None
    <2>1. short # {} => FaultyParticipantError(First(short)) # None
        BY <1>6, ErrorAssumption DEF FaultyParticipantError, Errors, ErrorKinds
    <2>2. QED
        BY <2>1
<1>10. \/ /\ coord' = [coord EXCEPT !.phase = "failed", !.error = err]
          /\ UNCHANGED cmsg2
       \/ /\ err = None
          /\ cmsg2' = [p \in Participants |-> pmsgs2]
          /\ coord' = [coord EXCEPT !.phase = "done",
                          !.recovery = [eqInput |-> coord.eqInput, cert |-> pmsgs2]]
    BY DEF CoordinatorFinalize, short
<1> HIDE DEF err
<1>11. /\ coord'.phase \in {"failed", "done"} /\ coord'.error \in {err, coord.error}
       /\ coord'.honest = coord.honest /\ coord'.eqInput = coord.eqInput
    BY <1>10 DEF DKGInv, Maps
<1>12. \A p \in Honest : cmsg2'[p] # None =>
           certeqVerify(params.HostPubkeys, coord.eqInput, cmsg2'[p]) = None
    BY <1>0, <1>2, <1>9, <1>10 DEF HonestlyRun
<1>13. HonestlyRun'
    <2>1. \A p \in Honest : cmsg1'[p] # None => Relayed(cmsg1[p])'
        BY <1>1, <1>2, <1>11 DEF HonestlyRun, Relayed, EqInput, assembleSumComs, Complete
    <2>2. Complete(coord.eqInput)' <=> Complete(coord.eqInput)
        BY <1>1, <1>11 DEF Complete
    <2>3. QED
        BY <1>1, <1>2, <1>11, <1>12, <2>1, <2>2 DEF HonestlyRun
<1>14. SentOnce'
    BY <1>1 DEF BlameInv, SentOnce, Acceptable
<1>15. DKGBlameSound'
    <2>1. coord.honest => Harmless(coord.error) /\ \A q \in Honest : Harmless(error[q])
        BY BlameByError DEF BlameInv
    <2>2. Harmless(coord'.error) /\ \A q \in Honest : Harmless(error'[q])
        BY <1>0, <1>1, <1>8, <1>11, <2>1
    <2>3. QED
        BY <2>2 DEF DKGBlameSound, Harmless
<1>16. QED
    BY <1>1, <1>13, <1>14, <1>15 DEF BlameInv, IsMap

\* Faulty participants change nothing that honest participants have sent, and
\* a faulty coordinator is excluded where it matters.
LEMMA FaultyBlame ==
    ASSUME DKGInv, BlameInv,
           \/ \E p \in Honest : FaultyCoordinatorStep1(p) \/ FaultyCoordinatorFinalize(p)
           \/ \E i \in Participants \ Honest : FaultyStep1(i) \/ FaultyStep2(i)
    PROVE  BlameInv'
<1>0. Honest \subseteq Participants
    BY ChillAssumption
<1>1. UNCHANGED <<params, phase, state1, state2, coord, error>>
    BY DEF FaultyCoordinatorStep1, FaultyCoordinatorFinalize, FaultyStep1, FaultyStep2
<1>2. /\ \A q \in Honest : pmsgs1'[q] = pmsgs1[q] /\ pmsgs2'[q] = pmsgs2[q]
      /\ IsMap(pmsgs1)' /\ IsMap(cmsg1)' /\ IsMap(error)'
    BY <1>0 DEF FaultyCoordinatorStep1, FaultyCoordinatorFinalize, FaultyStep1, FaultyStep2,
                BlameInv, DKGInv, Maps, IsMap
<1>3. coord.honest => UNCHANGED <<cmsg1, cmsg2>>
    BY DEF FaultyCoordinatorStep1, FaultyCoordinatorFinalize, FaultyStep1, FaultyStep2
<1>4. SentOnce'
    BY <1>1, <1>2 DEF BlameInv, SentOnce, Acceptable
<1>5. coord.honest => HonestlyRun'
    <2>1. SUFFICES ASSUME coord.honest PROVE HonestlyRun'
        OBVIOUS
    <2>2. \A p \in Honest : cmsg1'[p] # None => Relayed(cmsg1[p])'
        <3>1. SUFFICES ASSUME NEW p \in Honest, cmsg1[p] # None PROVE Relayed(cmsg1[p])'
            BY <1>3, <2>1
        <3>2. Relayed(cmsg1[p]) /\ cmsg1'[p] = cmsg1[p]
            BY <1>3, <2>1, <3>1 DEF BlameInv, HonestlyRun
        <3>3. EqInput(cmsg1[p])' = EqInput(cmsg1[p])
            BY <1>1, <3>2 DEF EqInput, assembleSumComs
        <3>4. QED
            BY <1>1, <1>2, <3>2, <3>3 DEF Relayed, Complete
    <2>3. QED
        BY <1>1, <1>2, <1>3, <2>1, <2>2 DEF BlameInv, HonestlyRun, Complete
<1>6. DKGBlameSound'
    BY <1>1 DEF BlameInv, DKGBlameSound
<1>7. QED
    BY <1>1, <1>2, <1>4, <1>5, <1>6 DEF BlameInv

\* The invariant behind blame holds in every reachable state.
THEOREM DKGBlameInvariant == Spec => []BlameInv
<1>1. ASSUME DKGInv, BlameInv, [Next]_vars PROVE BlameInv'
    <2>1. CASE Next
        <3>1. ASSUME NEW p \in Honest,
                     \/ ParticipantStep1(p) \/ ParticipantStep2(p)
                     \/ ParticipantFinalize(p) \/ Crash(p) \/ Recover(p)
              PROVE  BlameInv'
            BY <1>1, <3>1, Step1Blame, Step2Blame, FinalizeBlame, CrashBlame
        <3>2. CASE CoordinatorStep1 \/ CoordinatorFinalize
            BY <1>1, <3>2, CoordinatorStep1Blame, CoordinatorFinalizeBlame
        <3>3. CASE \/ \E p \in Honest : FaultyCoordinatorStep1(p) \/ FaultyCoordinatorFinalize(p)
                   \/ \E i \in Participants \ Honest : FaultyStep1(i) \/ FaultyStep2(i)
            BY <1>1, <3>3, FaultyBlame
        <3>4. QED
            BY <2>1, <3>1, <3>2, <3>3 DEF Next
    <2>2. CASE UNCHANGED vars
        <3>1. UNCHANGED <<params, phase, state1, pmsgs1, cmsg1, state2, pmsgs2, cmsg2, coord,
                          error>>
            BY <2>2 DEF vars
        <3>2. IsMap(pmsgs1)' /\ IsMap(cmsg1)' /\ IsMap(error)' /\ SentOnce' /\ DKGBlameSound'
            BY <1>1, <3>1 DEF BlameInv, IsMap, SentOnce, Acceptable, DKGBlameSound
        <3>3. \A c : Relayed(c)' <=> Relayed(c)
            BY <3>1 DEF Relayed, EqInput, assembleSumComs, Complete
        <3>4. coord.honest => HonestlyRun'
            BY <1>1, <3>1, <3>3 DEF BlameInv, HonestlyRun, Complete
        <3>5. QED
            BY <3>1, <3>2, <3>4 DEF BlameInv
    <2>3. QED
        BY <1>1, <2>1, <2>2
<1>2. QED
    BY <1>1, BlameInit, DKGInvariant, PTL DEF Spec

\* For every number of participants, threshold and group: as long as the
\* coordinator follows the code, no check accuses it or an honest participant,
\* whatever the faulty participants send and whoever crashes and recovers.
THEOREM DKGBlame == Spec => []DKGBlameSound
<1>1. BlameInv => DKGBlameSound
    BY DEF BlameInv
<1>2. QED
    BY <1>1, DKGBlameInvariant, PTL

-----------------------------------------------------------------------------
(* Recovery *)

\* If the coordinator follows the code, what is certified has as many
\* commitments as the threshold says.
LEMMA HonestComplete ==
    ASSUME DKGInv, BlameInv, coord.honest, NEW p \in Honest, NEW data, Valid(pmsgs2, data)
    PROVE  Complete(data.eqInput)
<1>1. pmsgs2[p] # None /\ pmsgs2[p].msg[2] = data.eqInput
    BY SignedIsCertified
<1>2. /\ pmsgs2[p] = certeqSign(params.HostPubkeys[p], p, coord.eqInput)
      /\ Complete(coord.eqInput)
    BY <1>1 DEF BlameInv, HonestlyRun
<1>3. pmsgs2[p].msg[2] = coord.eqInput
    BY <1>2 DEF certeqSign, schnorrSign, certeqMessage
<1>4. QED
    BY <1>1, <1>2, <1>3

\* As soon as one honest participant has recovery data, Recover gives every
\* honest participant its share from them, the one it computed itself if it
\* still remembers it, just if the transcript has as many commitments as the
\* threshold says; if the coordinator follows the code it has.
THEOREM DKGRecoverable == Spec => []Recoverable
<1>1. DKGInv /\ BlameInv => Recoverable
    <2>1. SUFFICES ASSUME DKGInv, BlameInv, NEW q \in Honest, recovery[q] # None
                   PROVE  LET complete == Len(recovery[q].eqInput.sumComs) = params.Threshold
                          IN  /\ coord.honest => complete
                              /\ \A p \in Honest :
                                    LET r == RecoverFrom(HostSeckeys[p], recovery[q])
                                    IN  /\ r.error = None <=> complete
                                        /\ complete /\ state2[p] # None =>
                                              r.output = state2[p].dkgOutput
                              /\ RecoverFrom(None, recovery[q]).error = None <=> complete
        BY DEF Recoverable
    <2> DEFINE e == recovery[q].eqInput
               complete == Len(e.sumComs) = params.Threshold
    <2>2. Valid(pmsgs2, recovery[q])
        BY <2>1 DEF DKGInv, Finalised
    <2>3. e.t = params.Threshold
        BY <2>1, <2>2, SignedIsCertified DEF Checked
    <2>4. coord.honest => complete
        BY <2>1, <2>2, HonestComplete DEF Complete
    <2>5. ASSUME NEW p \in Honest
          PROVE  LET r == RecoverFrom(HostSeckeys[p], recovery[q])
                 IN  /\ r.error = None <=> complete
                     /\ complete /\ state2[p] # None => r.output = state2[p].dkgOutput
        <3>1. ASSUME complete
              PROVE  RecoverFrom(HostSeckeys[p], recovery[q]) =
                       [output |-> DKGOutput(e.sumComs, ShareIn(e, p)), error |-> None]
            BY <2>1, <2>2, <2>3, <3>1, RecoverSucceeds
        <3>2. RecoverFrom(HostSeckeys[p], recovery[q]).error = None => complete
            BY <2>3, RecoverVerifies
        <3>3. pmsgs2[p].msg[2] = e
            BY <2>1, <2>2, SignedIsCertified
        <3>4. ASSUME state2[p] # None
              PROVE  state2[p].dkgOutput = DKGOutput(e.sumComs, ShareIn(e, p))
            <4>1. /\ pmsgs2[p] = certeqSign(HostPubkeyGen(HostSeckeys[p]), p, state2[p].eqInput)
                  /\ state2[p].dkgOutput =
                        DKGOutput(state2[p].eqInput.sumComs, ShareIn(state2[p].eqInput, p))
                BY <2>1, <3>4 DEF DKGInv, Remembered
            <4>2. state2[p].eqInput = e
                BY <3>3, <4>1 DEF certeqSign, schnorrSign, certeqMessage
            <4>3. QED
                BY <4>1, <4>2
        <3>5. QED
            BY <3>1, <3>2, <3>4
    <2>6. complete => RecoverFrom(None, recovery[q]).error = None
        BY <2>2, <2>3 DEF RecoverFrom, Valid
    <2>7. RecoverFrom(None, recovery[q]).error = None => complete
        BY <2>3, RecoverVerifies
    <2>8. QED
        BY <2>4, <2>5, <2>6, <2>7
<1>2. QED
    BY <1>1, DKGInvariant, DKGBlameInvariant, PTL

-----------------------------------------------------------------------------
(* Types: scalars and points throughout, for a hash that returns scalars *)

Sessions == [HostPubkeys : HostLists, Threshold : Thresholds]

\* Commitments may have any number of coefficients but 0.
IsCommitment(com) == IsExponent(com, Len(com)) /\ Len(com) >= 1

MsgOK(m) ==
    /\ IsCommitment(m.com)
    /\ m.pubnonce \in Element
    /\ m.encShares \in [Participants -> Scalar]

\* A transcript of this session.
EqOK(e) ==
    /\ e.t = params.Threshold /\ e.hostpubkeys = params.HostPubkeys
    /\ IsCommitment(e.sumComs)
    /\ e.pubnonces \in [Participants -> Element]
    /\ e.encSecshares \in [Participants -> Scalar]

\* The numbers of the participants and their IDs are scalars.
LEMMA ParticipantsOK ==
    /\ N \in Nat /\ IsFiniteSet(Participants)
    /\ \A i \in Participants : i \in Nat /\ i + 1 \in Scalar /\ i + 1 # 0
    /\ \A p \in Participants : HostSeckeys[p] \in Scalar
<1>1. N \in Nat /\ N < Q /\ HostSeckeys \in [Participants -> Scalar \ {0}]
    BY ChillAssumption
<1>2. 0 \in Int /\ N - 1 \in Int
    BY <1>1
<1>3. IsFiniteSet(Participants)
    BY <1>2, FS_Interval DEF Participants
<1>4. QED
    BY <1>1, <1>3, QNat DEF Participants

\* The operations on points that ecdhPad and commit use give points.
LEMMA PointsClosed ==
    /\ \A k \in Scalar : ScalarBaseMult(k) \in Element
    /\ \A k \in Scalar, e \in Element : ScalarMult(k, e) \in Element
    /\ \A e, f \in Element : Add(e, f) \in Element
    /\ Identity \in Element
<1>1. \A k \in Scalar : ScalarBaseMult(k) \in Element
    BY DEF Element
<1>2. ASSUME NEW k \in Scalar, NEW e \in Element PROVE ScalarMult(k, e) \in Element
    <2>1. PICK j \in Scalar : e = ScalarBaseMult(j)
        BY DEF Element
    <2>2. ScalarMult(k, e) = ScalarBaseMult(Times[k][j]) /\ Times[k][j] \in Scalar
        BY <2>1, AddBase
    <2>3. QED
        BY <1>1, <2>2
<1>3. ASSUME NEW e \in Element, NEW f \in Element PROVE Add(e, f) \in Element
    <2>1. PICK j \in Scalar, k \in Scalar : e = ScalarBaseMult(j) /\ f = ScalarBaseMult(k)
        BY DEF Element
    <2>2. Add(e, f) = ScalarBaseMult(Plus[j][k]) /\ Plus[j][k] \in Scalar
        BY <2>1, AddBase
    <2>3. QED
        BY <1>1, <2>2
<1>4. Identity \in Element
    BY <1>1, GroupLaws, QNat
<1>5. QED
    BY <1>1, <1>2, <1>3, <1>4

\* The pads on both sides are scalars.
LEMMA PadsOK ==
    ASSUME NEW prm \in Sessions, NEW i \in Participants, NEW k \in Scalar,
           NEW e \in Element, NEW f \in Element
    PROVE  /\ selfPad(k, e, <<i, prm>>) \in Scalar
           /\ ecdhPad(k, e, f, <<i, prm>>, TRUE) \in Scalar
           /\ ecdhPad(k, e, f, <<i, prm>>, FALSE) \in Scalar
<1> DEFINE ctx == <<i, prm>>
           s == ScalarMult(k, f)
<1>1. ctx \in Participants \X Sessions /\ s \in Element
    BY PointsClosed
<1>2. /\ \A shared, pubnonce, enckey \in Element, c \in Participants \X Sessions :
             taggedHashScalar("encpedpop ecdh", <<shared, pubnonce, enckey, c>>) \in Scalar
      /\ \A symkey \in Scalar, nonce \in Element, c \in Participants \X Sessions :
             taggedHashScalar("encaps_multi self_pad", <<symkey, nonce, c>>) \in Scalar
    BY HashRange, Zenon DEF Sessions
<1> HIDE DEF ctx, s
<1>3. /\ taggedHashScalar("encpedpop ecdh", <<s, e, f, ctx>>) \in Scalar
      /\ taggedHashScalar("encpedpop ecdh", <<s, f, e, ctx>>) \in Scalar
      /\ taggedHashScalar("encaps_multi self_pad", <<k, e, ctx>>) \in Scalar
    BY <1>1, <1>2, Zenon
<1>4. QED
    BY <1>3 DEF selfPad, ecdhPad, ctx, s

\* What a participant sends in round 1 is well formed, whatever the degree.
LEMMA ContributionOK ==
    ASSUME params \in Sessions, NEW p \in Participants,
           NEW idx \in Participants, NEW random \in Randoms \cup FaultyRandoms,
           NEW d \in Participants \cup Degrees, NEW t, t = d + 1
    PROVE  MsgOK(Contribution(HostSeckeys[p], t, idx, random))
<1> DEFINE seed == <<HostSeckeys[p], random, params>>
           coeffs == vssGenerate(seed, t)
           secnonce == taggedHashScalar("encpedpop secnonce", seed)
           msg == Contribution(HostSeckeys[p], t, idx, random)
<1>1. d \in Nat /\ t \in Nat /\ t >= 1
    <2>1. Participants \subseteq Nat /\ Degrees \subseteq Nat
        BY ChillAssumption, ParticipantsOK
    <2>2. QED
        BY <2>1
<1>2. /\ secnonce \in Scalar
      /\ \A i \in 0 .. d : taggedHashScalar("vss coeffs", <<seed, i>>) \in Scalar
    BY HashRange, Zenon DEF Sessions
<1>3. params.HostPubkeys \in [Participants -> Element]
    BY ChillAssumption DEF Sessions
<1>4. IsPoly(coeffs, t)
    <2>1. \A i \in 1 .. t : i - 1 \in 0 .. d
        BY <1>1
    <2> HIDE DEF seed
    <2>2. coeffs \in [1 .. t -> Scalar]
        BY <1>2, <2>1 DEF vssGenerate
    <2>3. Len(coeffs) = t
        BY <1>1 DEF vssGenerate
    <2>4. QED
        BY <1>1, <2>2, <2>3 DEF IsPoly
<1> HIDE DEF seed, coeffs, secnonce
<1>5. IsExponent(commit(coeffs), t) /\ Len(commit(coeffs)) = t
    <2>1. coeffs \in [1 .. t -> Scalar] /\ DOMAIN coeffs = 1 .. t
        BY <1>4 DEF IsPoly
    <2>2. commit(coeffs) \in [1 .. t -> Element]
        BY <2>1, PointsClosed DEF commit
    <2>3. Len(commit(coeffs)) = t
        BY <1>1, <2>1 DEF commit
    <2>4. QED
        BY <1>1, <2>2, <2>3 DEF IsExponent
<1>51. IsCommitment(commit(coeffs))
    BY <1>1, <1>5 DEF IsCommitment
<1>6. \A i \in Participants : secshares(coeffs)[i] \in Scalar
    BY <1>4, ParticipantsOK, EvaluateType DEF secshares
<1>7. ScalarBaseMult(secnonce) \in Element
    BY <1>2, PointsClosed
<1> DEFINE enc == encryptMulti(secnonce, HostSeckeys[p], params.HostPubkeys, params, idx,
                               secshares(coeffs))
<1>8. enc \in [Participants -> Scalar]
    <2> DEFINE pad(i) ==
                   IF i = idx THEN selfPad(HostSeckeys[p], ScalarBaseMult(secnonce), <<i, params>>)
                   ELSE ecdhPad(secnonce, ScalarBaseMult(secnonce), params.HostPubkeys[i],
                                <<i, params>>, TRUE)
    <2>1. ASSUME NEW i \in Participants PROVE (secshares(coeffs)[i] + pad(i)) % Q \in Scalar
        <3>1. selfPad(HostSeckeys[p], ScalarBaseMult(secnonce), <<i, params>>) \in Scalar
            BY <1>7, ParticipantsOK, PadsOK
        <3>2. params.HostPubkeys[i] \in Element
            BY <1>3
        <3>3. ecdhPad(secnonce, ScalarBaseMult(secnonce), params.HostPubkeys[i],
                      <<i, params>>, TRUE) \in Scalar
            BY <1>2, <1>7, <3>2, PadsOK
        <3>4. PICK x \in Int : x = pad(i)
            BY <3>1, <3>3, ModScalar
        <3>5. PICK y \in Int : y = secshares(coeffs)[i]
            BY <1>6, ModScalar
        <3>6. y + x \in Int
            OBVIOUS
        <3>7. QED
            BY <3>4, <3>5, <3>6, ModType
    <2>2. enc = [i \in Participants |-> (secshares(coeffs)[i] + pad(i)) % Q]
        BY DEF encryptMulti
    <2> HIDE DEF pad
    <2>3. QED
        BY <2>1, <2>2
<1>9. msg.com = commit(coeffs) /\ msg.pubnonce = ScalarBaseMult(secnonce) /\ msg.encShares = enc
    BY DEF Contribution, simplPedPopParticipantStep1, coeffs, seed, secnonce
<1> HIDE DEF msg, enc
<1>10. QED
    BY <1>51, <1>7, <1>8, <1>9 DEF MsgOK, msg

\* What a faulty participant sends has the right format.
LEMMA ForgeOK ==
    ASSUME ParamsValidate, params \in Sessions, NEW i \in Participants,
           NEW random \in FaultyRandoms, NEW fault \in Faults
    PROVE  MsgOK(Forge(i, random, fault))
<1> DEFINE k == IF fault.kind = "degree" THEN fault.err + 1 ELSE params.Threshold
           msg == Contribution(HostSeckeys[i], k, i, random)
           t == Len(msg.com)
<1>1. MsgOK(msg)
    <2>1. \E d \in Participants \cup Degrees : k = d + 1
        <3>1. CASE fault.kind = "degree"
            BY <3>1, ChillAssumption
        <3>2. CASE fault.kind # "degree"
            <4>1. params.Threshold - 1 \in Participants
                  /\ params.Threshold = (params.Threshold - 1) + 1
                BY ParticipantsOK DEF ParamsValidate, Participants
            <4>2. QED
                BY <3>2, <4>1
        <3>3. QED
            BY <3>1, <3>2
    <2> HIDE DEF k
    <2>2. QED
        BY <2>1, ContributionOK
<1>2. msg = [com |-> msg.com, pop |-> msg.pop, pubnonce |-> msg.pubnonce,
             encShares |-> msg.encShares]
    BY DEF Contribution
<1>3. Forge(i, random, fault) =
        IF fault.kind = "degree" THEN msg
        ELSE IF fault.kind = "shares"
        THEN [msg EXCEPT !.encShares = [j \in Participants |-> (@[j] + fault.err[j]) % Q]]
        ELSE IF fault.kind = "identity"
        THEN [msg EXCEPT !.com[1] = Identity, !.pop = schnorrSign(Identity, i)]
        ELSE [msg EXCEPT !.pop = schnorrSign(None, i)]
    BY DEF Forge
<1> HIDE DEF msg, k
<1>31. CASE fault.kind = "degree"
    BY <1>1, <1>3, <1>31
<1>4. CASE fault.kind = "shares"
    <2> DEFINE f == Forge(i, random, fault)
    <2>1. fault.err \in [Participants -> Scalar]
        BY <1>4, ChillAssumption
    <2>2. /\ f.com = msg.com /\ f.pubnonce = msg.pubnonce
          /\ f.encShares = [j \in Participants |-> (msg.encShares[j] + fault.err[j]) % Q]
        BY <1>2, <1>3, <1>4
    <2>3. ASSUME NEW j \in Participants PROVE (msg.encShares[j] + fault.err[j]) % Q \in Scalar
        <3>1. PICK x \in Int : x = msg.encShares[j]
            BY <1>1, ModScalar DEF MsgOK
        <3>2. PICK y \in Int : y = fault.err[j]
            BY <2>1, ModScalar
        <3>3. x + y \in Int
            OBVIOUS
        <3>4. QED
            BY <3>1, <3>2, <3>3, ModType
    <2> HIDE DEF f
    <2>4. QED
        BY <1>1, <2>2, <2>3 DEF MsgOK, f
<1>5. CASE fault.kind = "identity"
    <2> DEFINE f == Forge(i, random, fault)
    <2>1. /\ f.com = [msg.com EXCEPT ![1] = Identity]
          /\ f.pubnonce = msg.pubnonce /\ f.encShares = msg.encShares
        BY <1>2, <1>3, <1>5
    <2>2. t \in Nat /\ t >= 1 /\ msg.com \in [1 .. t -> Element]
        BY <1>1 DEF MsgOK, IsCommitment, IsExponent
    <2>3. f.com \in [1 .. t -> Element]
        BY <2>1, <2>2, PointsClosed
    <2>4. Len(f.com) = t
        BY <2>2, <2>3
    <2> HIDE DEF f, t
    <2>5. IsCommitment(f.com)
        BY <2>2, <2>3, <2>4 DEF IsCommitment, IsExponent
    <2>6. QED
        BY <1>1, <2>1, <2>5 DEF MsgOK, f
<1>6. CASE fault.kind \notin {"degree", "shares", "identity"}
    BY <1>1, <1>2, <1>3, <1>6 DEF MsgOK
<1>7. QED
    BY <1>31, <1>4, <1>5, <1>6

\* What the coordinator makes of well-formed messages is well formed.
LEMMA AggregateOK ==
    ASSUME NEW msgs, \A i \in Participants : MsgOK(msgs[i]), NEW slots \in Nat
    PROVE  EqOK(EqInput(Aggregate(msgs, slots)))
<1> DEFINE t == slots + 1
           c == Aggregate(msgs, slots)
           secret == SumElements(c.comsToSecrets)
           e == EqInput(c)
<1>1. t \in Nat /\ t >= 1 /\ t - 1 = slots /\ IsFiniteSet(Participants)
    BY ParticipantsOK
<1>2. /\ \A i \in Participants : /\ Len(msgs[i].com) \in Nat /\ Len(msgs[i].com) >= 1
                                 /\ \A k \in 1 .. Len(msgs[i].com) : msgs[i].com[k] \in Element
      /\ \A i \in Participants : msgs[i].pubnonce \in Element
      /\ \A i, j \in Participants : msgs[j].encShares[i] \in Scalar
    BY DEF MsgOK, IsCommitment, IsExponent
<1>21. \A i \in Participants : msgs[i].com[1] \in Element
    BY <1>2
<1>3. /\ c.comsToSecrets = [i \in Participants |-> msgs[i].com[1]]
      /\ c.nonconstTerms = sumComsToNonconstTerms(msgs, slots)
      /\ c.pubnonces = [i \in Participants |-> msgs[i].pubnonce]
      /\ c.encSecshares = [i \in Participants |->
                              SumScalars([j \in Participants |-> msgs[j].encShares[i]])]
    BY DEF Aggregate
<1> HIDE DEF c
<1>4. c.pubnonces \in [Participants -> Element]
    BY <1>2, <1>3
<1>5. c.encSecshares \in [Participants -> Scalar]
    <2>1. ASSUME NEW i \in Participants
          PROVE  SumScalars([j \in Participants |-> msgs[j].encShares[i]]) \in Scalar
        <3>1. [j \in Participants |-> msgs[j].encShares[i]] \in [Participants -> Scalar]
            BY <1>2
        <3>2. QED
            BY <1>1, <3>1, SumScalarsType
    <2>2. QED
        BY <1>3, <2>1
<1>6. secret \in Element
    <2>1. c.comsToSecrets \in [Participants -> Element]
        BY <1>21, <1>3
    <2>2. QED
        BY <1>1, <2>1, SumElementsType
<1>7. c.nonconstTerms \in [1 .. slots -> Element]
    <2> DEFINE term(i, k) == IF k < Len(msgs[i].com) THEN msgs[i].com[k + 1] ELSE Identity
    <2>1. ASSUME NEW k \in 1 .. slots
          PROVE  SumElements([i \in Participants |-> term(i, k)]) \in Element
        <3>1. ASSUME NEW i \in Participants PROVE term(i, k) \in Element
            <4>1. k < Len(msgs[i].com) => k + 1 \in 1 .. Len(msgs[i].com)
                BY <1>2
            <4>2. QED
                BY <1>2, <4>1, PointsClosed
        <3> HIDE DEF term
        <3>2. [i \in Participants |-> term(i, k)] \in [Participants -> Element]
            BY <3>1
        <3>3. QED
            BY <1>1, <3>2, SumElementsType
    <2>2. QED
        BY <1>3, <2>1 DEF sumComsToNonconstTerms
<1> HIDE DEF secret
<1>8. IsCommitment(<<secret>> \o c.nonconstTerms)
    <2> DEFINE s == c.nonconstTerms
    <2>1. s \in Seq(Element) /\ Len(s) = t - 1
        BY <1>1, <1>7
    <2>2. <<secret>> \in Seq(Element) /\ Len(<<secret>>) = 1
        BY <1>6
    <2> HIDE DEF s
    <2>3. <<secret>> \o s \in Seq(Element) /\ Len(<<secret>> \o s) = 1 + (t - 1)
        BY <2>1, <2>2
    <2>4. <<secret>> \o s \in [1 .. t -> Element] /\ Len(<<secret>> \o s) = t
        <3>1. PICK w \in Seq(Element) : w = <<secret>> \o s
            BY <2>3
        <3>2. 1 + (t - 1) = t
            BY <1>1
        <3>3. Len(w) = t
            BY <2>3, <3>1, <3>2
        <3>4. w \in [1 .. Len(w) -> Element]
            OBVIOUS
        <3>5. QED
            BY <3>1, <3>3, <3>4
    <2>5. QED
        BY <1>1, <2>4 DEF IsCommitment, IsExponent, s
<1>9. /\ e.t = params.Threshold /\ e.hostpubkeys = params.HostPubkeys
      /\ e.sumComs = <<secret>> \o c.nonconstTerms
      /\ e.pubnonces = c.pubnonces /\ e.encSecshares = c.encSecshares
    BY DEF EqInput, assembleSumComs, secret
<1> HIDE DEF e
<1>10. EqOK(e)
    BY <1>4, <1>5, <1>8, <1>9 DEF EqOK
<1>11. QED
    BY <1>10 DEF e, c

\* What is decrypted from a transcript is a scalar, and the output made from it
\* consists of scalars and points.
LEMMA DKGOutputOK ==
    ASSUME params \in Sessions, NEW e, EqOK(e), NEW p \in Participants
    PROVE  /\ ShareIn(e, p) \in Scalar
           /\ DKGOutput(e.sumComs, ShareIn(e, p)) \in DKGOutputs
           /\ DKGOutput(e.sumComs, ShareIn(e, p)) # None
<1> DEFINE prm == [HostPubkeys |-> e.hostpubkeys, Threshold |-> e.t]
           pads == decapsMulti(HostSeckeys[p], e.hostpubkeys[p], e.pubnonces, prm, p)
           t == Len(e.sumComs)
<1>1. prm \in Sessions /\ e.hostpubkeys[p] \in Element /\ HostSeckeys[p] \in Scalar
    BY ChillAssumption, ParticipantsOK DEF EqOK, Sessions
<1> HIDE DEF prm
<1>2. ASSUME NEW i \in Participants
      PROVE  /\ selfPad(HostSeckeys[p], e.pubnonces[i], <<p, prm>>) \in Scalar
             /\ ecdhPad(HostSeckeys[p], e.hostpubkeys[p], e.pubnonces[i], <<p, prm>>, FALSE)
                  \in Scalar
    <2>1. e.pubnonces[i] \in Element
        BY DEF EqOK
    <2>2. QED
        BY <1>1, <2>1, PadsOK
<1>3. pads \in [Participants -> Scalar]
    BY <1>2 DEF decapsMulti
<1> HIDE DEF pads
<1>4. ShareIn(e, p) = (e.encSecshares[p] - SumScalars(pads)) % Q
    BY DEF ShareIn, decryptSum, pads, prm
<1>5. ShareIn(e, p) \in Scalar
    <2>1. PICK x \in Int : x = SumScalars(pads)
        BY <1>3, ParticipantsOK, SumScalarsType, ModScalar
    <2>2. PICK y \in Int : y = e.encSecshares[p]
        BY ModScalar DEF EqOK
    <2>3. y - x \in Int
        OBVIOUS
    <2>4. QED
        BY <1>4, <2>1, <2>2, <2>3, ModType
<1>6. IsExponent(e.sumComs, t) /\ t \in Nat /\ t >= 1
    BY DEF EqOK, IsCommitment, IsExponent
<1>7. e.sumComs[1] \in Element
    BY <1>6, ParticipantsOK DEF IsExponent
<1>8. \A i \in Participants : pubshare(e.sumComs, i) \in Element
    BY <1>6, ParticipantsOK, ExponentLogs DEF pubshare
<1>9. DKGOutput(e.sumComs, ShareIn(e, p)) \in DKGOutputs
    BY <1>5, <1>7, <1>8 DEF DKGOutput, DKGOutputs
<1>10. QED
    BY <1>5, <1>9, OutputAssumption

\* Everything sent is well formed, and was sent with valid parameters.
WellFormed ==
    /\ IsMap(pmsgs1) /\ IsMap(cmsg1)
    /\ \A i \in Participants : pmsgs1[i] # None => ParamsValidate /\ MsgOK(pmsgs1[i])
    /\ \A p \in Participants : cmsg1[p] # None => ParamsValidate /\ EqOK(EqInput(cmsg1[p]))
    /\ \A p \in Honest : pmsgs2[p] # None => ParamsValidate /\ EqOK(pmsgs2[p].msg[2])
    /\ \A p \in Honest : phase[p] = "step1" => ParamsValidate

\* Initially nothing is sent.
LEMMA WellFormedInit == Init => WellFormed
BY ChillAssumption DEF Init, Nobody, WellFormed, IsMap

\* Participants send well-formed messages.
LEMMA WellFormedParticipants ==
    ASSUME DKGInv, WellFormed, NEW p \in Honest,
           \/ ParticipantStep1(p) \/ ParticipantStep2(p) \/ ParticipantFinalize(p)
           \/ Crash(p) \/ Recover(p)
    PROVE  WellFormed'
<1>0. /\ p \in Participants /\ params \in Sessions /\ Honest \subseteq Participants
      /\ IsMap(phase) /\ IsMap(pmsgs1) /\ IsMap(pmsgs2) /\ IsMap(cmsg1)
    BY ChillAssumption DEF DKGInv, Maps, Sessions, WellFormed
<1>1. params' = params
    BY DEF ParticipantStep1, ParticipantStep2, ParticipantFinalize, Crash, Recover, Fail
<1>2. \A m : MsgOK(m)' <=> MsgOK(m)
    BY <1>1 DEF MsgOK
<1>3. (\A e : EqOK(e)' <=> EqOK(e)) /\ (ParamsValidate' <=> ParamsValidate)
    BY <1>1 DEF EqOK, ParamsValidate
<1>4. \A c : EqInput(c)' = EqInput(c)
    BY <1>1 DEF EqInput, assembleSumComs
<1>5. CASE /\ UNCHANGED <<pmsgs1, cmsg1, pmsgs2>>
           /\ \A q \in Honest : phase'[q] = "step1" => phase[q] = "step1"
    BY <1>0, <1>1, <1>2, <1>3, <1>4, <1>5 DEF WellFormed, IsMap
<1>6. ASSUME NEW s, s # "step1", phase' = [phase EXCEPT ![p] = s]
      PROVE  \A q \in Honest : phase'[q] = "step1" => phase[q] = "step1"
    BY <1>0, <1>6 DEF IsMap
<1>7. CASE \E e : Fail(p, e)
    BY <1>5, <1>6, <1>7 DEF Fail
<1>8. CASE ParticipantStep1(p) /\ ~ \E e : Fail(p, e)
    <2>1. PICK idx \in Positions(HostSeckeys[p], params.HostPubkeys), random \in Randoms :
              /\ pmsgs1' = [pmsgs1 EXCEPT ![idx] =
                     Contribution(HostSeckeys[p], params.Threshold, idx, random)]
              /\ ParamsValidate
              /\ phase' = [phase EXCEPT ![p] = "step1"]
              /\ UNCHANGED <<params, cmsg1, pmsgs2>>
        BY <1>8 DEF ParticipantStep1
    <2>2. idx \in Participants
        BY DEF Positions
    <2>3. MsgOK(Contribution(HostSeckeys[p], params.Threshold, idx, random))
        <3>1. params.Threshold - 1 \in Participants
              /\ params.Threshold = (params.Threshold - 1) + 1
            BY <2>1, ParticipantsOK DEF ParamsValidate, Participants
        <3>2. QED
            BY <1>0, <2>2, <3>1, ContributionOK
    <2>4. \A i \in Participants : pmsgs1'[i] # None =>
              \/ pmsgs1'[i] = Contribution(HostSeckeys[p], params.Threshold, idx, random)
              \/ pmsgs1'[i] = pmsgs1[i]
        BY <1>0, <2>1, <2>2 DEF IsMap
    <2>5. IsMap(pmsgs1)'
        BY <1>0, <2>1 DEF IsMap
    <2>6. QED
        BY <1>2, <1>3, <1>4, <2>1, <2>3, <2>4, <2>5 DEF WellFormed, IsMap
<1>9. CASE ParticipantStep2(p) /\ ~ \E e : Fail(p, e)
    <2>1. /\ cmsg1[p] # None /\ phase[p] = "step1"
          /\ pmsgs2' = [pmsgs2 EXCEPT ![state1[p].idx] =
                 certeqSign(HostPubkeyGen(HostSeckeys[p]), state1[p].idx, EqInput(cmsg1[p]))]
          /\ phase' = [phase EXCEPT ![p] = "step2"]
          /\ UNCHANGED <<pmsgs1, cmsg1>>
        BY <1>9 DEF ParticipantStep2
    <2>2. state1[p].idx = p
        BY <2>1 DEF DKGInv, Numbered
    <2>3. EqOK(EqInput(cmsg1[p])) /\ ParamsValidate
        BY <1>0, <2>1 DEF WellFormed
    <2>4. pmsgs2'[p].msg[2] = EqInput(cmsg1[p])
        BY <1>0, <2>1, <2>2 DEF IsMap, certeqSign, schnorrSign, certeqMessage
    <2>5. \A q \in Honest \ {p} : pmsgs2'[q] = pmsgs2[q]
        BY <1>0, <2>1, <2>2 DEF IsMap
    <2>6. \A q \in Honest : pmsgs2'[q] # None => ParamsValidate /\ EqOK(pmsgs2'[q].msg[2])
        BY <2>3, <2>4, <2>5 DEF WellFormed
    <2>7. \A q \in Honest : phase'[q] = "step1" => phase[q] = "step1"
        BY <1>6, <2>1
    <2>8. QED
        BY <1>0, <1>1, <1>2, <1>3, <1>4, <2>1, <2>6, <2>7 DEF WellFormed, IsMap
<1>10. CASE ParticipantFinalize(p) /\ ~ \E e : Fail(p, e)
    <2>1. phase' = [phase EXCEPT ![p] = "done"] /\ UNCHANGED <<pmsgs1, cmsg1, pmsgs2>>
        BY <1>10 DEF ParticipantFinalize
    <2>2. QED
        BY <1>5, <1>6, <2>1
<1>11. CASE Crash(p)
    BY <1>5, <1>6, <1>11 DEF Crash
<1>12. CASE Recover(p)
    <2>1. /\ \E s \in {"done", phase[p]} : phase' = [phase EXCEPT ![p] = s]
          /\ phase[p] = "crashed" /\ UNCHANGED <<pmsgs1, cmsg1, pmsgs2>>
        BY <1>12 DEF Recover
    <2>2. PICK s \in {"done", "crashed"} : phase' = [phase EXCEPT ![p] = s]
        BY <2>1
    <2>3. QED
        BY <1>5, <1>6, <2>1, <2>2
<1>13. QED
    BY <1>7, <1>8, <1>9, <1>10, <1>11, <1>12

\* So do the others.
LEMMA WellFormedOthers ==
    ASSUME DKGInv, WellFormed,
           \/ \E p \in Honest : FaultyCoordinatorStep1(p) \/ FaultyCoordinatorFinalize(p)
           \/ CoordinatorStep1 \/ CoordinatorFinalize
           \/ \E i \in Participants \ Honest : FaultyStep1(i) \/ FaultyStep2(i)
    PROVE  WellFormed'
<1>0. /\ params \in Sessions /\ Honest \subseteq Participants
      /\ IsMap(pmsgs1) /\ IsMap(pmsgs2) /\ IsMap(cmsg1)
    BY ChillAssumption DEF DKGInv, Maps, Sessions, WellFormed
<1>1. params' = params /\ phase' = phase
    BY DEF FaultyCoordinatorStep1, FaultyCoordinatorFinalize, CoordinatorStep1,
           CoordinatorFinalize, FaultyStep1, FaultyStep2
<1>2. \A m : MsgOK(m)' <=> MsgOK(m)
    BY <1>1 DEF MsgOK
<1>3. (\A e : EqOK(e)' <=> EqOK(e)) /\ (ParamsValidate' <=> ParamsValidate)
    BY <1>1 DEF EqOK, ParamsValidate
<1>4. \A c : EqInput(c)' = EqInput(c)
    BY <1>1 DEF EqInput, assembleSumComs
<1>5. \A q \in Honest : pmsgs2'[q] = pmsgs2[q]
    BY <1>0
    DEF FaultyCoordinatorStep1, FaultyCoordinatorFinalize, CoordinatorStep1,
        CoordinatorFinalize, FaultyStep1, FaultyStep2, IsMap
<1>6. /\ \A q \in Honest : pmsgs2'[q] # None => ParamsValidate' /\ EqOK(pmsgs2[q].msg[2])'
      /\ \A q \in Honest : phase'[q] = "step1" => ParamsValidate'
    BY <1>1, <1>3, <1>5 DEF WellFormed
<1>7. CASE UNCHANGED <<pmsgs1, cmsg1>>
    BY <1>0, <1>2, <1>3, <1>4, <1>6, <1>7 DEF WellFormed, IsMap
<1>8. CASE \E p \in Honest : FaultyCoordinatorStep1(p)
    <2>1. PICK p \in Honest : FaultyCoordinatorStep1(p)
        BY <1>8
    <2>2. phase[p] = "step1" /\ pmsgs1' = pmsgs1
        BY <2>1 DEF FaultyCoordinatorStep1
    <2>3. ParamsValidate
        BY <2>2 DEF WellFormed
    <2>4. PICK choice \in Choices, slots \in Degrees \cup {params.Threshold - 1} :
              cmsg1' = [cmsg1 EXCEPT ![p] = Aggregate(Mixed(choice), slots)]
        BY <2>1 DEF FaultyCoordinatorStep1
    <2>40. /\ choice \in [Participants -> {None} \cup (FaultyRandoms \X Faults)]
           /\ \A i \in Participants : choice[i] = None => pmsgs1[i] # None
        BY DEF Choices
    <2>41. slots \in Nat
        <3>1. Degrees \subseteq Nat
            BY ChillAssumption
        <3>2. params.Threshold - 1 \in Nat
            BY <2>3 DEF ParamsValidate
        <3>3. QED
            BY <3>1, <3>2
    <2>5. ASSUME NEW i \in Participants PROVE MsgOK(Mixed(choice)[i])
        <3>1. CASE choice[i] = None
            BY <2>40, <3>1 DEF WellFormed, Mixed
        <3>2. CASE choice[i] # None
            <4>1. choice[i][1] \in FaultyRandoms /\ choice[i][2] \in Faults
                BY <2>40, <3>2
            <4>2. MsgOK(Forge(i, choice[i][1], choice[i][2]))
                BY <1>0, <2>3, <4>1, ForgeOK
            <4>3. QED
                BY <3>2, <4>2 DEF Mixed
        <3>3. QED
            BY <3>1, <3>2
    <2>6. EqOK(EqInput(Aggregate(Mixed(choice), slots)))
        BY <2>41, <2>5, AggregateOK
    <2>7. \A q \in Participants : cmsg1'[q] # None =>
              cmsg1'[q] = cmsg1[q] \/ cmsg1'[q] = Aggregate(Mixed(choice), slots)
        BY <1>0, <2>4 DEF IsMap
    <2>8. \A q \in Participants : cmsg1'[q] # None => ParamsValidate /\ EqOK(EqInput(cmsg1'[q]))
        BY <2>3, <2>6, <2>7 DEF WellFormed
    <2>9. IsMap(cmsg1)' /\ IsMap(pmsgs1)'
        BY <1>0, <2>2, <2>4 DEF IsMap
    <2>10. \A i \in Participants : pmsgs1'[i] # None => ParamsValidate' /\ MsgOK(pmsgs1[i])'
        BY <1>2, <1>3, <2>2 DEF WellFormed
    <2>11. \A q \in Participants : cmsg1'[q] # None => ParamsValidate' /\ EqOK(EqInput(cmsg1[q]))'
        BY <1>3, <1>4, <2>8
    <2>12. QED
        BY <1>6, <2>9, <2>10, <2>11 DEF WellFormed
<1>9. CASE CoordinatorStep1 /\ ~ UNCHANGED <<pmsgs1, cmsg1>>
    <2>1. /\ ParamsValidate /\ pmsgs1' = pmsgs1
          /\ \A i \in Participants : pmsgs1[i] # None
          /\ cmsg1' = [p \in Participants |-> Aggregate(pmsgs1, params.Threshold - 1)]
        BY <1>9 DEF CoordinatorStep1
    <2>2. EqOK(EqInput(Aggregate(pmsgs1, params.Threshold - 1)))
        <3>1. params.Threshold - 1 \in Nat
            BY <2>1 DEF ParamsValidate
        <3>2. QED
            BY <2>1, <3>1, AggregateOK DEF WellFormed
    <2>3. \A q \in Participants : cmsg1'[q] = Aggregate(pmsgs1, params.Threshold - 1)
        BY <2>1
    <2>4. \A q \in Participants : EqOK(EqInput(cmsg1[q]))'
        BY <1>3, <1>4, <2>2, <2>3
    <2>5. IsMap(cmsg1)' /\ IsMap(pmsgs1)'
        BY <1>0, <2>1 DEF IsMap
    <2>6. \A i \in Participants : pmsgs1'[i] # None => ParamsValidate' /\ MsgOK(pmsgs1[i])'
        BY <1>2, <1>3, <2>1 DEF WellFormed
    <2>7. QED
        BY <1>3, <1>6, <2>1, <2>4, <2>5, <2>6 DEF WellFormed
<1>10. CASE \E i \in Participants \ Honest : FaultyStep1(i)
    <2>1. PICK i \in Participants, random \in FaultyRandoms, fault \in Faults :
              /\ ParamsValidate
              /\ pmsgs1' = [pmsgs1 EXCEPT ![i] = Forge(i, random, fault)]
              /\ cmsg1' = cmsg1
        BY <1>10 DEF FaultyStep1
    <2>2. MsgOK(Forge(i, random, fault))
        BY <1>0, <2>1, ForgeOK
    <2>3. \A j \in Participants :
              pmsgs1'[j] = pmsgs1[j] \/ pmsgs1'[j] = Forge(i, random, fault)
        BY <1>0, <2>1 DEF IsMap
    <2>4. \A j \in Participants : pmsgs1'[j] # None => ParamsValidate /\ MsgOK(pmsgs1'[j])
        BY <2>1, <2>2, <2>3 DEF WellFormed
    <2>5. IsMap(cmsg1)' /\ IsMap(pmsgs1)'
        BY <1>0, <2>1 DEF IsMap
    <2>6. \A q \in Participants : cmsg1'[q] # None => ParamsValidate' /\ EqOK(EqInput(cmsg1[q]))'
        BY <1>3, <1>4, <2>1 DEF WellFormed
    <2>7. \A j \in Participants : pmsgs1'[j] # None => ParamsValidate' /\ MsgOK(pmsgs1[j])'
        BY <1>2, <1>3, <2>4
    <2>8. QED
        BY <1>6, <2>5, <2>6, <2>7 DEF WellFormed
<1>11. CASE \/ CoordinatorFinalize \/ \E p \in Honest : FaultyCoordinatorFinalize(p)
            \/ \E i \in Participants \ Honest : FaultyStep2(i)
    <2>1. UNCHANGED <<pmsgs1, cmsg1>>
        BY <1>11 DEF CoordinatorFinalize, FaultyCoordinatorFinalize, FaultyStep2
    <2>2. QED
        BY <1>7, <2>1
<1>12. QED
    BY <1>7, <1>8, <1>9, <1>10, <1>11

\* Everything the participants exchange is well formed in every reachable state.
THEOREM DKGWellFormed == Spec => []WellFormed
<1>1. ASSUME DKGInv, WellFormed, [Next]_vars PROVE WellFormed'
    <2>1. CASE Next
        BY <1>1, <2>1, WellFormedParticipants, WellFormedOthers DEF Next
    <2>2. CASE UNCHANGED vars
        BY <1>1, <2>2 DEF vars, WellFormed, IsMap, ParamsValidate, MsgOK, EqOK, EqInput,
            assembleSumComs
    <2>3. QED
        BY <1>1, <2>1, <2>2
<1>2. QED
    BY <1>1, WellFormedInit, DKGInvariant, PTL DEF Spec

\* An output is made from one well-formed transcript.
LEMMA OutputMade ==
    ASSUME DKGInv, WellFormed, NEW p \in Honest, output[p] # None
    PROVE  LET e == recovery[p].eqInput
           IN  /\ ParamsValidate /\ EqOK(e) /\ Checked(p, e)
               /\ params \in Sessions /\ p \in Participants
               /\ output[p] = DKGOutput(e.sumComs, ShareIn(e, p))
               /\ output[p] \in DKGOutputs
               /\ ScalarBaseMult(output[p].SecShare) = output[p].PubShares[p]
<1> DEFINE e == recovery[p].eqInput
<1>1. Valid(pmsgs2, recovery[p]) /\ output[p] = DKGOutput(e.sumComs, ShareIn(e, p))
    BY DEF DKGInv, Finalised
<1>2. pmsgs2[p] # None /\ pmsgs2[p].msg[2] = e /\ Checked(p, e)
    BY <1>1, SignedIsCertified
<1>3. ParamsValidate /\ EqOK(e)
    BY <1>2 DEF WellFormed
<1>4. params \in Sessions /\ p \in Participants
    BY ChillAssumption DEF DKGInv, Maps, Sessions
<1>5. output[p] \in DKGOutputs
    BY <1>1, <1>3, <1>4, DKGOutputOK
<1>6. output[p].SecShare = ShareIn(e, p) /\ output[p].PubShares[p] = pubshare(e.sumComs, p)
    BY <1>1, <1>4 DEF DKGOutput
<1>7. vssVerifySecshare(ShareIn(e, p), pubshare(e.sumComs, p))
    BY <1>2 DEF Checked
<1>8. QED
    BY <1>1, <1>2, <1>3, <1>4, <1>5, <1>6, <1>7 DEF vssVerifySecshare

\* The IDs 1 .. N.
LEMMA IDsOK ==
    /\ IsIDs(1 .. N) /\ Cardinality(1 .. N) = N
    /\ \A C \in SUBSET (1 .. N) : IsIDs(C)
<1>1. N \in Nat /\ N < Q /\ 1 \in Int /\ N \in Int
    BY ChillAssumption
<1>2. IsFiniteSet(1 .. N) /\ Cardinality(1 .. N) = N
    <2>1. Cardinality(1 .. N) = IF 1 > N THEN 0 ELSE N - 1 + 1
        BY <1>1, FS_Interval
    <2>2. IsFiniteSet(1 .. N)
        BY <1>1, FS_Interval
    <2>3. QED
        BY <1>1, <2>1, <2>2
<1>3. 1 .. N \subseteq Scalar \ {0}
    BY <1>1, QNat
<1>4. \A C \in SUBSET (1 .. N) : IsFiniteSet(C)
    BY <1>2, FS_Subset
<1>5. QED
    BY <1>2, <1>3, <1>4 DEF IsIDs

\* A key that an honest participant accepts can be used by as many signers as
\* its transcript has commitments: its own share belongs to its public share,
\* and that many public shares, or all of them in NewPublic, interpolate to the
\* group key.  If the coordinator follows the code, t are enough; nobody checks
\* that one that does not leaves it at t.  This holds as long as threshold + 1
\* does not wrap around in 16 bits, which only n = t = 65535 or more
\* participants reach.
THEOREM DKGUsableKey ==
    ASSUME N + 1 < MaxSize
    PROVE  Spec => []UsableKey
<1>1. DKGInv /\ BlameInv /\ WellFormed => UsableKey
    <2>1. SUFFICES ASSUME DKGInv, BlameInv, WellFormed, NEW p \in Honest, output[p] # None
                   PROVE  LET out    == output[p]
                              needed == Len(recovery[p].eqInput.sumComs)
                              shares == [id \in 1 .. N |-> out.PubShares[id - 1]]
                              public == NewPublic(shares, params.Threshold)
                          IN  /\ ScalarBaseMult(out.SecShare) = out.PubShares[p]
                              /\ coord.honest => needed = params.Threshold
                              /\ \A C \in SUBSET (1 .. N) : Cardinality(C) >= needed =>
                                      computeGroupKey(C, shares) = out.ThresholdPubkey
                              /\ IF params.Threshold = N THEN public = None
                                 ELSE needed <= N => public.GroupKey = out.ThresholdPubkey
        BY DEF UsableKey
    <2> DEFINE out == output[p]
               e == recovery[p].eqInput
               needed == Len(e.sumComs)
               t == params.Threshold
               shares == [id \in 1 .. N |-> out.PubShares[id - 1]]
               public == NewPublic(shares, t)
    <2>2. /\ ParamsValidate /\ EqOK(e) /\ out = DKGOutput(e.sumComs, ShareIn(e, p))
          /\ ScalarBaseMult(out.SecShare) = out.PubShares[p]
        BY <2>1, OutputMade
    <2>3. /\ IsExponent(e.sumComs, needed) /\ needed \in Nat /\ needed >= 1
          /\ t \in 1 .. N /\ N \in Nat /\ t \in Nat /\ t >= 1
        BY <2>2, ParticipantsOK DEF EqOK, IsCommitment, IsExponent, ParamsValidate
    <2>31. coord.honest => needed = t
        <3>1. Valid(pmsgs2, recovery[p])
            BY <2>1 DEF DKGInv, Finalised
        <3>2. QED
            BY <2>1, <3>1, HonestComplete DEF Complete
    <2>4. ASSUME NEW id \in 1 .. N PROVE shares[id] = EvaluateExponent(e.sumComs, id)
        <3>1. id - 1 \in Participants /\ (id - 1) + 1 = id
            BY <2>3 DEF Participants
        <3>2. QED
            BY <2>2, <3>1 DEF DKGOutput, pubshare
    <2>5. out.ThresholdPubkey = e.sumComs[1]
        BY <2>2 DEF DKGOutput
    <2>6. DOMAIN shares = 1 .. N
        OBVIOUS
    <2> HIDE DEF out, e, shares, needed
    <2>7. ASSUME NEW C \in SUBSET (1 .. N), Cardinality(C) >= needed
          PROVE  computeGroupKey(C, shares) = out.ThresholdPubkey
        <3>1. IsIDs(C) /\ \A i \in C : shares[i] = EvaluateExponent(e.sumComs, i)
            BY <2>4, IDsOK
        <3>2. QED
            BY <2>3, <2>5, <2>7, <3>1, PointsInterpolate
    <2>8. MaxSize \in Nat /\ MaxSize > 0
        BY DEF MaxSize
    <2>9. (t + 1) % MaxSize = t + 1
        <3> HIDE DEF t
        <3>1. t + 1 \in Nat /\ t + 1 < MaxSize
            BY <2>3, <2>8
        <3>2. QED
            BY <2>8, <3>1
    <2>10. t = N => public = None
        BY <2>3, <2>6, <2>9, IDsOK DEF NewPublic
    <2>11. t # N /\ needed <= N => public.GroupKey = out.ThresholdPubkey
        <3>1. SUFFICES ASSUME t # N, needed <= N
                       PROVE  public.GroupKey = out.ThresholdPubkey
            OBVIOUS
        <3>2. ~ ((t + 1) % MaxSize > Cardinality(DOMAIN shares))
            BY <2>3, <2>6, <2>9, <3>1, IDsOK
        <3>3. public.GroupKey = computeGroupKey(1 .. N, shares)
            BY <2>6, <3>2 DEF NewPublic
        <3>4. computeGroupKey(1 .. N, shares) = out.ThresholdPubkey
            BY <2>3, <2>7, <3>1, IDsOK
        <3>5. QED
            BY <3>3, <3>4
    <2>12. QED
        BY <2>2, <2>31, <2>7, <2>10, <2>11 DEF out, shares, needed, e
<1>2. QED
    BY <1>1, DKGInvariant, DKGBlameInvariant, DKGWellFormed, PTL

\* What a complete certificate determines is an output.
LEMMA ValidOutput ==
    ASSUME DKGInv, WellFormed, NEW p \in Honest, NEW data, Valid(pmsgs2, data)
    PROVE  DKGOutput(data.eqInput.sumComs, ShareIn(data.eqInput, p)) # None
<1>1. pmsgs2[p] # None /\ pmsgs2[p].msg[2] = data.eqInput
    BY SignedIsCertified
<1>2. ParamsValidate /\ EqOK(data.eqInput)
    BY <1>1 DEF WellFormed
<1>3. params \in Sessions /\ p \in Participants
    BY ChillAssumption DEF DKGInv, Maps, Sessions
<1>4. QED
    BY <1>2, <1>3, DKGOutputOK

\* Data that Recover may be given are genuine.
LEMMA RecoveryGenuine ==
    ASSUME DKGInv, NEW data \in RecoveryData
    PROVE  Genuine(pmsgs2, data.cert)
<1> USE DEF DKGInv
<1>1. CASE \E q \in Honest : data = recovery[q] /\ recovery[q] # None
    BY <1>1 DEF Finalised, Valid
<1>2. CASE data = coord.recovery /\ coord.recovery # None
    BY <1>2 DEF CertsGenuine
<1>3. CASE \E e \in Transcripts : data = [eqInput |-> e, cert |-> Certificate(e)]
    BY <1>3, ChillAssumption DEF Genuine, Certificate
<1>4. QED
    BY <1>1, <1>2, <1>3 DEF RecoveryData

\* The type invariant and that errors and outputs are kept by participant.
DKGTypeInv == DKGTypeOK /\ IsMap(error)

\* Initially there are neither outputs nor errors.
LEMMA TypeInit == Init => DKGTypeInv
BY DEF Init, Nobody, DKGTypeInv, DKGTypeOK, IsMap

\* Participant p goes to phase s, with output o and error e.
Updates(p, s, o, e) ==
    /\ s \in {"start", "step1", "step2", "done", "failed", "crashed"}
    /\ s = "done" <=> o # None
    /\ e # None => s \in {"failed", "crashed"}
    /\ phase' = [phase EXCEPT ![p] = s]
    /\ output' = [output EXCEPT ![p] = o]
    /\ error' = [error EXCEPT ![p] = e]
    /\ coord' = coord

\* An update of one participant keeps the type invariant.
LEMMA TypeUpdate ==
    ASSUME DKGInv, DKGTypeInv, NEW p \in Participants, NEW s, NEW o, NEW e,
           Updates(p, s, o, e)
    PROVE  DKGTypeInv'
<1> USE DEF Updates
<1>1. IsMap(output) /\ IsMap(error)
      /\ phase \in [Participants -> {"start", "step1", "step2", "done", "failed", "crashed"}]
    BY DEF DKGInv, Maps, DKGTypeInv, DKGTypeOK
<1>2. phase' \in [Participants -> {"start", "step1", "step2", "done", "failed", "crashed"}]
    BY <1>1
<1>3. /\ phase'[p] = s /\ output'[p] = o /\ error'[p] = e
      /\ \A q \in Participants \ {p} :
            phase'[q] = phase[q] /\ output'[q] = output[q] /\ error'[q] = error[q]
    BY <1>1 DEF IsMap
<1>4. IsMap(error)'
    BY <1>1 DEF IsMap
<1>5. ASSUME NEW q \in Participants
      PROVE  /\ phase'[q] = "done" <=> output'[q] # None
             /\ error'[q] # None => phase'[q] \in {"failed", "crashed"}
    BY <1>3 DEF DKGTypeInv, DKGTypeOK
<1>6. QED
    BY <1>2, <1>4, <1>5 DEF DKGTypeInv, DKGTypeOK

\* The steps of a participant.
LEMMA TypeParticipants ==
    ASSUME DKGInv, WellFormed, DKGTypeInv, NEW p \in Honest,
           \/ ParticipantStep1(p) \/ ParticipantStep2(p) \/ ParticipantFinalize(p)
           \/ Crash(p) \/ Recover(p)
    PROVE  DKGTypeInv'
<1>0. /\ p \in Participants
      /\ IsMap(phase) /\ IsMap(output) /\ IsMap(error)
    BY ChillAssumption DEF DKGInv, Maps, DKGTypeInv
<1>1. /\ phase[p] = "done" <=> output[p] # None
      /\ error[p] # None => phase[p] \in {"failed", "crashed"}
      /\ phase[p] \in {"start", "step1", "step2", "done", "failed", "crashed"}
    BY <1>0 DEF DKGTypeInv, DKGTypeOK
<1>2. [output EXCEPT ![p] = output[p]] = output /\ [error EXCEPT ![p] = error[p]] = error
    BY <1>0 DEF IsMap
<1>3. CASE \E e : Fail(p, e)
    <2>1. PICK e : Fail(p, e)
        BY <1>3
    <2>2. phase[p] # "done"
        <3>1. CASE ParticipantStep1(p) \/ ParticipantStep2(p) \/ ParticipantFinalize(p)
            BY <3>1 DEF ParticipantStep1, ParticipantStep2, ParticipantFinalize
        <3>2. CASE Crash(p)
            <4>1. phase'[p] = "failed" /\ phase'[p] = "crashed"
                BY <1>0, <2>1, <3>2 DEF Fail, Crash, IsMap
            <4>2. QED
                BY <4>1
        <3>3. CASE Recover(p)
            BY <3>3 DEF Recover
        <3>4. QED
            BY <3>1, <3>2, <3>3
    <2>3. output[p] = None
        BY <1>1, <2>2
    <2>4. /\ phase' = [phase EXCEPT ![p] = "failed"] /\ error' = [error EXCEPT ![p] = e]
          /\ output' = [output EXCEPT ![p] = output[p]] /\ coord' = coord
        BY <1>2, <2>1 DEF Fail
    <2>5. Updates(p, "failed", output[p], e)
        BY <1>0, <2>3, <2>4 DEF Updates
    <2>6. QED
        BY <1>0, <2>5, TypeUpdate
<1>4. CASE (ParticipantStep1(p) \/ ParticipantStep2(p)) /\ ~ \E e : Fail(p, e)
    <2>1. PICK s \in {"step1", "step2"} :
              /\ phase' = [phase EXCEPT ![p] = s]
              /\ UNCHANGED <<coord, output, error>>
              /\ phase[p] \in {"start", "step1"}
        BY <1>4 DEF ParticipantStep1, ParticipantStep2
    <2>2. output[p] = None /\ error[p] = None
        BY <1>1, <2>1
    <2>3. /\ output' = [output EXCEPT ![p] = output[p]]
          /\ error' = [error EXCEPT ![p] = error[p]] /\ coord' = coord
        BY <1>2, <2>1
    <2>4. Updates(p, s, output[p], error[p])
        BY <1>0, <2>1, <2>2, <2>3 DEF Updates
    <2>5. QED
        BY <1>0, <2>4, TypeUpdate
<1>5. CASE ParticipantFinalize(p) /\ ~ \E e : Fail(p, e)
    <2> DEFINE e == state2[p].eqInput
               data == [eqInput |-> e, cert |-> cmsg2[p]]
               o == state2[p].dkgOutput
    <2>1. /\ phase[p] = "step2" /\ cmsg2[p] # None
          /\ certeqVerify(params.HostPubkeys, e, cmsg2[p]) = None
          /\ output' = [output EXCEPT ![p] = o]
          /\ phase' = [phase EXCEPT ![p] = "done"]
          /\ UNCHANGED <<coord, error>>
        BY <1>5 DEF ParticipantFinalize
    <2>2. e.hostpubkeys = params.HostPubkeys /\ o = DKGOutput(e.sumComs, ShareIn(e, p))
        BY <2>1 DEF DKGInv, Remembered
    <2>3. Genuine(pmsgs2, cmsg2[p])
        BY <2>1 DEF DKGInv, CertsGenuine
    <2>4. Valid(pmsgs2, data) /\ data.eqInput = e
        BY <2>1, <2>2, <2>3 DEF Valid
    <2> HIDE DEF data, o, e
    <2>5. o # None
        BY <2>2, <2>4, ValidOutput
    <2>6. error' = [error EXCEPT ![p] = error[p]] /\ coord' = coord /\ error[p] = None
        BY <1>1, <1>2, <2>1
    <2>7. Updates(p, "done", o, error[p])
        BY <1>0, <2>1, <2>5, <2>6 DEF Updates
    <2>8. QED
        BY <1>0, <2>7, TypeUpdate
<1>6. CASE Crash(p)
    <2>1. /\ phase' = [phase EXCEPT ![p] = "crashed"] /\ output' = [output EXCEPT ![p] = None]
          /\ error' = [error EXCEPT ![p] = None] /\ coord' = coord
        BY <1>6 DEF Crash
    <2>2. Updates(p, "crashed", None, None)
        BY <1>0, <2>1 DEF Updates
    <2>3. QED
        BY <1>0, <2>2, TypeUpdate
<1>7. CASE Recover(p)
    <2>1. PICK data \in RecoveryData :
              LET r == RecoverFrom(HostSeckeys[p], data)
              IN  /\ output' = [output EXCEPT ![p] = r.output]
                  /\ error' = [error EXCEPT ![p] = r.error]
                  /\ phase' = [phase EXCEPT ![p] = IF r.error = None THEN "done" ELSE @]
        BY <1>7 DEF Recover
    <2>2. phase[p] = "crashed" /\ coord' = coord
        BY <1>7 DEF Recover
    <2> DEFINE r == RecoverFrom(HostSeckeys[p], data)
    <2>3. CASE r.error = None
        <3>1. Valid(pmsgs2, data) /\ Len(data.eqInput.sumComs) = data.eqInput.t
            BY <2>3, RecoverVerifies, RecoveryGenuine DEF Valid
        <3>2. r.output = DKGOutput(data.eqInput.sumComs, ShareIn(data.eqInput, p))
            <4>1. RecoverFrom(HostSeckeys[p], data) =
                    [output |-> DKGOutput(data.eqInput.sumComs, ShareIn(data.eqInput, p)),
                     error |-> None]
                BY <3>1, RecoverSucceeds
            <4>2. QED
                BY <4>1
        <3>3. r.output # None
            BY <3>1, <3>2, ValidOutput
        <3>4. /\ output' = [output EXCEPT ![p] = r.output]
              /\ error' = [error EXCEPT ![p] = None]
              /\ phase' = [phase EXCEPT ![p] = "done"]
            BY <2>1, <2>3
        <3> HIDE DEF r
        <3>5. Updates(p, "done", r.output, None)
            BY <1>0, <2>2, <3>3, <3>4 DEF Updates
        <3>6. QED
            BY <1>0, <3>5, TypeUpdate
    <2>4. CASE r.error # None
        <3>1. r.output = None
            BY <2>4, RecoverFails
        <3>2. /\ output' = [output EXCEPT ![p] = None]
              /\ error' = [error EXCEPT ![p] = r.error]
              /\ phase' = [phase EXCEPT ![p] = "crashed"]
            BY <2>1, <2>2, <2>4, <3>1
        <3> HIDE DEF r
        <3>3. Updates(p, "crashed", None, r.error)
            BY <1>0, <2>2, <3>2 DEF Updates
        <3>4. QED
            BY <1>0, <3>3, TypeUpdate
    <2>5. QED
        BY <2>3, <2>4
<1>8. QED
    BY <1>3, <1>4, <1>5, <1>6, <1>7

\* The type invariant: a participant has an output exactly when it is done, and
\* an error only after a step or a recovery has failed.
THEOREM DKGTyped == Spec => []DKGTypeOK
<1>1. ASSUME DKGInv, WellFormed, DKGTypeInv,
             \/ \E p \in Honest : FaultyCoordinatorStep1(p) \/ FaultyCoordinatorFinalize(p)
             \/ CoordinatorStep1 \/ CoordinatorFinalize
             \/ \E i \in Participants \ Honest : FaultyStep1(i) \/ FaultyStep2(i)
      PROVE  DKGTypeInv'
    <2>1. UNCHANGED <<phase, output, error>>
        BY <1>1 DEF FaultyCoordinatorStep1, FaultyCoordinatorFinalize, CoordinatorStep1,
               CoordinatorFinalize, FaultyStep1, FaultyStep2
    <2>2. coord'.phase \in {coord.phase, "step1", "done", "failed", "panicked"}
        BY <1>1 DEF FaultyCoordinatorStep1, FaultyCoordinatorFinalize, CoordinatorStep1,
               CoordinatorFinalize, FaultyStep1, FaultyStep2, DKGInv, Maps
    <2>3. QED
        BY <1>1, <2>1, <2>2 DEF DKGTypeInv, DKGTypeOK, IsMap
<1>2. ASSUME DKGInv, WellFormed, DKGTypeInv, [Next]_vars PROVE DKGTypeInv'
    <2>1. CASE Next
        BY <1>1, <1>2, <2>1, TypeParticipants DEF Next
    <2>2. CASE UNCHANGED vars
        BY <1>2, <2>2 DEF vars, DKGTypeInv, DKGTypeOK, IsMap
    <2>3. QED
        BY <1>2, <2>1, <2>2
<1>3. DKGTypeInv => DKGTypeOK
    BY DEF DKGTypeInv
<1>4. QED
    BY <1>2, <1>3, TypeInit, DKGInvariant, DKGWellFormed, PTL DEF Spec
=============================================================================

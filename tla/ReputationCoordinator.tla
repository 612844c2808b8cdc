------------------------- MODULE ReputationCoordinator -------------------------
(***************************************************************************)
(* The reputation-weighted ROAST coordinator (pkg/roast/reputation.go).    *)
(* It keeps a weight per signer, rewards valid shares, zeroes the weight   *)
(* of banned signers, decays the weight of those that sat out the final    *)
(* session, and picks the signers of a session by weight, then by id.      *)
(* Sessions and shares are those of RoastSession.                          *)
(*                                                                         *)
(* Weights are integers in units small enough for Gamma = GammaNum /       *)
(* GammaDen to be applied exactly: the code's default configuration        *)
(* (1.0, 3.0, 0.5, 0.8) is (10, 30, 5, 8/10) in tenths.                    *)
(***************************************************************************)
EXTENDS RoastSession

CONSTANTS W0, WMax, DeltaPos, GammaNum, GammaDen

\* ReputationConfig.Validate.
ValidConfig ==
    /\ 0 < GammaNum /\ GammaNum < GammaDen
    /\ DeltaPos > 0
    /\ W0 > 0
    /\ WMax >= W0

\* Party IDs are numbers, and NewReputationCoordinator accepts the configuration.
ASSUME ConfigAssumption ==
    /\ Parties \subseteq Nat
    /\ {W0, WMax, DeltaPos, GammaNum, GammaDen} \subseteq Nat
    /\ ValidConfig

\* The unit is small enough: a decay of the initial weight, which is never 0
\* in the code's floating point, is not rounded to 0 here either.
ASSUME UnitAssumption == W0 * GammaNum >= GammaDen

VARIABLES responsive, malicious, preShares, signerSID, sessions, sidCounter,
          signature, done, reply,  \* as in RoastCoordinator
          weights                  \* weights[p]: the reputation of signer p

table == <<sessions, sidCounter, signature, done>>

standing == <<responsive, malicious, preShares, signerSID>>

repvars == <<standing, table, reply, weights>>

Init ==
    /\ responsive = {}
    /\ malicious = {}
    /\ preShares = [p \in Parties |-> NoPreShare]
    /\ signerSID = [p \in Parties |-> 0]
    /\ sessions = [sid \in {} |-> NewSession({}, preShares)]
    /\ sidCounter = 0
    /\ signature = NilSignature
    /\ done = FALSE
    /\ reply = [sig |-> NilSignature, sid |-> 0, err |-> "nil"]
    /\ weights = [p \in Parties |-> W0]

Returns(sig, sid, err) == reply' = [sig |-> sig, sid |-> sid, err |-> err]

-----------------------------------------------------------------------------
(* Weights *)

\* The weights w with a reward for signer id.
reward(w, id) ==
    [w EXCEPT ![id] = IF @ + DeltaPos < WMax THEN @ + DeltaPos ELSE WMax]

decayNonParticipants(w, participants) ==
    [p \in Parties |->
        IF p \in participants \/ p \in malicious THEN w[p]
        ELSE (w[p] * GammaNum) \div GammaDen]

\* The order of initiateSession's sort: heavier first, then the smaller id.
Before(w, i, j) == w[i] > w[j] \/ (w[i] = w[j] /\ i < j)

\* The first T candidates in that order.
Select(w, candidates) ==
    CHOOSE S \in SUBSET candidates :
        /\ Cardinality(S) = T
        /\ \A i \in S, j \in candidates \ S : Before(w, i, j)

-----------------------------------------------------------------------------
(* HandleResponse *)

\* Mutant: the weight of a banned signer survives.
markMaliciousKeepsWeight(id) ==
    /\ malicious' = malicious \cup {id}
    /\ responsive' = responsive \ {id}
    /\ preShares' = [preShares EXCEPT ![id] = NoPreShare]
    /\ signerSID' = [signerSID EXCEPT ![id] = 0]
    /\ UNCHANGED <<table, weights>>

\* Mutant: a banned signer stays pending.
markMaliciousKeepsSID(id) ==
    /\ malicious' = malicious \cup {id}
    /\ weights' = [weights EXCEPT ![id] = 0]
    /\ responsive' = responsive \ {id}
    /\ preShares' = [preShares EXCEPT ![id] = NoPreShare]
    /\ UNCHANGED <<table, signerSID>>

markMalicious(id) ==
    /\ malicious' = malicious \cup {id}
    /\ weights' = [weights EXCEPT ![id] = 0]
    /\ responsive' = responsive \ {id}
    /\ preShares' = [preShares EXCEPT ![id] = NoPreShare]
    /\ signerSID' = [signerSID EXCEPT ![id] = 0]
    /\ UNCHANGED table

Refuse(from) ==
    /\ \/ done /\ Returns(signature, 0, "AlreadyComplete")
       \/ ~done /\ from \in malicious /\ Returns(NilSignature, 0, "SignerMalicious")
    /\ UNCHANGED <<standing, table, weights>>

Unsolicited(from) ==
    /\ ~done /\ from \notin malicious
    /\ from \in responsive
    /\ markMalicious(from)
    /\ Returns(NilSignature, 0, "Unsolicited")

Solicited(from) == ~done /\ from \notin malicious /\ from \notin responsive

Pending(from) == signerSID[from] # 0

GoodShare(from, sigShare) ==
    /\ sigShare # NilShare
    /\ Validate(sessions[signerSID[from]], from, sigShare)

InvalidShare(from, sigShare) ==
    /\ Solicited(from) /\ Pending(from)
    /\ ~GoodShare(from, sigShare)
    /\ markMalicious(from)
    /\ Returns(NilSignature, 0, "InvalidShare")

\* The sessions and the weights once a valid share of from has been stored:
\* the sender is rewarded, and a session that is complete thereby decays the
\* weights of everybody outside it, before its signature is verified.
Answered(from, sigShare) == Store(sessions[signerSID[from]], from, sigShare)

Stored(from, sigShare) ==
    [sid \in DOMAIN sessions |->
        IF sid = signerSID[from] THEN Answered(from, sigShare) ELSE sessions[sid]]

\* Mutant: every valid share decays the others.
ReweightedEachTime(from, sigShare) ==
    IF ~Pending(from) THEN weights
    ELSE decayNonParticipants(reward(weights, from), Answered(from, sigShare).signerSet)

Reweighted(from, sigShare) ==
    IF ~Pending(from) THEN weights
    ELSE IF IsComplete(Answered(from, sigShare))
         THEN decayNonParticipants(reward(weights, from),
                                   Answered(from, sigShare).signerSet)
         ELSE reward(weights, from)

Completes(from, sigShare) ==
    /\ Pending(from)
    /\ IsComplete(Answered(from, sigShare))
    /\ Verify(SignAgg(Answered(from, sigShare)))

Finish(from, sigShare) ==
    /\ Solicited(from) /\ Pending(from)
    /\ GoodShare(from, sigShare)
    /\ Completes(from, sigShare)
    /\ sessions' = Stored(from, sigShare)
    /\ weights' = Reweighted(from, sigShare)
    /\ signature' = SignAgg(Answered(from, sigShare))
    /\ done' = TRUE
    /\ Returns(SignAgg(Answered(from, sigShare)), 0, "nil")
    /\ UNCHANGED <<standing, sidCounter>>

initiateSession(candidates, pre, sids, stored, w) ==
    LET signerSet == Select(w, candidates)
        sid == sidCounter + 1
    IN  /\ sidCounter' = sid
        /\ sessions' = [s \in 1 .. sid |->
                           IF s = sid
                           THEN NewSession(signerSet, SessionPreShares(signerSet, pre))
                           ELSE stored[s]]
        /\ signerSID' = [p \in Parties |-> IF p \in signerSet THEN sid ELSE sids[p]]
        /\ responsive' = candidates \ signerSet

\* Mutant: off by one.
QuorumPlusOne(candidates) == Cardinality(candidates) > T

Quorum(candidates) == Cardinality(candidates) >= T

Accept(from, sigShare, preShare) ==
    LET candidates == responsive \cup {from}
        pre == [preShares EXCEPT ![from] = preShare]
        sids == [signerSID EXCEPT ![from] = 0]
        launch == Quorum(candidates)
    IN  /\ Solicited(from)
        /\ Pending(from) => GoodShare(from, sigShare)
        /\ ~Completes(from, sigShare)
        /\ weights' = Reweighted(from, sigShare)
        /\ preShares' = pre
        /\ \/ /\ launch
              /\ initiateSession(candidates, pre, sids, Stored(from, sigShare), weights')
           \/ /\ ~launch
              /\ responsive' = candidates
              /\ signerSID' = sids
              /\ sessions' = Stored(from, sigShare)
              /\ UNCHANGED sidCounter
        /\ IF Cardinality(malicious) > N - T
           THEN Returns(NilSignature, 0, "TooManyMalicious")
           ELSE Returns(NilSignature, IF launch THEN sidCounter + 1 ELSE 0, "nil")
        /\ UNCHANGED <<malicious, signature, done>>

HandleResponse(from, sigShare, preShare) ==
    \/ Refuse(from)
    \/ Unsolicited(from)
    \/ InvalidShare(from, sigShare)
    \/ Finish(from, sigShare)
    \/ Accept(from, sigShare, preShare)

Next ==
    \E from \in Parties, sigShare \in SigShare \cup {NilShare},
       preShare \in PreShares :
          HandleResponse(from, sigShare, preShare)

Spec == Init /\ [][Next]_repvars

-----------------------------------------------------------------------------
(* Properties *)

\* The plain coordinator, over the same fields.
Base == INSTANCE RoastCoordinator

\* The reputation coordinator is a ROAST coordinator: forgetting the weights,
\* each call does what pkg/roast/coordinator.go does for some iteration order
\* of its map, so the session bound and all that is proved of RoastCoordinator
\* carries over.
ImplementsCoordinator == Base!Spec

\* Weights stay within 0 .. WMax, and only banned signers have weight 0: no
\* reward revives a banned signer and no decay silences one in good standing.
WeightsReflectStanding ==
    \A p \in Parties : /\ weights[p] \in 0 .. WMax
                       /\ weights[p] = 0 <=> p \in malicious

\* A weight falls only when its signer is banned or in the call that ends the
\* signing: while a signing lasts, waiting in a slow session costs nothing.
DecayOnlyAtTheEnd ==
    [][\A p \in Parties : weights'[p] < weights[p] => p \in malicious' \/ done']_repvars

\* No responsive signer is passed over for its weight: a session takes every
\* candidate there is, so the sort by weight never decides who signs.
NobodyPassedOver ==
    [][sidCounter' # sidCounter => responsive' = {}]_repvars
=============================================================================

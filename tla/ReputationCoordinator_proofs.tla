--------------------- MODULE ReputationCoordinator_proofs ---------------------
(***************************************************************************)
(* Proofs about ReputationCoordinator: it is a ROAST coordinator, its      *)
(* sort never decides who signs, and its weights mean what they should.    *)
(***************************************************************************)
EXTENDS ReputationCoordinator, FiniteSetTheorems, TLAPS

-----------------------------------------------------------------------------
(* Sound sessions *)

\* The sets of signers are finite, and counting them gives naturals.
LEMMA PartiesFinite ==
    ASSUME NEW S \in SUBSET Parties
    PROVE  IsFiniteSet(S) /\ Cardinality(S) \in Nat /\ Cardinality(S) <= N
  BY RoastAssumption, FS_Subset, FS_CardinalityType DEF N

\* The threshold and the number of signers are naturals.
LEMMA TIsNat == T \in Nat /\ T >= 1 /\ T <= N + 1 /\ N \in Nat
  BY RoastAssumption, FS_CardinalityType DEF N

\* A session has T signers, the ones whose commitments entered it; it holds
\* shares of its signers only, and each one verifies.
Sound(s) ==
    /\ s.signerSet = {p \in Parties : s.preShares[p] # NoPreShare}
    /\ Cardinality(s.signerSet) = T
    /\ Holders(s.sigShares) \subseteq s.signerSet
    /\ \A p \in Holders(s.sigShares) : ShareVal(s, p, s.sigShares[p])

\* NewSession makes a sound session of T signers that sent commitments.
LEMMA NewSessionSound ==
    ASSUME NEW signerSet \in SUBSET Parties, Cardinality(signerSet) = T,
           NEW pre \in PreShareMap, \A p \in signerSet : pre[p] # NoPreShare
    PROVE  /\ NewSession(signerSet, SessionPreShares(signerSet, pre)) \in Session
           /\ Sound(NewSession(signerSet, SessionPreShares(signerSet, pre)))
  <1> DEFINE s == NewSession(signerSet, SessionPreShares(signerSet, pre))
  <1>1. /\ s.signerSet = signerSet
        /\ s.preShares = [p \in Parties |-> IF p \in signerSet THEN pre[p] ELSE NoPreShare]
        /\ s.sigShares = [p \in Parties |-> NilShare]
    BY DEF NewSession, SessionPreShares
  <1>2. Holders(s.sigShares) = {}
    BY <1>1 DEF Holders
  <1>3. signerSet = {p \in Parties : s.preShares[p] # NoPreShare}
    BY <1>1
  <1>4. s \in Session
    BY DEF NewSession, Session, SigShareMap, SessionPreShares, PreShareMap
  <1> HIDE DEF s
  <1>5. Sound(s)
    BY <1>1, <1>2, <1>3 DEF Sound
  <1> QED
    BY <1>4, <1>5 DEF s

\* ValidateAndStore keeps a session sound.
LEMMA StoreSound ==
    ASSUME NEW s \in Session, Sound(s), NEW id \in Parties, NEW x \in SigShare,
           Validate(s, id, x)
    PROVE  Store(s, id, x) \in Session /\ Sound(Store(s, id, x))
  <1> DEFINE t == Store(s, id, x)
  <1>1. /\ t \in Session
        /\ t.signerSet = s.signerSet /\ t.preShares = s.preShares
        /\ t.sigShares = [s.sigShares EXCEPT ![id] = x]
    <2>1. [s.sigShares EXCEPT ![id] = x] \in SigShareMap
      BY DEF Session, SigShareMap
    <2> QED
      BY <2>1 DEF Store, Session
  <1>2. s.sigShares \in [Parties -> SigShare \cup {NilShare}]
    BY DEF Session, SigShareMap
  <1> HIDE DEF t
  <1>3. Holders(t.sigShares) = Holders(s.sigShares) \cup {id}
    BY <1>1, <1>2, NilAssumption DEF Holders
  <1>4. ASSUME NEW p \in Holders(t.sigShares)
        PROVE  ShareVal(t, p, t.sigShares[p])
    <2>1. CASE p = id
      BY <1>1, <1>2, <2>1 DEF Validate, ShareVal
    <2>2. CASE p # id
      <3>1. p \in Holders(s.sigShares) /\ t.sigShares[p] = s.sigShares[p]
        BY <1>1, <1>2, <1>3, <1>4, <2>2 DEF Holders
      <3> QED
        BY <1>1, <3>1 DEF Sound, ShareVal
    <2> QED
      BY <2>1, <2>2
  <1> QED
    BY <1>1, <1>3, <1>4 DEF Sound, Validate, t

\* A sound session with T shares verifies (SignAgg, Verify).
LEMMA CompleteVerifies ==
    ASSUME NEW s \in Session, Sound(s), IsComplete(s)
    PROVE  Verify(SignAgg(s))
  <1>1. Holders(s.sigShares) = s.signerSet
    <2>1. s.signerSet \in SUBSET Parties /\ Holders(s.sigShares) \in SUBSET s.signerSet
      BY DEF Session, Sound
    <2>2. IsFiniteSet(s.signerSet)
      BY <2>1, PartiesFinite
    <2> QED
      BY <2>1, <2>2, FS_Subset DEF IsComplete, Sound
  <1>2. SignAgg(s).R = s.preShares /\ SignAgg(s).S = s.sigShares
    BY DEF SignAgg
  <1> SUFFICES ASSUME NEW p \in Parties
               PROVE  IF s.preShares[p] = NoPreShare THEN s.sigShares[p] = NilShare
                      ELSE s.sigShares[p] = [nonce |-> s.preShares[p], preShares |-> s.preShares]
    BY <1>2 DEF Verify
  <1>3. CASE s.preShares[p] = NoPreShare
    BY <1>1, <1>3 DEF Holders, Sound
  <1>4. CASE s.preShares[p] # NoPreShare
    <2>1. p \in Holders(s.sigShares)
      BY <1>1, <1>4 DEF Sound
    <2>2. s.sigShares[p] \in SigShare
      BY <2>1 DEF Holders, Session, SigShareMap
    <2>3. s.sigShares[p].nonce = s.preShares[p] /\ s.sigShares[p].preShares = s.preShares
      BY <2>1 DEF ShareVal, Sound
    <2> QED
      BY <1>4, <2>2, <2>3 DEF SigShare
  <1> QED
    BY <1>3, <1>4

-----------------------------------------------------------------------------
(* The inductive invariant *)

Types ==
    /\ responsive \in SUBSET Parties
    /\ malicious \in SUBSET Parties
    /\ preShares \in PreShareMap
    /\ sidCounter \in Nat
    /\ signerSID \in [Parties -> 0 .. sidCounter]
    /\ sessions \in [1 .. sidCounter -> Session]
    /\ done \in BOOLEAN
    /\ weights \in [Parties -> Nat]

\* Between two calls no quorum waits, and everybody that waits has sent its
\* commitments.
Waiting ==
    /\ Cardinality(responsive) < T
    /\ \A p \in responsive : preShares[p] # NoPreShare

SessionsSound == \A sid \in 1 .. sidCounter : Sound(sessions[sid])

\* Until the signing ends no weight has fallen below the initial one but
\* those of banned signers: a complete session always verifies, so the decay
\* that precedes the verification happens only once.
Weighed ==
    /\ WeightsReflectStanding
    /\ ~done => \A p \in Parties \ malicious : weights[p] >= W0

IInv == Types /\ Waiting /\ SessionsSound /\ Weighed

-----------------------------------------------------------------------------
(* Lemmas *)

\* What ReputationConfig.Validate ensures.
LEMMA ConfigFacts ==
    /\ W0 \in Nat /\ WMax \in Nat /\ DeltaPos \in Nat
    /\ GammaNum \in Nat /\ GammaDen \in Nat
    /\ 0 < GammaNum /\ GammaNum < GammaDen /\ W0 * GammaNum >= GammaDen
    /\ 0 < W0 /\ W0 <= WMax /\ 0 < DeltaPos
BY ConfigAssumption, UnitAssumption DEF ValidConfig

\* Decay by a factor below 1 of a weight that is at least W0 lowers it, but
\* not to 0.
LEMMA DecayBounds ==
    ASSUME NEW w \in Nat, w >= W0
    PROVE  /\ (w * GammaNum) \div GammaDen \in Nat
           /\ (w * GammaNum) \div GammaDen > 0
           /\ (w * GammaNum) \div GammaDen <= w
<1>1. w * GammaNum \in Nat /\ w * GammaNum >= GammaDen
  BY ConfigFacts
<1>2. w * GammaNum <= w * GammaDen
  BY ConfigFacts
<1>3. ASSUME NEW a \in Nat, NEW d \in Nat, d > 0, a >= d, a <= w * d
      PROVE  a \div d \in Nat /\ a \div d > 0 /\ a \div d <= w
  BY <1>3
<1> QED
  BY <1>1, <1>2, <1>3, ConfigFacts

\* Adding one signer to fewer than T gives at most T, so the T signers that
\* initiateSession sorts to the front are all there are.
LEMMA EverybodySelected ==
    ASSUME IInv, NEW from \in Parties, NEW w,
           Quorum(responsive \cup {from})
    PROVE  /\ Cardinality(responsive \cup {from}) = T
           /\ Select(w, responsive \cup {from}) = responsive \cup {from}
<1> DEFINE C == responsive \cup {from}
<1>1. C \in SUBSET Parties /\ responsive \in SUBSET Parties
  BY DEF IInv, Types
<1>2. IsFiniteSet(C) /\ Cardinality(C) \in Nat /\ Cardinality(C) >= T
      /\ IsFiniteSet(responsive) /\ Cardinality(responsive) \in Nat
  BY <1>1, PartiesFinite DEF Quorum
<1>3. Cardinality(C) <= Cardinality(responsive) + 1
  BY <1>2, FS_AddElement
<1>4. Cardinality(C) = T
  BY <1>2, <1>3, TIsNat DEF IInv, Waiting
<1> DEFINE Good(S) == /\ Cardinality(S) = T
                      /\ \A i \in S, j \in C \ S : Before(w, i, j)
<1>5. C \in SUBSET C /\ Good(C)
  BY <1>4
<1>6. Select(w, C) = CHOOSE S \in SUBSET C : Good(S)
  BY DEF Select
<1>7. Select(w, C) \in SUBSET C /\ Cardinality(Select(w, C)) = T
  <2> HIDE DEF Good
  <2>1. Select(w, C) \in SUBSET C /\ Good(Select(w, C))
    BY <1>5, <1>6
  <2> QED
    BY <2>1 DEF Good
<1>8. Select(w, C) = C
  BY <1>2, <1>4, <1>7, FS_Subset
<1> QED
  BY <1>4, <1>8

\* What an accepted share does to the session it answers, and that the answer
\* never leaves a complete session behind.
LEMMA AnsweredSound ==
    ASSUME IInv, NEW from \in Parties, NEW sigShare \in SigShare \cup {NilShare},
           Pending(from), GoodShare(from, sigShare)
    PROVE  /\ signerSID[from] \in 1 .. sidCounter
           /\ Answered(from, sigShare) \in Session
           /\ Sound(Answered(from, sigShare))
           /\ IsComplete(Answered(from, sigShare)) =>
                 Verify(SignAgg(Answered(from, sigShare)))
<1>1. signerSID[from] \in 1 .. sidCounter
  BY DEF IInv, Types, Pending
<1>2. /\ sessions[signerSID[from]] \in Session
      /\ Sound(sessions[signerSID[from]])
  BY <1>1 DEF IInv, Types, SessionsSound
<1>3. sigShare \in SigShare /\ Validate(sessions[signerSID[from]], from, sigShare)
  BY DEF GoodShare
<1>4. Answered(from, sigShare) \in Session /\ Sound(Answered(from, sigShare))
  BY <1>2, <1>3, StoreSound DEF Answered
<1>5. IsComplete(Answered(from, sigShare)) => Verify(SignAgg(Answered(from, sigShare)))
  BY <1>4, CompleteVerifies
<1> QED
  BY <1>1, <1>4, <1>5

\* The table of sessions after an acceptable answer.
LEMMA StoredSound ==
    ASSUME IInv, NEW from \in Parties, NEW sigShare \in SigShare \cup {NilShare},
           Pending(from) => GoodShare(from, sigShare)
    PROVE  /\ Stored(from, sigShare) \in [1 .. sidCounter -> Session]
           /\ \A sid \in 1 .. sidCounter : Sound(Stored(from, sigShare)[sid])
<1>1. DOMAIN sessions = 1 .. sidCounter
  BY DEF IInv, Types
<1>2. ASSUME NEW sid \in 1 .. sidCounter
      PROVE  /\ Stored(from, sigShare)[sid] \in Session
             /\ Sound(Stored(from, sigShare)[sid])
  <2>1. CASE sid = signerSID[from]
    <3>1. Pending(from)
      BY <2>1 DEF Pending, IInv, Types
    <3> QED
      BY <1>1, <2>1, <3>1, AnsweredSound DEF Stored
  <2>2. CASE sid # signerSID[from]
    BY <1>1, <2>2 DEF Stored, IInv, Types, SessionsSound
  <2> QED
    BY <2>1, <2>2
<1> QED
  BY <1>1, <1>2 DEF Stored

\* An accepted answer that does not end the signing decays no weight: it
\* rewards its sender if a share was due.
LEMMA AcceptReweighted ==
    ASSUME IInv, NEW from \in Parties, NEW sigShare \in SigShare \cup {NilShare},
           Pending(from) => GoodShare(from, sigShare),
           ~Completes(from, sigShare)
    PROVE  Reweighted(from, sigShare) = IF Pending(from) THEN reward(weights, from) ELSE weights
BY AnsweredSound DEF Reweighted, Completes

\* A reward moves a weight up, to WMax at most.
LEMMA RewardBounds ==
    ASSUME NEW w \in [Parties -> Nat], NEW id \in Parties,
           \A p \in Parties : w[p] <= WMax
    PROVE  /\ reward(w, id) \in [Parties -> Nat]
           /\ \A p \in Parties : reward(w, id)[p] >= w[p] /\ reward(w, id)[p] <= WMax
           /\ \A p \in Parties \ {id} : reward(w, id)[p] = w[p]
<1>1. w[id] \in Nat /\ w[id] <= WMax
  OBVIOUS
<1> DEFINE v == IF w[id] + DeltaPos < WMax THEN w[id] + DeltaPos ELSE WMax
<1>2. v \in Nat /\ v >= w[id] /\ v <= WMax
  BY <1>1, ConfigFacts
<1>3. reward(w, id) = [w EXCEPT ![id] = v]
  BY DEF reward
<1> HIDE DEF v
<1> QED
  BY <1>2, <1>3

-----------------------------------------------------------------------------
(* Invariance *)

\* A new coordinator (NewReputationCoordinator).
LEMMA InitIInv == Init => IInv
<1> SUFFICES ASSUME Init PROVE IInv
  OBVIOUS
<1>1. 1 .. sidCounter = {}
  BY DEF Init
<1>2. Types
  <2>1. sessions \in [1 .. sidCounter -> Session]
    BY <1>1 DEF Init
  <2>2. preShares \in PreShareMap /\ signerSID \in [Parties -> 0 .. sidCounter]
    BY DEF Init, PreShareMap
  <2>3. weights \in [Parties -> Nat]
    BY ConfigFacts DEF Init
  <2> QED
    BY <2>1, <2>2, <2>3 DEF Init, Types
<1>3. Waiting
  BY FS_EmptySet, TIsNat DEF Init, Waiting
<1>4. Weighed
  BY ConfigFacts DEF Init, Weighed, WeightsReflectStanding
<1> QED
  BY <1>1, <1>2, <1>3, <1>4 DEF IInv, SessionsSound

\* markMalicious sets the weight to 0 and drops the signer.
LEMMA MarkIInv ==
    ASSUME IInv, ~done, NEW id \in Parties, markMalicious(id)
    PROVE  IInv'
<1> USE DEF IInv
<1>1. UNCHANGED <<sessions, sidCounter, signature, done>>
  BY DEF markMalicious, table
<1>2. Types'
  BY <1>1 DEF markMalicious, Types, PreShareMap
<1>3. Waiting'
  <2>1. responsive' \subseteq responsive /\ responsive \in SUBSET Parties
    BY DEF markMalicious, Types
  <2>2. IsFiniteSet(responsive) /\ Cardinality(responsive) \in Nat
        /\ Cardinality(responsive') \in Nat
    BY <2>1, PartiesFinite
  <2>3. Cardinality(responsive') < T
    BY <2>1, <2>2, FS_Subset, TIsNat DEF Waiting
  <2>4. \A p \in responsive' : preShares'[p] # NoPreShare
    BY DEF markMalicious, Waiting, Types, PreShareMap
  <2> QED
    BY <2>3, <2>4 DEF Waiting
<1>4. SessionsSound'
  BY <1>1 DEF SessionsSound
<1>5. Weighed'
  <2>1. \A p \in Parties : p # id => weights'[p] = weights[p] /\ (p \in malicious' <=> p \in malicious)
    BY DEF markMalicious, Types
  <2>2. weights'[id] = 0 /\ id \in malicious'
    BY DEF markMalicious, Types
  <2> QED
    BY <1>1, <2>1, <2>2, ConfigFacts DEF Weighed, WeightsReflectStanding
<1> QED
  BY <1>2, <1>3, <1>4, <1>5

\* The last share: the signers of the session are rewarded, the others decay.
LEMMA FinishIInv ==
    ASSUME IInv, NEW from \in Parties, NEW sigShare \in SigShare \cup {NilShare},
           Finish(from, sigShare)
    PROVE  IInv'
<1> USE DEF IInv
<1>1. /\ UNCHANGED <<responsive, malicious, preShares, signerSID, sidCounter>>
      /\ done' = TRUE /\ ~done /\ from \notin malicious
      /\ Pending(from) /\ GoodShare(from, sigShare)
      /\ sessions' = Stored(from, sigShare)
  BY DEF Finish, Solicited, standing
<1>2. /\ Stored(from, sigShare) \in [1 .. sidCounter -> Session]
      /\ \A sid \in 1 .. sidCounter : Sound(Stored(from, sigShare)[sid])
  BY <1>1, StoredSound
<1> DEFINE r == reward(weights, from)
           S == Answered(from, sigShare).signerSet
<1>3. weights' = decayNonParticipants(r, S)
  BY DEF Finish, Reweighted, Completes
<1>4. /\ r \in [Parties -> Nat]
      /\ \A p \in Parties : r[p] >= weights[p] /\ r[p] <= WMax
      /\ \A p \in Parties \ {from} : r[p] = weights[p]
  BY RewardBounds, ConfigFacts DEF Types, Weighed, WeightsReflectStanding
<1> HIDE DEF r, S
<1>5. ASSUME NEW p \in Parties
      PROVE  /\ weights'[p] \in Nat /\ weights'[p] <= WMax
             /\ weights'[p] = 0 <=> p \in malicious
  <2>1. CASE p \in malicious
    <3>1. weights'[p] = r[p] /\ r[p] = weights[p] /\ weights[p] = 0
      BY <1>1, <1>3, <1>4, <2>1 DEF decayNonParticipants, Weighed, WeightsReflectStanding
    <3> QED
      BY <2>1, <3>1, ConfigFacts
  <2>2. CASE p \notin malicious
    <3>1. weights[p] >= W0 /\ weights[p] \in Nat
      BY <1>1, <2>2 DEF Weighed, Types
    <3>2. r[p] \in Nat /\ r[p] >= W0 /\ r[p] <= WMax
      BY <1>4, <3>1, ConfigFacts
    <3>3. weights'[p] = r[p] \/ weights'[p] = (r[p] * GammaNum) \div GammaDen
      BY <1>3 DEF decayNonParticipants
    <3>4. /\ (r[p] * GammaNum) \div GammaDen \in Nat
          /\ (r[p] * GammaNum) \div GammaDen > 0
          /\ (r[p] * GammaNum) \div GammaDen <= r[p]
      BY <3>2, DecayBounds
    <3> DEFINE d == (r[p] * GammaNum) \div GammaDen
    <3> HIDE DEF d
    <3> QED
      BY <2>2, <3>2, <3>3, <3>4, ConfigFacts DEF d
  <2> QED
    BY <2>1, <2>2
<1>6. Weighed'
  BY <1>1, <1>5, ConfigFacts DEF Weighed, WeightsReflectStanding
<1>7. weights' \in [Parties -> Nat]
  BY <1>3, <1>5 DEF decayNonParticipants
<1>8. Types' /\ Waiting' /\ SessionsSound'
  BY <1>1, <1>2, <1>7 DEF Types, Waiting, SessionsSound
<1> QED
  BY <1>6, <1>8

\* What an accepted answer leaves: its sender joins the responsive signers, or
\* all of them are sent into a session.
LEMMA AcceptEffect ==
    ASSUME IInv, NEW from \in Parties, NEW sigShare \in SigShare \cup {NilShare},
           NEW preShare \in PreShares, Accept(from, sigShare, preShare)
    PROVE  LET candidates == responsive \cup {from}
               pre == [preShares EXCEPT ![from] = preShare]
               sids == [signerSID EXCEPT ![from] = 0]
           IN  \/ /\ Quorum(candidates) /\ Cardinality(candidates) = T
                  /\ Select(weights', candidates) = candidates
                  /\ sidCounter' = sidCounter + 1
                  /\ sessions' = [s \in 1 .. sidCounter + 1 |->
                                    IF s = sidCounter + 1
                                    THEN NewSession(candidates, SessionPreShares(candidates, pre))
                                    ELSE Stored(from, sigShare)[s]]
                  /\ signerSID' = [p \in Parties |->
                                     IF p \in candidates THEN sidCounter + 1 ELSE sids[p]]
                  /\ responsive' = {}
               \/ /\ ~Quorum(candidates)
                  /\ sidCounter' = sidCounter
                  /\ sessions' = Stored(from, sigShare)
                  /\ signerSID' = sids
                  /\ responsive' = candidates
<1> DEFINE C == responsive \cup {from}
           pre == [preShares EXCEPT ![from] = preShare]
           sids == [signerSID EXCEPT ![from] = 0]
<1>1. CASE Quorum(C)
  <2>1. Cardinality(C) = T /\ Select(weights', C) = C
    BY <1>1, EverybodySelected
  <2>2. initiateSession(C, pre, sids, Stored(from, sigShare), weights')
    BY <1>1 DEF Accept
  <2> HIDE DEF pre, sids
  <2>3. /\ sidCounter' = sidCounter + 1
        /\ sessions' = [s \in 1 .. sidCounter + 1 |->
                          IF s = sidCounter + 1
                          THEN NewSession(C, SessionPreShares(C, pre))
                          ELSE Stored(from, sigShare)[s]]
        /\ signerSID' = [p \in Parties |-> IF p \in C THEN sidCounter + 1 ELSE sids[p]]
        /\ responsive' = {}
    BY <2>1, <2>2 DEF initiateSession
  <2> QED
    BY <1>1, <2>1, <2>3 DEF pre, sids
<1>2. CASE ~Quorum(C)
  BY <1>2 DEF Accept
<1> QED
  BY <1>1, <1>2

\* An accepted answer, with or without a new session.
LEMMA AcceptIInv ==
    ASSUME IInv, NEW from \in Parties, NEW sigShare \in SigShare \cup {NilShare},
           NEW preShare \in PreShares, Accept(from, sigShare, preShare)
    PROVE  IInv'
<1> USE DEF IInv
<1> DEFINE C == responsive \cup {from}
           pre == [preShares EXCEPT ![from] = preShare]
           sids == [signerSID EXCEPT ![from] = 0]
<1>1. /\ ~done /\ from \notin malicious
      /\ Pending(from) => GoodShare(from, sigShare)
      /\ ~Completes(from, sigShare)
      /\ weights' = Reweighted(from, sigShare)
      /\ preShares' = pre
      /\ UNCHANGED <<malicious, done>>
  BY DEF Accept, Solicited
<1>2. /\ Stored(from, sigShare) \in [1 .. sidCounter -> Session]
      /\ \A sid \in 1 .. sidCounter : Sound(Stored(from, sigShare)[sid])
  BY <1>1, StoredSound
<1>3. /\ pre \in PreShareMap /\ C \in SUBSET Parties
      /\ sids \in [Parties -> 0 .. sidCounter]
      /\ \A p \in C : pre[p] # NoPreShare
  BY RoastAssumption DEF Types, PreShareMap, Waiting
<1>4. weights' \in [Parties -> Nat] /\ Weighed'
  <2>1. weights' = IF Pending(from) THEN reward(weights, from) ELSE weights
    BY <1>1, AcceptReweighted
  <2>2. \A p \in Parties : weights[p] \in Nat /\ weights[p] <= WMax
    BY ConfigFacts DEF Types, Weighed, WeightsReflectStanding
  <2>3. /\ weights' \in [Parties -> Nat]
        /\ \A p \in Parties : weights'[p] >= weights[p] /\ weights'[p] <= WMax
        /\ \A p \in Parties \ {from} : weights'[p] = weights[p]
    <3>1. CASE Pending(from)
      BY <2>1, <2>2, <3>1, RewardBounds DEF Types
    <3>2. CASE ~Pending(from)
      BY <2>1, <2>2, <3>2 DEF Types
    <3> QED
      BY <3>1, <3>2
  <2>4. \A p \in Parties \ malicious : weights'[p] >= W0
    BY <1>1, <2>2, <2>3, ConfigFacts DEF Weighed
  <2>5. \A p \in Parties : weights'[p] \in 0 .. WMax
    BY <2>3, ConfigFacts
  <2>6. \A p \in Parties : weights'[p] = 0 <=> p \in malicious
    BY <1>1, <2>3, <2>4, ConfigFacts DEF Weighed, WeightsReflectStanding
  <2> QED
    BY <1>1, <2>3, <2>4, <2>5, <2>6 DEF Weighed, WeightsReflectStanding
<1>5. \/ /\ Quorum(C) /\ Cardinality(C) = T
         /\ sidCounter' = sidCounter + 1
         /\ sessions' = [s \in 1 .. sidCounter + 1 |->
                           IF s = sidCounter + 1
                           THEN NewSession(C, SessionPreShares(C, pre))
                           ELSE Stored(from, sigShare)[s]]
         /\ signerSID' = [p \in Parties |-> IF p \in C THEN sidCounter + 1 ELSE sids[p]]
         /\ responsive' = {}
      \/ /\ ~Quorum(C)
         /\ sidCounter' = sidCounter
         /\ sessions' = Stored(from, sigShare)
         /\ signerSID' = sids
         /\ responsive' = C
  BY AcceptEffect
<1> HIDE DEF pre, sids, C
<1>6. CASE Quorum(C)
  <2>1. /\ NewSession(C, SessionPreShares(C, pre)) \in Session
        /\ Sound(NewSession(C, SessionPreShares(C, pre)))
    BY <1>3, <1>5, <1>6, NewSessionSound
  <2>2. sidCounter \in Nat /\ sidCounter' = sidCounter + 1 /\ sidCounter' \in Nat
    BY <1>5, <1>6 DEF Types
  <2>3. ASSUME NEW sid \in 1 .. sidCounter'
        PROVE  sessions'[sid] \in Session /\ Sound(sessions'[sid])
    <3>1. CASE sid = sidCounter + 1
      BY <1>5, <1>6, <2>1, <2>2, <3>1
    <3>2. CASE sid # sidCounter + 1
      <4>1. sid \in 1 .. sidCounter
        BY <2>2, <3>2
      <4> QED
        BY <1>2, <1>5, <1>6, <2>2, <3>2, <4>1
    <3> QED
      BY <3>1, <3>2
  <2>4. sessions' \in [1 .. sidCounter' -> Session] /\ SessionsSound'
    BY <1>5, <1>6, <2>2, <2>3 DEF SessionsSound
  <2>5. signerSID' \in [Parties -> 0 .. sidCounter']
    <3> SUFFICES ASSUME NEW p \in Parties
                 PROVE  (IF p \in C THEN sidCounter + 1 ELSE sids[p]) \in 0 .. sidCounter'
      BY <1>5, <1>6
    <3>1. sids[p] \in 0 .. sidCounter
      BY <1>3
    <3> QED
      BY <2>2, <3>1
  <2>6. Waiting'
    <3>1. responsive' = {}
      BY <1>5, <1>6
    <3> QED
      BY <3>1, FS_EmptySet, TIsNat DEF Waiting
  <2>7. Types'
    BY <1>1, <1>3, <1>4, <1>5, <1>6, <2>2, <2>4, <2>5 DEF Types
  <2> QED
    BY <1>4, <2>4, <2>6, <2>7
<1>7. CASE ~Quorum(C)
  <2>1. Cardinality(C) \in Nat
    BY <1>3, PartiesFinite
  <2>2. Waiting'
    BY <1>1, <1>3, <1>5, <1>7, <2>1, TIsNat DEF Waiting, Quorum
  <2>3. Types' /\ SessionsSound'
    BY <1>1, <1>2, <1>3, <1>4, <1>5, <1>7 DEF Types, SessionsSound
  <2> QED
    BY <1>4, <2>2, <2>3
<1> QED
  BY <1>6, <1>7

\* Every call of HandleResponse preserves the inductive invariant.
LEMMA IInvStep == IInv /\ [Next]_repvars => IInv'
<1> SUFFICES ASSUME IInv, [Next]_repvars PROVE IInv'
  OBVIOUS
<1>1. CASE UNCHANGED <<standing, table, weights>>
  BY <1>1 DEF standing, table, IInv, Types, Waiting, SessionsSound, Weighed,
              WeightsReflectStanding
<1>2. ASSUME NEW from \in Parties, NEW sigShare \in SigShare \cup {NilShare},
             NEW preShare \in PreShares, HandleResponse(from, sigShare, preShare)
      PROVE  IInv'
  <2>1. CASE Refuse(from)
    BY <1>1, <2>1 DEF Refuse
  <2>2. CASE Unsolicited(from)
    BY <2>2, MarkIInv DEF Unsolicited
  <2>3. CASE InvalidShare(from, sigShare)
    BY <2>3, MarkIInv DEF InvalidShare, Solicited
  <2>4. CASE Finish(from, sigShare)
    BY <2>4, FinishIInv
  <2>5. CASE Accept(from, sigShare, preShare)
    BY <2>5, AcceptIInv
  <2> QED
    BY <1>2, <2>1, <2>2, <2>3, <2>4, <2>5 DEF HandleResponse
<1>3. CASE UNCHANGED repvars
  BY <1>1, <1>3 DEF repvars
<1> QED
  BY <1>2, <1>3 DEF Next

\* Every call of HandleResponse keeps the invariant, whatever it is given.
THEOREM ReputationInvariant == Spec => []IInv
BY InitIInv, IInvStep, PTL DEF Spec

-----------------------------------------------------------------------------
(* What follows from it *)

\* For every configuration Validate accepts, weights stay within 0 .. WMax and
\* exactly the banned signers have weight 0.
THEOREM ReputationWeights == Spec => []WeightsReflectStanding
<1>1. IInv => WeightsReflectStanding
  BY DEF IInv, Weighed
<1> QED
  BY <1>1, ReputationInvariant, PTL

\* Opening a session empties the set of responsive signers: the sort by weight
\* in initiateSession never leaves anybody out.
THEOREM ReputationNobodyPassedOver == Spec => NobodyPassedOver
<1>1. IInv /\ [Next]_repvars => [sidCounter' # sidCounter => responsive' = {}]_repvars
  <2> SUFFICES ASSUME IInv, Next, sidCounter' # sidCounter
               PROVE  responsive' = {}
    OBVIOUS
  <2>1. PICK from \in Parties, sigShare \in SigShare \cup {NilShare},
             preShare \in PreShares : HandleResponse(from, sigShare, preShare)
    BY DEF Next
  <2>2. Accept(from, sigShare, preShare)
    BY <2>1 DEF HandleResponse, Refuse, Unsolicited, InvalidShare, Finish,
                markMalicious, table
  <2> QED
    BY <2>2, AcceptEffect
<1> QED
  BY <1>1, ReputationInvariant, PTL DEF Spec, NobodyPassedOver

\* No weight falls but that of a signer being banned, until the call of
\* HandleResponse that returns the signature.
THEOREM ReputationDecay == Spec => DecayOnlyAtTheEnd
<1> DEFINE A == \A p \in Parties : weights'[p] < weights[p] => p \in malicious' \/ done'
<1>1. IInv /\ [Next]_repvars => [A]_repvars
  <2> SUFFICES ASSUME IInv, Next, NEW p \in Parties, weights'[p] < weights[p]
               PROVE  p \in malicious' \/ done'
    OBVIOUS
  <2>0. PICK from \in Parties, sigShare \in SigShare \cup {NilShare},
             preShare \in PreShares : HandleResponse(from, sigShare, preShare)
    BY DEF Next
  <2>1. weights \in [Parties -> Nat] /\ \A q \in Parties : weights[q] <= WMax
    BY ConfigFacts DEF IInv, Types, Weighed, WeightsReflectStanding
  <2>2. CASE Refuse(from)
    BY <2>1, <2>2 DEF Refuse
  <2>3. CASE Unsolicited(from) \/ InvalidShare(from, sigShare)
    BY <2>1, <2>3 DEF Unsolicited, InvalidShare, markMalicious
  <2>4. CASE Finish(from, sigShare)
    BY <2>4 DEF Finish
  <2>5. CASE Accept(from, sigShare, preShare)
    <3>1. weights' = IF Pending(from) THEN reward(weights, from) ELSE weights
      BY <2>5, AcceptReweighted DEF Accept
    <3>2. weights'[p] >= weights[p] /\ weights'[p] \in Nat
      BY <2>1, <3>1, RewardBounds
    <3> QED
      BY <2>1, <3>2
  <2> QED
    BY <2>0, <2>2, <2>3, <2>4, <2>5 DEF HandleResponse
<1> QED
  BY <1>1, ReputationInvariant, PTL DEF Spec, DecayOnlyAtTheEnd

-----------------------------------------------------------------------------
(* Refinement of RoastCoordinator *)

\* The operators of the plain coordinator are those of this one: both work on
\* RoastSession's sessions.
LEMMA SameOperators ==
    /\ Base!N = N
    /\ \A S : Base!Cardinality(S) = Cardinality(S)
    /\ \A from, x : Base!Pending(from) <=> Pending(from)
    /\ \A from, x : Base!GoodShare(from, x) <=> GoodShare(from, x)
    /\ \A from, x : Base!Answered(from, x) = Answered(from, x)
    /\ \A from, x : Base!Completes(from, x) <=> Completes(from, x)
    /\ \A from, x : Base!Stored(from, x) = Stored(from, x)
    /\ \A from, x : Base!SignAgg(Base!Answered(from, x)) = SignAgg(Answered(from, x))
    /\ \A S, pre : Base!NewSession(S, Base!SessionPreShares(S, pre))
                      = NewSession(S, SessionPreShares(S, pre))
<1>0. \A S : Base!Cardinality(S) = Cardinality(S)
  BY Zenon DEF Base!Cardinality, Cardinality
<1>1. Base!N = N
  BY <1>0 DEF Base!N, N
<1>2. \A from, x : Base!Pending(from) <=> Pending(from)
  BY DEF Base!Pending, Pending
<1>3. \A from, x : Base!GoodShare(from, x) <=> GoodShare(from, x)
  BY DEF Base!GoodShare, GoodShare, Base!Validate, Validate, Base!ShareVal, ShareVal
<1>4. \A from, x : Base!Answered(from, x) = Answered(from, x)
  BY DEF Base!Answered, Answered, Base!Store, Store
<1>5. \A from, x : Base!SignAgg(Base!Answered(from, x)) = SignAgg(Answered(from, x))
  BY <1>4 DEF Base!SignAgg, SignAgg
<1>6. \A from, x : Base!Completes(from, x) <=> Completes(from, x)
  <2>1. \A s : Base!IsComplete(s) <=> IsComplete(s)
    BY <1>0 DEF Base!IsComplete, IsComplete, Base!Holders, Holders
  <2>2. \A sig : Base!Verify(sig) <=> Verify(sig)
    BY DEF Base!Verify, Verify
  <2> QED
    BY <1>2, <1>4, <1>5, <2>1, <2>2 DEF Base!Completes, Completes
<1>7. \A from, x : Base!Stored(from, x) = Stored(from, x)
  BY <1>4 DEF Base!Stored, Stored
<1>8. \A S, pre : Base!NewSession(S, Base!SessionPreShares(S, pre))
                     = NewSession(S, SessionPreShares(S, pre))
  BY DEF Base!NewSession, NewSession, Base!SessionPreShares, SessionPreShares
<1> QED
  BY <1>0, <1>1, <1>2, <1>3, <1>4, <1>5, <1>6, <1>7, <1>8

\* A new reputation coordinator is a new coordinator.
LEMMA InitRefines == Init => Base!Init
BY DEF Init, Base!Init, NewSession, Base!NewSession

\* Banning a signer is the same in both coordinators.
LEMMA MarkRefines ==
    ASSUME NEW id, markMalicious(id)
    PROVE  Base!markMalicious(id)
BY DEF markMalicious, Base!markMalicious, table

\* The last share ends the signing in both coordinators.
LEMMA FinishRefines ==
    ASSUME IInv, NEW from \in Parties, NEW sigShare \in SigShare \cup {NilShare},
           Finish(from, sigShare)
    PROVE  Base!Finish(from, sigShare)
<1>1. Stored(from, sigShare) = [sessions EXCEPT ![signerSID[from]] = Answered(from, sigShare)]
  BY DEF Stored, IInv, Types
<1> QED
  BY <1>1, SameOperators
     DEF Finish, Base!Finish, Solicited, Base!Solicited, standing, Returns, Base!Returns

\* A signer set that takes every candidate is one of those Go's iteration
\* over the map may yield.
LEMMA AcceptRefines ==
    ASSUME IInv, NEW from \in Parties, NEW sigShare \in SigShare \cup {NilShare},
           NEW preShare \in PreShares, Accept(from, sigShare, preShare)
    PROVE  \/ Base!Enlist(from, sigShare, preShare)
           \/ Base!Launch(from, sigShare, preShare)
<1> DEFINE C == responsive \cup {from}
           pre == [preShares EXCEPT ![from] = preShare]
           sids == [signerSID EXCEPT ![from] = 0]
<1>1. Base!Acceptable(from, sigShare)
  BY SameOperators DEF Accept, Base!Acceptable, Solicited, Base!Solicited
<1>2. /\ preShares' = pre
      /\ UNCHANGED <<malicious, signature, done>>
  BY DEF Accept
<1>3. Base!Quorum(from) <=> Quorum(C)
  BY SameOperators DEF Base!Quorum, Quorum
<1>4. \/ /\ Quorum(C) /\ Cardinality(C) = T
         /\ sidCounter' = sidCounter + 1
         /\ sessions' = [s \in 1 .. sidCounter + 1 |->
                           IF s = sidCounter + 1
                           THEN NewSession(C, SessionPreShares(C, pre))
                           ELSE Stored(from, sigShare)[s]]
         /\ signerSID' = [p \in Parties |-> IF p \in C THEN sidCounter + 1 ELSE sids[p]]
         /\ responsive' = {}
      \/ /\ ~Quorum(C)
         /\ sidCounter' = sidCounter
         /\ sessions' = Stored(from, sigShare)
         /\ signerSID' = sids
         /\ responsive' = C
  BY AcceptEffect
<1>5. CASE Quorum(C)
  <2>1. IF Base!TooManyMalicious THEN Base!Returns(NilSignature, 0, "TooManyMalicious")
        ELSE Base!Returns(NilSignature, sidCounter + 1, "nil")
    BY <1>5, SameOperators DEF Accept, Base!TooManyMalicious, Returns, Base!Returns
  <2>2. Base!initiateSession(C, C, pre, sids, Base!Stored(from, sigShare))
    <3> HIDE DEF C, pre, sids
    <3> QED
      BY <1>4, <1>5, SameOperators DEF Base!initiateSession
  <2>3. \E signerSet \in SUBSET C :
           /\ Cardinality(signerSet) = T
           /\ Base!initiateSession(signerSet, C, pre, sids, Base!Stored(from, sigShare))
    BY <1>4, <1>5, <2>2
  <2> QED
    BY <1>1, <1>2, <1>3, <1>5, <2>1, <2>3, SameOperators DEF Base!Launch
<1>6. CASE ~Quorum(C)
  <2>1. IF Base!TooManyMalicious THEN Base!Returns(NilSignature, 0, "TooManyMalicious")
        ELSE Base!Returns(NilSignature, 0, "nil")
    BY <1>6, SameOperators DEF Accept, Base!TooManyMalicious, Returns, Base!Returns
  <2> QED
    BY <1>1, <1>2, <1>3, <1>4, <1>6, <2>1, SameOperators DEF Base!Enlist
<1> QED
  BY <1>5, <1>6

\* Every call is a call of the coordinator of coordinator.go, or changes
\* nothing but weights.
LEMMA NextRefines == IInv /\ [Next]_repvars => [Base!Next]_Base!vars
<1> SUFFICES ASSUME IInv, [Next]_repvars PROVE [Base!Next]_Base!vars
  OBVIOUS
<1>1. CASE UNCHANGED repvars
  BY <1>1 DEF repvars, standing, table, Base!vars, Base!cvars
<1>2. ASSUME NEW from \in Parties, NEW sigShare \in SigShare \cup {NilShare},
             NEW preShare \in PreShares, HandleResponse(from, sigShare, preShare)
      PROVE  Base!Next
  <2>1. CASE Refuse(from)
    <3>1. Base!AlreadyComplete \/ Base!SignerMalicious(from)
      BY <2>1 DEF Refuse, Base!AlreadyComplete, Base!SignerMalicious, Base!cvars,
                  standing, table, Returns, Base!Returns
    <3> QED
      BY <3>1 DEF Base!Next, Base!HandleResponse, Base!SigShare, SigShare,
                  Base!PreShareMap, PreShareMap
  <2>2. CASE Unsolicited(from)
    <3>1. Base!Unsolicited(from)
      BY <2>2, MarkRefines DEF Unsolicited, Base!Unsolicited, Returns, Base!Returns
    <3> QED
      BY <3>1 DEF Base!Next, Base!HandleResponse, Base!SigShare, SigShare,
                  Base!PreShareMap, PreShareMap
  <2>3. CASE InvalidShare(from, sigShare)
    <3>1. Base!InvalidShare(from, sigShare)
      BY <2>3, MarkRefines, SameOperators
         DEF InvalidShare, Base!InvalidShare, Solicited, Base!Solicited, Returns, Base!Returns
    <3> QED
      BY <3>1 DEF Base!Next, Base!HandleResponse, Base!SigShare, SigShare,
                  Base!PreShareMap, PreShareMap
  <2>4. CASE Finish(from, sigShare)
    BY <2>4, FinishRefines DEF Base!Next, Base!HandleResponse, Base!SigShare, SigShare,
                               Base!PreShareMap, PreShareMap
  <2>5. CASE Accept(from, sigShare, preShare)
    BY <2>5, AcceptRefines DEF Base!Next, Base!HandleResponse, Base!SigShare, SigShare,
                               Base!PreShareMap, PreShareMap
  <2> QED
    BY <1>2, <2>1, <2>2, <2>3, <2>4, <2>5 DEF HandleResponse
<1> QED
  BY <1>1, <1>2 DEF Next

\* Forgetting its weights, the reputation coordinator is the coordinator of
\* coordinator.go, which makes everything proved of that one true of it.
THEOREM ReputationIsCoordinator == Spec => ImplementsCoordinator
BY InitRefines, NextRefines, ReputationInvariant, PTL
   DEF Spec, ImplementsCoordinator, Base!Spec
==============================================================================

------------------------ MODULE RoastCoordinator_proofs ------------------------
(***************************************************************************)
(* Proofs about the ROAST coordinator, for every set of signers and every  *)
(* threshold.                                                              *)
(***************************************************************************)
EXTENDS RoastCoordinator, FiniteSetTheorems, TLAPS

-----------------------------------------------------------------------------
(* Sets of signers and sessions *)

\* The sets of signers are finite, and counting them gives naturals.
LEMMA PartiesFinite ==
    ASSUME NEW S \in SUBSET Parties
    PROVE  IsFiniteSet(S) /\ Cardinality(S) \in Nat /\ Cardinality(S) <= N
  BY RoastAssumption, FS_Subset, FS_CardinalityType DEF N

\* The threshold and the number of signers are naturals.
LEMMA TIsNat == T \in Nat /\ T >= 1 /\ T <= N + 1 /\ N \in Nat
  BY RoastAssumption, FS_CardinalityType DEF N

\* What enters a session are the pre-signature shares of its signers.
LEMMA SessionPreSharesType ==
    ASSUME NEW signerSet \in SUBSET Parties, NEW pre \in PreShareMap
    PROVE  /\ SessionPreShares(signerSet, pre) \in PreShareMap
           /\ NewSession(signerSet, SessionPreShares(signerSet, pre)) \in Session
  BY DEF SessionPreShares, PreShareMap, NewSession, Session, SigShareMap

\* A well-formed session with T valid shares verifies (SignAgg, Verify).
LEMMA CompleteVerifies ==
    ASSUME NEW s \in Session, Holders(s.sigShares) \subseteq s.signerSet,
           Cardinality(s.signerSet) = T, IsComplete(s),
           s.signerSet = {p \in Parties : s.preShares[p] # NoPreShare},
           \A p \in Holders(s.sigShares) : ShareVal(s, p, s.sigShares[p])
    PROVE  Verify(SignAgg(s))
  <1>1. Holders(s.sigShares) = s.signerSet
    <2>1. s.signerSet \in SUBSET Parties /\ Holders(s.sigShares) \in SUBSET s.signerSet
      BY DEF Session
    <2>2. IsFiniteSet(s.signerSet)
      BY <2>1, PartiesFinite
    <2> QED
      BY <2>1, <2>2, FS_Subset DEF IsComplete
  <1>2. SignAgg(s).R = s.preShares /\ SignAgg(s).S = s.sigShares
    BY DEF SignAgg
  <1> SUFFICES ASSUME NEW p \in Parties
               PROVE  IF s.preShares[p] = NoPreShare THEN s.sigShares[p] = NilShare
                      ELSE s.sigShares[p] = [nonce |-> s.preShares[p], preShares |-> s.preShares]
    BY <1>2 DEF Verify
  <1>3. CASE s.preShares[p] = NoPreShare
    BY <1>1, <1>3 DEF Holders
  <1>4. CASE s.preShares[p] # NoPreShare
    <2>1. p \in Holders(s.sigShares)
      BY <1>1, <1>4
    <2>2. s.sigShares[p] \in SigShare
      BY <2>1 DEF Holders, Session, SigShareMap
    <2>3. s.sigShares[p].nonce = s.preShares[p] /\ s.sigShares[p].preShares = s.preShares
      BY <2>1 DEF ShareVal
    <2> QED
      BY <1>4, <2>2, <2>3 DEF SigShare
  <1> QED
    BY <1>3, <1>4

-----------------------------------------------------------------------------
(* Type correctness *)

\* Storing a share (ValidateAndStore) keeps a session a session.
LEMMA AnsweredType ==
    ASSUME TypeOK, NEW from \in Parties, Pending(from), NEW sigShare \in SigShare
    PROVE  Answered(from, sigShare) \in Session
  <1>1. sessions[signerSID[from]] \in Session
    BY DEF TypeOK, Pending
  <1> QED
    BY <1>1 DEF Answered, Store, Session, SigShareMap

\* A share that passes the checks of HandleResponse is not nil.
LEMMA GoodShareType ==
    ASSUME NEW from, NEW sigShare \in SigShare \cup {NilShare}, GoodShare(from, sigShare)
    PROVE  sigShare \in SigShare
  BY DEF GoodShare

\* The table of sessions keeps its domain when a share is stored.
LEMMA StoredType ==
    ASSUME TypeOK, NEW from \in Parties, NEW sigShare,
           Pending(from) => sigShare \in SigShare
    PROVE  Stored(from, sigShare) \in [1 .. sidCounter -> Session]
  <1>1. CASE Pending(from)
    BY <1>1, AnsweredType DEF TypeOK, Stored
  <1>2. CASE ~Pending(from)
    <2>1. \A sid \in 1 .. sidCounter : sid # signerSID[from]
      BY <1>2 DEF Pending
    <2> QED
      BY <2>1 DEF TypeOK, Stored
  <1> QED
    BY <1>1, <1>2

\* markMalicious keeps the types.
LEMMA MarkType ==
    ASSUME TypeOK, NEW id \in Parties, markMalicious(id), reply' \in Reply
    PROVE  TypeOK'
  BY DEF TypeOK, markMalicious, PreShareMap

\* Every result HandleResponse builds is a reply.
LEMMA ReturnsType ==
    ASSUME NEW sig \in Signature \cup {NilSignature}, NEW sid \in Nat, NEW err \in Errors,
           Returns(sig, sid, err)
    PROVE  reply' \in Reply
  BY DEF Returns, Reply

\* A new coordinator (NewCoordinator) has the types of TypeOK.
LEMMA InitType == Init => TypeOK
  <1> SUFFICES ASSUME Init PROVE TypeOK
    OBVIOUS
  <1>1. sessions \in [1 .. sidCounter -> Session]
    <2>1. 1 .. sidCounter = {}
      BY DEF Init
    <2> QED
      BY <2>1 DEF Init
  <1>2. reply \in Reply
    BY DEF Init, Reply, Errors
  <1>3. preShares \in PreShareMap /\ signerSID \in [Parties -> 0 .. sidCounter]
    BY DEF Init, PreShareMap
  <1> QED
    BY <1>1, <1>2, <1>3 DEF Init, TypeOK

\* No call of HandleResponse breaks the types.
LEMMA TypeStep == TypeOK /\ [Next]_vars => TypeOK'
  <1> SUFFICES ASSUME TypeOK, [Next]_vars
               PROVE  TypeOK'
    OBVIOUS
  <1>0. CASE UNCHANGED vars
    BY <1>0 DEF TypeOK, vars, cvars
  <1>1. ASSUME NEW from \in Parties, NEW sigShare \in SigShare \cup {NilShare},
               NEW preShare \in PreShares,
               HandleResponse(from, sigShare, preShare)
        PROVE  TypeOK'
    <2>1. CASE AlreadyComplete
      <3>1. reply' \in Reply
        BY <2>1, ReturnsType DEF AlreadyComplete, Errors, TypeOK
      <3> QED
        BY <2>1, <3>1 DEF AlreadyComplete, TypeOK, cvars
    <2>2. CASE SignerMalicious(from)
      <3>1. reply' \in Reply
        BY <2>2, ReturnsType DEF SignerMalicious, Errors
      <3> QED
        BY <2>2, <3>1 DEF SignerMalicious, TypeOK, cvars
    <2>3. CASE Unsolicited(from)
      BY <2>3, ReturnsType, MarkType DEF Unsolicited, Errors
    <2>4. CASE InvalidShare(from, sigShare)
      BY <2>4, ReturnsType, MarkType DEF InvalidShare, Errors
    <2>5. CASE Finish(from, sigShare)
      <3>1. Answered(from, sigShare) \in Session
        BY <2>5, AnsweredType, GoodShareType DEF Finish
      <3>2. SignAgg(Answered(from, sigShare)) \in Signature
        BY <3>1 DEF SignAgg, Signature, Session
      <3>3. reply' \in Reply
        BY <2>5, <3>2, ReturnsType DEF Finish, Errors
      <3> QED
        BY <2>5, <3>1, <3>2, <3>3 DEF Finish, TypeOK
    <2>6. CASE Enlist(from, sigShare, preShare)
      <3>1. reply' \in Reply
        BY <2>6, ReturnsType DEF Enlist, Errors
      <3> QED
        BY <2>6, <3>1, StoredType, GoodShareType DEF Enlist, Acceptable, TypeOK, PreShareMap
    <2>7. CASE Launch(from, sigShare, preShare)
      <3>1. reply' \in Reply
        BY <2>7, ReturnsType DEF Launch, Errors, TypeOK
      <3>2. preShares' \in PreShareMap
        BY <2>7 DEF Launch, TypeOK, PreShareMap
      <3>3. PICK signerSet \in SUBSET (responsive \cup {from}) :
               initiateSession(signerSet, responsive \cup {from},
                               preShares',
                               [signerSID EXCEPT ![from] = 0],
                               Stored(from, sigShare))
        BY <2>7 DEF Launch
      <3>4. signerSet \in SUBSET Parties
        BY <3>3 DEF TypeOK
      <3>5. NewSession(signerSet, SessionPreShares(signerSet, preShares')) \in Session
        BY <3>2, <3>4, SessionPreSharesType
      <3>6. sessions' \in [1 .. sidCounter' -> Session]
        <4>1. Stored(from, sigShare) \in [1 .. sidCounter -> Session]
          BY <2>7, StoredType, GoodShareType DEF Launch, Acceptable
        <4> QED
          BY <3>3, <3>5, <4>1 DEF initiateSession, TypeOK
      <3>7. /\ sidCounter' \in Nat
            /\ signerSID' \in [Parties -> 0 .. sidCounter']
            /\ responsive' \in SUBSET Parties
        BY <3>3 DEF initiateSession, TypeOK
      <3> QED
        BY <2>7, <3>1, <3>2, <3>6, <3>7 DEF Launch, TypeOK
    <2> QED
      BY <1>1, <2>1, <2>2, <2>3, <2>4, <2>5, <2>6, <2>7 DEF HandleResponse
  <1> QED
    BY <1>0, <1>1 DEF Next

\* The fields of the coordinator keep their types, and the table of sessions
\* keeps exactly the sessions that were opened, whatever the signers answer.
THEOREM TypeCorrect == Spec => []TypeOK
  BY InitType, TypeStep, PTL DEF Spec

-----------------------------------------------------------------------------
(* The inductive invariant *)

\* A session has T signers, which are the ones whose commitments entered it,
\* and shares only from them.
WellFormed ==
    \A sid \in 1 .. sidCounter :
        /\ Holders(sessions[sid].sigShares) \subseteq sessions[sid].signerSet
        /\ Cardinality(sessions[sid].signerSet) = T
        /\ sessions[sid].signerSet =
              {p \in Parties : sessions[sid].preShares[p] # NoPreShare}

\* Only shares that verify are stored in a session.
SharesValid ==
    \A sid \in 1 .. sidCounter : \A p \in Holders(sessions[sid].sigShares) :
        ShareVal(sessions[sid], p, sessions[sid].sigShares[p])

\* A responsive signer is in good standing, has a pre-signature share on file
\* and owes nothing.
WaitingOK ==
    \A p \in responsive :
        p \notin malicious /\ preShares[p] \in PreShares /\ signerSID[p] = 0

\* While signing goes on, signerSID points at the session that waits for the
\* signer (the last signer of all keeps its entry).
PendingOK ==
    ~done => \A p \in Parties :
        signerSID[p] # 0 => Owes(p, signerSID[p]) /\ p \notin malicious

IInv ==
    /\ TypeOK
    /\ WellFormed
    /\ SharesValid
    /\ WaitingOK
    /\ PendingOK
    /\ PendingOnce
    /\ Accountable
    /\ NoSessionWasted
    /\ NoIdleQuorum
    /\ SessionBound

\* What storing the share of from does to the table of sessions: one share
\* more in the session from was pending in, nothing else.
LEMMA StoredFacts ==
    ASSUME TypeOK, NEW from \in Parties, NEW sigShare \in SigShare \cup {NilShare},
           NEW sid \in 1 .. sidCounter, Pending(from) => sigShare # NilShare
    PROVE  /\ Stored(from, sigShare)[sid].signerSet = sessions[sid].signerSet
           /\ Stored(from, sigShare)[sid].preShares = sessions[sid].preShares
           /\ sid = signerSID[from] =>
                 Holders(Stored(from, sigShare)[sid].sigShares) = Holders(sessions[sid].sigShares) \cup {from}
           /\ sid # signerSID[from] =>
                 Holders(Stored(from, sigShare)[sid].sigShares) = Holders(sessions[sid].sigShares)
           /\ \A p \in Parties \ {from} :
                 Stored(from, sigShare)[sid].sigShares[p] = sessions[sid].sigShares[p]
           /\ sid = signerSID[from] =>
                 Stored(from, sigShare)[sid].sigShares[from] = sigShare
           /\ sid # signerSID[from] =>
                 Stored(from, sigShare)[sid] = sessions[sid]
  <1>1. sessions[sid] \in Session
    BY DEF TypeOK
  <1>2. CASE sid # signerSID[from]
    BY <1>2 DEF TypeOK, Stored
  <1>3. CASE sid = signerSID[from]
    <2>1. Stored(from, sigShare)[sid] = Store(sessions[sid], from, sigShare)
      BY <1>3 DEF TypeOK, Stored, Answered
    <2>2. /\ Stored(from, sigShare)[sid].signerSet = sessions[sid].signerSet
          /\ Stored(from, sigShare)[sid].preShares = sessions[sid].preShares
          /\ Stored(from, sigShare)[sid].sigShares =
                [sessions[sid].sigShares EXCEPT ![from] = sigShare]
      BY <1>1, <2>1 DEF Store, Session
    <2>3. sigShare # NilShare
      BY <1>3 DEF Pending
    <2> QED
      BY <1>1, <1>3, <2>2, <2>3 DEF Session, SigShareMap, Holders
  <1> QED
    BY <1>2, <1>3

\* The checks of HandleResponse keep invalid shares out of the table.
LEMMA StoredValid ==
    ASSUME TypeOK, SharesValid, NEW from \in Parties,
           NEW sigShare \in SigShare \cup {NilShare},
           Pending(from) => GoodShare(from, sigShare),
           NEW sid \in 1 .. sidCounter,
           NEW p \in Holders(Stored(from, sigShare)[sid].sigShares)
    PROVE  ShareVal(Stored(from, sigShare)[sid], p,
                    Stored(from, sigShare)[sid].sigShares[p])
  <1>1. Pending(from) => sigShare # NilShare
    BY DEF GoodShare
  <1>2. CASE sid # signerSID[from]
    <2>1. Stored(from, sigShare)[sid] = sessions[sid]
      BY <1>1, <1>2, StoredFacts
    <2> QED
      BY <2>1 DEF SharesValid
  <1>3. CASE sid = signerSID[from] /\ p # from
    <2>1. /\ p \in Holders(sessions[sid].sigShares) /\ p \in Parties
          /\ Stored(from, sigShare)[sid].sigShares[p] = sessions[sid].sigShares[p]
          /\ Stored(from, sigShare)[sid].preShares = sessions[sid].preShares
      BY <1>1, <1>3, StoredFacts DEF Holders
    <2>2. ShareVal(sessions[sid], p, sessions[sid].sigShares[p])
      BY <2>1 DEF SharesValid
    <2> QED
      BY <2>1, <2>2 DEF ShareVal
  <1>4. CASE sid = signerSID[from] /\ p = from
    <2>1. /\ Stored(from, sigShare)[sid].sigShares[from] = sigShare
          /\ Stored(from, sigShare)[sid].preShares = sessions[sid].preShares
      BY <1>1, <1>4, StoredFacts
    <2>2. ShareVal(sessions[sid], from, sigShare)
      BY <1>4 DEF Pending, GoodShare, Validate
    <2> QED
      BY <1>4, <2>1, <2>2 DEF ShareVal
  <1> QED
    BY <1>2, <1>3, <1>4

\* After an acceptable answer its sender owes nothing and no session is
\* complete.
LEMMA AcceptFacts ==
    ASSUME IInv, NEW from \in Parties, NEW sigShare \in SigShare \cup {NilShare},
           Acceptable(from, sigShare),
           NEW sid \in 1 .. sidCounter
    PROVE  /\ from \notin Stored(from, sigShare)[sid].signerSet \ Holders(Stored(from, sigShare)[sid].sigShares)
           /\ ~IsComplete(Stored(from, sigShare)[sid])
  <1> USE DEF IInv
  <1>0. Pending(from) => GoodShare(from, sigShare) /\ sigShare # NilShare
    BY DEF Acceptable, GoodShare
  <1>1. from \notin Stored(from, sigShare)[sid].signerSet \ Holders(Stored(from, sigShare)[sid].sigShares)
    <2>1. CASE Owes(from, sid)
      <3>1. sid = signerSID[from]
        BY <2>1 DEF Accountable, Acceptable, Solicited
      <3> QED
        BY <1>0, <3>1, StoredFacts
    <2>2. CASE ~Owes(from, sid)
      BY <1>0, <2>2, StoredFacts DEF Owes
    <2> QED
      BY <2>1, <2>2
  <1>2. CASE sid # signerSID[from]
    <2>1. Stored(from, sigShare)[sid] = sessions[sid]
      BY <1>2 DEF Stored, TypeOK
    <2>2. ~done
      BY DEF Acceptable, Solicited
    <2> QED
      BY <1>1, <2>1, <2>2 DEF NoSessionWasted
  <1>3. CASE sid = signerSID[from]
    <2>1. Pending(from)
      BY <1>3 DEF Pending
    <2>2. Stored(from, sigShare)[sid] = Answered(from, sigShare) /\ Answered(from, sigShare) \in Session
      BY <1>0, <1>3, <2>1, AnsweredType DEF Stored, TypeOK
    <2>3. from \in sessions[sid].signerSet
      BY <1>3, <2>1 DEF PendingOK, Owes, Pending, Acceptable, Solicited
    <2>4. /\ Holders(Answered(from, sigShare).sigShares) \subseteq Answered(from, sigShare).signerSet
          /\ Cardinality(Answered(from, sigShare).signerSet) = T
          /\ Answered(from, sigShare).signerSet =
                {p \in Parties : Answered(from, sigShare).preShares[p] # NoPreShare}
      <3>1. /\ Answered(from, sigShare).signerSet = sessions[sid].signerSet
            /\ Answered(from, sigShare).preShares = sessions[sid].preShares
            /\ Holders(Answered(from, sigShare).sigShares) = Holders(sessions[sid].sigShares) \cup {from}
        <4>1. /\ Stored(from, sigShare)[sid].signerSet = sessions[sid].signerSet
              /\ Stored(from, sigShare)[sid].preShares = sessions[sid].preShares
              /\ Holders(Stored(from, sigShare)[sid].sigShares) = Holders(sessions[sid].sigShares) \cup {from}
          BY <1>0, <1>3, StoredFacts
        <4> QED
          BY <2>2, <4>1
      <3>2. /\ Holders(sessions[sid].sigShares) \subseteq sessions[sid].signerSet
            /\ Cardinality(sessions[sid].signerSet) = T
            /\ sessions[sid].signerSet =
                  {p \in Parties : sessions[sid].preShares[p] # NoPreShare}
        BY DEF WellFormed
      <3> QED
        BY <2>3, <3>1, <3>2
    <2>5. \A p \in Holders(Answered(from, sigShare).sigShares) :
             ShareVal(Answered(from, sigShare), p, Answered(from, sigShare).sigShares[p])
      BY <1>0, <2>2, StoredValid
    <2>6. IsComplete(Answered(from, sigShare)) => Verify(SignAgg(Answered(from, sigShare)))
      BY <2>2, <2>4, <2>5, CompleteVerifies
    <2> QED
      BY <1>1, <2>1, <2>2, <2>6 DEF Acceptable, Completes
  <1> QED
    BY <1>2, <1>3

\* A new coordinator satisfies the inductive invariant.
LEMMA InitIInv == Init => IInv
  <1> SUFFICES ASSUME Init PROVE IInv
    OBVIOUS
  <1>1. 1 .. sidCounter = {}
    BY DEF Init
  <1>2. Cardinality(responsive) = 0
    BY FS_EmptySet DEF Init
  <1>3. NoIdleQuorum /\ SessionBound
    BY <1>2, TIsNat DEF Init, NoIdleQuorum, SessionBound
  <1>4. WellFormed /\ SharesValid /\ WaitingOK /\ PendingOK /\ PendingOnce /\ Accountable
    BY <1>1 DEF Init, WellFormed, SharesValid, WaitingOK, PendingOK, PendingOnce, Accountable
  <1>5. NoSessionWasted
    BY <1>1 DEF Init, NoSessionWasted
  <1> QED
    BY <1>3, <1>4, <1>5, InitType DEF IInv

\* Banning a signer (markMalicious).
LEMMA MarkIInv ==
    ASSUME IInv, TypeOK', ~done, NEW id \in Parties, markMalicious(id)
    PROVE  IInv'
  <1> USE DEF IInv, markMalicious
  <1>1. \A p \in Parties, sid \in 1 .. sidCounter : Owes(p, sid)' <=> Owes(p, sid)
    BY DEF Owes
  <1>2. WellFormed' /\ SharesValid'
    BY DEF WellFormed, SharesValid, ShareVal
  <1>3. WaitingOK'
    BY DEF WaitingOK, TypeOK
  <1>4. PendingOK'
    <2> SUFFICES ASSUME NEW p \in Parties, signerSID'[p] # 0
                 PROVE  Owes(p, signerSID[p])' /\ p \notin malicious'
      BY DEF PendingOK
    <2>1. p # id /\ signerSID'[p] = signerSID[p]
      BY DEF TypeOK
    <2> QED
      BY <2>1 DEF PendingOK, Owes
  <1>5. PendingOnce'
    BY <1>1 DEF PendingOnce
  <1>6. Accountable'
    <2> SUFFICES ASSUME NEW p \in Parties, NEW sid \in 1 .. sidCounter,
                        Owes(p, sid)
                 PROVE  signerSID'[p] = sid \/ p \in malicious'
      BY <1>1 DEF Accountable
    <2>1. signerSID[p] = sid \/ p \in malicious
      BY DEF Accountable
    <2> QED
      BY <2>1 DEF TypeOK
  <1>7. NoSessionWasted'
    BY DEF NoSessionWasted, IsComplete
  <1>8. NoIdleQuorum'
    <2>1. responsive \in SUBSET Parties /\ IsFiniteSet(responsive)
      BY PartiesFinite DEF TypeOK
    <2>2. Cardinality(responsive') <= Cardinality(responsive)
      BY <2>1, FS_Subset
    <2>3. Cardinality(responsive') \in Nat /\ Cardinality(responsive) \in Nat
      BY <2>1, PartiesFinite
    <2> QED
      BY <2>2, <2>3, TIsNat DEF NoIdleQuorum
  <1>9. SessionBound'
    BY DEF SessionBound
  <1> QED
    BY <1>2, <1>3, <1>4, <1>5, <1>6, <1>7, <1>8, <1>9

\* The last share (SignAgg, Verify): the signing ends.
LEMMA FinishIInv ==
    ASSUME IInv, TypeOK', NEW from \in Parties, NEW sigShare \in SigShare \cup {NilShare},
           Finish(from, sigShare)
    PROVE  IInv'
  <1> USE DEF IInv
  <1> DEFINE mine == signerSID[from]
  <1>0. GoodShare(from, sigShare) /\ sigShare # NilShare
    BY DEF Finish, GoodShare
  <1>1. mine \in 1 .. sidCounter
    BY DEF Finish, Pending, TypeOK
  <1>2. sessions' = Stored(from, sigShare)
    BY <1>1 DEF Finish, Stored, TypeOK
  <1>3. /\ sidCounter' = sidCounter /\ responsive' = responsive
        /\ malicious' = malicious /\ signerSID' = signerSID
        /\ preShares' = preShares /\ done' = TRUE
    BY DEF Finish
  <1>4. \A sid \in 1 .. sidCounter :
           /\ sessions'[sid].signerSet = sessions[sid].signerSet
           /\ sessions'[sid].preShares = sessions[sid].preShares
           /\ sid = mine => Holders(sessions'[sid].sigShares) = Holders(sessions[sid].sigShares) \cup {from}
           /\ sid # mine => Holders(sessions'[sid].sigShares) = Holders(sessions[sid].sigShares)
    BY <1>0, <1>2, StoredFacts
  <1>5. from \in sessions[mine].signerSet
    BY DEF Finish, GoodShare, Validate
  <1>6. WellFormed'
    <2> SUFFICES ASSUME NEW sid \in 1 .. sidCounter
                 PROVE  /\ Holders(sessions'[sid].sigShares) \subseteq sessions'[sid].signerSet
                        /\ Cardinality(sessions'[sid].signerSet) = T
                        /\ sessions'[sid].signerSet =
                             {p \in Parties : sessions'[sid].preShares[p] # NoPreShare}
      BY <1>3 DEF WellFormed
    <2>1. /\ Holders(sessions[sid].sigShares) \subseteq sessions[sid].signerSet
          /\ Cardinality(sessions[sid].signerSet) = T
          /\ sessions[sid].signerSet =
               {p \in Parties : sessions[sid].preShares[p] # NoPreShare}
      BY DEF WellFormed
    <2>2. /\ sessions'[sid].signerSet = sessions[sid].signerSet
          /\ sessions'[sid].preShares = sessions[sid].preShares
          /\ Holders(sessions'[sid].sigShares) \subseteq sessions[sid].signerSet
      <3>1. sid = mine => from \in sessions[sid].signerSet
        BY <1>5
      <3>2. Holders(sessions[sid].sigShares) \subseteq sessions[sid].signerSet
        BY <2>1
      <3>3. /\ sessions'[sid].signerSet = sessions[sid].signerSet
            /\ sessions'[sid].preShares = sessions[sid].preShares
        BY <1>4
      <3> QED
        BY <1>4, <3>1, <3>2, <3>3
    <2> QED
      BY <2>1, <2>2
  <1>6a. SharesValid'
    BY <1>0, <1>2, <1>3, StoredValid DEF SharesValid
  <1>7. \A p \in Parties, sid \in 1 .. sidCounter : Owes(p, sid)' => Owes(p, sid)
    BY <1>4 DEF Owes
  <1>8. WaitingOK' /\ PendingOK'
    BY <1>3 DEF WaitingOK, PendingOK
  <1>9. PendingOnce' /\ Accountable'
    BY <1>3, <1>7 DEF PendingOnce, Accountable
  <1>10. NoSessionWasted'
    <2>1. signature' = SignAgg(Answered(from, sigShare)) /\ Verify(SignAgg(Answered(from, sigShare)))
      BY DEF Finish, Completes
    <2>2. Cardinality(Holders(signature'.S)) = T
      BY <2>1 DEF Finish, Completes, IsComplete, SignAgg
    <2>3. signature' # NilSignature
      <3>1. Answered(from, sigShare) \in Session
        BY <1>0, AnsweredType DEF Finish
      <3> QED
        BY <2>1, <3>1, NilAssumption DEF SignAgg, Signature, Session
    <2> QED
      BY <1>3, <2>1, <2>2, <2>3 DEF NoSessionWasted, Verify, Holders
  <1>11. NoIdleQuorum' /\ SessionBound'
    BY <1>3 DEF NoIdleQuorum, SessionBound
  <1> QED
    BY <1>6, <1>8, <1>9, <1>10, <1>11, <1>6a

\* The shape of the table of sessions after an acceptable answer.
LEMMA StoredWellFormed ==
    ASSUME IInv, NEW from \in Parties, NEW sigShare \in SigShare \cup {NilShare},
           Acceptable(from, sigShare),
           NEW sid \in 1 .. sidCounter
    PROVE  /\ Holders(Stored(from, sigShare)[sid].sigShares) \subseteq Stored(from, sigShare)[sid].signerSet
           /\ Cardinality(Stored(from, sigShare)[sid].signerSet) = T
           /\ Stored(from, sigShare)[sid].signerSet =
                 {p \in Parties : Stored(from, sigShare)[sid].preShares[p] # NoPreShare}
  <1> USE DEF IInv
  <1>0. Pending(from) => sigShare # NilShare
    BY DEF Acceptable, GoodShare
  <1>1. /\ Holders(sessions[sid].sigShares) \subseteq sessions[sid].signerSet
        /\ Cardinality(sessions[sid].signerSet) = T
        /\ sessions[sid].signerSet =
             {p \in Parties : sessions[sid].preShares[p] # NoPreShare}
    BY DEF WellFormed
  <1>2. sid = signerSID[from] => from \in sessions[sid].signerSet
    BY DEF Acceptable, Pending, GoodShare, Validate
  <1>3. /\ Stored(from, sigShare)[sid].signerSet = sessions[sid].signerSet
        /\ Stored(from, sigShare)[sid].preShares = sessions[sid].preShares
    BY <1>0, StoredFacts
  <1>4. Holders(Stored(from, sigShare)[sid].sigShares) \subseteq sessions[sid].signerSet
    <2>1. Holders(sessions[sid].sigShares) \subseteq sessions[sid].signerSet
      BY <1>1
    <2> QED
      BY <1>0, <1>2, <2>1, StoredFacts
  <1> QED
    BY <1>1, <1>3, <1>4

\* Storing the share of from settles its debt and no other.
LEMMA StoredOwes ==
    ASSUME IInv, NEW from \in Parties, NEW sigShare \in SigShare \cup {NilShare},
           Acceptable(from, sigShare),
           NEW p \in Parties, NEW sid \in 1 .. sidCounter
    PROVE  p \in Stored(from, sigShare)[sid].signerSet \ Holders(Stored(from, sigShare)[sid].sigShares)
              <=> Owes(p, sid) /\ p # from
  <1>0. Pending(from) => sigShare # NilShare
    BY DEF Acceptable, GoodShare
  <1>1. CASE p = from
    BY <1>1, AcceptFacts
  <1>2. CASE p # from
    BY <1>0, <1>2, StoredFacts DEF Owes, IInv
  <1> QED
    BY <1>1, <1>2

\* An accepted answer that opens no session.
LEMMA EnlistIInv ==
    ASSUME IInv, TypeOK', NEW from \in Parties, NEW sigShare \in SigShare \cup {NilShare},
           NEW preShare \in PreShares, Enlist(from, sigShare, preShare)
    PROVE  IInv'
  <1> USE DEF IInv
  <1>1. /\ Acceptable(from, sigShare) /\ ~done
        /\ from \notin malicious /\ from \notin responsive
    BY DEF Enlist, Acceptable, Solicited
  <1>2. /\ sessions' = Stored(from, sigShare)
        /\ sidCounter' = sidCounter
        /\ malicious' = malicious
        /\ done' = done
        /\ responsive' = responsive \cup {from}
        /\ signerSID' = [signerSID EXCEPT ![from] = 0]
        /\ preShares' = [preShares EXCEPT ![from] = preShare]
    BY DEF Enlist
  <1>3. \A p \in Parties, sid \in 1 .. sidCounter :
           Owes(p, sid)' <=> Owes(p, sid) /\ p # from
    BY <1>1, <1>2, StoredOwes DEF Owes
  <1>4. WellFormed' /\ SharesValid'
    <2>1. WellFormed'
      BY <1>1, <1>2, StoredWellFormed DEF WellFormed
    <2>2. Pending(from) => GoodShare(from, sigShare)
      BY <1>1 DEF Acceptable
    <2> QED
      BY <1>2, <2>1, <2>2, StoredValid DEF SharesValid
  <1>5. WaitingOK'
    BY <1>1, <1>2 DEF WaitingOK, TypeOK, PreShareMap
  <1>6. PendingOK'
    <2> SUFFICES ASSUME NEW p \in Parties, signerSID'[p] # 0
                 PROVE  Owes(p, signerSID[p])' /\ p \notin malicious'
      BY DEF PendingOK
    <2>1. p # from /\ signerSID'[p] = signerSID[p] /\ signerSID[p] \in 1 .. sidCounter
      BY <1>2 DEF TypeOK
    <2>2. Owes(p, signerSID[p]) /\ p \notin malicious
      BY <1>1, <2>1 DEF PendingOK
    <2>3. \A sid \in 1 .. sidCounter : Owes(p, sid) => Owes(p, sid)'
      BY <1>3, <2>1
    <2> QED
      BY <1>2, <2>1, <2>2, <2>3 DEF Owes
  <1>7. PendingOnce'
    BY <1>2, <1>3 DEF PendingOnce
  <1>8. Accountable'
    BY <1>2, <1>3 DEF Accountable, TypeOK
  <1>9. NoSessionWasted'
    <2>1. \A sid \in 1 .. sidCounter : ~IsComplete(Stored(from, sigShare)[sid])
      BY <1>1, AcceptFacts
    <2> QED
      BY <1>1, <1>2, <2>1 DEF NoSessionWasted, IsComplete
  <1>10. NoIdleQuorum'
    <2>1. responsive \cup {from} \in SUBSET Parties
      BY DEF TypeOK
    <2>2. Cardinality(responsive \cup {from}) \in Nat
      BY <2>1, PartiesFinite
    <2>3. ~(Cardinality(responsive \cup {from}) >= T)
      BY DEF Enlist, Quorum
    <2> QED
      BY <1>2, <2>2, <2>3, TIsNat DEF NoIdleQuorum
  <1>11. SessionBound'
    BY <1>2 DEF SessionBound
  <1> QED
    BY <1>4, <1>5, <1>6, <1>7, <1>8, <1>9, <1>10, <1>11

-----------------------------------------------------------------------------
(* Opening a session *)

\* When T signers are responsive there are exactly T, and all are chosen.
LEMMA EveryoneIsChosen ==
    ASSUME IInv, NEW from \in Parties,
           NEW signerSet \in SUBSET (responsive \cup {from}),
           Cardinality(signerSet) = T
    PROVE  signerSet = responsive \cup {from}
  <1> DEFINE R == responsive \cup {from}
  <1>1. R \in SUBSET Parties /\ responsive \in SUBSET Parties
    BY DEF IInv, TypeOK
  <1>2. /\ IsFiniteSet(R) /\ IsFiniteSet(responsive)
        /\ Cardinality(R) \in Nat /\ Cardinality(responsive) \in Nat
    BY <1>1, PartiesFinite
  <1>3. Cardinality(R) <= Cardinality(responsive) + 1
    BY <1>2, FS_AddElement
  <1>4. Cardinality(R) <= T
    BY <1>2, <1>3, TIsNat DEF IInv, NoIdleQuorum
  <1>5. Cardinality(signerSet) <= Cardinality(R)
        /\ (Cardinality(R) = Cardinality(signerSet) => R = signerSet)
    BY <1>2, FS_Subset
  <1> QED
    BY <1>2, <1>4, <1>5, TIsNat

\* Every open session waits for somebody other than the sender of an
\* acceptable answer.
LEMMA Blocker ==
    ASSUME IInv, NEW from \in Parties, NEW sigShare \in SigShare \cup {NilShare},
           Acceptable(from, sigShare),
           NEW sid \in 1 .. sidCounter
    PROVE  \E p \in Parties : Owes(p, sid) /\ p # from
  <1> DEFINE s == Stored(from, sigShare)[sid]
  <1>1. s \in Session
    BY StoredType, GoodShareType DEF IInv, Acceptable
  <1>2. Holders(s.sigShares) \subseteq s.signerSet /\ Cardinality(s.signerSet) = T
    BY StoredWellFormed
  <1>3. Cardinality(Holders(s.sigShares)) # T
    BY AcceptFacts DEF IsComplete
  <1>4. PICK p \in s.signerSet : p \notin Holders(s.sigShares)
    BY <1>2, <1>3
  <1>5. p \in Parties
    BY <1>1, <1>4 DEF Session
  <1> QED
    BY <1>4, <1>5, StoredOwes

\* The sessions that are open when another one is launched have distinct
\* blockers, none of which is responsive: there are at most n - T of them.
LEMMA RoomForOneMore ==
    ASSUME IInv, NEW from \in Parties, NEW sigShare \in SigShare \cup {NilShare},
           Acceptable(from, sigShare),
           Cardinality(responsive \cup {from}) >= T
    PROVE  sidCounter <= N - T
  <1> USE DEF IInv
  <1> DEFINE R == responsive \cup {from}
             B == Parties \ R
             Sids == 1 .. sidCounter
             f == [sid \in Sids |-> CHOOSE p \in Parties : Owes(p, sid) /\ p # from]
  <1>1. R \in SUBSET Parties /\ B \in SUBSET Parties
    BY DEF TypeOK
  <1>2. /\ IsFiniteSet(R) /\ IsFiniteSet(B)
        /\ Cardinality(R) \in Nat /\ Cardinality(B) \in Nat
    BY <1>1, PartiesFinite
  <1>3. Cardinality(B) = N - Cardinality(R)
    <2>1. Parties = R \cup B /\ R \cap B = {}
      BY <1>1
    <2>2. Cardinality(R \cup B) = Cardinality(R) + Cardinality(B) - Cardinality(R \cap B)
      BY <1>2, FS_Union
    <2>3. Cardinality(R \cap B) = 0
      BY <2>1, FS_EmptySet
    <2>4. N = Cardinality(R) + Cardinality(B) - 0
      BY <2>1, <2>2, <2>3 DEF N
    <2> QED
      BY <1>2, <2>4
  <1>4. \A sid \in Sids : f[sid] \in Parties /\ Owes(f[sid], sid) /\ f[sid] # from
    BY Blocker
  <1> HIDE DEF f
  <1>5. \A sid \in Sids : f[sid] \in B
    BY <1>4 DEF PendingOnce
  <1>6. f \in [Sids -> B]
    BY <1>5 DEF f
  <1>7. \A x, y \in Sids : f[x] = f[y] => x = y
    BY <1>4 DEF PendingOnce
  <1>8. IsFiniteSet(Sids) /\ Cardinality(Sids) = sidCounter
    BY FS_Interval DEF TypeOK
  <1> HIDE DEF Sids, B
  <1>9. ~(Cardinality(B) < Cardinality(Sids))
    BY <1>2, <1>6, <1>7, <1>8, FS_PigeonHole
  <1> QED
    BY <1>2, <1>3, <1>8, <1>9, TIsNat DEF TypeOK

\* An accepted answer that opens a session.
LEMMA LaunchIInv ==
    ASSUME IInv, TypeOK', NEW from \in Parties, NEW sigShare \in SigShare \cup {NilShare},
           NEW preShare \in PreShares, Launch(from, sigShare, preShare)
    PROVE  IInv'
  <1> USE DEF IInv
  <1> DEFINE R == responsive \cup {from}
             Old == 1 .. sidCounter
  <1>0. PICK new \in Nat : new = sidCounter + 1
    BY DEF TypeOK
  <1>1. /\ Acceptable(from, sigShare) /\ ~done
        /\ from \notin malicious /\ from \notin responsive
        /\ Cardinality(R) >= T
    BY DEF Launch, Acceptable, Solicited, Quorum
  <1>2. /\ malicious' = malicious
        /\ done' = done
        /\ preShares' = [preShares EXCEPT ![from] = preShare]
    BY DEF Launch
  <1>3. PICK signerSet \in SUBSET R :
           /\ Cardinality(signerSet) = T
           /\ initiateSession(signerSet, R, preShares',
                              [signerSID EXCEPT ![from] = 0], Stored(from, sigShare))
    BY DEF Launch
  <1>4. signerSet = R
    BY <1>3, EveryoneIsChosen
  <1>5. /\ sidCounter' = new /\ new = sidCounter + 1 /\ sidCounter \in Nat
        /\ responsive' = {}
        /\ signerSID' = [p \in Parties |->
                           IF p \in R THEN new ELSE signerSID[p]]
    BY <1>0, <1>3, <1>4 DEF initiateSession, TypeOK
  <1>6. /\ \A sid \in Old : sessions'[sid] = Stored(from, sigShare)[sid]
        /\ sessions'[new] = NewSession(R, SessionPreShares(R, preShares'))
    BY <1>3, <1>4, <1>5 DEF initiateSession
  <1>7. 1 .. sidCounter' = Old \cup {new} /\ new \notin Old
    BY <1>5
  <1>8. \A p \in R : p \in Parties /\ preShares'[p] \in PreShares /\ p \notin malicious
    BY <1>1, <1>2 DEF WaitingOK, TypeOK, PreShareMap
  <1>9. /\ sessions'[new].signerSet = R
        /\ Holders(sessions'[new].sigShares) = {}
        /\ sessions'[new].preShares = SessionPreShares(R, preShares')
    BY <1>6 DEF NewSession, Holders
  <1> HIDE DEF R, Old
  <1>10. \A p \in Parties, sid \in Old : Owes(p, sid)' <=> Owes(p, sid) /\ p # from
    BY <1>1, <1>6, StoredOwes DEF Owes, Old
  <1>11. \A p \in Parties : Owes(p, new)' <=> p \in R
    BY <1>9 DEF Owes
  <1>12. \A p \in Parties, sid \in Old : Owes(p, sid)' => p \notin R
    BY <1>10 DEF PendingOnce, Old, R
  <1>13. WellFormed'
    <2>1. \A sid \in Old :
             /\ Holders(sessions'[sid].sigShares) \subseteq sessions'[sid].signerSet
             /\ Cardinality(sessions'[sid].signerSet) = T
             /\ sessions'[sid].signerSet =
                   {p \in Parties : sessions'[sid].preShares[p] # NoPreShare}
      BY <1>1, <1>6, StoredWellFormed DEF Old
    <2>2. R = {p \in Parties : SessionPreShares(R, preShares')[p] # NoPreShare}
      BY <1>8, RoastAssumption DEF SessionPreShares
    <2>3. /\ Holders(sessions'[new].sigShares) \subseteq sessions'[new].signerSet
          /\ Cardinality(sessions'[new].signerSet) = T
          /\ sessions'[new].signerSet =
                {p \in Parties : sessions'[new].preShares[p] # NoPreShare}
      BY <1>3, <1>4, <1>9, <2>2
    <2> QED
      BY <1>7, <2>1, <2>3 DEF WellFormed
  <1>13a. SharesValid'
    <2>1. Pending(from) => GoodShare(from, sigShare)
      BY <1>1 DEF Acceptable
    <2>2. \A sid \in Old : \A p \in Holders(sessions'[sid].sigShares) :
             ShareVal(sessions'[sid], p, sessions'[sid].sigShares[p])
      BY <1>6, <2>1, StoredValid DEF Old
    <2> QED
      BY <1>7, <1>9, <2>2 DEF SharesValid, ShareVal
  <1>14. WaitingOK' /\ NoIdleQuorum'
    <2>1. Cardinality(responsive') = 0
      BY <1>5, FS_EmptySet
    <2> QED
      BY <1>5, <2>1, TIsNat DEF WaitingOK, NoIdleQuorum
  <1>15. PendingOK'
    <2> SUFFICES ASSUME NEW p \in Parties, signerSID'[p] # 0
                 PROVE  Owes(p, signerSID[p])' /\ p \notin malicious'
      BY DEF PendingOK
    <2>1. CASE p \in R
      <3>1. signerSID'[p] = new /\ p \notin malicious'
        BY <1>2, <1>5, <1>8, <2>1
      <3> QED
        BY <1>9, <2>1, <3>1 DEF Owes
    <2>2. CASE p \notin R
      <3>1. signerSID'[p] = signerSID[p] /\ p # from /\ signerSID[p] \in Old
        BY <1>5, <2>2 DEF R, Old, TypeOK
      <3>2. Owes(p, signerSID[p]) /\ p \notin malicious
        BY <1>1, <3>1 DEF PendingOK, Old
      <3>3. \A sid \in Old : Owes(p, sid) => Owes(p, sid)'
        BY <1>10, <3>1
      <3> QED
        BY <1>2, <3>1, <3>2, <3>3 DEF Owes
    <2> QED
      BY <2>1, <2>2
  <1>16. PendingOnce'
    <2> SUFFICES ASSUME NEW p \in Parties, NEW s1 \in Old \cup {new}, Owes(p, s1)',
                        NEW s2 \in Old \cup {new}, Owes(p, s2)'
                 PROVE  s1 = s2
      BY <1>5, <1>7 DEF PendingOnce
    <2>1. CASE p \in R
      BY <1>12, <2>1
    <2>2. CASE p \notin R
      <3>1. s1 \in Old /\ s2 \in Old
        BY <1>11, <2>2
      <3> QED
        BY <1>10, <3>1 DEF PendingOnce, Old
    <2> QED
      BY <2>1, <2>2
  <1>17. Accountable'
    <2> SUFFICES ASSUME NEW p \in Parties, NEW sid \in Old \cup {new}, Owes(p, sid)'
                 PROVE  signerSID'[p] = sid \/ p \in malicious'
      BY <1>7 DEF Accountable
    <2>1. CASE sid = new
      BY <1>5, <1>11, <2>1
    <2>2. CASE sid \in Old
      <3>1. p \notin R /\ Owes(p, sid)
        BY <1>10, <1>12, <2>2
      <3>2. signerSID[p] = sid \/ p \in malicious
        BY <2>2, <3>1 DEF Accountable, Old
      <3> QED
        BY <1>2, <1>5, <3>1, <3>2
    <2> QED
      BY <2>1, <2>2
  <1>18. NoSessionWasted'
    <2>1. \A sid \in Old : ~IsComplete(sessions'[sid])
      BY <1>1, <1>6, AcceptFacts DEF Old
    <2>2. ~IsComplete(sessions'[new])
      BY <1>9, FS_EmptySet, TIsNat DEF IsComplete
    <2> QED
      BY <1>1, <1>2, <1>7, <2>1, <2>2 DEF NoSessionWasted, IsComplete
  <1>19. SessionBound'
    <2>1. sidCounter <= N - T
      BY <1>1, RoomForOneMore DEF R
    <2> QED
      BY <1>5, <2>1, TIsNat DEF SessionBound
  <1> QED
    BY <1>13, <1>14, <1>15, <1>16, <1>17, <1>18, <1>13a, <1>19

\* Every call of HandleResponse preserves the inductive invariant.
LEMMA IInvStep == IInv /\ [Next]_vars => IInv'
  <1> SUFFICES ASSUME IInv, [Next]_vars
               PROVE  IInv'
    OBVIOUS
  <1>0. TypeOK'
    BY TypeStep DEF IInv
  <1>1. CASE UNCHANGED cvars
    BY <1>0, <1>1 DEF cvars, IInv, WellFormed, SharesValid, WaitingOK, PendingOK,
       PendingOnce, Accountable, NoSessionWasted, NoIdleQuorum, SessionBound, Owes,
       IsComplete, Verify, Holders, ShareVal
  <1>2. ASSUME NEW from \in Parties, NEW sigShare \in SigShare \cup {NilShare},
               NEW preShare \in PreShares,
               HandleResponse(from, sigShare, preShare)
        PROVE  IInv'
    <2>1. CASE AlreadyComplete
      BY <1>1, <2>1 DEF AlreadyComplete
    <2>2. CASE SignerMalicious(from)
      BY <1>1, <2>2 DEF SignerMalicious
    <2>3. CASE Unsolicited(from)
      BY <1>0, <2>3, MarkIInv DEF Unsolicited
    <2>4. CASE InvalidShare(from, sigShare)
      BY <1>0, <2>4, MarkIInv DEF InvalidShare, Solicited
    <2>5. CASE Finish(from, sigShare)
      BY <1>0, <2>5, FinishIInv
    <2>6. CASE Enlist(from, sigShare, preShare)
      BY <1>0, <2>6, EnlistIInv
    <2>7. CASE Launch(from, sigShare, preShare)
      BY <1>0, <2>7, LaunchIInv
    <2> QED
      BY <1>2, <2>1, <2>2, <2>3, <2>4, <2>5, <2>6, <2>7 DEF HandleResponse
  <1> QED
    BY <1>1, <1>2 DEF Next, vars

\* IInv is an invariant: the three facts of every proof below.
THEOREM Inductive == Spec => []IInv
  BY InitIInv, IInvStep, PTL DEF Spec

-----------------------------------------------------------------------------
(* What follows from it *)

\* For every number of signers and every threshold, a signer is pending in at
\* most one session, and never both pending and responsive (HandleResponse).
THEOREM KeyInvariant == Spec => []PendingOnce
  BY Inductive, PTL DEF IInv

\* Every missing share of every session is owed by a signer the coordinator
\* still waits for or has banned.
THEOREM Blame == Spec => []Accountable
  BY Inductive, PTL DEF IInv

\* No behaviour of the signers makes the coordinator open more than
\* n - T + 1 sessions (initiateSession).
THEOREM Bounded == Spec => []SessionBound
  BY Inductive, PTL DEF IInv

\* Aggregation never fails: the first complete session yields the signature.
THEOREM FirstCompleteWins == Spec => []NoSessionWasted
  BY Inductive, PTL DEF IInv

\* HandleResponse never returns with T or more signers waiting for a session.
THEOREM QuorumNeverIdle == Spec => []NoIdleQuorum
  BY Inductive, PTL DEF IInv

\* Signers that could still be banned do not count among the responsive ones:
\* when a session is opened at least T signers are not banned.
LEMMA LaunchHasQuorum ==
    ASSUME IInv, NEW from \in Parties, from \notin malicious,
           Cardinality(responsive \cup {from}) >= T
    PROVE  ~TooManyMalicious
  <1> DEFINE R == responsive \cup {from}
  <1>1. R \in SUBSET Parties /\ malicious \in SUBSET Parties
        /\ R \cup malicious \in SUBSET Parties
    BY DEF IInv, TypeOK
  <1>2. R \cap malicious = {}
    BY DEF IInv, WaitingOK
  <1>3. /\ IsFiniteSet(R) /\ IsFiniteSet(malicious)
        /\ Cardinality(R) \in Nat /\ Cardinality(malicious) \in Nat
        /\ Cardinality(R \cup malicious) \in Nat
        /\ Cardinality(R \cup malicious) <= N
    BY <1>1, PartiesFinite
  <1>4. Cardinality(R \cup malicious) =
           Cardinality(R) + Cardinality(malicious) - Cardinality(R \cap malicious)
    BY <1>3, FS_Union
  <1>5. Cardinality(R \cap malicious) = 0
    BY <1>2, FS_EmptySet
  <1>6. Cardinality(R) + Cardinality(malicious) <= N
    BY <1>3, <1>4, <1>5
  <1> HIDE DEF R
  <1>7. Cardinality(R) >= T
    BY DEF R
  <1> QED
    BY <1>3, <1>6, <1>7, TIsNat DEF TooManyMalicious

\* The requests of a session that was opened are always returned to the
\* caller: ErrTooManyMalicious never hides them.
THEOREM Announced == Spec => OpenedIsAnnounced
  <1>1. IInv /\ [Next]_vars => [sidCounter' # sidCounter => reply'.sid = sidCounter']_vars
    <2> SUFFICES ASSUME IInv, Next, sidCounter' # sidCounter
                 PROVE  reply'.sid = sidCounter'
      OBVIOUS
    <2>1. PICK from \in Parties, sigShare \in SigShare \cup {NilShare},
               preShare \in PreShares :
                  HandleResponse(from, sigShare, preShare)
      BY DEF Next
    <2>2. Launch(from, sigShare, preShare)
      BY <2>1 DEF HandleResponse, AlreadyComplete, SignerMalicious, Unsolicited,
         InvalidShare, Finish, Enlist, markMalicious, cvars
    <2>3. ~TooManyMalicious
      BY <2>2, LaunchHasQuorum DEF Launch, Quorum, Acceptable, Solicited
    <2>4. reply'.sid = sidCounter + 1
      BY <2>2, <2>3 DEF Launch, Returns
    <2>5. sidCounter' = sidCounter + 1
      BY <2>2 DEF Launch, initiateSession
    <2> QED
      BY <2>4, <2>5
  <1> QED
    BY <1>1, Inductive, PTL DEF Spec, OpenedIsAnnounced

\* A banned signer stays banned and is in no later session.
THEOREM Banned == Spec => BannedForGood
  <1> DEFINE A == /\ malicious \subseteq malicious'
                  /\ \A sid \in 1 .. sidCounter' :
                        sid > sidCounter => sessions'[sid].signerSet \cap malicious' = {}
  <1>1. IInv /\ [Next]_vars => [A]_vars
    <2> SUFFICES ASSUME IInv, Next
                 PROVE  A
      OBVIOUS
    <2>0. sidCounter \in Nat
      BY DEF IInv, TypeOK
    <2>1. PICK from \in Parties, sigShare \in SigShare \cup {NilShare},
               preShare \in PreShares :
                  HandleResponse(from, sigShare, preShare)
      BY DEF Next
    <2>2. CASE Launch(from, sigShare, preShare)
      <3>1. PICK signerSet \in SUBSET (responsive \cup {from}) :
               initiateSession(signerSet, responsive \cup {from},
                               [preShares EXCEPT ![from] = preShare],
                               [signerSID EXCEPT ![from] = 0], Stored(from, sigShare))
        BY <2>2 DEF Launch
      <3>2. malicious' = malicious /\ from \notin malicious
        BY <2>2 DEF Launch, Acceptable, Solicited
      <3>3. signerSet \cap malicious' = {}
        BY <3>1, <3>2 DEF IInv, WaitingOK
      <3>4. sidCounter' = sidCounter + 1 /\ sessions'[sidCounter + 1].signerSet = signerSet
        BY <2>0, <3>1 DEF initiateSession, NewSession
      <3>5. \A sid \in 1 .. sidCounter' : sid > sidCounter => sid = sidCounter + 1
        BY <2>0, <3>4
      <3> QED
        BY <3>2, <3>3, <3>4, <3>5
    <2>3. CASE ~Launch(from, sigShare, preShare)
      <3>1. sidCounter' = sidCounter /\ malicious \subseteq malicious'
        BY <2>1, <2>3 DEF HandleResponse, AlreadyComplete, SignerMalicious,
           Unsolicited, InvalidShare, Finish, Enlist, markMalicious, cvars
      <3> QED
        BY <2>0, <3>1
    <2> QED
      BY <2>2, <2>3
  <1> QED
    BY <1>1, Inductive, PTL DEF Spec, BannedForGood
=============================================================================

------------------------------ MODULE Roast_proofs ------------------------------
(***************************************************************************)
(* A whole ROAST signing is safe for every number of signers, honest or    *)
(* not, and every threshold: an honest signer is never banned, never       *)
(* spends a nonce pair twice, and none of its commitments enters two       *)
(* sessions.                                                               *)
(*                                                                         *)
(* The coordinator's own invariant (RoastCoordinator_proofs) is part of    *)
(* the argument: the honest signers and the others together are one of the *)
(* environments that its Next allows.  What the coordinator knows of an    *)
(* honest signer and what the signer has done stay in step: commitments on *)
(* file only grow (Ascending), and, as long as nothing is delivered twice, *)
(* there is at most one message between the two, the one that the          *)
(* coordinator's maps tell it to expect (InStep).                          *)
(***************************************************************************)
EXTENDS Roast, RoastCoordinator_proofs

Requests == [to : Honest, sid : Nat, preShares : PreShareMap]

Responses == [from : Honest, share : SigShare \cup {NilShare}, preShare : PreShares]

Channels ==
    /\ nonceState \in [Honest -> 0 .. MaxNonce]
    /\ dups \in Nat
    /\ requests \subseteq Requests
    /\ responses \subseteq Responses

\* What is known of an honest signer's nonce pairs comes from the signer.
Drawn ==
    /\ \A m \in requests : nonceState[m.to] >= 1
    /\ \A m \in responses :
          /\ m.preShare <= nonceState[m.from]
          /\ m.share # NilShare => m.preShare = m.share.nonce + 1
    /\ \A p \in Honest : preShares[p] # NoPreShare => preShares[p] <= nonceState[p]

\* The pairs that have been spent are gone.
Spent ==
    \A x \in signed :
        x.from \in Honest /\ x.share.nonce \in Nat /\ x.share.nonce < nonceState[x.from]

\* The commitment on file is newer than those of the sessions the signer has
\* answered, and is the one of the session it is pending in.
Ascending ==
    \A p \in Honest \ malicious :
        /\ p \notin responsive /\ signerSID[p] = 0 => preShares[p] = NoPreShare
        /\ signerSID[p] # 0 => sessions[signerSID[p]].preShares[p] = preShares[p]
        /\ \A sid \in 1 .. sidCounter : p \in sessions[sid].signerSet =>
              /\ preShares[p] # NoPreShare
              /\ sessions[sid].preShares[p] <= preShares[p]
              /\ p \in responsive => sessions[sid].preShares[p] # preShares[p]

\* At most one message is on its way to or from p, and it fits.
Fits(p) ==
    /\ nonceState[p] = 0 \/ p \in responsive =>
          /\ \A m \in requests : m.to # p
          /\ \A m \in responses : m.from # p
    /\ nonceState[p] = 0 => signerSID[p] = 0 /\ p \notin responsive
    /\ p \in responsive => preShares[p] = nonceState[p]
    /\ \A m \in responses : m.from = p =>
          /\ m.preShare = nonceState[p]
          /\ signerSID[p] # 0 => GoodShare(p, m.share)
          /\ \A n \in responses : n.from = p => n = m
          /\ \A n \in requests : n.to # p
    /\ \A m \in requests : m.to = p =>
          /\ signerSID[p] # 0
          /\ m.sid = signerSID[p]
          /\ m.preShares = sessions[signerSID[p]].preShares
          /\ m.preShares[p] = nonceState[p]

InStep == dups = 0 /\ ~done => \A p \in Honest : Fits(p)

RInv ==
    /\ IInv
    /\ Channels /\ Drawn /\ Spent /\ NonceSpentOnce
    /\ Ascending /\ CommitmentUsedOnce
    /\ InStep /\ HonestNeverBanned

-----------------------------------------------------------------------------
(* What a call of HandleResponse does, seen from the signers *)

\* Storing a share changes neither the signers nor the commitments of a session.
Kept ==
    \A sid \in 1 .. sidCounter :
        /\ sessions'[sid].signerSet = sessions[sid].signerSet
        /\ sessions'[sid].preShares = sessions[sid].preShares

Ignored == UNCHANGED cvars /\ reply'.sid = 0

Bans(from, share) ==
    /\ ~done
    /\ \/ from \in responsive
       \/ Pending(from) /\ ~GoodShare(from, share)
    /\ markMalicious(from)
    /\ reply'.sid = 0

Ends ==
    /\ done' = TRUE
    /\ UNCHANGED <<responsive, malicious, preShares, signerSID, sidCounter>>
    /\ Kept
    /\ reply'.sid = 0

\* The answer is accepted, and a session with the signers S opened if S is not
\* empty.
Accepts(from, share, preShare, S) ==
    /\ Solicited(from)
    /\ Pending(from) => GoodShare(from, share)
    /\ UNCHANGED <<malicious, done>>
    /\ preShares' = [preShares EXCEPT ![from] = preShare]
    /\ S \subseteq responsive \cup {from}
    /\ responsive' = (responsive \cup {from}) \ S
    /\ signerSID' = [p \in Parties |-> IF p \in S THEN sidCounter + 1
                                       ELSE IF p = from THEN 0 ELSE signerSID[p]]
    /\ sidCounter' = IF S = {} THEN sidCounter ELSE sidCounter + 1
    /\ Kept
    /\ S # {} => sessions'[sidCounter + 1].signerSet = S
                 /\ sessions'[sidCounter + 1].preShares = SessionPreShares(S, preShares')
    /\ reply'.sid # 0 => S # {} /\ reply'.sid = sidCounter + 1

\* What a call of HandleResponse can come to, whoever makes it.
LEMMA Outcome ==
    ASSUME IInv, NEW from \in Parties, NEW share \in SigShare \cup {NilShare},
           NEW preShare \in PreShares, HandleResponse(from, share, preShare)
    PROVE  \/ Ignored
           \/ Bans(from, share)
           \/ Ends
           \/ \E S : Accepts(from, share, preShare, S)
<1>1. CASE AlreadyComplete \/ SignerMalicious(from)
  BY <1>1 DEF AlreadyComplete, SignerMalicious, Returns, Ignored
<1>2. CASE Unsolicited(from)
  BY <1>2 DEF Unsolicited, Returns, Bans
<1>3. CASE InvalidShare(from, share)
  BY <1>3 DEF InvalidShare, Returns, Bans, Solicited
<1>4. CASE Finish(from, share)
  <2>1. Kept
    <3>1. \A sid \in 1 .. sidCounter : sessions[sid] \in Session
      BY DEF IInv, TypeOK
    <3>2. signerSID[from] \in 1 .. sidCounter
      BY <1>4 DEF Finish, Pending, IInv, TypeOK
    <3>3. /\ Answered(from, share).signerSet = sessions[signerSID[from]].signerSet
          /\ Answered(from, share).preShares = sessions[signerSID[from]].preShares
      BY <3>1, <3>2 DEF Answered, Store, Session
    <3>4. sessions' = [sessions EXCEPT ![signerSID[from]] = Answered(from, share)]
      BY <1>4 DEF Finish
    <3>5. sessions \in [1 .. sidCounter -> Session]
      BY DEF IInv, TypeOK
    <3> QED
      BY <3>2, <3>3, <3>4, <3>5 DEF Kept
  <2> QED
    BY <1>4, <2>1 DEF Finish, Ends, Returns
<1>5. ASSUME Acceptable(from, share), NEW sid \in 1 .. sidCounter
      PROVE  /\ Stored(from, share)[sid].signerSet = sessions[sid].signerSet
             /\ Stored(from, share)[sid].preShares = sessions[sid].preShares
  <2>1. Pending(from) => share # NilShare
    BY <1>5 DEF Acceptable, GoodShare
  <2> QED
    BY <2>1, StoredFacts DEF IInv
<1>6. CASE Enlist(from, share, preShare)
  <2>1. Kept
    BY <1>5, <1>6 DEF Enlist, Kept
  <2>2. signerSID' = [p \in Parties |-> IF p = from THEN 0 ELSE signerSID[p]]
    BY <1>6 DEF Enlist, IInv, TypeOK
  <2>3. reply'.sid = 0
    BY <1>6 DEF Enlist, Returns
  <2>4. Accepts(from, share, preShare, {})
    BY <1>6, <2>1, <2>2, <2>3 DEF Enlist, Acceptable, Accepts
  <2> QED
    BY <2>4
<1>7. CASE Launch(from, share, preShare)
  <2>1. PICK S \in SUBSET (responsive \cup {from}) :
            /\ Cardinality(S) = T
            /\ initiateSession(S, responsive \cup {from}, preShares',
                               [signerSID EXCEPT ![from] = 0], Stored(from, share))
    BY <1>7 DEF Launch
  <2>2. S # {}
    BY <2>1, TIsNat, FS_EmptySet
  <2>3. sidCounter \in Nat /\ signerSID \in [Parties -> 0 .. sidCounter]
    BY DEF IInv, TypeOK
  <2>4. Kept
    BY <1>5, <1>7, <2>1, <2>3 DEF Launch, initiateSession, Kept
  <2>5. signerSID' = [p \in Parties |-> IF p \in S THEN sidCounter + 1
                                       ELSE IF p = from THEN 0 ELSE signerSID[p]]
    BY <2>1, <2>3 DEF initiateSession
  <2>6. /\ sessions'[sidCounter + 1].signerSet = S
        /\ sessions'[sidCounter + 1].preShares = SessionPreShares(S, preShares')
    BY <2>1, <2>3 DEF initiateSession, NewSession
  <2>7. reply'.sid # 0 => reply'.sid = sidCounter + 1
    BY <1>7 DEF Launch, Returns
  <2>8. Accepts(from, share, preShare, S)
    BY <1>7, <2>1, <2>2, <2>4, <2>5, <2>6, <2>7
       DEF Launch, Acceptable, Accepts, initiateSession
  <2> QED
    BY <2>8
<1> QED
  BY <1>1, <1>2, <1>3, <1>4, <1>6, <1>7 DEF HandleResponse

\* The commitments of a session's signers are numbers of nonce pairs.
LEMMA CommitmentType ==
    ASSUME IInv
    PROVE  /\ PreShares = 1 .. MaxNonce /\ MaxNonce \in Nat /\ NoPreShare \notin 1 .. MaxNonce
           /\ \A sid \in 1 .. sidCounter : \A p \in sessions[sid].signerSet :
                 p \in Parties /\ sessions[sid].preShares[p] \in 1 .. MaxNonce
           /\ \A p \in Parties : preShares[p] \in 1 .. MaxNonce \cup {NoPreShare}
<1>1. PreShares = 1 .. MaxNonce /\ MaxNonce \in Nat /\ NoPreShare \notin 1 .. MaxNonce
  BY SystemAssumption, RoastAssumption
<1>2. ASSUME NEW sid \in 1 .. sidCounter, NEW p \in sessions[sid].signerSet
      PROVE  p \in Parties /\ sessions[sid].preShares[p] \in 1 .. MaxNonce
  <2>1. sessions[sid] \in Session
    BY DEF IInv, TypeOK
  <2>2. p \in Parties /\ sessions[sid].preShares[p] # NoPreShare
    BY DEF IInv, WellFormed
  <2> QED
    BY <1>1, <2>1, <2>2 DEF Session, PreShareMap
<1>3. \A p \in Parties : preShares[p] \in 1 .. MaxNonce \cup {NoPreShare}
  BY <1>1 DEF IInv, TypeOK, PreShareMap
<1> QED
  BY <1>1, <1>2, <1>3

\* An honest signer's answer that is accepted brings a new commitment.
LEMMA NewCommitment ==
    ASSUME RInv, NEW from \in Honest, NEW share \in SigShare \cup {NilShare},
           NEW preShare \in PreShares, NEW S, Accepts(from, share, preShare, S),
           share # NilShare => preShare = share.nonce + 1,
           NEW sid \in 1 .. sidCounter, from \in sessions[sid].signerSet
    PROVE  sessions[sid].preShares[from] < preShare
<1>1. from \in Parties /\ from \notin malicious /\ from \notin responsive
  BY SystemAssumption DEF Accepts, Solicited
<1>2. preShares[from] # NoPreShare /\ sessions[sid].preShares[from] <= preShares[from]
  BY <1>1 DEF RInv, Ascending
<1>3. Pending(from)
  BY <1>1, <1>2 DEF RInv, Ascending, Pending
<1>4. GoodShare(from, share) /\ sessions[signerSID[from]].preShares[from] = preShares[from]
  BY <1>1, <1>3 DEF Accepts, RInv, Ascending, Pending
<1>5. share # NilShare /\ share.nonce = preShares[from]
  BY <1>4 DEF GoodShare, Validate, ShareVal
<1>6. preShares[from] \in 1 .. MaxNonce /\ sessions[sid].preShares[from] \in 1 .. MaxNonce
      /\ MaxNonce \in Nat
  BY <1>1, <1>2, CommitmentType DEF RInv
<1>7. preShare = preShares[from] + 1
  BY <1>5
<1> QED
  BY <1>2, <1>6, <1>7

\* No call of HandleResponse lets a commitment of an honest signer be used twice.
LEMMA CallCommitments ==
    ASSUME RInv, NEW from \in Parties, NEW share \in SigShare \cup {NilShare},
           NEW preShare \in PreShares, HandleResponse(from, share, preShare),
           from \in Honest =>
              preShare <= nonceState[from] /\ (share # NilShare => preShare = share.nonce + 1)
    PROVE  /\ Ascending' /\ CommitmentUsedOnce'
           /\ \A p \in Honest : preShares'[p] # NoPreShare => preShares'[p] <= nonceState[p]
<1>1. IInv /\ Ascending /\ CommitmentUsedOnce
      /\ \A p \in Honest : preShares[p] # NoPreShare => preShares[p] <= nonceState[p]
  BY DEF RInv, Drawn
<1>2. Honest \subseteq Parties
  BY SystemAssumption
<1>3. sidCounter \in Nat /\ preShares \in PreShareMap /\ signerSID \in [Parties -> 0 .. sidCounter]
  BY <1>1 DEF IInv, TypeOK
<1>4. CASE Ignored
  BY <1>1, <1>4 DEF Ignored, cvars, Ascending, CommitmentUsedOnce
<1>5. CASE Bans(from, share)
  <2>1. /\ malicious' = malicious \cup {from} /\ responsive' = responsive \ {from}
        /\ preShares' = [preShares EXCEPT ![from] = NoPreShare]
        /\ signerSID' = [signerSID EXCEPT ![from] = 0]
        /\ sessions' = sessions /\ sidCounter' = sidCounter
    BY <1>5 DEF Bans, markMalicious
  <2>2. \A p \in Parties \ {from} : preShares'[p] = preShares[p] /\ signerSID'[p] = signerSID[p]
    BY <1>3, <2>1 DEF PreShareMap
  <2>3. preShares'[from] = NoPreShare
    BY <1>3, <2>1 DEF PreShareMap
  <2>4. Ascending'
    <3> SUFFICES ASSUME NEW p \in Honest \ malicious'
                 PROVE  /\ p \notin responsive' /\ signerSID'[p] = 0 => preShares'[p] = NoPreShare
                        /\ signerSID'[p] # 0 => sessions'[signerSID'[p]].preShares[p] = preShares'[p]
                        /\ \A sid \in 1 .. sidCounter' : p \in sessions'[sid].signerSet =>
                              /\ preShares'[p] # NoPreShare
                              /\ sessions'[sid].preShares[p] <= preShares'[p]
                              /\ p \in responsive' => sessions'[sid].preShares[p] # preShares'[p]
      BY DEF Ascending
    <3>1. /\ p \in Honest \ malicious /\ p # from /\ (p \in responsive' <=> p \in responsive)
          /\ preShares'[p] = preShares[p] /\ signerSID'[p] = signerSID[p]
      BY <1>2, <2>1, <2>2
    <3> QED
      BY <1>1, <2>1, <3>1 DEF Ascending
  <2> QED
    BY <1>1, <1>2, <2>1, <2>2, <2>3, <2>4 DEF CommitmentUsedOnce
<1>6. CASE Ends
  <2>1. /\ UNCHANGED <<responsive, malicious, preShares, signerSID, sidCounter>>
        /\ \A sid \in 1 .. sidCounter :
              /\ sessions'[sid].signerSet = sessions[sid].signerSet
              /\ sessions'[sid].preShares = sessions[sid].preShares
    BY <1>6 DEF Ends, Kept
  <2>2. Ascending'
    <3>1. \A p \in Parties : signerSID[p] # 0 => signerSID[p] \in 1 .. sidCounter
      BY <1>3
    <3> QED
      BY <1>1, <1>2, <2>1, <3>1 DEF Ascending
  <2>3. CommitmentUsedOnce'
    BY <1>1, <2>1 DEF CommitmentUsedOnce
  <2> QED
    BY <1>1, <2>1, <2>2, <2>3
<1>7. ASSUME NEW S, Accepts(from, share, preShare, S)
      PROVE  /\ Ascending' /\ CommitmentUsedOnce'
             /\ \A p \in Honest : preShares'[p] # NoPreShare => preShares'[p] <= nonceState[p]
  <2> DEFINE new == sidCounter + 1
  <2>1. /\ from \notin malicious /\ from \notin responsive
        /\ malicious' = malicious
        /\ S \subseteq responsive \cup {from} /\ responsive' = (responsive \cup {from}) \ S
        /\ sidCounter' = IF S = {} THEN sidCounter ELSE new
        /\ S # {} => sessions'[new].signerSet = S
                     /\ sessions'[new].preShares = SessionPreShares(S, preShares')
    BY <1>7 DEF Accepts, Solicited
  <2>2. \A sid \in 1 .. sidCounter :
            /\ sessions'[sid].signerSet = sessions[sid].signerSet
            /\ sessions'[sid].preShares = sessions[sid].preShares
    BY <1>7 DEF Accepts, Kept
  <2>3. preShares'[from] = preShare /\ \A p \in Parties \ {from} : preShares'[p] = preShares[p]
    BY <1>3, <1>7 DEF Accepts, PreShareMap
  <2>4. \A p \in Parties : signerSID'[p] = IF p \in S THEN new
                                          ELSE IF p = from THEN 0 ELSE signerSID[p]
    BY <1>7 DEF Accepts
  <2>5. ASSUME NEW p \in Honest, p \in S \/ p = from
        PROVE  /\ p \notin malicious /\ preShares'[p] \in 1 .. MaxNonce
               /\ \A sid \in 1 .. sidCounter : p \in sessions[sid].signerSet =>
                     sessions[sid].preShares[p] < preShares'[p]
    <3>1. CASE p = from
      BY <1>1, <1>7, <2>1, <2>3, <3>1, NewCommitment, CommitmentType
    <3>2. CASE p # from
      <4>1. p \in responsive /\ p \notin malicious /\ preShares'[p] = preShares[p]
            /\ preShares[p] \in PreShares
        BY <1>1, <1>2, <2>1, <2>3, <2>5, <3>2 DEF IInv, WaitingOK
      <4>2. ASSUME NEW sid \in 1 .. sidCounter, p \in sessions[sid].signerSet
            PROVE  sessions[sid].preShares[p] < preShares'[p]
        <5>1. sessions[sid].preShares[p] <= preShares[p] /\ sessions[sid].preShares[p] # preShares[p]
          BY <1>1, <4>1, <4>2 DEF Ascending
        <5>2. sessions[sid].preShares[p] \in 1 .. MaxNonce /\ preShares[p] \in 1 .. MaxNonce
              /\ MaxNonce \in Nat
          BY <1>1, <4>1, <4>2, CommitmentType
        <5> QED
          BY <4>1, <5>1, <5>2
      <4> QED
        BY <1>1, <4>1, <4>2, CommitmentType
    <3> QED
      BY <3>1, <3>2
  <2>6. \A p \in S : S # {} => sessions'[new].preShares[p] = preShares'[p]
    <3>1. S \subseteq Parties
      BY <1>1, <2>1 DEF IInv, TypeOK
    <3> QED
      BY <2>1, <3>1 DEF SessionPreShares
  <2>7. NoPreShare \notin 1 .. MaxNonce /\ MaxNonce \in Nat
    BY <1>1, CommitmentType
  <2>8. \A sid \in 1 .. sidCounter' : sid \in 1 .. sidCounter \/ (sid = new /\ S # {})
    BY <1>3, <2>1
  <2>9. Ascending'
    <3> SUFFICES ASSUME NEW p \in Honest, p \notin malicious
                 PROVE  /\ p \notin responsive' /\ signerSID'[p] = 0 => preShares'[p] = NoPreShare
                        /\ signerSID'[p] # 0 => sessions'[signerSID'[p]].preShares[p] = preShares'[p]
                        /\ \A sid \in 1 .. sidCounter' : p \in sessions'[sid].signerSet =>
                              /\ preShares'[p] # NoPreShare
                              /\ sessions'[sid].preShares[p] <= preShares'[p]
                              /\ p \in responsive' => sessions'[sid].preShares[p] # preShares'[p]
      BY <2>1 DEF Ascending
    <3>1. CASE p \in S
      <4>1. p \notin responsive' /\ signerSID'[p] = new /\ new # 0
            /\ sessions'[new].preShares[p] = preShares'[p]
        BY <1>2, <1>3, <2>1, <2>4, <2>6, <3>1
      <4>2. ASSUME NEW sid \in 1 .. sidCounter', p \in sessions'[sid].signerSet
            PROVE  preShares'[p] # NoPreShare /\ sessions'[sid].preShares[p] <= preShares'[p]
        <5>1. CASE sid = new
          BY <2>5, <2>7, <3>1, <4>1, <5>1
        <5>2. CASE sid \in 1 .. sidCounter
          <6>1. sessions'[sid].preShares[p] \in 1 .. MaxNonce /\ preShares'[p] \in 1 .. MaxNonce
                /\ sessions'[sid].preShares[p] < preShares'[p]
            BY <1>1, <2>2, <2>5, <3>1, <4>2, <5>2, CommitmentType
          <6> QED
            BY <2>7, <6>1
        <5> QED
          BY <2>8, <5>1, <5>2
      <4> QED
        BY <4>1, <4>2
    <3>2. CASE p = from /\ p \notin S
      <4>1. p \in responsive' /\ signerSID'[p] = 0
        BY <2>1, <2>4, <3>2
      <4>2. ASSUME NEW sid \in 1 .. sidCounter', p \in sessions'[sid].signerSet
            PROVE  /\ preShares'[p] # NoPreShare
                   /\ sessions'[sid].preShares[p] <= preShares'[p]
                   /\ sessions'[sid].preShares[p] # preShares'[p]
        <5>1. sid \in 1 .. sidCounter
          BY <2>1, <2>8, <3>2, <4>2
        <5>2. sessions'[sid].preShares[p] \in 1 .. MaxNonce /\ preShares'[p] \in 1 .. MaxNonce
              /\ sessions'[sid].preShares[p] < preShares'[p]
          BY <1>1, <2>2, <2>5, <3>2, <4>2, <5>1, CommitmentType
        <5> QED
          BY <2>7, <5>2
      <4> QED
        BY <4>1, <4>2
    <3>3. CASE p # from /\ p \notin S
      <4>1. /\ signerSID'[p] = signerSID[p] /\ preShares'[p] = preShares[p]
            /\ (p \in responsive' <=> p \in responsive)
        BY <1>2, <2>1, <2>3, <2>4, <3>3
      <4>2. signerSID[p] # 0 => signerSID[p] \in 1 .. sidCounter
        BY <1>2, <1>3
      <4>3. \A sid \in 1 .. sidCounter' : p \in sessions'[sid].signerSet =>
                sid \in 1 .. sidCounter /\ p \in sessions[sid].signerSet
        BY <2>1, <2>2, <2>8, <3>3
      <4> QED
        BY <1>1, <2>2, <4>1, <4>2, <4>3 DEF Ascending
    <3> QED
      BY <3>1, <3>2, <3>3
  <2>10. CommitmentUsedOnce'
    <3>1. ASSUME NEW p \in Honest, NEW s1 \in 1 .. sidCounter', NEW s2 \in 1 .. sidCounter,
                 s1 = new, S # {}, p \in sessions'[s1].signerSet, p \in sessions'[s2].signerSet
          PROVE  sessions'[s1].preShares[p] # sessions'[s2].preShares[p]
      <4>1. p \in S /\ sessions'[s1].preShares[p] = preShares'[p]
        BY <2>1, <2>6, <3>1
      <4>2. sessions'[s2].preShares[p] < preShares'[p] /\ preShares'[p] \in 1 .. MaxNonce
            /\ sessions'[s2].preShares[p] \in 1 .. MaxNonce
        BY <1>1, <2>2, <2>5, <3>1, <4>1, CommitmentType
      <4> QED
        BY <2>7, <4>1, <4>2
    <3>2. ASSUME NEW p \in Honest, NEW s1 \in 1 .. sidCounter, NEW s2 \in 1 .. sidCounter,
                 p \in sessions'[s1].signerSet, p \in sessions'[s2].signerSet,
                 sessions'[s1].preShares[p] = sessions'[s2].preShares[p]
          PROVE  s1 = s2
      BY <1>1, <2>2, <3>2 DEF CommitmentUsedOnce
    <3> SUFFICES ASSUME NEW p \in Honest, NEW s1 \in 1 .. sidCounter', NEW s2 \in 1 .. sidCounter',
                        p \in sessions'[s1].signerSet, p \in sessions'[s2].signerSet,
                        sessions'[s1].preShares[p] = sessions'[s2].preShares[p]
                 PROVE  s1 = s2
      BY DEF CommitmentUsedOnce
    <3> QED
      BY <2>8, <3>1, <3>2
  <2>11. \A p \in Honest : preShares'[p] # NoPreShare => preShares'[p] <= nonceState[p]
    BY <1>1, <1>2, <2>3
  <2> QED
    BY <2>9, <2>10, <2>11
<1> QED
  BY <1>1, <1>4, <1>5, <1>6, <1>7, Outcome

\* The requests that a call adds go to the honest signers of a new session.
LEMMA CallRequests ==
    ASSUME NEW from, NEW share, NEW preShare, Call(from, share, preShare)
    PROVE  /\ requests \subseteq requests'
           /\ reply'.sid = 0 => requests' = requests
           /\ \A m \in requests' \ requests :
                 /\ reply'.sid # 0
                 /\ m.to \in sessions'[reply'.sid].signerSet \cap Honest
                 /\ m.sid = reply'.sid
                 /\ m.preShares = sessions'[reply'.sid].preShares
                 /\ m = [to |-> m.to, sid |-> m.sid, preShares |-> m.preShares]
BY DEF Call

\* They have the right form, and their receivers have drawn a nonce pair.
LEMMA CallChannels ==
    ASSUME RInv, IInv', NEW from \in Parties, NEW share \in SigShare \cup {NilShare},
           NEW preShare \in PreShares, Call(from, share, preShare),
           from \in Honest => preShare <= nonceState[from]
    PROVE  requests' \subseteq Requests /\ \A m \in requests' : nonceState[m.to] >= 1
<1>1. IInv /\ requests \subseteq Requests /\ \A m \in requests : nonceState[m.to] >= 1
  BY DEF RInv, Channels, Drawn
<1>2. HandleResponse(from, share, preShare)
  BY DEF Call
<1>3. CASE reply'.sid = 0
  BY <1>1, <1>3, CallRequests
<1>4. CASE reply'.sid # 0
  <2>1. PICK S : Accepts(from, share, preShare, S)
    BY <1>1, <1>2, <1>4, Outcome DEF Ignored, Bans, Ends
  <2>2. /\ S # {} /\ reply'.sid = sidCounter + 1 /\ sidCounter' = sidCounter + 1
        /\ sessions'[reply'.sid].signerSet = S /\ S \subseteq responsive \cup {from}
    BY <1>4, <2>1 DEF Accepts
  <2>3. sidCounter \in Nat /\ sessions'[reply'.sid] \in Session
    BY <1>1, <2>2 DEF IInv, TypeOK
  <2>4. ASSUME NEW p \in Honest \cap S PROVE nonceState[p] >= 1
    <3>1. nonceState[p] \in Nat /\ PreShares = 1 .. MaxNonce /\ MaxNonce \in Nat /\ p \in Parties
      BY SystemAssumption DEF RInv, Channels
    <3>2. CASE p = from
      BY <3>1, <3>2
    <3>3. CASE p \in responsive
      <4>1. preShares[p] \in PreShares
        BY <1>1, <3>3 DEF IInv, WaitingOK
      <4>2. preShares[p] <= nonceState[p]
        BY <4>1, RoastAssumption DEF RInv, Drawn
      <4> QED
        BY <3>1, <4>1, <4>2
    <3> QED
      BY <2>2, <3>2, <3>3
  <2>5. ASSUME NEW m \in requests' \ requests
        PROVE  m \in Requests /\ nonceState[m.to] >= 1
    <3>1. /\ m.to \in Honest \cap S /\ m.sid \in Nat /\ m.preShares \in PreShareMap
          /\ m = [to |-> m.to, sid |-> m.sid, preShares |-> m.preShares]
      BY <2>2, <2>3, CallRequests DEF Session
    <3> QED
      BY <2>4, <3>1 DEF Requests
  <2> QED
    BY <1>1, <2>5
<1> QED
  BY <1>3, <1>4

\* As long as nothing arrives twice, a call keeps the coordinator in step with
\* the honest signers and bans none of them.
LEMMA CallInStep ==
    ASSUME RInv, NEW from \in Parties, NEW share \in SigShare \cup {NilShare},
           NEW preShare \in PreShares, Call(from, share, preShare),
           dups' = 0 => dups = 0,
           dups' = 0 /\ from \notin Honest => responses' = responses,
           dups' = 0 /\ from \in Honest =>
              \E m \in responses : /\ m.from = from /\ m.share = share /\ m.preShare = preShare
                                   /\ responses' = responses \ {m}
    PROVE  InStep' /\ HonestNeverBanned'
<1> SUFFICES ASSUME dups' = 0
             PROVE  (~done' => \A p \in Honest : Fits(p)') /\ Honest \cap malicious' = {}
  BY DEF InStep, HonestNeverBanned
<1>1. /\ IInv /\ Honest \cap malicious = {} /\ (~done => \A p \in Honest : Fits(p))
      /\ Honest \subseteq Parties /\ nonceState' = nonceState /\ responses' \subseteq responses
  BY SystemAssumption DEF RInv, InStep, HonestNeverBanned, Call, svars
<1>2. HandleResponse(from, share, preShare)
  BY DEF Call
<1>3. ~done /\ from \in Honest =>
          /\ from \notin responsive
          /\ preShare = nonceState[from]
          /\ signerSID[from] # 0 => GoodShare(from, share)
          /\ \A m \in responses' : m.from # from
          /\ \A m \in requests : m.to # from
  <2> SUFFICES ASSUME ~done, from \in Honest
               PROVE  /\ from \notin responsive
                      /\ preShare = nonceState[from]
                      /\ signerSID[from] # 0 => GoodShare(from, share)
                      /\ \A m \in responses' : m.from # from
                      /\ \A m \in requests : m.to # from
    OBVIOUS
  <2>1. PICK m \in responses : /\ m.from = from /\ m.share = share /\ m.preShare = preShare
                               /\ responses' = responses \ {m}
    OBVIOUS
  <2>2. Fits(from)
    BY <1>1
  <2> QED
    BY <2>1, <2>2 DEF Fits
<1>4. CASE Ignored
  <2>1. UNCHANGED cvars /\ requests' = requests
    BY <1>4, CallRequests DEF Ignored
  <2>2. ASSUME NEW p \in Honest, Fits(p) PROVE Fits(p)'
    BY <1>1, <2>1, <2>2 DEF Fits, GoodShare, cvars
  <2> QED
    BY <1>1, <2>1, <2>2 DEF cvars
<1>5. CASE Bans(from, share)
  <2>1. from \notin Honest
    BY <1>3, <1>5 DEF Bans, Pending
  <2>2. /\ malicious' = malicious \cup {from} /\ responsive' = responsive \ {from}
        /\ preShares' = [preShares EXCEPT ![from] = NoPreShare]
        /\ signerSID' = [signerSID EXCEPT ![from] = 0]
        /\ sessions' = sessions /\ done' = done /\ requests' = requests
    BY <1>5, CallRequests DEF Bans, markMalicious
  <2>3. ASSUME NEW p \in Honest, Fits(p) PROVE Fits(p)'
    <3>1. /\ (p \in responsive' <=> p \in responsive) /\ preShares'[p] = preShares[p]
          /\ signerSID'[p] = signerSID[p]
      BY <1>1, <2>1, <2>2 DEF IInv, TypeOK, PreShareMap
    <3>2. \A x : GoodShare(p, x)' <=> GoodShare(p, x)
      BY <2>2, <3>1 DEF GoodShare
    <3> QED
      BY <1>1, <2>2, <2>3, <3>1, <3>2 DEF Fits
  <2> QED
    BY <1>1, <2>1, <2>2, <2>3
<1>6. CASE Ends
  BY <1>1, <1>6 DEF Ends
<1>7. ASSUME NEW S, Accepts(from, share, preShare, S)
      PROVE  (~done' => \A p \in Honest : Fits(p)') /\ Honest \cap malicious' = {}
  <2>1. /\ ~done /\ from \notin responsive /\ malicious' = malicious
        /\ S \subseteq responsive \cup {from} /\ responsive' = (responsive \cup {from}) \ S
        /\ S # {} => sessions'[sidCounter + 1].signerSet = S
                     /\ sessions'[sidCounter + 1].preShares = SessionPreShares(S, preShares')
        /\ reply'.sid # 0 => S # {} /\ reply'.sid = sidCounter + 1
    BY <1>7 DEF Accepts, Solicited
  <2>2. preShares'[from] = preShare /\ \A p \in Parties \ {from} : preShares'[p] = preShares[p]
    BY <1>1, <1>7 DEF Accepts, IInv, TypeOK, PreShareMap
  <2>3. \A p \in Parties : signerSID'[p] = IF p \in S THEN sidCounter + 1
                                          ELSE IF p = from THEN 0 ELSE signerSID[p]
    BY <1>7 DEF Accepts
  <2>4. \A p \in Honest : Fits(p)
    BY <1>1, <2>1
  <2>5. \A m \in requests' : m \in requests \/
            (/\ m.to \in S \cap Honest /\ m.sid = sidCounter + 1
             /\ m.preShares = SessionPreShares(S, preShares'))
    BY <2>1, CallRequests
  <2>6. ASSUME NEW p \in Honest, p \in S \/ p = from
        PROVE  /\ \A m \in responses' : m.from # p
               /\ \A m \in requests : m.to # p
               /\ preShares'[p] = nonceState[p]
               /\ nonceState[p] # 0
    <3>1. CASE p = from
      <4>1. preShare # 0
        BY SystemAssumption
      <4> QED
        BY <1>3, <2>1, <2>2, <3>1, <4>1
    <3>2. CASE p # from
      <4>1. p \in responsive /\ preShares'[p] = preShares[p]
        BY <1>1, <2>1, <2>2, <2>6, <3>2
      <4> QED
        BY <1>1, <2>4, <4>1 DEF Fits
    <3> QED
      BY <3>1, <3>2
  <2>7. sidCounter \in Nat /\ sidCounter + 1 # 0
    BY <1>1 DEF IInv, TypeOK
  <2>8. ASSUME NEW p \in Honest PROVE Fits(p)'
    <3>1. CASE p \in S
      <4>1. /\ p \notin responsive' /\ signerSID'[p] = sidCounter + 1
            /\ SessionPreShares(S, preShares')[p] = nonceState[p]
            /\ sessions'[signerSID'[p]].preShares = SessionPreShares(S, preShares')
        BY <1>1, <2>1, <2>3, <2>6, <3>1 DEF SessionPreShares
      <4>2. \A m \in requests' : m.to = p =>
                m.sid = sidCounter + 1 /\ m.preShares = SessionPreShares(S, preShares')
        BY <2>5, <2>6, <3>1
      <4> QED
        BY <1>1, <2>6, <2>7, <3>1, <4>1, <4>2 DEF Fits
    <3>2. CASE p = from /\ p \notin S
      <4>1. p \in responsive' /\ \A m \in requests' : m.to # p
        BY <2>1, <2>5, <2>6, <3>2
      <4> QED
        BY <1>1, <2>6, <3>2, <4>1 DEF Fits
    <3>3. CASE p # from /\ p \notin S
      <4>1. /\ (p \in responsive' <=> p \in responsive) /\ preShares'[p] = preShares[p]
            /\ signerSID'[p] = signerSID[p]
        BY <1>1, <2>1, <2>2, <2>3, <3>3
      <4>2. \A m \in requests' : m.to = p => m \in requests
        BY <2>5, <3>3
      <4>3. signerSID[p] # 0 =>
                /\ sessions'[signerSID[p]].signerSet = sessions[signerSID[p]].signerSet
                /\ sessions'[signerSID[p]].preShares = sessions[signerSID[p]].preShares
        <5>1. signerSID[p] # 0 => signerSID[p] \in 1 .. sidCounter
          BY <1>1 DEF IInv, TypeOK
        <5> QED
          BY <1>7, <5>1 DEF Accepts, Kept
      <4>4. \A x : signerSID[p] # 0 => (GoodShare(p, x)' <=> GoodShare(p, x))
        BY <4>1, <4>3 DEF GoodShare, Validate, ShareVal
      <4> QED
        BY <1>1, <2>4, <4>1, <4>2, <4>3, <4>4 DEF Fits
    <3> QED
      BY <3>1, <3>2, <3>3
  <2> QED
    BY <1>1, <2>1, <2>8
<1> QED
  BY <1>1, <1>2, <1>4, <1>5, <1>6, <1>7, Outcome

-----------------------------------------------------------------------------
(* The inductive invariant *)

\* Nothing is sent and nobody has a nonce yet.
LEMMA RInitRInv == RInit => RInv
<1> SUFFICES ASSUME RInit PROVE RInv
  OBVIOUS
<1>1. IInv /\ sidCounter = 0 /\ responsive = {} /\ malicious = {}
      /\ signerSID = [p \in Parties |-> 0] /\ preShares = [p \in Parties |-> NoPreShare]
  BY InitIInv DEF RInit, Init
<1>2. Honest \subseteq Parties /\ MaxNonce \in Nat
  BY SystemAssumption
<1>3. 1 .. sidCounter = {}
  BY <1>1
<1>4. Channels /\ Drawn /\ Spent /\ NonceSpentOnce
  BY <1>1, <1>2 DEF RInit, Channels, Drawn, Spent, NonceSpentOnce
<1>5. Ascending /\ CommitmentUsedOnce
  BY <1>1, <1>2, <1>3 DEF Ascending, CommitmentUsedOnce
<1>6. InStep /\ HonestNeverBanned
  BY <1>1, <1>2 DEF RInit, InStep, Fits, HonestNeverBanned
<1> QED
  BY <1>1, <1>4, <1>5, <1>6 DEF RInv

\* The signers and the coordinator's caller do what Next of the coordinator
\* allows.
LEMMA DeliverIsNext ==
    ASSUME RInv, NEW p \in Honest, NEW m \in responses, m.from = p,
           Call(p, m.share, m.preShare)
    PROVE  /\ p \in Parties /\ m.share \in SigShare \cup {NilShare} /\ m.preShare \in PreShares
           /\ m.preShare <= nonceState[p]
           /\ m.share # NilShare => m.preShare = m.share.nonce + 1
           /\ Next
<1>1. m \in Responses /\ p \in Parties
  BY SystemAssumption DEF RInv, Channels
<1>2. m.share \in SigShare \cup {NilShare} /\ m.preShare \in PreShares
  BY <1>1 DEF Responses
<1>3. m.preShare <= nonceState[p] /\ (m.share # NilShare => m.preShare = m.share.nonce + 1)
  BY DEF RInv, Drawn
<1>4. Next
  BY <1>1, <1>2 DEF Call, Next
<1> QED
  BY <1>1, <1>2, <1>3, <1>4

\* What misbehaving signers send are shares, if wrong ones.
LEMMA AdvSharesType == IInv => AdvShares \subseteq SigShare \cup {NilShare}
<1> SUFFICES ASSUME IInv, NEW k \in AdvPreShares, NEW sid \in 1 .. sidCounter
             PROVE  [nonce |-> k, preShares |-> sessions[sid].preShares] \in SigShare
  BY DEF AdvShares
<1>1. sessions[sid].preShares \in PreShareMap /\ k \in PreShares
  BY SystemAssumption DEF IInv, TypeOK, Session
<1> QED
  BY <1>1 DEF SigShare

\* An answer of an honest signer reaches the coordinator, perhaps again.
LEMMA DeliverRInv == ASSUME NEW p \in Honest PROVE RInv /\ Deliver(p) => RInv'
<1> SUFFICES ASSUME RInv, Deliver(p) PROVE RInv'
  OBVIOUS
<1>1. PICK m \in responses : m.from = p /\ Call(p, m.share, m.preShare) /\ Taken(responses, m)
  BY DEF Deliver
<1>2. /\ p \in Parties /\ m.share \in SigShare \cup {NilShare} /\ m.preShare \in PreShares
      /\ m.preShare <= nonceState[p]
      /\ m.share # NilShare => m.preShare = m.share.nonce + 1
      /\ Next
  BY <1>1, DeliverIsNext
<1>3. IInv'
  BY <1>2, IInvStep DEF RInv
<1>4. UNCHANGED <<nonceState, signed>> /\ HandleResponse(p, m.share, m.preShare)
  BY <1>1 DEF Call, svars
<1>5. responses' \subseteq responses /\ dups' \in Nat /\ (dups' = 0 => responses' = responses \ {m} /\ dups = 0)
  BY <1>1 DEF Taken, RInv, Channels
<1>6. requests' \subseteq Requests /\ \A n \in requests' : nonceState[n.to] >= 1
  BY <1>1, <1>2, <1>3, CallChannels DEF RInv
<1>7. /\ Ascending' /\ CommitmentUsedOnce'
      /\ \A r \in Honest : preShares'[r] # NoPreShare => preShares'[r] <= nonceState[r]
  BY <1>2, <1>4, CallCommitments
<1>8. InStep' /\ HonestNeverBanned'
  BY <1>1, <1>2, <1>5, CallInStep
<1>9. Channels' /\ Drawn' /\ Spent' /\ NonceSpentOnce'
  BY <1>4, <1>5, <1>6, <1>7 DEF RInv, Channels, Drawn, Spent, NonceSpentOnce
<1> QED
  BY <1>3, <1>7, <1>8, <1>9 DEF RInv

\* A misbehaving signer calls HandleResponse with whatever it likes.
LEMMA MisbehaveRInv == ASSUME NEW p \in Parties \ Honest PROVE RInv /\ Misbehave(p) => RInv'
<1> SUFFICES ASSUME RInv, Misbehave(p) PROVE RInv'
  OBVIOUS
<1>1. PICK share \in AdvShares, preShare \in AdvPreShares : Call(p, share, preShare)
  BY DEF Misbehave
<1>2. share \in SigShare \cup {NilShare} /\ preShare \in PreShares /\ p \in Parties /\ p \notin Honest
  BY AdvSharesType, SystemAssumption DEF RInv
<1>3. UNCHANGED <<nonceState, signed, responses, dups>> /\ HandleResponse(p, share, preShare)
  BY <1>1 DEF Call, svars, Misbehave
<1>4. IInv'
  <2>1. Next
    BY <1>2, <1>3 DEF Next
  <2> QED
    BY <2>1, IInvStep DEF RInv
<1>5. requests' \subseteq Requests /\ \A n \in requests' : nonceState[n.to] >= 1
  BY <1>1, <1>2, <1>4, CallChannels DEF RInv
<1>6. /\ Ascending' /\ CommitmentUsedOnce'
      /\ \A r \in Honest : preShares'[r] # NoPreShare => preShares'[r] <= nonceState[r]
  BY <1>2, <1>3, CallCommitments
<1>7. InStep' /\ HonestNeverBanned'
  BY <1>1, <1>2, <1>3, CallInStep
<1>8. Channels' /\ Drawn' /\ Spent' /\ NonceSpentOnce'
  BY <1>3, <1>5, <1>6 DEF RInv, Channels, Drawn, Spent, NonceSpentOnce
<1> QED
  BY <1>4, <1>6, <1>7, <1>8 DEF RInv

\* What only depends on the coordinator holds as long as it does nothing.
LEMMA CoordinatorFrame ==
    ASSUME RInv, UNCHANGED vars
    PROVE  IInv' /\ Ascending' /\ CommitmentUsedOnce'
<1>1. IInv'
  BY IInvStep DEF RInv
<1> QED
  BY <1>1 DEF RInv, vars, cvars, Ascending, CommitmentUsedOnce

\* Drawing a nonce pair.
LEMMA PreRoundEffect ==
    ASSUME RInv, NEW p \in Honest, PreRound(p)
    PROVE  /\ nonceState' \in [Honest -> 0 .. MaxNonce]
           /\ nonceState[p] \in Nat
           /\ nonceState'[p] = nonceState[p] + 1 /\ nonceState'[p] \in PreShares
           /\ \A q \in Honest \ {p} : nonceState'[q] = nonceState[q]
BY SystemAssumption DEF RInv, Channels, PreRound

\* Signer.Init draws the first nonce pair.
LEMMA SignerInitRInv == ASSUME NEW p \in Honest PROVE RInv /\ SignerInit(p) => RInv'
<1> SUFFICES ASSUME RInv, SignerInit(p) PROVE RInv'
  OBVIOUS
<1> DEFINE new == [from |-> p, share |-> NilShare, preShare |-> nonceState'[p]]
<1>1. /\ nonceState[p] = 0 /\ PreRound(p) /\ responses' = responses \cup {new}
      /\ UNCHANGED <<vars, requests, dups, signed>>
  BY DEF SignerInit
<1>2. /\ nonceState' \in [Honest -> 0 .. MaxNonce] /\ nonceState \in [Honest -> 0 .. MaxNonce]
      /\ nonceState'[p] = 1 /\ nonceState'[p] \in PreShares
      /\ \A q \in Honest \ {p} : nonceState'[q] = nonceState[q]
  BY <1>1, PreRoundEffect DEF RInv, Channels
<1>3. IInv' /\ Ascending' /\ CommitmentUsedOnce'
  BY <1>1, CoordinatorFrame
<1>4. UNCHANGED <<responsive, malicious, preShares, signerSID, sessions, sidCounter, done>>
  BY <1>1 DEF vars, cvars
<1>5. new \in Responses /\ new.from = p /\ new.share = NilShare /\ new.preShare = nonceState'[p]
  BY <1>2 DEF Responses
<1> HIDE DEF new
<1>6. \A q \in Honest : nonceState[q] <= nonceState'[q] /\ nonceState[q] \in Nat /\ nonceState'[q] \in Nat
  BY <1>1, <1>2
<1>7. Channels'
  BY <1>1, <1>2, <1>5 DEF RInv, Channels
<1>8. Drawn'
  <2>1. \A m \in requests : nonceState'[m.to] >= 1
    BY <1>6 DEF RInv, Drawn, Channels, Requests
  <2>2. ASSUME NEW m \in responses
        PROVE  m.preShare <= nonceState'[m.from] /\ (m.share # NilShare => m.preShare = m.share.nonce + 1)
    <3>1. m.from \in Honest /\ m.preShare \in Nat
      BY SystemAssumption DEF RInv, Channels, Responses
    <3>2. m.preShare <= nonceState[m.from] /\ (m.share # NilShare => m.preShare = m.share.nonce + 1)
      BY DEF RInv, Drawn
    <3> QED
      BY <1>6, <3>1, <3>2
  <2>3. new.preShare <= nonceState'[new.from]
    BY <1>2, <1>5
  <2>4. ASSUME NEW q \in Honest, preShares[q] # NoPreShare PROVE preShares[q] <= nonceState'[q]
    <3>1. preShares[q] <= nonceState[q] /\ preShares[q] \in Nat
      BY <2>4, CommitmentType, SystemAssumption DEF RInv, Drawn
    <3> QED
      BY <1>6, <3>1
  <2> QED
    BY <1>1, <1>4, <1>5, <2>1, <2>2, <2>3, <2>4 DEF Drawn
<1>9. Spent' /\ NonceSpentOnce'
  <2>1. ASSUME NEW x \in signed
        PROVE  x.from \in Honest /\ x.share.nonce \in Nat /\ x.share.nonce < nonceState'[x.from]
    <3>1. x.from \in Honest /\ x.share.nonce \in Nat /\ x.share.nonce < nonceState[x.from]
      BY DEF RInv, Spent
    <3>2. x.from # p => nonceState'[x.from] = nonceState[x.from]
      BY <1>2, <3>1
    <3> QED
      BY <1>1, <1>2, <3>1, <3>2
  <2> QED
    BY <1>1, <2>1 DEF RInv, Spent, NonceSpentOnce
<1>10. InStep'
  <2> SUFFICES ASSUME dups = 0, ~done, NEW q \in Honest PROVE Fits(q)'
    BY <1>1, <1>4 DEF InStep
  <2>1. Fits(q) /\ Fits(p)
    BY DEF RInv, InStep
  <2>2. \A x : GoodShare(q, x)' <=> GoodShare(q, x)
    BY <1>4 DEF GoodShare
  <2>3. CASE q = p
    <3>1. /\ \A m \in requests : m.to # p
          /\ \A m \in responses : m.from # p
          /\ signerSID[p] = 0 /\ p \notin responsive
      BY <1>1, <2>1 DEF Fits
    <3> QED
      BY <1>1, <1>2, <1>4, <1>5, <2>3, <3>1 DEF Fits
  <2>4. CASE q # p
    BY <1>1, <1>2, <1>4, <1>5, <2>1, <2>2, <2>4 DEF Fits
  <2> QED
    BY <2>3, <2>4
<1>11. HonestNeverBanned'
  BY <1>1, <1>4 DEF RInv, HonestNeverBanned
<1> QED
  BY <1>3, <1>7, <1>8, <1>9, <1>10, <1>11 DEF RInv

\* Signer.Sign spends the pair it holds and draws the next.
LEMMA SignRInv ==
    ASSUME NEW p \in Honest, NEW m \in requests PROVE RInv /\ Sign(p, m) => RInv'
<1> SUFFICES ASSUME RInv, Sign(p, m) PROVE RInv'
  OBVIOUS
<1> DEFINE share == [nonce |-> nonceState[p], preShares |-> m.preShares]
           new   == [from |-> p, share |-> share, preShare |-> nonceState'[p]]
           spent == [from |-> p, share |-> share]
<1>1. /\ m.to = p /\ m.preShares[p] # NoPreShare /\ PreRound(p)
      /\ responses' = responses \cup {new} /\ signed' = signed \cup {spent}
      /\ Taken(requests, m) /\ UNCHANGED vars
  BY DEF Sign, SignRound
<1>2. /\ nonceState' \in [Honest -> 0 .. MaxNonce] /\ nonceState \in [Honest -> 0 .. MaxNonce]
      /\ nonceState'[p] = nonceState[p] + 1 /\ nonceState'[p] \in PreShares
      /\ \A q \in Honest \ {p} : nonceState'[q] = nonceState[q]
  BY <1>1, PreRoundEffect DEF RInv, Channels
<1>3. IInv' /\ Ascending' /\ CommitmentUsedOnce'
  BY <1>1, CoordinatorFrame
<1>4. UNCHANGED <<responsive, malicious, preShares, signerSID, sessions, sidCounter, done>>
  BY <1>1 DEF vars, cvars
<1>5. nonceState[p] \in PreShares /\ m.preShares \in PreShareMap /\ PreShares = 1 .. MaxNonce
      /\ MaxNonce \in Nat
  BY <1>1, <1>2, SystemAssumption DEF RInv, Drawn, Channels, Requests
<1>6. /\ share \in SigShare /\ share # NilShare /\ share.nonce = nonceState[p]
      /\ share.preShares = m.preShares
  BY <1>5, NilAssumption DEF SigShare
<1>7. /\ new \in Responses /\ new.from = p /\ new.share = share
      /\ new.preShare = nonceState'[p]
      /\ spent.from = p /\ spent.share = share
  BY <1>2, <1>6 DEF Responses
<1> HIDE DEF new, share, spent
<1>8. \A q \in Honest : nonceState[q] <= nonceState'[q] /\ nonceState[q] \in Nat /\ nonceState'[q] \in Nat
  BY <1>2
<1>9. requests' \subseteq requests /\ dups' \in Nat
      /\ (dups' = 0 => dups = 0 /\ requests' = requests \ {m})
  BY <1>1 DEF Taken, RInv, Channels
<1>10. Channels'
  BY <1>1, <1>2, <1>7, <1>9 DEF RInv, Channels
<1>11. Drawn'
  <2>1. \A n \in requests' : nonceState'[n.to] >= 1
    BY <1>8, <1>9 DEF RInv, Drawn, Channels, Requests
  <2>2. ASSUME NEW n \in responses
        PROVE  n.preShare <= nonceState'[n.from] /\ (n.share # NilShare => n.preShare = n.share.nonce + 1)
    <3>1. n.from \in Honest /\ n.preShare \in Nat
      BY SystemAssumption DEF RInv, Channels, Responses
    <3>2. n.preShare <= nonceState[n.from] /\ (n.share # NilShare => n.preShare = n.share.nonce + 1)
      BY DEF RInv, Drawn
    <3> QED
      BY <1>8, <3>1, <3>2
  <2>3. new.preShare <= nonceState'[new.from] /\ new.preShare = new.share.nonce + 1
    BY <1>2, <1>6, <1>7, <1>8
  <2>4. ASSUME NEW q \in Honest, preShares[q] # NoPreShare PROVE preShares[q] <= nonceState'[q]
    <3>1. preShares[q] <= nonceState[q] /\ preShares[q] \in Nat
      BY <2>4, CommitmentType, SystemAssumption DEF RInv, Drawn
    <3> QED
      BY <1>8, <3>1
  <2> QED
    BY <1>1, <1>4, <2>1, <2>2, <2>3, <2>4 DEF Drawn
<1>12. Spent' /\ NonceSpentOnce'
  <2>1. ASSUME NEW x \in signed
        PROVE  /\ x.from \in Honest /\ x.share.nonce \in Nat
               /\ x.share.nonce < nonceState[x.from] /\ x.share.nonce < nonceState'[x.from]
    <3>1. x.from \in Honest /\ x.share.nonce \in Nat /\ x.share.nonce < nonceState[x.from]
      BY DEF RInv, Spent
    <3> QED
      BY <1>8, <3>1
  <2>2. spent.share.nonce = nonceState[p] /\ spent.share.nonce \in Nat
        /\ spent.share.nonce < nonceState'[spent.from]
    BY <1>2, <1>6, <1>7, <1>8
  <2>3. Spent'
    BY <1>1, <1>7, <2>1, <2>2 DEF Spent
  <2>4. ASSUME NEW x \in signed, x.from = p PROVE x.share.nonce # spent.share.nonce
    BY <1>8, <2>1, <2>2, <2>4
  <2> QED
    BY <1>1, <1>7, <2>3, <2>4 DEF RInv, NonceSpentOnce
<1>13. InStep'
  <2> SUFFICES ASSUME dups' = 0, ~done, NEW q \in Honest PROVE Fits(q)'
    BY <1>4 DEF InStep
  <2>1. Fits(q) /\ Fits(p) /\ requests' = requests \ {m}
    BY <1>9 DEF RInv, InStep
  <2>2. \A x : GoodShare(q, x)' <=> GoodShare(q, x)
    BY <1>4 DEF GoodShare
  <2>3. CASE q # p
    BY <1>1, <1>2, <1>4, <1>7, <1>9, <2>1, <2>2, <2>3 DEF Fits
  <2>4. CASE q = p
    <3>1. /\ signerSID[p] # 0 /\ m.sid = signerSID[p]
          /\ m.preShares = sessions[signerSID[p]].preShares
          /\ m.preShares[p] = nonceState[p]
          /\ p \notin responsive
          /\ \A n \in responses : n.from # p
      BY <1>1, <2>1 DEF Fits
    <3>2. \A n \in requests' : n.to # p
      <4> SUFFICES ASSUME NEW n \in requests, n.to = p PROVE n = m
        BY <2>1
      <4>1. n.sid = m.sid /\ n.preShares = m.preShares
        BY <2>1, <3>1 DEF Fits
      <4>2. n \in Requests /\ m \in Requests
        BY DEF RInv, Channels
      <4> QED
        BY <1>1, <4>1, <4>2 DEF Requests
    <3>3. GoodShare(p, share)
      <4>1. p \in sessions[signerSID[p]].signerSet
        BY <3>1, SystemAssumption DEF RInv, IInv, PendingOK, Owes
      <4> QED
        BY <1>6, <3>1, <4>1 DEF GoodShare, Validate, ShareVal
    <3>4. \A n \in responses' : n.from = p => n = new
      BY <1>1, <3>1
    <3>5. nonceState'[p] # 0
      BY <1>2, <1>8
    <3> QED
      BY <1>4, <1>7, <2>2, <2>4, <3>1, <3>2, <3>3, <3>4, <3>5 DEF Fits
  <2> QED
    BY <2>3, <2>4
<1>14. HonestNeverBanned'
  BY <1>4, <1>9 DEF RInv, HonestNeverBanned
<1> QED
  BY <1>3, <1>10, <1>11, <1>12, <1>13, <1>14 DEF RInv

\* A step that changes nothing.
LEMMA RStutter == RInv /\ UNCHANGED rvars => RInv'
<1> SUFFICES ASSUME RInv, UNCHANGED rvars PROVE RInv'
  OBVIOUS
<1>1. UNCHANGED <<vars, nonceState, requests, responses, dups, signed>>
  BY DEF rvars
<1>2. IInv' /\ Ascending' /\ CommitmentUsedOnce'
  BY <1>1, CoordinatorFrame
<1>3. UNCHANGED <<responsive, malicious, preShares, signerSID, sessions, sidCounter, done>>
  BY <1>1 DEF vars, cvars
<1>4. Channels' /\ Drawn' /\ Spent' /\ NonceSpentOnce' /\ HonestNeverBanned'
  BY <1>1, <1>3 DEF RInv, Channels, Drawn, Spent, NonceSpentOnce, HonestNeverBanned
<1>5. InStep'
  BY <1>1, <1>3 DEF RInv, InStep, Fits, GoodShare
<1> QED
  BY <1>2, <1>4, <1>5 DEF RInv

\* Every step of the system preserves the invariant.
LEMMA RNextRInv == RInv /\ [RNext]_rvars => RInv'
BY RStutter, SignerInitRInv, SignRInv, DeliverRInv, MisbehaveRInv DEF RNext

\* Coordinator, honest signers and channels keep the invariant, whatever the
\* other signers do and in whatever order messages arrive, even twice.
THEOREM RoastInvariant == RSpec => []RInv
BY RInitRInv, RNextRInv, PTL DEF RSpec

\* As long as nothing is delivered twice, HandleResponse never bans a signer
\* that follows signer.go.
THEOREM RoastNeverBansHonest == RSpec => []HonestNeverBanned
<1>1. RInv => HonestNeverBanned
  BY DEF RInv
<1> QED
  BY <1>1, RoastInvariant, PTL

\* Signer.Sign never makes two shares from one nonce pair, even if requests
\* are repeated.
THEOREM RoastNonceSpentOnce == RSpec => []NonceSpentOnce
<1>1. RInv => NonceSpentOnce
  BY DEF RInv
<1> QED
  BY <1>1, RoastInvariant, PTL

\* No two sessions contain the same commitment of an honest signer, even if
\* answers are repeated.
THEOREM RoastCommitmentUsedOnce == RSpec => []CommitmentUsedOnce
<1>1. RInv => CommitmentUsedOnce
  BY DEF RInv
<1> QED
  BY <1>1, RoastInvariant, PTL

\* The bound of n - T + 1 sessions holds for the whole system: the signers and
\* the channels are one of the environments the coordinator was proved for.
THEOREM RoastIsCoordinator == RSpec => Spec
<1>1. RInit => Init
  BY DEF RInit
<1>2. RInv /\ [RNext]_rvars => [Next]_vars
  <2> SUFFICES ASSUME RInv, [RNext]_rvars PROVE [Next]_vars
    OBVIOUS
  <2>1. CASE UNCHANGED rvars
    BY <2>1 DEF rvars
  <2>2. ASSUME NEW p \in Honest, SignerInit(p) PROVE UNCHANGED vars
    BY <2>2 DEF SignerInit
  <2>3. ASSUME NEW p \in Honest, NEW m \in requests, Sign(p, m) PROVE UNCHANGED vars
    BY <2>3 DEF Sign
  <2>4. ASSUME NEW p \in Honest, Deliver(p) PROVE Next
    BY <2>4, DeliverIsNext DEF Deliver
  <2>5. ASSUME NEW p \in Parties \ Honest, Misbehave(p) PROVE Next
    BY <2>5, AdvSharesType, SystemAssumption DEF Misbehave, Call, Next, RInv
  <2> QED
    BY <2>1, <2>2, <2>3, <2>4, <2>5 DEF RNext
<1> QED
  BY <1>1, <1>2, RoastInvariant, PTL DEF RSpec, Spec
=============================================================================

--------------------------- MODULE RoastDriver_proofs ---------------------------
(***************************************************************************)
(* cmd/roast never fails and never needs a third round, for every number   *)
(* of signers, threshold and admissible number of silent signers, and      *)
(* every order in which Go visits the pending requests.                    *)
(*                                                                         *)
(* The argument: signers are fed by increasing ID, and fewer than T of     *)
(* them are left without a session, so those have the greatest IDs and are *)
(* not silent (Leftover).  Hence every session opened in the first round   *)
(* consists of signers that answer (FromLoud).  At least T signers answer  *)
(* and fewer than T are left at its end, so there is such a session, and   *)
(* it is complete when the second round is over (LastSession).             *)
(***************************************************************************)
EXTENDS RoastDriver, RoastCoordinator_proofs

Loud == Parties \ Silent

DTypes ==
    /\ maliciousCount \in 0 .. N - T
    /\ unfed \in SUBSET Parties
    /\ nonceState \in [Parties -> Nat]
    /\ unvisited \in [Parties -> Nat]
    /\ newPending \in [Parties -> Nat]
    /\ round \in 0 .. 1

\* Signers are fed by increasing ID, before the first round.
Feeding ==
    /\ \A p \in unfed : /\ p \notin responsive /\ signerSID[p] = 0 /\ unvisited[p] = 0
                        /\ \A q \in Parties \ unfed : q < p
    /\ unfed # {} => /\ round = 0 /\ newPending = NoRequests
                     /\ \A p \in responsive, q \in Parties \ (unfed \cup responsive) : q < p

Leftover == unfed = {} => responsive \cap Silent = {}

\* The coordinator knows the commitments of the nonce pair each signer holds,
\* and a signer spends one pair per round.
Nonces ==
    \A p \in Parties :
        /\ p \in responsive => preShares[p] = nonceState[p]
        /\ signerSID[p] # 0 => sessions[signerSID[p]].preShares[p] = nonceState[p]
        /\ nonceState[p] \in 1 .. round + 2
        /\ unvisited[p] # 0 => nonceState[p] <= round + 1
        /\ round = 0 /\ unfed # {} => nonceState[p] = 1

\* A signer the coordinator waits for has a request, of this round or the next,
\* unless it is silent; everybody else is responsive.
Requested ==
    \A p \in Parties :
        /\ unvisited[p] # 0 => unvisited[p] = signerSID[p] /\ newPending[p] = 0
        /\ newPending[p] # 0 => newPending[p] = signerSID[p]
        /\ p \in Loud /\ signerSID[p] # 0 => unvisited[p] # 0 \/ newPending[p] # 0
        /\ p \notin unfed /\ signerSID[p] = 0 => p \in responsive

\* The sessions of the next round have no silent signer, and are not the first.
FromLoud ==
    \A p \in Parties : newPending[p] # 0 =>
        /\ newPending[p] >= 2
        /\ \A q \in sessions[newPending[p]].signerSet :
              q \in Loud /\ newPending[q] = newPending[p]

\* In the second round some session lacks only shares that are still to come.
LastSession ==
    round = 1 =>
        /\ N >= 2
        /\ \E sid \in 1 .. sidCounter :
              \A q \in sessions[sid].signerSet :
                  /\ q \in Loud
                  /\ q \in Holders(sessions[sid].sigShares) \/ unvisited[q] = sid

Running ==
    /\ ~done /\ malicious = {}
    /\ DTypes /\ Feeding /\ Leftover /\ Nonces /\ Requested /\ FromLoud /\ LastSession

DInv ==
    /\ IInv
    /\ outcome \in {"running", "success"}
    /\ outcome = "running" => Running

-----------------------------------------------------------------------------
(* Counting signers *)

Before(p) == {q \in Parties : q < p}

\* A set of signers and its complement.
LEMMA Complement ==
    ASSUME NEW S \in SUBSET Parties
    PROVE  /\ Cardinality(S) \in Nat /\ Cardinality(Parties \ S) \in Nat
           /\ Cardinality(Parties \ S) = N - Cardinality(S)
  <1>1. Parties \cap S = S
    OBVIOUS
  <1>2. Cardinality(Parties \ S) = N - Cardinality(S)
    BY <1>1, RoastAssumption, FS_Difference DEF N
  <1>3. Parties \ S \in SUBSET Parties
    OBVIOUS
  <1> QED
    BY <1>2, <1>3, PartiesFinite

\* The first maliciousCount signers are at most maliciousCount signers: each
\* has a different number of smaller IDs.
LEMMA SilentCount ==
    ASSUME maliciousCount \in Nat
    PROVE  Cardinality(Silent) <= maliciousCount /\ Cardinality(Silent) \in Nat
  <1> DEFINE k == maliciousCount
             D == 0 .. k - 1
             f == [p \in Silent |-> Cardinality(Before(p))]
  <1>1. Silent \in SUBSET Parties
    BY DEF Silent
  <1>2. IsFiniteSet(Silent) /\ Cardinality(Silent) \in Nat
    BY <1>1, PartiesFinite
  <1>3. ASSUME NEW p \in Parties
        PROVE  Before(p) \in SUBSET Parties /\ IsFiniteSet(Before(p)) /\ Cardinality(Before(p)) \in Nat
    <2>1. Before(p) \in SUBSET Parties
      BY DEF Before
    <2> QED
      BY <2>1, PartiesFinite
  <1>4. f \in [Silent -> D]
    <2>1. \A p \in Silent : Cardinality(Before(p)) < k
      BY DEF Silent, Before
    <2>2. \A p \in Silent : Cardinality(Before(p)) \in D
      BY <1>1, <1>3, <2>1
    <2> QED
      BY <2>2
  <1>5. ASSUME NEW p \in Parties, NEW q \in Parties, p < q
        PROVE  Cardinality(Before(p)) < Cardinality(Before(q))
    <2>0. p \in Nat /\ q \in Nat /\ \A x \in Parties : x \in Nat
      BY DriverAssumption
    <2>1. Before(p) \cup {p} \in SUBSET Before(q) /\ p \notin Before(p)
      <3>1. \A x \in Parties : x < p => x < q
        BY <1>5, <2>0
      <3>2. ~(p < p)
        BY <2>0
      <3> QED
        BY <1>5, <3>1, <3>2 DEF Before
    <2>2. Cardinality(Before(p) \cup {p}) = Cardinality(Before(p)) + 1
      BY <1>3, <2>1, FS_AddElement
    <2>3. Cardinality(Before(p) \cup {p}) <= Cardinality(Before(q))
      BY <1>3, <2>1, FS_Subset
    <2> QED
      BY <1>3, <2>2, <2>3
  <1>6. \A p, q \in Silent : f[p] = f[q] => p = q
    <2> SUFFICES ASSUME NEW p \in Silent, NEW q \in Silent, f[p] = f[q], p # q
                 PROVE  FALSE
      OBVIOUS
    <2>1. p \in Parties /\ q \in Parties
      BY <1>1
    <2>2. p < q \/ q < p
      BY <2>1, DriverAssumption
    <2>3. Cardinality(Before(p)) = Cardinality(Before(q))
      OBVIOUS
    <2> QED
      BY <1>3, <1>5, <2>1, <2>2, <2>3
  <1>7. IsFiniteSet(D) /\ Cardinality(D) = k
    BY FS_Interval
  <1> HIDE DEF f, D
  <1>8. ~(Cardinality(D) < Cardinality(Silent))
    BY <1>2, <1>4, <1>6, <1>7, FS_PigeonHole
  <1> QED
    BY <1>2, <1>7, <1>8

\* At least T signers answer.
LEMMA LoudQuorum ==
    ASSUME maliciousCount \in 0 .. N - T
    PROVE  Loud \in SUBSET Parties /\ Cardinality(Loud) \in Nat /\ Cardinality(Loud) >= T
  <1>1. maliciousCount \in Nat /\ maliciousCount <= N - T
    BY TIsNat
  <1>2. Silent \in SUBSET Parties /\ Loud \in SUBSET Parties
    BY DEF Silent, Loud
  <1> QED
    BY <1>1, <1>2, SilentCount, Complement, TIsNat DEF Loud

\* When every signer without a session comes after all the others, and fewer
\* than T are without one, none of them is silent.
LEMMA LastAreLoud ==
    ASSUME maliciousCount \in 0 .. N - T, NEW R \in SUBSET Parties, Cardinality(R) < T,
           \A p \in R, q \in Parties \ R : q < p
    PROVE  R \cap Silent = {}
  <1> SUFFICES ASSUME NEW p \in R, p \in Silent
               PROVE  FALSE
    OBVIOUS
  <1>1. Parties \ R \in SUBSET Before(p) /\ Before(p) \in SUBSET Parties
    BY DEF Before
  <1>2. Cardinality(Before(p)) < maliciousCount
    BY DEF Silent, Before
  <1>3. IsFiniteSet(Before(p)) /\ Cardinality(Before(p)) \in Nat
    BY <1>1, PartiesFinite
  <1>4. Cardinality(Parties \ R) <= Cardinality(Before(p))
    BY <1>1, <1>3, FS_Subset
  <1>5. maliciousCount \in Nat /\ maliciousCount <= N - T
    BY TIsNat
  <1> QED
    BY <1>2, <1>3, <1>4, <1>5, Complement, TIsNat

-----------------------------------------------------------------------------
(* What an honest answer does *)

\* The share of p is in, and no session loses anything.
KeepsSessions(p) ==
    \A sid \in 1 .. sidCounter :
        /\ sessions'[sid].signerSet = sessions[sid].signerSet
        /\ sessions'[sid].preShares = sessions[sid].preShares
        /\ Holders(sessions[sid].sigShares) \subseteq Holders(sessions'[sid].sigShares)
        /\ sid = signerSID[p] => p \in Holders(sessions'[sid].sigShares)

\* The call returned no signature and no error.
GoesOn(p, preShare) ==
    /\ ~done' /\ malicious' = {}
    /\ reply'.err = "nil" /\ reply'.sig = NilSignature
    /\ preShares' = [preShares EXCEPT ![p] = preShare]
    /\ KeepsSessions(p)

Enlisted(p, preShare) ==
    /\ GoesOn(p, preShare)
    /\ reply'.sid = 0
    /\ sidCounter' = sidCounter
    /\ responsive' = responsive \cup {p}
    /\ signerSID' = [signerSID EXCEPT ![p] = 0]

Launched(p, preShare) ==
    /\ GoesOn(p, preShare)
    /\ reply'.sid = sidCounter + 1
    /\ sidCounter' = sidCounter + 1
    /\ responsive' = {}
    /\ signerSID' = [q \in Parties |-> IF q \in responsive \cup {p} THEN sidCounter + 1
                                       ELSE signerSID[q]]
    /\ sessions'[sidCounter + 1].signerSet = responsive \cup {p}
    /\ \A q \in responsive \cup {p} : sessions'[sidCounter + 1].preShares[q] = preShares'[q]

Finished == done' /\ reply'.err = "nil" /\ reply'.sig # NilSignature

\* Storing a share takes nothing from any session (ValidateAndStore).
LEMMA StoredKeeps ==
    ASSUME TypeOK, NEW p \in Parties, NEW sigShare \in SigShare \cup {NilShare},
           Pending(p) => sigShare # NilShare, NEW sid \in 1 .. sidCounter
    PROVE  /\ Stored(p, sigShare)[sid].signerSet = sessions[sid].signerSet
           /\ Stored(p, sigShare)[sid].preShares = sessions[sid].preShares
           /\ Holders(sessions[sid].sigShares) \subseteq Holders(Stored(p, sigShare)[sid].sigShares)
           /\ sid = signerSID[p] => p \in Holders(Stored(p, sigShare)[sid].sigShares)
  <1> DEFINE t == Stored(p, sigShare)[sid]
  <1>1. t.signerSet = sessions[sid].signerSet /\ t.preShares = sessions[sid].preShares
    BY StoredFacts
  <1>2. CASE sid = signerSID[p]
    <2>1. Holders(t.sigShares) = Holders(sessions[sid].sigShares) \cup {p}
      BY <1>2, StoredFacts
    <2> QED
      BY <1>1, <2>1
  <1>3. CASE sid # signerSID[p]
    <2>1. Holders(t.sigShares) = Holders(sessions[sid].sigShares)
      BY <1>3, StoredFacts
    <2> QED
      BY <1>1, <1>3, <2>1
  <1> QED
    BY <1>2, <1>3

\* An answer that was asked for, with a valid share if one was due, is never
\* refused: it ends the signing, or is filed, or opens a session with everybody
\* who waits for one.
LEMMA Accepted ==
    ASSUME IInv, IInv', ~done, malicious = {}, T <= N,
           NEW p \in Parties, p \notin responsive,
           NEW sigShare \in SigShare \cup {NilShare}, NEW preShare \in PreShares,
           Pending(p) => GoodShare(p, sigShare),
           HandleResponse(p, sigShare, preShare)
    PROVE  \/ Finished /\ Pending(p)
           \/ Enlisted(p, preShare)
           \/ Launched(p, preShare)
  <1>0. ~TooManyMalicious
    BY FS_EmptySet, TIsNat DEF TooManyMalicious
  <1>1. Pending(p) => sigShare # NilShare
    BY DEF GoodShare
  <1>2. TypeOK /\ sidCounter \in Nat /\ DOMAIN sessions = 1 .. sidCounter
    BY DEF IInv, TypeOK
  <1>2a. ASSUME NEW sid \in 1 .. sidCounter
         PROVE  /\ Stored(p, sigShare)[sid].signerSet = sessions[sid].signerSet
                /\ Stored(p, sigShare)[sid].preShares = sessions[sid].preShares
                /\ Holders(sessions[sid].sigShares) \subseteq Holders(Stored(p, sigShare)[sid].sigShares)
                /\ sid = signerSID[p] => p \in Holders(Stored(p, sigShare)[sid].sigShares)
    BY <1>1, <1>2, StoredKeeps
  <1>3. CASE Finish(p, sigShare)
    <2>1. done' /\ reply'.err = "nil" /\ reply'.sig = signature' /\ Pending(p)
      BY <1>3 DEF Finish, Returns
    <2>2. signature' # NilSignature
      BY <2>1 DEF IInv, NoSessionWasted
    <2> QED
      BY <2>1, <2>2 DEF Finished
  <1>4. CASE Enlist(p, sigShare, preShare)
    <2>1. /\ sidCounter' = sidCounter /\ malicious' = {} /\ ~done'
          /\ responsive' = responsive \cup {p}
          /\ signerSID' = [signerSID EXCEPT ![p] = 0]
          /\ preShares' = [preShares EXCEPT ![p] = preShare]
          /\ sessions' = Stored(p, sigShare)
      BY <1>4 DEF Enlist
    <2>2. reply'.err = "nil" /\ reply'.sig = NilSignature /\ reply'.sid = 0
      BY <1>0, <1>4 DEF Enlist, Returns
    <2>3. KeepsSessions(p)
      <3>1. \A sid \in 1 .. sidCounter : sessions'[sid] = Stored(p, sigShare)[sid]
        BY <2>1
      <3> QED
        BY <1>2a, <3>1, Zenon DEF KeepsSessions
    <2> QED
      BY <2>1, <2>2, <2>3 DEF Enlisted, GoesOn
  <1>5. CASE Launch(p, sigShare, preShare)
    <2> DEFINE R == responsive \cup {p}
    <2>1. /\ malicious' = {} /\ ~done'
          /\ preShares' = [preShares EXCEPT ![p] = preShare]
      BY <1>5 DEF Launch
    <2>2. reply'.err = "nil" /\ reply'.sig = NilSignature /\ reply'.sid = sidCounter + 1
      BY <1>0, <1>5 DEF Launch, Returns
    <2>3. PICK signerSet \in SUBSET R :
             /\ Cardinality(signerSet) = T
             /\ initiateSession(signerSet, R, preShares',
                                [signerSID EXCEPT ![p] = 0], Stored(p, sigShare))
      BY <1>5 DEF Launch
    <2>4. signerSet = R
      BY <2>3, EveryoneIsChosen
    <2>5. /\ sidCounter' = sidCounter + 1
          /\ responsive' = {}
      BY <2>3, <2>4 DEF initiateSession
    <2>6. signerSID' = [q \in Parties |-> IF q \in R THEN sidCounter + 1 ELSE signerSID[q]]
      BY <1>2, <2>3, <2>4 DEF initiateSession, TypeOK
    <2>7. /\ \A sid \in 1 .. sidCounter : sessions'[sid] = Stored(p, sigShare)[sid]
          /\ sessions'[sidCounter + 1] = NewSession(R, SessionPreShares(R, preShares'))
      BY <1>2, <2>3, <2>4 DEF initiateSession
    <2>8. KeepsSessions(p)
      <3>1. \A sid \in 1 .. sidCounter : sessions'[sid] = Stored(p, sigShare)[sid]
        BY <2>7
      <3> QED
        BY <1>2a, <3>1, Zenon DEF KeepsSessions
    <2>9. R \in SUBSET Parties
      BY <1>2 DEF TypeOK
    <2>10. /\ sessions'[sidCounter + 1].signerSet = R
           /\ \A q \in R : sessions'[sidCounter + 1].preShares[q] = preShares'[q]
      BY <2>7, <2>9 DEF NewSession, SessionPreShares
    <2> QED
      BY <2>1, <2>2, <2>5, <2>6, <2>8, <2>10 DEF Launched, GoesOn
  <1> QED
    BY <1>3, <1>4, <1>5 DEF HandleResponse, AlreadyComplete, SignerMalicious,
       Unsolicited, InvalidShare

\* An accepted answer that does not end the signing leaves the program running.
LEMMA StillRunning ==
    ASSUME Outcome, NEW p, NEW preShare, GoesOn(p, preShare)
    PROVE  outcome' = "running"
  BY DEF Outcome, GoesOn

-----------------------------------------------------------------------------
(* Feeding *)

\* The call of Feed is one the coordinator asked for.
LEMMA FeedCall ==
    ASSUME IInv, Running, NEW p \in unfed,
           HandleResponse(p, NilShare, nonceState[p])
    PROVE  /\ p \in Parties /\ nonceState[p] = 1 /\ round = 0 /\ newPending = NoRequests
           /\ Next /\ IInv'
           /\ Enlisted(p, 1) \/ Launched(p, 1)
  <1>1. /\ p \in Parties /\ p \notin responsive /\ signerSID[p] = 0
        /\ round = 0 /\ newPending = NoRequests
    BY DEF Running, DTypes, Feeding
  <1>2. nonceState[p] = 1
    BY <1>1 DEF Running, Nonces
  <1>3. 1 \in PreShares
    <2>1. 1 \in 1 .. N + 1
      BY TIsNat
    <2> QED
      BY <2>1, DriverAssumption
  <1>4. HandleResponse(p, NilShare, 1)
    BY <1>2
  <1>5. Next
    BY <1>1, <1>3, <1>4 DEF Next
  <1>6. IInv'
    BY <1>5, IInvStep
  <1>7. ~Pending(p)
    BY <1>1 DEF Pending
  <1>8. T <= N
    BY TIsNat DEF Running, DTypes
  <1>9. Enlisted(p, 1) \/ Launched(p, 1)
    BY <1>1, <1>3, <1>4, <1>6, <1>7, <1>8, Accepted DEF Running
  <1> QED
    BY <1>1, <1>2, <1>5, <1>6, <1>9

\* Collected when no session was opened, and when one was.
LEMMA CollectedFacts ==
    ASSUME NEW pending \in [Parties -> Nat], reply'.sid \in Nat
    PROVE  /\ reply'.sid = 0 => Collected(pending) = pending
           /\ Collected(pending) \in [Parties -> Nat]
           /\ reply'.sid # 0 => \A q \in Parties :
                 Collected(pending)[q] = IF q \in sessions'[reply'.sid].signerSet
                                         THEN reply'.sid ELSE pending[q]
  BY DEF Collected

\* Feeding a signer whose answer is filed.
LEMMA FeedEnlisted ==
    ASSUME IInv, IInv', Running, NEW p \in unfed, \A q \in unfed : p <= q,
           round = 0, newPending = NoRequests, nonceState[p] = 1, Enlisted(p, 1),
           unfed' = unfed \ {p}, unvisited' = Collected(unvisited),
           UNCHANGED <<maliciousCount, nonceState, newPending, round>>
    PROVE  Running'
  <1> USE DEF Running
  <1>1. /\ ~done' /\ malicious' = {} /\ reply'.sid = 0 /\ sidCounter' = sidCounter
        /\ responsive' = responsive \cup {p}
        /\ signerSID' = [signerSID EXCEPT ![p] = 0]
        /\ preShares' = [preShares EXCEPT ![p] = 1]
        /\ KeepsSessions(p)
    BY DEF Enlisted, GoesOn
  <1>2. /\ maliciousCount' = maliciousCount /\ nonceState' = nonceState
        /\ newPending' = newPending /\ round' = round /\ unvisited' = unvisited
    BY <1>1, CollectedFacts DEF DTypes
  <1>3. /\ p \in Parties /\ unfed \subseteq Parties /\ p \notin responsive
        /\ signerSID[p] = 0 /\ unvisited[p] = 0
        /\ responsive \in SUBSET Parties /\ preShares \in [Parties -> PreShares \cup {NoPreShare}]
        /\ signerSID \in [Parties -> 0 .. sidCounter] /\ sidCounter \in Nat
    BY DEF DTypes, Feeding, IInv, TypeOK, PreShareMap
  <1>4. Silent' = Silent
    BY <1>2 DEF Silent
  <1>5. DTypes'
    BY <1>2, <1>3 DEF DTypes
  <1>6. \A x \in unfed' : x # p /\ x \in unfed /\ p < x
    <2>1. \A x \in Parties : x \in Nat
      BY DriverAssumption
    <2> QED
      BY <1>3, <2>1
  <1>7. \A x \in responsive', q \in Parties \ (unfed' \cup responsive') : q < x
    <2> SUFFICES ASSUME NEW x \in responsive', NEW q \in Parties \ (unfed' \cup responsive')
                 PROVE  q < x
      OBVIOUS
    <2>1. q \in Parties \ unfed /\ q \notin responsive
      BY <1>1
    <2>2. CASE x = p
      BY <2>1, <2>2 DEF Feeding
    <2>3. CASE x # p
      BY <1>1, <2>1, <2>3 DEF Feeding
    <2> QED
      BY <2>2, <2>3
  <1>8. Feeding'
    <2>1. ASSUME NEW x \in unfed'
          PROVE  /\ x \notin responsive' /\ signerSID'[x] = 0 /\ unvisited'[x] = 0
                 /\ \A q \in Parties \ unfed' : q < x
      <3>1. x \in unfed /\ x # p /\ p < x /\ x \in Parties
        BY <1>3, <1>6
      <3>2. x \notin responsive' /\ signerSID'[x] = 0 /\ unvisited'[x] = 0
        BY <1>1, <1>2, <1>3, <3>1 DEF Feeding
      <3>3. \A q \in Parties \ unfed' : q = p \/ q \in Parties \ unfed
        OBVIOUS
      <3> QED
        BY <3>1, <3>2, <3>3 DEF Feeding
    <2> QED
      BY <1>2, <1>7, <2>1 DEF Feeding
  <1>9. Leftover'
    <2> SUFFICES ASSUME unfed' = {} PROVE responsive' \cap Silent = {}
      BY <1>4 DEF Leftover
    <2>1. responsive' \in SUBSET Parties /\ Cardinality(responsive') < T
      BY DEF IInv, TypeOK, NoIdleQuorum
    <2>2. \A x \in responsive', q \in Parties \ responsive' : q < x
      BY <1>7
    <2> QED
      BY <2>1, <2>2, LastAreLoud DEF DTypes
  <1>10. Nonces'
    <2> SUFFICES ASSUME NEW x \in Parties
                 PROVE  /\ x \in responsive' => preShares'[x] = nonceState[x]
                        /\ signerSID'[x] # 0 => sessions'[signerSID'[x]].preShares[x] = nonceState[x]
                        /\ nonceState[x] \in 1 .. round + 2
                        /\ unvisited[x] # 0 => nonceState[x] <= round + 1
                        /\ round = 0 /\ unfed' # {} => nonceState[x] = 1
      BY <1>2 DEF Nonces
    <2>1. x \in responsive' => preShares'[x] = nonceState[x]
      BY <1>1, <1>3 DEF Nonces
    <2>2. signerSID'[x] # 0 => sessions'[signerSID'[x]].preShares[x] = nonceState[x]
      BY <1>1, <1>3 DEF Nonces, KeepsSessions
    <2> QED
      BY <2>1, <2>2 DEF Nonces
  <1>11. Requested'
    <2> SUFFICES ASSUME NEW x \in Parties
                 PROVE  /\ unvisited[x] # 0 => unvisited[x] = signerSID'[x] /\ newPending[x] = 0
                        /\ newPending[x] # 0 => newPending[x] = signerSID'[x]
                        /\ x \in Loud /\ signerSID'[x] # 0 => unvisited[x] # 0 \/ newPending[x] # 0
                        /\ x \notin unfed' /\ signerSID'[x] = 0 => x \in responsive'
      BY <1>2, <1>4 DEF Requested, Loud
    <2>1. CASE x = p
      BY <1>1, <1>3, <2>1 DEF NoRequests
    <2>2. CASE x # p
      <3>1. signerSID'[x] = signerSID[x] /\ (x \in unfed' <=> x \in unfed)
        BY <1>1, <1>3, <2>2
      <3> QED
        BY <1>1, <3>1 DEF Requested
    <2> QED
      BY <2>1, <2>2
  <1>12. FromLoud' /\ LastSession'
    BY <1>2 DEF FromLoud, LastSession, NoRequests
  <1> QED
    BY <1>1, <1>5, <1>8, <1>9, <1>10, <1>11, <1>12

\* Feeding a signer whose answer opens a session.
LEMMA FeedLaunched ==
    ASSUME IInv, IInv', Running, NEW p \in unfed, \A q \in unfed : p <= q,
           round = 0, newPending = NoRequests, nonceState[p] = 1, Launched(p, 1),
           unfed' = unfed \ {p}, unvisited' = Collected(unvisited),
           UNCHANGED <<maliciousCount, nonceState, newPending, round>>
    PROVE  Running'
  <1> USE DEF Running
  <1> DEFINE R == responsive \cup {p}
  <1>0. PICK new \in Nat : new = sidCounter + 1
    BY DEF IInv, TypeOK
  <1>1. /\ ~done' /\ malicious' = {} /\ reply'.sid = new /\ sidCounter' = new
        /\ responsive' = {}
        /\ signerSID' = [q \in Parties |-> IF q \in R THEN new ELSE signerSID[q]]
        /\ sessions'[new].signerSet = R
        /\ \A q \in R : sessions'[new].preShares[q] = preShares'[q]
        /\ preShares' = [preShares EXCEPT ![p] = 1]
        /\ KeepsSessions(p)
    BY <1>0 DEF Launched, GoesOn
  <1>2. /\ maliciousCount' = maliciousCount /\ nonceState' = nonceState
        /\ newPending' = newPending /\ round' = round
    OBVIOUS
  <1>3. /\ p \in Parties /\ unfed \subseteq Parties /\ p \notin responsive
        /\ responsive \in SUBSET Parties /\ preShares \in [Parties -> PreShares \cup {NoPreShare}]
        /\ signerSID \in [Parties -> 0 .. sidCounter] /\ sidCounter \in Nat /\ new # 0
    BY <1>0 DEF DTypes, Feeding, IInv, TypeOK, PreShareMap
  <1>4. Silent' = Silent
    BY <1>2 DEF Silent
  <1>5. /\ unvisited' \in [Parties -> Nat]
        /\ \A q \in Parties : unvisited'[q] = IF q \in R THEN new ELSE unvisited[q]
    BY <1>1, <1>3, CollectedFacts DEF DTypes
  <1> HIDE DEF R
  <1>6. DTypes'
    BY <1>2, <1>3, <1>5 DEF DTypes
  <1>7. \A x \in unfed' : x # p /\ x \in unfed /\ p < x
    <2>1. \A x \in Parties : x \in Nat
      BY DriverAssumption
    <2> QED
      BY <1>3, <2>1
  <1>8. Feeding'
    <2>1. ASSUME NEW x \in unfed'
          PROVE  /\ x \notin responsive' /\ signerSID'[x] = 0 /\ unvisited'[x] = 0
                 /\ \A q \in Parties \ unfed' : q < x
      <3>1. x \in unfed /\ x # p /\ p < x /\ x \in Parties
        BY <1>3, <1>7
      <3>2. x \notin R
        BY <3>1 DEF R, Feeding
      <3>3. x \notin responsive' /\ signerSID'[x] = 0 /\ unvisited'[x] = 0
        BY <1>1, <1>5, <3>1, <3>2 DEF Feeding
      <3>4. \A q \in Parties \ unfed' : q = p \/ q \in Parties \ unfed
        OBVIOUS
      <3> QED
        BY <3>1, <3>3, <3>4 DEF Feeding
    <2> QED
      BY <1>1, <1>2, <2>1 DEF Feeding
  <1>9. Leftover'
    BY <1>1 DEF Leftover
  <1>10. \A x \in R : preShares'[x] = nonceState[x]
    BY <1>1, <1>3 DEF R, Nonces
  <1>11. Nonces'
    <2> SUFFICES ASSUME NEW x \in Parties
                 PROVE  /\ signerSID'[x] # 0 => sessions'[signerSID'[x]].preShares[x] = nonceState[x]
                        /\ nonceState[x] \in 1 .. round + 2
                        /\ unvisited'[x] # 0 => nonceState[x] <= round + 1
                        /\ round = 0 /\ unfed' # {} => nonceState[x] = 1
      BY <1>1, <1>2 DEF Nonces
    <2>1. signerSID'[x] # 0 => sessions'[signerSID'[x]].preShares[x] = nonceState[x]
      <3>1. CASE x \in R
        BY <1>1, <1>10, <3>1
      <3>2. CASE x \notin R
        BY <1>1, <1>3, <3>2 DEF Nonces, KeepsSessions
      <3> QED
        BY <3>1, <3>2
    <2>2. nonceState[x] = 1
      BY DEF Nonces
    <2> QED
      BY <2>1, <2>2
  <1>12. Requested'
    <2> SUFFICES ASSUME NEW x \in Parties
                 PROVE  /\ unvisited'[x] # 0 => unvisited'[x] = signerSID'[x] /\ newPending[x] = 0
                        /\ newPending[x] # 0 => newPending[x] = signerSID'[x]
                        /\ x \in Loud /\ signerSID'[x] # 0 => unvisited'[x] # 0 \/ newPending[x] # 0
                        /\ x \notin unfed' /\ signerSID'[x] = 0 => x \in responsive'
      BY <1>2, <1>4 DEF Requested, Loud
    <2>1. CASE x \in R
      BY <1>1, <1>3, <1>5, <2>1 DEF NoRequests
    <2>2. CASE x \notin R
      <3>1. signerSID'[x] = signerSID[x] /\ unvisited'[x] = unvisited[x]
        BY <1>1, <1>5, <2>2
      <3>2. x \notin responsive /\ (x \in unfed' <=> x \in unfed)
        BY <2>2 DEF R
      <3> QED
        BY <3>1, <3>2 DEF Requested
    <2> QED
      BY <2>1, <2>2
  <1>13. FromLoud' /\ LastSession'
    BY <1>2 DEF FromLoud, LastSession, NoRequests
  <1> QED
    BY <1>1, <1>6, <1>8, <1>9, <1>11, <1>12, <1>13

-----------------------------------------------------------------------------
(* The rounds *)

\* The share of a visited signer is the one its session waits for.
LEMMA VisitCall ==
    ASSUME IInv, Running, InRounds, NEW p \in Loud, unvisited[p] # 0,
           HandleResponse(p, [nonce |-> nonceState[p],
                              preShares |-> sessions[unvisited[p]].preShares],
                          nonceState[p] + 1)
    PROVE  /\ p \in Parties /\ p \notin responsive
           /\ signerSID[p] = unvisited[p] /\ unvisited[p] \in 1 .. sidCounter
           /\ Next /\ IInv'
           /\ Finished \/ Enlisted(p, nonceState[p] + 1) \/ Launched(p, nonceState[p] + 1)
  <1> DEFINE sid == unvisited[p]
             share == [nonce |-> nonceState[p], preShares |-> sessions[sid].preShares]
             pre == nonceState[p] + 1
  <1>1. p \in Parties /\ signerSID[p] = sid /\ Pending(p)
    BY DEF Loud, Running, Requested, Pending
  <1>2. sid \in 1 .. sidCounter /\ sessions[sid] \in Session
    BY <1>1 DEF IInv, TypeOK
  <1>3. p \notin responsive /\ p \in sessions[sid].signerSet
    BY <1>1 DEF IInv, WaitingOK, PendingOK, Owes, Running
  <1>4. nonceState[p] \in 1 .. N /\ pre \in 1 .. N + 1
    <2>1. N >= 1
      BY <1>1, RoastAssumption, FS_EmptySet, TIsNat DEF N
    <2>2. round = 0 \/ (round = 1 /\ N >= 2)
      BY DEF Running, DTypes, LastSession
    <2>3. nonceState[p] \in 1 .. round + 2 /\ nonceState[p] <= round + 1
      BY <1>1 DEF Running, Nonces
    <2> QED
      BY <2>1, <2>2, <2>3, TIsNat
  <1>5. nonceState[p] \in PreShares /\ pre \in PreShares
    BY <1>4, TIsNat, DriverAssumption
  <1>6. sessions[sid].preShares[p] = nonceState[p] /\ sessions[sid].preShares \in PreShareMap
    BY <1>1, <1>2 DEF Running, Nonces, Session
  <1>7. share \in SigShare /\ share # NilShare
    BY <1>5, <1>6, NilAssumption DEF SigShare
  <1>8. GoodShare(p, share)
    BY <1>1, <1>3, <1>6, <1>7 DEF GoodShare, Validate, ShareVal
  <1>9. Next
    BY <1>1, <1>5, <1>7 DEF Next
  <1>10. IInv'
    BY <1>9, IInvStep
  <1>11. T <= N
    BY TIsNat DEF Running, DTypes
  <1>12. HandleResponse(p, share, pre)
    OBVIOUS
  <1> HIDE DEF share, pre
  <1>13. Finished \/ Enlisted(p, pre) \/ Launched(p, pre)
    BY <1>1, <1>3, <1>5, <1>7, <1>8, <1>10, <1>11, <1>12, Accepted DEF Running
  <1> QED
    BY <1>1, <1>2, <1>3, <1>9, <1>10, <1>13 DEF pre

\* A visited signer whose answer is filed.
LEMMA VisitEnlisted ==
    ASSUME IInv, IInv', Running, InRounds, NEW p \in Loud, unvisited[p] # 0,
           Enlisted(p, nonceState[p] + 1),
           nonceState' = [nonceState EXCEPT ![p] = @ + 1],
           unvisited' = [unvisited EXCEPT ![p] = 0], newPending' = Collected(newPending),
           UNCHANGED <<maliciousCount, unfed, round>>
    PROVE  Running'
  <1> USE DEF Running
  <1>0. sidCounter \in Nat
    BY DEF IInv, TypeOK
  <1>1. /\ ~done' /\ malicious' = {} /\ reply'.sid = 0 /\ sidCounter' = sidCounter
        /\ responsive' = responsive \cup {p}
        /\ signerSID' = [signerSID EXCEPT ![p] = 0]
        /\ preShares' = [preShares EXCEPT ![p] = nonceState[p] + 1]
        /\ KeepsSessions(p)
    BY DEF Enlisted, GoesOn
  <1>2. /\ maliciousCount' = maliciousCount /\ round' = round /\ unfed' = {}
        /\ unfed = {}
    BY DEF InRounds
  <1>3. /\ p \in Parties /\ p \notin responsive /\ p \notin Silent
        /\ signerSID[p] \in 1 .. sidCounter /\ newPending[p] = 0
        /\ responsive \in SUBSET Parties /\ preShares \in [Parties -> PreShares \cup {NoPreShare}]
        /\ signerSID \in [Parties -> 0 .. sidCounter] /\ sidCounter \in Nat
        /\ unvisited \in [Parties -> Nat] /\ newPending \in [Parties -> Nat]
        /\ nonceState \in [Parties -> Nat]
    BY DEF Loud, DTypes, Requested, IInv, TypeOK, PreShareMap, WaitingOK
  <1>4. Silent' = Silent
    BY <1>2 DEF Silent
  <1>5. newPending' = newPending
    BY <1>1, <1>3, CollectedFacts
  <1>6. DTypes'
    BY <1>2, <1>3, <1>5 DEF DTypes
  <1>7. Feeding' /\ Leftover'
    BY <1>1, <1>2, <1>3, <1>4 DEF Feeding, Leftover
  <1>8. Nonces'
    <2> SUFFICES ASSUME NEW x \in Parties
                 PROVE  /\ x \in responsive' => preShares'[x] = nonceState'[x]
                        /\ signerSID'[x] # 0 => sessions'[signerSID'[x]].preShares[x] = nonceState'[x]
                        /\ nonceState'[x] \in 1 .. round + 2
                        /\ unvisited'[x] # 0 => nonceState'[x] <= round + 1
      BY <1>2 DEF Nonces
    <2>1. CASE x = p
      <3>1. /\ nonceState'[p] = nonceState[p] + 1 /\ preShares'[p] = nonceState[p] + 1
            /\ signerSID'[p] = 0 /\ unvisited'[p] = 0
        BY <1>1, <1>3
      <3>2. nonceState[p] \in 1 .. round + 2 /\ nonceState[p] <= round + 1 /\ round \in Nat
        BY <1>3 DEF Nonces, DTypes
      <3> QED
        BY <2>1, <3>1, <3>2
    <2>2. CASE x # p
      <3>1. /\ nonceState'[x] = nonceState[x] /\ preShares'[x] = preShares[x]
            /\ signerSID'[x] = signerSID[x] /\ unvisited'[x] = unvisited[x]
            /\ x \in responsive' <=> x \in responsive
        BY <1>1, <1>3, <2>2
      <3>2. signerSID[x] # 0 =>
               sessions'[signerSID[x]].preShares = sessions[signerSID[x]].preShares
        BY <1>1, <1>3 DEF KeepsSessions
      <3> QED
        BY <3>1, <3>2 DEF Nonces
    <2> QED
      BY <2>1, <2>2
  <1>9. Requested'
    <2> SUFFICES ASSUME NEW x \in Parties
                 PROVE  /\ unvisited'[x] # 0 => unvisited'[x] = signerSID'[x] /\ newPending[x] = 0
                        /\ newPending[x] # 0 => newPending[x] = signerSID'[x]
                        /\ x \in Loud /\ signerSID'[x] # 0 => unvisited'[x] # 0 \/ newPending[x] # 0
                        /\ signerSID'[x] = 0 => x \in responsive'
      BY <1>2, <1>4, <1>5 DEF Requested, Loud
    <2>1. CASE x = p
      BY <1>1, <1>3, <2>1
    <2>2. CASE x # p
      <3>1. signerSID'[x] = signerSID[x] /\ unvisited'[x] = unvisited[x]
        BY <1>1, <1>3, <2>2
      <3> QED
        BY <1>1, <1>2, <3>1 DEF Requested
    <2> QED
      BY <2>1, <2>2
  <1>10. FromLoud'
    <2> SUFFICES ASSUME NEW x \in Parties, newPending[x] # 0
                 PROVE  /\ newPending[x] >= 2
                        /\ \A q \in sessions'[newPending[x]].signerSet :
                              q \in Loud /\ newPending[q] = newPending[x]
      BY <1>4, <1>5 DEF FromLoud, Loud
    <2>1. newPending[x] \in 1 .. sidCounter
      BY <1>3 DEF Requested
    <2>2. sessions'[newPending[x]].signerSet = sessions[newPending[x]].signerSet
      BY <1>1, <2>1 DEF KeepsSessions
    <2> QED
      BY <2>2 DEF FromLoud
  <1>11. LastSession'
    <2> SUFFICES ASSUME round = 1
                 PROVE  /\ N >= 2
                        /\ \E sid \in 1 .. sidCounter' :
                              \A q \in sessions'[sid].signerSet :
                                  /\ q \in Loud
                                  /\ q \in Holders(sessions'[sid].sigShares) \/ unvisited'[q] = sid
      BY <1>2, <1>4 DEF LastSession, Loud
    <2>1. PICK sid \in 1 .. sidCounter :
             \A q \in sessions[sid].signerSet :
                 /\ q \in Loud
                 /\ q \in Holders(sessions[sid].sigShares) \/ unvisited[q] = sid
      BY DEF LastSession
    <2>2. /\ sessions'[sid].signerSet = sessions[sid].signerSet
          /\ Holders(sessions[sid].sigShares) \subseteq Holders(sessions'[sid].sigShares)
          /\ sid = signerSID[p] => p \in Holders(sessions'[sid].sigShares)
      BY <1>1 DEF KeepsSessions
    <2>3. ASSUME NEW q \in sessions'[sid].signerSet
          PROVE  /\ q \in Loud
                 /\ q \in Holders(sessions'[sid].sigShares) \/ unvisited'[q] = sid
      <3>1. q \in Loud /\ (q \in Holders(sessions[sid].sigShares) \/ unvisited[q] = sid)
        BY <2>1, <2>2
      <3>2. CASE q = p
        BY <1>3, <2>2, <3>1, <3>2 DEF Requested
      <3>3. CASE q # p
        BY <1>3, <2>2, <3>1, <3>3 DEF Loud
      <3> QED
        BY <3>1, <3>2, <3>3
    <2>4. N >= 2 /\ sid \in 1 .. sidCounter'
      BY <1>0, <1>1, <1>3 DEF LastSession
    <2> QED
      BY <2>3, <2>4
  <1> QED
    BY <1>1, <1>6, <1>7, <1>8, <1>9, <1>10, <1>11

\* A visited signer whose answer opens a session: only signers that answer are
\* left for it.
LEMMA VisitLaunched ==
    ASSUME IInv, IInv', Running, InRounds, NEW p \in Loud, unvisited[p] # 0,
           Launched(p, nonceState[p] + 1),
           nonceState' = [nonceState EXCEPT ![p] = @ + 1],
           unvisited' = [unvisited EXCEPT ![p] = 0], newPending' = Collected(newPending),
           UNCHANGED <<maliciousCount, unfed, round>>
    PROVE  Running'
  <1> USE DEF Running
  <1> DEFINE R == responsive \cup {p}
  <1>0. PICK new \in Nat : new = sidCounter + 1 /\ sidCounter \in Nat
    BY DEF IInv, TypeOK
  <1>1. /\ ~done' /\ malicious' = {} /\ reply'.sid = new /\ sidCounter' = new
        /\ responsive' = {}
        /\ signerSID' = [q \in Parties |-> IF q \in R THEN new ELSE signerSID[q]]
        /\ sessions'[new].signerSet = R
        /\ \A q \in R : sessions'[new].preShares[q] = preShares'[q]
        /\ preShares' = [preShares EXCEPT ![p] = nonceState[p] + 1]
        /\ KeepsSessions(p)
    BY <1>0 DEF Launched, GoesOn
  <1>2. /\ maliciousCount' = maliciousCount /\ round' = round /\ unfed' = {}
        /\ unfed = {}
    BY DEF InRounds
  <1>3. /\ p \in Parties /\ p \notin responsive /\ p \notin Silent
        /\ signerSID[p] \in 1 .. sidCounter /\ newPending[p] = 0
        /\ responsive \in SUBSET Parties /\ preShares \in [Parties -> PreShares \cup {NoPreShare}]
        /\ signerSID \in [Parties -> 0 .. sidCounter] /\ sidCounter \in Nat
        /\ unvisited \in [Parties -> Nat] /\ newPending \in [Parties -> Nat]
        /\ nonceState \in [Parties -> Nat]
    BY DEF Loud, DTypes, Requested, IInv, TypeOK, PreShareMap, WaitingOK
  <1>4. Silent' = Silent
    BY <1>2 DEF Silent
  <1>5. /\ newPending' \in [Parties -> Nat]
        /\ \A q \in Parties : newPending'[q] = IF q \in R THEN new ELSE newPending[q]
    BY <1>0, <1>1, <1>3, CollectedFacts
  <1>5a. /\ R \subseteq Loud /\ R \subseteq Parties /\ new >= 2
         /\ \A q \in R : newPending[q] = 0 /\ unvisited'[q] = 0
    <2>1. \A q \in responsive : signerSID[q] = 0 /\ q # p /\ q \in Parties /\ q \notin Silent
      BY <1>2, <1>3 DEF IInv, WaitingOK, Leftover
    <2>2. \A q \in responsive : newPending[q] = 0 /\ unvisited'[q] = 0
      BY <1>3, <2>1 DEF Requested
    <2>3. new >= 2
      BY <1>0, <1>3
    <2> QED
      BY <1>3, <2>1, <2>2, <2>3 DEF Loud
  <1> HIDE DEF R
  <1>6. DTypes'
    BY <1>2, <1>3, <1>5 DEF DTypes
  <1>7. Feeding' /\ Leftover'
    BY <1>1, <1>2 DEF Feeding, Leftover
  <1>8. \A x \in R : preShares'[x] = nonceState'[x]
    BY <1>1, <1>3 DEF R, Nonces
  <1>9. Nonces'
    <2> SUFFICES ASSUME NEW x \in Parties
                 PROVE  /\ signerSID'[x] # 0 => sessions'[signerSID'[x]].preShares[x] = nonceState'[x]
                        /\ nonceState'[x] \in 1 .. round + 2
                        /\ unvisited'[x] # 0 => nonceState'[x] <= round + 1
      BY <1>1, <1>2 DEF Nonces
    <2>1. signerSID'[x] # 0 => sessions'[signerSID'[x]].preShares[x] = nonceState'[x]
      <3>1. CASE x \in R
        BY <1>1, <1>8, <3>1
      <3>2. CASE x \notin R
        <4>1. x # p /\ nonceState'[x] = nonceState[x] /\ signerSID'[x] = signerSID[x]
          BY <1>1, <1>3, <3>2 DEF R
        <4>2. signerSID[x] # 0 =>
                 sessions'[signerSID[x]].preShares = sessions[signerSID[x]].preShares
          BY <1>1, <1>3 DEF KeepsSessions
        <4> QED
          BY <4>1, <4>2 DEF Nonces
      <3> QED
        BY <3>1, <3>2
    <2>2. CASE x = p
      <3>1. nonceState'[p] = nonceState[p] + 1 /\ unvisited'[p] = 0
        BY <1>3
      <3>2. nonceState[p] \in 1 .. round + 2 /\ nonceState[p] <= round + 1 /\ round \in Nat
        BY <1>3 DEF Nonces, DTypes
      <3> QED
        BY <2>1, <2>2, <3>1, <3>2
    <2>3. CASE x # p
      <3>1. nonceState'[x] = nonceState[x] /\ unvisited'[x] = unvisited[x]
        BY <1>3, <2>3
      <3> QED
        BY <2>1, <3>1 DEF Nonces
    <2> QED
      BY <2>2, <2>3
  <1>10. Requested'
    <2> SUFFICES ASSUME NEW x \in Parties
                 PROVE  /\ unvisited'[x] # 0 => unvisited'[x] = signerSID'[x] /\ newPending'[x] = 0
                        /\ newPending'[x] # 0 => newPending'[x] = signerSID'[x]
                        /\ x \in Loud /\ signerSID'[x] # 0 => unvisited'[x] # 0 \/ newPending'[x] # 0
                        /\ signerSID'[x] # 0
      BY <1>2, <1>4 DEF Requested, Loud
    <2>1. CASE x \in R
      BY <1>1, <1>5, <1>5a, <2>1
    <2>2. CASE x \notin R
      <3>1. /\ signerSID'[x] = signerSID[x] /\ unvisited'[x] = unvisited[x]
            /\ newPending'[x] = newPending[x] /\ x \notin responsive
        BY <1>1, <1>3, <1>5, <2>2 DEF R
      <3> QED
        BY <1>2, <3>1 DEF Requested
    <2> QED
      BY <2>1, <2>2
  <1>11. FromLoud'
    <2> SUFFICES ASSUME NEW x \in Parties, newPending'[x] # 0
                 PROVE  /\ newPending'[x] >= 2
                        /\ \A q \in sessions'[newPending'[x]].signerSet :
                              q \in Loud /\ newPending'[q] = newPending'[x]
      BY <1>4 DEF FromLoud, Loud
    <2>1. CASE x \in R
      BY <1>1, <1>5, <1>5a, <2>1
    <2>2. CASE x \notin R
      <3>1. newPending'[x] = newPending[x]
        BY <1>5, <2>2
      <3>2. newPending[x] \in 1 .. sidCounter
        BY <1>3, <3>1 DEF Requested
      <3>3. sessions'[newPending[x]].signerSet = sessions[newPending[x]].signerSet
        BY <1>1, <3>2 DEF KeepsSessions
      <3>4. \A q \in sessions[newPending[x]].signerSet :
               q \in Loud /\ newPending[q] = newPending[x]
        BY <3>1 DEF FromLoud
      <3>5. \A q \in sessions[newPending[x]].signerSet : newPending'[q] = newPending[q]
        BY <1>5, <1>5a, <3>1, <3>4 DEF Loud
      <3> QED
        BY <3>1, <3>3, <3>4, <3>5 DEF FromLoud
    <2> QED
      BY <2>1, <2>2
  <1>12. LastSession'
    <2> SUFFICES ASSUME round = 1
                 PROVE  /\ N >= 2
                        /\ \E sid \in 1 .. sidCounter' :
                              \A q \in sessions'[sid].signerSet :
                                  /\ q \in Loud
                                  /\ q \in Holders(sessions'[sid].sigShares) \/ unvisited'[q] = sid
      BY <1>2, <1>4 DEF LastSession, Loud
    <2>1. PICK sid \in 1 .. sidCounter :
             \A q \in sessions[sid].signerSet :
                 /\ q \in Loud
                 /\ q \in Holders(sessions[sid].sigShares) \/ unvisited[q] = sid
      BY DEF LastSession
    <2>2. /\ sessions'[sid].signerSet = sessions[sid].signerSet
          /\ Holders(sessions[sid].sigShares) \subseteq Holders(sessions'[sid].sigShares)
          /\ sid = signerSID[p] => p \in Holders(sessions'[sid].sigShares)
      BY <1>1 DEF KeepsSessions
    <2>3. ASSUME NEW q \in sessions'[sid].signerSet
          PROVE  /\ q \in Loud
                 /\ q \in Holders(sessions'[sid].sigShares) \/ unvisited'[q] = sid
      <3>1. q \in Loud /\ (q \in Holders(sessions[sid].sigShares) \/ unvisited[q] = sid)
        BY <2>1, <2>2
      <3>2. CASE q = p
        BY <1>3, <2>2, <3>1, <3>2 DEF Requested
      <3>3. CASE q # p
        BY <1>3, <2>2, <3>1, <3>3 DEF Loud
      <3> QED
        BY <3>1, <3>2, <3>3
    <2>4. N >= 2 /\ sid \in 1 .. sidCounter'
      BY <1>0, <1>1, <1>3 DEF LastSession
    <2> QED
      BY <2>3, <2>4
  <1> QED
    BY <1>1, <1>6, <1>7, <1>9, <1>10, <1>11, <1>12

\* The request of a silent signer is dropped: no session of signers that
\* answer waits for it.
LEMMA SkipRunning ==
    ASSUME IInv, Running, NEW p \in Parties, Skip(p)
    PROVE  Running'
  <1> USE DEF Running
  <1>1. /\ maliciousCount' = maliciousCount /\ unfed' = {} /\ unfed = {}
        /\ nonceState' = nonceState /\ newPending' = newPending /\ round' = round
        /\ unvisited' = [unvisited EXCEPT ![p] = 0] /\ p \in Silent
        /\ responsive' = responsive /\ malicious' = malicious /\ preShares' = preShares
        /\ signerSID' = signerSID /\ sessions' = sessions /\ sidCounter' = sidCounter
        /\ done' = done
    BY DEF Skip, InRounds, vars, cvars
  <1>2. Silent' = Silent /\ Loud' = Loud /\ p \notin Loud
    BY <1>1 DEF Silent, Loud
  <1>3. /\ unvisited \in [Parties -> Nat] /\ unvisited'[p] = 0
        /\ \A q \in Parties : q # p => unvisited'[q] = unvisited[q]
    BY <1>1 DEF DTypes
  <1>4. DTypes' /\ Feeding' /\ Leftover'
    BY <1>1, <1>2, <1>3 DEF DTypes, Feeding, Leftover
  <1>5. Nonces'
    BY <1>1, <1>3 DEF Nonces
  <1>6. Requested'
    BY <1>1, <1>2, <1>3 DEF Requested
  <1>7. FromLoud'
    BY <1>1, <1>2 DEF FromLoud
  <1>8. LastSession'
    <2> SUFFICES ASSUME round = 1
                 PROVE  /\ N >= 2
                        /\ \E sid \in 1 .. sidCounter :
                              \A q \in sessions[sid].signerSet :
                                  /\ q \in Loud
                                  /\ q \in Holders(sessions[sid].sigShares) \/ unvisited'[q] = sid
      BY <1>1, <1>2 DEF LastSession
    <2>1. \A q \in Loud : unvisited'[q] = unvisited[q]
      BY <1>2, <1>3 DEF Loud
    <2> QED
      BY <2>1 DEF LastSession
  <1> QED
    BY <1>1, <1>4, <1>5, <1>6, <1>7, <1>8

\* The first round ends with a session for the second one; the second round
\* does not end without a signature.
LEMMA EndRoundRunning ==
    ASSUME IInv, Running, outcome = "running", EndRound
    PROVE  Running' /\ outcome' = "running"
  <1> USE DEF Running
  <1>1. /\ maliciousCount' = maliciousCount /\ unfed' = {} /\ unfed = {}
        /\ unvisited = NoRequests /\ unvisited' = newPending /\ newPending' = NoRequests
        /\ nonceState' = nonceState /\ round' = round + 1
        /\ responsive' = responsive /\ malicious' = malicious /\ preShares' = preShares
        /\ signerSID' = signerSID /\ sessions' = sessions /\ sidCounter' = sidCounter
        /\ done' = done
    BY DEF EndRound, InRounds, vars, cvars
  <1>2. Silent' = Silent /\ Loud' = Loud
    BY <1>1 DEF Silent, Loud
  <1>3. /\ responsive \in SUBSET Parties /\ sidCounter \in Nat
        /\ signerSID \in [Parties -> 0 .. sidCounter]
        /\ \A q \in Parties : unvisited[q] = 0
    BY <1>1 DEF IInv, TypeOK, NoRequests
  <1>4. round = 0
    <2> SUFFICES ASSUME round = 1 PROVE FALSE
      BY DEF DTypes
    <2>1. PICK sid \in 1 .. sidCounter :
             \A q \in sessions[sid].signerSet :
                 q \in Loud /\ (q \in Holders(sessions[sid].sigShares) \/ unvisited[q] = sid)
      BY DEF LastSession
    <2>2. sessions[sid].signerSet \subseteq Holders(sessions[sid].sigShares)
      BY <1>3, <2>1 DEF Loud
    <2>3. Holders(sessions[sid].sigShares) = sessions[sid].signerSet
      BY <2>2 DEF IInv, WellFormed
    <2>4. IsComplete(sessions[sid])
      BY <2>3 DEF IInv, WellFormed, IsComplete
    <2> QED
      BY <2>4 DEF IInv, NoSessionWasted
  <1>5. PICK p \in Loud : p \notin responsive
    <2>1. Loud \in SUBSET Parties /\ Cardinality(Loud) \in Nat /\ Cardinality(Loud) >= T
      BY LoudQuorum DEF DTypes
    <2>2. Cardinality(responsive) < T /\ IsFiniteSet(responsive) /\ Cardinality(responsive) \in Nat
      BY <1>3, PartiesFinite DEF IInv, NoIdleQuorum
    <2>3. ~(Loud \in SUBSET responsive)
      <3> SUFFICES ASSUME Loud \in SUBSET responsive PROVE FALSE
        OBVIOUS
      <3>1. Cardinality(Loud) <= Cardinality(responsive)
        BY <2>2, FS_Subset
      <3> QED
        BY <2>1, <2>2, <3>1, TIsNat
    <2> QED
      BY <2>3
  <1>6. p \in Parties /\ newPending[p] # 0 /\ newPending[p] \in 1 .. sidCounter
    <2>1. p \in Parties /\ signerSID[p] # 0
      BY <1>1, <1>5 DEF Loud, Requested
    <2>2. newPending[p] # 0
      BY <1>3, <1>5, <2>1 DEF Requested
    <2> QED
      BY <1>3, <2>1, <2>2 DEF Requested
  <1>7. N >= 2
    <2>1. newPending[p] >= 2
      BY <1>6 DEF FromLoud
    <2>2. sidCounter <= N - T + 1
      BY DEF IInv, SessionBound
    <2> QED
      BY <1>3, <1>6, <2>1, <2>2, TIsNat
  <1>8. outcome' = "running" /\ round' = 1
    <2>1. round' = 1
      BY <1>1, <1>4
    <2> QED
      BY <1>7, <2>1, TIsNat DEF EndRound, maxRounds
  <1>9. DTypes' /\ Feeding' /\ Leftover'
    BY <1>1, <1>2, <1>8 DEF DTypes, Feeding, Leftover, NoRequests
  <1>10. Nonces'
    <2> SUFFICES ASSUME NEW x \in Parties
                 PROVE  /\ x \in responsive => preShares[x] = nonceState[x]
                        /\ signerSID[x] # 0 => sessions[signerSID[x]].preShares[x] = nonceState[x]
                        /\ nonceState[x] \in 1 .. 1 + 2
                        /\ nonceState[x] <= 1 + 1
      BY <1>1, <1>8 DEF Nonces
    <2>1. nonceState[x] \in 1 .. 0 + 2
      BY <1>4 DEF Nonces
    <2> QED
      BY <2>1 DEF Nonces
  <1>11. Requested'
    BY <1>1, <1>2, <1>3 DEF Requested, NoRequests
  <1>12. FromLoud'
    BY <1>1 DEF FromLoud, NoRequests
  <1>13. LastSession'
    <2>1. \A q \in sessions[newPending[p]].signerSet :
             q \in Loud /\ newPending[q] = newPending[p]
      BY <1>6 DEF FromLoud
    <2>2. \A q \in sessions'[newPending[p]].signerSet :
             /\ q \in Loud'
             /\ q \in Holders(sessions'[newPending[p]].sigShares) \/ unvisited'[q] = newPending[p]
      BY <1>1, <1>2, <2>1
    <2>3. newPending[p] \in 1 .. sidCounter'
      BY <1>1, <1>6
    <2> QED
      BY <1>7, <2>2, <2>3 DEF LastSession
  <1> QED
    BY <1>1, <1>8, <1>9, <1>10, <1>11, <1>12, <1>13

-----------------------------------------------------------------------------
(* The theorems *)

\* Before the first call everything is in order.
LEMMA DInitInv == DInit => DInv
  <1> SUFFICES ASSUME DInit PROVE DInv
    OBVIOUS
  <1>1. IInv
    BY InitIInv DEF DInit
  <1>2. /\ maliciousCount \in 0 .. N - T /\ unfed = Parties /\ round = 0
        /\ nonceState = [p \in Parties |-> 1]
        /\ unvisited = [p \in Parties |-> 0] /\ newPending = NoRequests
        /\ newPending = [p \in Parties |-> 0]
        /\ responsive = {} /\ malicious = {} /\ ~done /\ outcome = "running"
        /\ signerSID = [p \in Parties |-> 0]
    BY DEF DInit, Init, NoRequests
  <1>3. DTypes
    BY <1>2 DEF DTypes
  <1>4. Feeding /\ Leftover
    BY <1>2 DEF Feeding, Leftover
  <1>5. Nonces /\ Requested
    BY <1>2 DEF Nonces, Requested
  <1>6. FromLoud /\ LastSession
    BY <1>2 DEF FromLoud, LastSession
  <1> QED
    BY <1>1, <1>2, <1>3, <1>4, <1>5, <1>6 DEF DInv, Running

\* Every step of the program is a call of HandleResponse or leaves the
\* coordinator alone, and preserves the invariant.
LEMMA DStep == DInv /\ [DNext]_dvars => DInv' /\ [Next]_vars
  <1> SUFFICES ASSUME DInv, [DNext]_dvars
               PROVE  DInv' /\ [Next]_vars
    OBVIOUS
  <1>0. IInv
    BY DEF DInv
  <1>1. CASE UNCHANGED dvars
    <2>1. UNCHANGED vars /\ outcome' = outcome
      BY <1>1 DEF dvars
    <2>2. IInv'
      BY <1>0, <2>1, IInvStep
    <2>3. Running => Running'
      <3>1. /\ maliciousCount' = maliciousCount /\ unfed' = unfed /\ nonceState' = nonceState
            /\ unvisited' = unvisited /\ newPending' = newPending /\ round' = round
            /\ responsive' = responsive /\ malicious' = malicious /\ preShares' = preShares
            /\ signerSID' = signerSID /\ sessions' = sessions /\ sidCounter' = sidCounter
            /\ done' = done
        BY <1>1 DEF dvars, vars, cvars
      <3>2. Silent' = Silent /\ Loud' = Loud
        BY <3>1 DEF Silent, Loud
      <3>3. (DTypes => DTypes') /\ (Feeding => Feeding') /\ (Leftover => Leftover')
        BY <3>1, <3>2 DEF DTypes, Feeding, Leftover
      <3>4. (Nonces => Nonces') /\ (Requested => Requested')
        BY <3>1, <3>2 DEF Nonces, Requested
      <3>5. (FromLoud => FromLoud') /\ (LastSession => LastSession')
        BY <3>1, <3>2 DEF FromLoud, LastSession
      <3> QED
        BY <3>1, <3>3, <3>4, <3>5 DEF Running
    <2> QED
      BY <2>1, <2>2, <2>3 DEF DInv
  <1>2. CASE DNext
    <2>1. outcome = "running" /\ Running
      BY <1>2 DEF DNext, DInv
    <2>2. CASE Feed
      <3>1. PICK p \in unfed :
               /\ \A q \in unfed : p <= q
               /\ HandleResponse(p, NilShare, nonceState[p])
               /\ unfed' = unfed \ {p}
               /\ unvisited' = Collected(unvisited)
               /\ Outcome
               /\ UNCHANGED <<maliciousCount, nonceState, newPending, round>>
        BY <2>2 DEF Feed
      <3>2. /\ p \in Parties /\ nonceState[p] = 1 /\ round = 0 /\ newPending = NoRequests
            /\ Next /\ IInv'
            /\ Enlisted(p, 1) \/ Launched(p, 1)
        BY <1>0, <2>1, <3>1, FeedCall
      <3>3. outcome' = "running"
        BY <3>1, <3>2, StillRunning DEF Enlisted, Launched
      <3>4. Running'
        BY <1>0, <2>1, <3>1, <3>2, FeedEnlisted, FeedLaunched
      <3> QED
        BY <3>2, <3>3, <3>4 DEF DInv
    <2>3. ASSUME NEW p \in Parties, Skip(p)
          PROVE  DInv' /\ [Next]_vars
      <3>1. UNCHANGED vars /\ outcome' = outcome
        BY <2>3 DEF Skip
      <3>2. IInv'
        BY <1>0, <3>1, IInvStep
      <3> QED
        BY <1>0, <2>1, <2>3, <3>1, <3>2, SkipRunning DEF DInv
    <2>4. ASSUME NEW p \in Parties, Visit(p)
          PROVE  DInv' /\ [Next]_vars
      <3>1. /\ InRounds /\ p \in Loud /\ unvisited[p] # 0
            /\ HandleResponse(p, [nonce |-> nonceState[p],
                                  preShares |-> sessions[unvisited[p]].preShares],
                              nonceState[p] + 1)
            /\ nonceState' = [nonceState EXCEPT ![p] = @ + 1]
            /\ unvisited' = [unvisited EXCEPT ![p] = 0]
            /\ newPending' = Collected(newPending)
            /\ Outcome
            /\ UNCHANGED <<maliciousCount, unfed, round>>
        BY <2>4 DEF Visit, Loud
      <3>2. /\ Next /\ IInv'
            /\ Finished \/ Enlisted(p, nonceState[p] + 1) \/ Launched(p, nonceState[p] + 1)
        BY <1>0, <2>1, <3>1, VisitCall
      <3>3. CASE Finished
        <4>1. outcome' = "success"
          BY <3>1, <3>3 DEF Finished, Outcome
        <4> QED
          BY <3>2, <4>1 DEF DInv
      <3>4. CASE Enlisted(p, nonceState[p] + 1)
        <4>1. outcome' = "running"
          BY <3>1, <3>4, StillRunning DEF Enlisted
        <4>2. Running'
          BY <1>0, <2>1, <3>1, <3>2, <3>4, VisitEnlisted
        <4> QED
          BY <3>2, <4>1, <4>2 DEF DInv
      <3>5. CASE Launched(p, nonceState[p] + 1)
        <4>1. outcome' = "running"
          BY <3>1, <3>5, StillRunning DEF Launched
        <4>2. Running'
          BY <1>0, <2>1, <3>1, <3>2, <3>5, VisitLaunched
        <4> QED
          BY <3>2, <4>1, <4>2 DEF DInv
      <3> QED
        BY <3>2, <3>3, <3>4, <3>5
    <2>5. CASE EndRound
      <3>1. UNCHANGED vars
        BY <2>5 DEF EndRound
      <3>2. IInv'
        BY <1>0, <3>1, IInvStep
      <3> QED
        BY <1>0, <2>1, <2>5, <3>1, <3>2, EndRoundRunning DEF DInv
    <2> QED
      BY <1>2, <2>2, <2>3, <2>4, <2>5 DEF DNext
  <1> QED
    BY <1>1, <1>2

\* The invariant of the program and its coordinator.
THEOREM DriverInvariant == DSpec => []DInv
  BY DInitInv, DStep, PTL DEF DSpec

\* The program uses the coordinator as a coordinator may be used, so all that
\* is proved of HandleResponse for arbitrary callers holds of cmd/roast.
THEOREM DriverIsCoordinator == DSpec => Spec
  <1>1. DInit => Init
    BY DEF DInit
  <1> QED
    BY <1>1, DInitInv, DStep, PTL DEF DSpec, Spec

\* For every number of signers, threshold, admissible number of silent signers
\* and order of the pending requests, cmd/roast signs in two rounds: the limit
\* maxRounds is never felt.
THEOREM DriverTwoRounds == DSpec => []TwoRounds
  <1>1. DInv => TwoRounds
    BY DEF DInv, Running, DTypes, TwoRounds
  <1> QED
    BY <1>1, DriverInvariant, PTL

\* No call of HandleResponse fails and no round is the last one without a
\* signature: cmd/roast ends with a signature or not at all (that it ends is
\* the liveness property Succeeds).
THEOREM DriverNeverFails == DSpec => [](outcome \in {"running", "success"})
  <1>1. DInv => outcome \in {"running", "success"}
    BY DEF DInv
  <1> QED
    BY <1>1, DriverInvariant, PTL
==============================================================================

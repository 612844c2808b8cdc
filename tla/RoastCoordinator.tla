--------------------------- MODULE RoastCoordinator ---------------------------
(***************************************************************************)
(* The ROAST coordinator (pkg/roast/coordinator.go, session.go and the     *)
(* share checks of crypto.go): one mutex-protected handler,                *)
(* HandleResponse, that collects the answers of the signers, opens a FROST *)
(* session as soon as T signers are responsive, bans the signers that      *)
(* misbehave and stops with the first session whose shares are complete.   *)
(***************************************************************************)
EXTENDS RoastSession

VARIABLES
    responsive,  \* signers whose answer is in and that wait for a session
    malicious,   \* signers that are banned
    preShares,   \* the pre-signature share each signer sent last
    signerSID,   \* the session a signer owes a share to, 0 for none
    sessions,    \* sessions[sid], for sid in 1 .. sidCounter
    sidCounter,  \* the number of sessions opened so far
    signature,   \* the signature, once there is one
    done,
    reply        \* what the last call of HandleResponse returned

cvars == <<responsive, malicious, preShares, signerSID, sessions, sidCounter,
           signature, done>>

vars == <<cvars, reply>>

Errors == {"nil", "AlreadyComplete", "SignerMalicious", "Unsolicited",
           "InvalidShare", "TooManyMalicious"}

\* The results of a call: the signature, the session whose sign requests it
\* returned (0 for none), and the error.
Reply == [sig : Signature \cup {NilSignature}, sid : Nat, err : Errors]

-----------------------------------------------------------------------------
(* The coordinator *)

Init ==
    /\ responsive = {}
    /\ malicious = {}
    /\ preShares = [p \in Parties |-> NoPreShare]
    /\ signerSID = [p \in Parties |-> 0]
    /\ sessions = [sid \in {} |-> NewSession({}, preShares)]
    /\ sidCounter = 0
    /\ signature = NilSignature
    /\ done = FALSE
    /\ reply = [sig |-> NilSignature, sid |-> 0, err |-> "nil"]

Returns(sig, sid, err) == reply' = [sig |-> sig, sid |-> sid, err |-> err]

Pending(from) == signerSID[from] # 0

\* The session of a pending signer once its share has been stored.
Answered(from, sigShare) == Store(sessions[signerSID[from]], from, sigShare)

Completes(from, sigShare) ==
    /\ Pending(from)
    /\ IsComplete(Answered(from, sigShare))
    /\ Verify(SignAgg(Answered(from, sigShare)))

\* Mutant: the banned signer stays responsive.
markMaliciousKeepsResponsive(id) ==
    /\ malicious' = malicious \cup {id}
    /\ preShares' = [preShares EXCEPT ![id] = NoPreShare]
    /\ signerSID' = [signerSID EXCEPT ![id] = 0]
    /\ UNCHANGED <<responsive, sessions, sidCounter, signature, done>>

markMalicious(id) ==
    /\ malicious' = malicious \cup {id}
    /\ responsive' = responsive \ {id}
    /\ preShares' = [preShares EXCEPT ![id] = NoPreShare]
    /\ signerSID' = [signerSID EXCEPT ![id] = 0]
    /\ UNCHANGED <<sessions, sidCounter, signature, done>>

AlreadyComplete ==
    /\ done
    /\ Returns(signature, 0, "AlreadyComplete")
    /\ UNCHANGED cvars

SignerMalicious(from) ==
    /\ ~done
    /\ from \in malicious
    /\ Returns(NilSignature, 0, "SignerMalicious")
    /\ UNCHANGED cvars

\* Mutant: banned signers are listened to again.
SolicitedThoughBanned(from) == ~done /\ from \notin responsive

\* Mutant: an answer nobody asked for replaces the previous one.
SolicitedAtAnyTime(from) == ~done /\ from \notin malicious

\* The guards every later branch of the handler has passed.
Solicited(from) == ~done /\ from \notin malicious /\ from \notin responsive

Unsolicited(from) ==
    /\ ~done
    /\ from \notin malicious
    /\ from \in responsive
    /\ markMalicious(from)
    /\ Returns(NilSignature, 0, "Unsolicited")

GoodShare(from, sigShare) ==
    /\ sigShare # NilShare
    /\ Validate(sessions[signerSID[from]], from, sigShare)

InvalidShare(from, sigShare) ==
    /\ Solicited(from)
    /\ Pending(from)
    /\ ~GoodShare(from, sigShare)
    /\ markMalicious(from)
    /\ Returns(NilSignature, 0, "InvalidShare")

\* The last share of a session: aggregate, verify, stop.
Finish(from, sigShare) ==
    /\ Solicited(from)
    /\ Pending(from)
    /\ GoodShare(from, sigShare)
    /\ Completes(from, sigShare)
    /\ sessions' = [sessions EXCEPT ![signerSID[from]] = Answered(from, sigShare)]
    /\ signature' = SignAgg(Answered(from, sigShare))
    /\ done' = TRUE
    /\ Returns(SignAgg(Answered(from, sigShare)), 0, "nil")
    /\ UNCHANGED <<responsive, malicious, preShares, signerSID, sidCounter>>

\* A signer's first answer, or a valid share that does not end the signing.
Acceptable(from, sigShare) ==
    /\ Solicited(from)
    /\ Pending(from) => GoodShare(from, sigShare)
    /\ ~Completes(from, sigShare)

\* Mutant: the share is checked and forgotten.
StoredNowhere(from, sigShare) == sessions

\* The table of sessions after the share of from, if one was due, is stored.
Stored(from, sigShare) ==
    [sid \in DOMAIN sessions |->
        IF sid = signerSID[from] THEN Answered(from, sigShare) ELSE sessions[sid]]

\* Mutant: the signers of the new session are not deleted from responsive.
initiateSessionKeepsResponsive(signerSet, resp, pre, sids, table) ==
    /\ sidCounter' = sidCounter + 1
    /\ sessions' = [sid \in 1 .. sidCounter + 1 |->
                       IF sid = sidCounter + 1
                       THEN NewSession(signerSet, SessionPreShares(signerSet, pre))
                       ELSE table[sid]]
    /\ signerSID' = [p \in Parties |->
                        IF p \in signerSet THEN sidCounter + 1 ELSE sids[p]]
    /\ responsive' = resp

\* Mutant: the counter is not stepped, so the session is filed out of range.
initiateSessionSameSID(signerSet, resp, pre, sids, table) ==
    /\ sidCounter' = sidCounter
    /\ sessions' = [sid \in 1 .. sidCounter + 1 |->
                       IF sid = sidCounter + 1
                       THEN NewSession(signerSet, SessionPreShares(signerSet, pre))
                       ELSE table[sid]]
    /\ signerSID' = [p \in Parties |->
                        IF p \in signerSet THEN sidCounter + 1 ELSE sids[p]]
    /\ responsive' = resp \ signerSet

\* initiateSession: signerSet is the T signers that the iteration over the
\* map c.responsive meets first, in Go an arbitrary choice.
initiateSession(signerSet, resp, pre, sids, table) ==
    /\ sidCounter' = sidCounter + 1
    /\ sessions' = [sid \in 1 .. sidCounter + 1 |->
                       IF sid = sidCounter + 1
                       THEN NewSession(signerSet, SessionPreShares(signerSet, pre))
                       ELSE table[sid]]
    /\ signerSID' = [p \in Parties |->
                        IF p \in signerSet THEN sidCounter + 1 ELSE sids[p]]
    /\ responsive' = resp \ signerSet

\* Mutant: off by one.
TooManyMaliciousTooEarly == Cardinality(malicious) >= N - T

TooManyMalicious == Cardinality(malicious) > N - T

\* Mutant: off by one.
QuorumPlusOne(from) == Cardinality(responsive \cup {from}) > T

\* Once from is responsive, enough signers are.
Quorum(from) == Cardinality(responsive \cup {from}) >= T

\* An accepted answer that leaves fewer than T signers responsive.
Enlist(from, sigShare, preShare) ==
    /\ Acceptable(from, sigShare)
    /\ ~Quorum(from)
    /\ sessions' = Stored(from, sigShare)
    /\ preShares' = [preShares EXCEPT ![from] = preShare]
    /\ responsive' = responsive \cup {from}
    /\ signerSID' = [signerSID EXCEPT ![from] = 0]
    /\ IF TooManyMalicious THEN Returns(NilSignature, 0, "TooManyMalicious")
                           ELSE Returns(NilSignature, 0, "nil")
    /\ UNCHANGED <<malicious, sidCounter, signature, done>>

\* An accepted answer that opens a session.  The error of TooManyMalicious
\* replaces the requests of the session just opened.
Launch(from, sigShare, preShare) ==
    /\ Acceptable(from, sigShare)
    /\ Quorum(from)
    /\ preShares' = [preShares EXCEPT ![from] = preShare]
    /\ \E signerSet \in SUBSET (responsive \cup {from}) :
          /\ Cardinality(signerSet) = T
          /\ initiateSession(signerSet, responsive \cup {from},
                             [preShares EXCEPT ![from] = preShare],
                             [signerSID EXCEPT ![from] = 0],
                             Stored(from, sigShare))
    /\ IF TooManyMalicious THEN Returns(NilSignature, 0, "TooManyMalicious")
                           ELSE Returns(NilSignature, sidCounter + 1, "nil")
    /\ UNCHANGED <<malicious, signature, done>>

HandleResponse(from, sigShare, preShare) ==
    \/ AlreadyComplete
    \/ SignerMalicious(from)
    \/ Unsolicited(from)
    \/ InvalidShare(from, sigShare)
    \/ Finish(from, sigShare)
    \/ Enlist(from, sigShare, preShare)
    \/ Launch(from, sigShare, preShare)

\* The coordinator takes whatever arrives: any signer may call at any time
\* with any share and any pre-signature share.
Next ==
    \E from \in Parties, sigShare \in SigShare \cup {NilShare},
       preShare \in PreShares :
          HandleResponse(from, sigShare, preShare)

Spec == Init /\ [][Next]_vars
-----------------------------------------------------------------------------
(* Properties *)

\* The variables have the types of the fields of Coordinator, and the table
\* of sessions holds exactly the sessions 1 .. sidCounter.
TypeOK ==
    /\ responsive \in SUBSET Parties
    /\ malicious \in SUBSET Parties
    /\ preShares \in PreShareMap
    /\ sidCounter \in Nat
    /\ signerSID \in [Parties -> 0 .. sidCounter]
    /\ sessions \in [1 .. sidCounter -> Session]
    /\ signature \in Signature \cup {NilSignature}
    /\ done \in BOOLEAN
    /\ reply \in Reply

\* Signer p was put into session sid and its share has not been stored.
Owes(p, sid) == p \in sessions[sid].signerSet \ Holders(sessions[sid].sigShares)

\* README "Key invariant: Each signer is pending in at most one session at a
\* time": no signer ever owes a share to two sessions, not even a banned one,
\* and one that owes a share is never handed to a further session as
\* responsive (HandleResponse, initiateSession).
PendingOnce ==
    \A p \in Parties, s1 \in 1 .. sidCounter : Owes(p, s1) =>
        /\ p \notin responsive
        /\ \A s2 \in 1 .. sidCounter : Owes(p, s2) => s1 = s2

\* A session that has not delivered can be blamed on somebody: each signer
\* whose share is missing is still expected to answer (signerSID points at
\* that very session) or has been banned by markMalicious.  No share is lost
\* between the maps signerSID, sessions and malicious.
Accountable ==
    \A p \in Parties, sid \in 1 .. sidCounter :
        Owes(p, sid) => signerSID[p] = sid \/ p \in malicious

\* The bound on the work of one signing, whatever the signers do: at most
\* n - t + 1 sessions are opened (README, "terminates after at most n - t + 1
\* sessions"; here T = t + 1, so this is one session fewer than the README
\* grants).
SessionBound == sidCounter <= N - T + 1

\* The first session that collects T shares ends the signing: aggregation and
\* Verify never fail on shares ShareVal let through, so HandleResponse never
\* falls through to line 102 with a complete session.
NoSessionWasted ==
    /\ ~done => \A sid \in 1 .. sidCounter : ~IsComplete(sessions[sid])
    /\ done => signature # NilSignature /\ Verify(signature)
                  /\ Cardinality(Holders(signature.S)) = T

\* Between two calls fewer than T signers are responsive: a quorum never sits
\* idle, and initiateSession always takes every responsive signer, so the
\* order in which Go iterates over the map c.responsive cannot matter.
NoIdleQuorum == Cardinality(responsive) < T

\* A session that is opened is announced: ErrTooManyMalicious (line 112) never
\* discards the requests initiateSession has just built, which would leave
\* its signers pending for ever without having been asked.
OpenedIsAnnounced ==
    [][sidCounter' # sidCounter => reply'.sid = sidCounter']_vars

\* Once banned a signer stays banned, and no session opened later contains it.
BannedForGood ==
    [][/\ malicious \subseteq malicious'
       /\ \A sid \in 1 .. sidCounter' :
             sid > sidCounter => sessions'[sid].signerSet \cap malicious' = {}]_vars
=============================================================================

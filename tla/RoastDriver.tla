----------------------------- MODULE RoastDriver -----------------------------
(***************************************************************************)
(* The command line ROAST signing (cmd/roast/roast.go): one loop that      *)
(* feeds the coordinator the first pre-signature shares, in the order of   *)
(* the IDs, and then runs rounds in which every signer with a pending      *)
(* request signs and answers, in the order of a Go map.  The first         *)
(* maliciousCount signers are simulated malicious ones: they never answer  *)
(* a request.                                                              *)
(***************************************************************************)
EXTENDS RoastCoordinator

\* IDs are ordered, and a signer draws a nonce pair per round at most.
ASSUME DriverAssumption ==
    /\ Parties \subseteq Nat
    /\ 1 .. N + 1 \subseteq PreShares

VARIABLES
    maliciousCount, \* how many signers stay silent, from the command line
    unfed,       \* signers whose first pre-signature share is not handed in
    nonceState,  \* the number of the nonce pair each signer holds
    unvisited,   \* pendingRequests not visited in this round: id -> session
    newPending,  \* requests collected for the next round: id -> session
    round,
    sessionCount,
    outcome      \* "running", or how the program ended

dvars == <<vars, maliciousCount, unfed, nonceState, unvisited, newPending,
           round, sessionCount, outcome>>

\* maliciousSet: the first maliciousCount IDs.
Silent == {p \in Parties : Cardinality({q \in Parties : q < p}) < maliciousCount}

NoRequests == [p \in Parties |-> 0]

\* Mutant: one round only.
maxRoundsOne == 1

maxRounds == N

\* The program refuses more than n - t - 1 = n - T malicious signers.
DInit ==
    /\ Init
    /\ maliciousCount \in 0 .. N - T
    /\ unfed = Parties
    /\ nonceState = [p \in Parties |-> 1]
    /\ unvisited = NoRequests
    /\ newPending = NoRequests
    /\ round = 0
    /\ sessionCount = 0
    /\ outcome = "running"

\* The requests of pending, plus those the call just returned.
Collected(pending) ==
    [p \in Parties |->
        IF reply'.sid # 0 /\ p \in sessions'[reply'.sid].signerSet
        THEN reply'.sid ELSE pending[p]]

\* What the program makes of the results of HandleResponse.
Outcome ==
    /\ outcome' = IF reply'.err # "nil" THEN "error"
                  ELSE IF reply'.sig # NilSignature THEN "success" ELSE "running"
    /\ sessionCount' = IF reply'.sid = 0 THEN sessionCount ELSE sessionCount + 1

Feed ==
    \E p \in unfed :
        /\ \A q \in unfed : p <= q
        /\ HandleResponse(p, NilShare, nonceState[p])
        /\ unfed' = unfed \ {p}
        /\ unvisited' = Collected(unvisited)
        /\ Outcome
        /\ UNCHANGED <<maliciousCount, nonceState, newPending, round>>

InRounds == unfed = {}

Skip(p) ==
    /\ InRounds
    /\ p \in Silent /\ unvisited[p] # 0
    /\ unvisited' = [unvisited EXCEPT ![p] = 0]
    /\ UNCHANGED <<vars, maliciousCount, unfed, nonceState, newPending, round,
                   sessionCount, outcome>>

\* signer.Sign and coord.HandleResponse for one pending request.
Visit(p) ==
    /\ InRounds
    /\ p \notin Silent /\ unvisited[p] # 0
    /\ nonceState' = [nonceState EXCEPT ![p] = @ + 1]
    /\ HandleResponse(p, [nonce |-> nonceState[p],
                          preShares |-> sessions[unvisited[p]].preShares],
                      nonceState[p] + 1)
    /\ unvisited' = [unvisited EXCEPT ![p] = 0]
    /\ newPending' = Collected(newPending)
    /\ Outcome
    /\ UNCHANGED <<maliciousCount, unfed, round>>

\* Mutant: the requests of the next round are dropped.
EndRoundForgets ==
    /\ InRounds
    /\ unvisited = NoRequests
    /\ round' = round + 1
    /\ newPending' = NoRequests
    /\ outcome' = IF round' < maxRounds THEN outcome ELSE "failed"
    /\ UNCHANGED <<vars, maliciousCount, unfed, nonceState, unvisited, sessionCount>>

\* The next round, or the end when the rounds are used up.
EndRound ==
    /\ InRounds
    /\ unvisited = NoRequests
    /\ round' = round + 1
    /\ unvisited' = newPending
    /\ newPending' = NoRequests
    /\ outcome' = IF round' < maxRounds THEN outcome ELSE "failed"
    /\ UNCHANGED <<vars, maliciousCount, unfed, nonceState, sessionCount>>

DNext ==
    /\ outcome = "running"
    /\ \/ Feed
       \/ \E p \in Parties : Skip(p) \/ Visit(p)
       \/ EndRound

\* A sequential program: it takes a step whenever it can.
DSpec == DInit /\ [][DNext]_dvars /\ WF_dvars(DNext)

-----------------------------------------------------------------------------
(* Properties *)

\* With at most n - T silent signers the program always prints a signature:
\* no call fails, and maxRounds = n rounds are enough for every choice of the
\* silent signers and every order in which Go visits the pending requests.
Succeeds == <>(outcome = "success")

\* The limit of n rounds is never felt: the silent signers have the smallest
\* IDs and are fed first, so they share few sessions with the others, and two
\* rounds always suffice.
TwoRounds == outcome = "running" => round <= 1
=============================================================================

-------------------------------- MODULE Roast --------------------------------
(***************************************************************************)
(* A whole ROAST signing: the coordinator of RoastCoordinator, the honest  *)
(* signers of pkg/roast/signer.go, signers that answer what they like, and *)
(* the channels between them.  The library leaves transport to its caller  *)
(* (cmd/roast calls both sides from one loop): a channel here delivers in  *)
(* any order, and up to MaxDup times delivers something twice.             *)
(*                                                                         *)
(* The k-th nonce pair an honest signer draws is the number k, and so is   *)
(* its commitment (D, E).                                                  *)
(***************************************************************************)
EXTENDS RoastCoordinator

CONSTANTS
    Honest,       \* the signers that follow signer.go
    AdvPreShares, \* the pre-signature shares the other signers use
    MaxNonce,     \* bound: nonce pairs an honest signer may draw
    MaxDup        \* bound: deliveries that leave a copy in the channel

ASSUME SystemAssumption ==
    /\ Honest \subseteq Parties
    /\ MaxNonce \in Nat /\ MaxDup \in Nat
    /\ PreShares = 1 .. MaxNonce
    /\ AdvPreShares \subseteq PreShares

VARIABLES
    nonceState,  \* nonceState[p]: the nonce pair signer p holds, 0 before Init
    requests,    \* sign requests on their way to honest signers
    responses,   \* answers of honest signers on their way to the coordinator
    dups,        \* how often something was delivered twice
    signed       \* history: every share an honest signer has computed

svars == <<nonceState, signed>>

rvars == <<vars, nonceState, requests, responses, dups, signed>>

RInit ==
    /\ Init
    /\ nonceState = [p \in Honest |-> 0]
    /\ requests = {}
    /\ responses = {}
    /\ dups = 0
    /\ signed = {}

\* Taking m out of a channel, or leaving a copy behind.
Taken(channel, m) ==
    \/ channel' = channel \ {m} /\ dups' = dups
    \/ channel' = channel /\ dups < MaxDup /\ dups' = dups + 1

\* PreRound draws a nonce pair that was never drawn before.
PreRound(p) ==
    /\ nonceState[p] < MaxNonce
    /\ nonceState' = [nonceState EXCEPT ![p] = @ + 1]

\* Signer.Init: the first pre-signature share, sent without a share.
SignerInit(p) ==
    /\ nonceState[p] = 0
    /\ PreRound(p)
    /\ responses' = responses \cup
          {[from |-> p, share |-> NilShare, preShare |-> nonceState'[p]]}
    /\ UNCHANGED <<vars, requests, dups, signed>>

\* Mutant: the next nonce pair is drawn before the share is computed.
SignRoundWithNext(p, pre) == [nonce |-> nonceState[p] + 1, preShares |-> pre]

\* SignRound spends the nonce pair the signer holds, whatever commitment of
\* its own the request carries.
SignRound(p, pre) == [nonce |-> nonceState[p], preShares |-> pre]

\* Mutant: the nonce pair is not replaced.
SignKeepsNonce(p, m) ==
    /\ m.to = p
    /\ m.preShares[p] # NoPreShare
    /\ responses' = responses \cup
          {[from |-> p, share |-> SignRound(p, m.preShares),
            preShare |-> nonceState[p]]}
    /\ signed' = signed \cup
          {[from |-> p, share |-> SignRound(p, m.preShares)]}
    /\ Taken(requests, m)
    /\ UNCHANGED <<vars, nonceState>>

\* Signer.Sign: the share, and the commitment of the nonce pair drawn next.
\* A request whose signer set lacks p is an error that keeps the nonce pair;
\* the coordinator's requests go to members of the set only.
Sign(p, m) ==
    /\ m.to = p
    /\ m.preShares[p] # NoPreShare
    /\ PreRound(p)
    /\ responses' = responses \cup
          {[from |-> p, share |-> SignRound(p, m.preShares),
            preShare |-> nonceState'[p]]}
    /\ signed' = signed \cup
          {[from |-> p, share |-> SignRound(p, m.preShares)]}
    /\ Taken(requests, m)
    /\ UNCHANGED vars

\* One call of HandleResponse; its caller passes the requests on.
Call(from, share, preShare) ==
    /\ HandleResponse(from, share, preShare)
    /\ requests' = requests \cup
          {[to |-> p, sid |-> reply'.sid,
            preShares |-> sessions'[reply'.sid].preShares] :
              p \in IF reply'.sid = 0 THEN {}
                    ELSE sessions'[reply'.sid].signerSet \cap Honest}
    /\ UNCHANGED svars

Deliver(p) ==
    \E m \in responses :
        /\ m.from = p
        /\ Call(p, m.share, m.preShare)
        /\ Taken(responses, m)

\* Any other signer may call at any time, without a share, or with a share
\* computed for some session from one of its nonces.
AdvShares ==
    {NilShare} \cup
    {[nonce |-> k, preShares |-> sessions[sid].preShares] :
        k \in AdvPreShares, sid \in 1 .. sidCounter}

Misbehave(p) ==
    /\ \E share \in AdvShares, preShare \in AdvPreShares : Call(p, share, preShare)
    /\ UNCHANGED <<responses, dups>>

RNext ==
    \/ \E p \in Honest : SignerInit(p)
    \/ \E p \in Honest, m \in requests : Sign(p, m)
    \/ \E p \in Honest : Deliver(p)
    \/ \E p \in Parties \ Honest : Misbehave(p)

RSpec == RInit /\ [][RNext]_rvars

\* Honest signers start, answer what they are asked, and their answers arrive.
\* The others owe nothing.
Fairness ==
    \A p \in Honest :
        /\ WF_rvars(SignerInit(p))
        /\ WF_rvars(\E m \in requests : Sign(p, m))
        /\ WF_rvars(Deliver(p))

FairSpec == RSpec /\ Fairness

-----------------------------------------------------------------------------
(* Properties *)

\* A signer that follows signer.go is never marked malicious, in whatever
\* order answers and requests arrive and whatever the others do: its answer
\* always fits the session that waits for it (HandleResponse lines 75-90).  An
\* answer that arrives twice would be taken for misbehaviour.
HonestNeverBanned == dups = 0 => Honest \cap malicious = {}

\* A nonce pair is spent on at most one share (Signer.Sign replaces it before
\* it returns), even when a request is delivered twice: two shares made from
\* one pair would reveal the secret share.
NonceSpentOnce ==
    \A x, y \in signed :
        x.from = y.from /\ x.share.nonce = y.share.nonce => x = y

\* A commitment of an honest signer enters at most one session: the
\* coordinator never opens a session on a pre-signature share that an earlier
\* session has used, even when an old answer arrives again.
CommitmentUsedOnce ==
    \A p \in Honest, s1, s2 \in 1 .. sidCounter :
        /\ p \in sessions[s1].signerSet \cap sessions[s2].signerSet
        /\ sessions[s1].preShares[p] = sessions[s2].preShares[p]
        => s1 = s2

\* Robustness: T honest signers suffice.  However the others answer or keep
\* silent, the coordinator ends up with a signature, if nothing arrives twice.
Robust == <>(done \/ dups > 0)
=============================================================================

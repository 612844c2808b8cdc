-------------------------------- MODULE Signing --------------------------------
(***************************************************************************)
(* What a FROST signing promises, whatever carries the messages.           *)
(*                                                                         *)
(* A session is the list of nonce commitments the signers have sent; it    *)
(* fixes the aggregate nonce and the challenge.  A signer that follows the *)
(* code releases one share, for one session; a signature for a session     *)
(* appears only once every signer of the group has released its share for  *)
(* that very session; and a signer that has a result keeps it.             *)
(*                                                                         *)
(* SignState (one goroutine per signer) and FrostSign (all signers in lock *)
(* step, with the arithmetic) implement this.                              *)
(***************************************************************************)
CONSTANTS
    Parties,  \* everybody who may sign
    Faulty,   \* signers that do not follow the code
    Sessions  \* the sessions there can be

VARIABLES
    group,  \* the signers of this signing
    shares, \* the shares released: who, and for which session
    signed, \* the signatures returned: to whom, and for which session
    failed  \* the signers that have returned an error

svars == <<group, shares, signed, failed>>

For(p, s) == [party |-> p, session |-> s]

Pending(p) == p \notin failed /\ \A x \in signed : x.party # p

Init ==
    /\ group \in SUBSET Parties
    /\ shares = {}
    /\ signed = {}
    /\ failed = {}

\* The signers are determined before anything else happens.
Gather ==
    /\ group = {}
    /\ group' \in SUBSET Parties
    /\ UNCHANGED <<shares, signed, failed>>

\* Once released, a share cannot be taken back, nor followed by another one.
Release(p) ==
    /\ Pending(p)
    /\ \A x \in shares : x.party # p
    /\ \E x \in shares' \ shares :
          x.party = p /\ x.session \in Sessions /\ shares' = shares \cup {x}
    /\ UNCHANGED <<group, signed, failed>>

\* The others may release what they like.
ReleaseAny(q) ==
    /\ shares \subseteq shares'
    /\ \A x \in shares' \ shares : x.party = q
    /\ UNCHANGED <<group, signed, failed>>

Complete(p) ==
    /\ Pending(p)
    /\ \E x \in signed' \ signed :
          /\ x.party = p /\ x.session \in Sessions /\ signed' = signed \cup {x}
          /\ \A q \in group : For(q, x.session) \in shares
    /\ UNCHANGED <<group, shares, failed>>

Abort(p) ==
    /\ Pending(p)
    /\ failed' = failed \cup {p}
    /\ UNCHANGED <<group, shares, signed>>

Next ==
    \/ Gather
    \/ \E p \in group \ Faulty : Release(p) \/ Complete(p) \/ Abort(p)
    \/ \E q \in group \cap Faulty : ReleaseAny(q)

Spec == Init /\ [][Next]_svars
=============================================================================

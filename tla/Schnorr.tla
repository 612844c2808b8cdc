-------------------------------- MODULE Schnorr --------------------------------
(***************************************************************************)
(* pkg/internal/zk/schnorr.go: a proof of knowledge of a discrete          *)
(* logarithm, made for a statement (ID, context, public key), encoded,     *)
(* decoded and checked, against this statement or another one.             *)
(***************************************************************************)
EXTENDS Group

CONSTANTS
    IDs, Contexts,  \* the parties and the contexts of statements
    Privates,       \* the secrets proved to be known
    Randoms,        \* the nonces k
    sha512Sum(_),   \* the digest of what was written to the hash, as a scalar
    None

VARIABLES
    wire,   \* the proof encoded: 32-byte blocks
    proof,  \* the proof decoded
    verdict \* the statement it was checked against, and the result

zvars == <<wire, proof, verdict>>

Statements ==
    [ID : IDs, context : Contexts, public : {ScalarBaseMult(x) : x \in Privates}]

Hash(st, M) == sha512Sum(<<st.ID, st.context, st.public, M>>)

\* Sum appends the 64 bytes of the digest to the slice it is given.
HashSum(length, digest) == [length |-> length + 64, digest |-> digest]

\* Scalar.SetUniformBytes: an error, and the receiver left alone, unless there
\* are 64 bytes.
SetUniformBytes(receiver, bytes) ==
    IF bytes.length = 64 THEN bytes.digest ELSE receiver

\* Sum is called with a buffer of 64 zero bytes, and the error is ignored.
challenge(st, M) == SetUniformBytes(0, HashSum(64, Hash(st, M)))

NewSchnorrProof(st, private, k) ==
    LET S == challenge(st, ScalarBaseMult(k))
    IN  [S |-> S, R |-> (private * S + k) % Q]

MarshalBinary(p) == <<p.S, p.R>>

\* At least 64 bytes; the second scalar is read from all that follow the first
\* 32, so more than 64 are an error too.
UnmarshalBinary(blocks) ==
    IF Len(blocks) # 2 THEN None ELSE [S |-> blocks[1], R |-> blocks[2]]

\* The nonce commitment that the verifier computes.
MPrime(p, st) == VarTimeDoubleScalarBaseMult(p.S, Negate(st.public), p.R)

Verify(p, st) == p.S = challenge(st, MPrime(p, st))

-----------------------------------------------------------------------------

Init == wire = None /\ proof = None /\ verdict = None

Prove ==
    /\ wire = None
    /\ \E id \in IDs, ctx \in Contexts, x \in Privates, k \in Randoms :
          LET st == [ID |-> id, context |-> ctx, public |-> ScalarBaseMult(x)]
          IN  wire' = MarshalBinary(NewSchnorrProof(st, x, k))
    /\ UNCHANGED <<proof, verdict>>

Read ==
    /\ wire # None /\ proof = None
    /\ proof' = UnmarshalBinary(wire)
    /\ UNCHANGED <<wire, verdict>>

Check ==
    /\ proof # None /\ verdict = None
    /\ \E st \in Statements : verdict' = [statement |-> st, ok |-> Verify(proof, st)]
    /\ UNCHANGED <<wire, proof>>

Next == Prove \/ Read \/ Check

Spec == Init /\ [][Next]_zvars

-----------------------------------------------------------------------------

\* "S = H( ID || CTX || public || M )" (schnorr.go:22): a proof is accepted
\* exactly if its S is the hash of the statement it is checked against.
ProofBindsStatement ==
    verdict # None =>
        verdict.ok = (proof.S = Hash(verdict.statement, MPrime(proof, verdict.statement)))
=============================================================================

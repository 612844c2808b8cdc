--------------------------------- MODULE Group ---------------------------------
(***************************************************************************)
(* Scalars, group elements, polynomials and Lagrange coefficients.         *)
(*                                                                         *)
(* The ristretto group is replaced by the subgroup of prime order Q that   *)
(* Gen generates in the integers modulo the prime P: multiplication stands *)
(* for the addition of points, exponentiation for ScalarMult, 1 for the    *)
(* identity.  The operators on top of it are those of pkg/frost/party,     *)
(* pkg/eddsa and pkg/frost/chilldkg/vss.go.                                *)
(***************************************************************************)
EXTENDS Integers, Sequences, FiniteSets, Functions

CONSTANTS
    Q,   \* the order of the group
    P,   \* the modulus
    Gen  \* the base point

ASSUME GroupAssumption ==
    /\ Q \in Nat /\ Q > 1 /\ P \in Nat /\ P > Q
    /\ \A a \in 1 .. Q - 1 : \E b \in 1 .. Q - 1 : (a * b) % Q = 1
    /\ Gen \in 2 .. P - 1 /\ (Gen ^ Q) % P = 1

Scalar == 0 .. Q - 1

\* pkg/ristretto.
Identity == 1
Add(a, b) == (a * b) % P
ScalarMult(k, e) == (e ^ k) % P
ScalarBaseMult(k) == ScalarMult(k, Gen)
Negate(e) == ScalarMult(Q - 1, e)
VarTimeDoubleScalarBaseMult(a, A, b) == Add(ScalarMult(a, A), ScalarBaseMult(b))
Invert(k) == CHOOSE j \in Scalar : (j * k) % Q = 1

\* The points are the multiples of the base point.
Element == {ScalarBaseMult(k) : k \in Scalar}

\* The group is cyclic of order Q: taking multiples of the base point carries
\* the arithmetic of the scalars over to the points, one to one.
ASSUME GroupLaws ==
    /\ ScalarBaseMult(0) = Identity
    /\ \A a, b \in Scalar :
          /\ Add(ScalarBaseMult(a), ScalarBaseMult(b)) = ScalarBaseMult((a + b) % Q)
          /\ ScalarMult(a, ScalarBaseMult(b)) = ScalarBaseMult((a * b) % Q)
          /\ ScalarBaseMult(a) = ScalarBaseMult(b) => a = b

SumScalars(f) == FoldFunction(LAMBDA a, b : (a + b) % Q, 0, f)
SumElements(f) == FoldFunction(Add, Identity, f)

-----------------------------------------------------------------------------
(* Polynomials; coeffs[1] is the constant term. *)

\* Horner's rule, from the highest coefficient down.
Evaluate(coeffs, x) ==
    LET n == Len(coeffs)
        value[k \in 0 .. n] ==
            IF k = 0 THEN 0 ELSE (value[k - 1] * x + coeffs[n - k + 1]) % Q
    IN  value[n]

\* The same in the exponent.
EvaluateExponent(points, x) ==
    LET n == Len(points)
        value[k \in 0 .. n] ==
            IF k = 0 THEN Identity
            ELSE Add(ScalarMult(x, value[k - 1]), points[n - k + 1])
    IN  value[n]

-----------------------------------------------------------------------------
(* Lagrange coefficients at 0 and the group key they give *)

\* Mutant: the differences are taken the wrong way round.
LagrangeSwapped(id, ids) ==
    LET others == ids \ {id}
        num    == FoldFunction(LAMBDA a, b : (a * b) % Q, 1, [x \in others |-> x])
        denum  == FoldFunction(LAMBDA a, b : (a * b) % Q, 1,
                               [x \in others |-> (id - x) % Q])
    IN  (num * Invert(denum)) % Q

Lagrange(id, ids) ==
    LET others == ids \ {id}
        num    == FoldFunction(LAMBDA a, b : (a * b) % Q, 1, [x \in others |-> x])
        denum  == FoldFunction(LAMBDA a, b : (a * b) % Q, 1,
                               [x \in others |-> (x - id) % Q])
    IN  (num * Invert(denum)) % Q

computeGroupKey(ids, shares) ==
    SumElements([id \in ids |-> ScalarMult(Lagrange(id, ids), shares[id])])
=============================================================================

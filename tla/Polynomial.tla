------------------------------- MODULE Polynomial -------------------------------
(***************************************************************************)
(* pkg/internal/polynomial: polynomials (Polynomial), their images in the  *)
(* group (Exponent), and the sharing of a secret that pkg/helpers/keys.go  *)
(* builds on them.  A polynomial is the sequence of its coefficients, the  *)
(* constant term first; of the bytes of an Exponent the degree and the     *)
(* number of 32-byte blocks matter.                                        *)
(***************************************************************************)
EXTENDS Keys

\* NewPolynomial, given the random coefficients it draws.
NewPolynomial(constant, randoms) == <<constant>> \o randoms

\* All evaluations panic for 0, so as not to give the secret away.
Guarded(index, value) == IF index = 0 THEN None ELSE value

polyEvaluate(poly, index) == Guarded(index, Evaluate(poly, index))

NewPolynomialExponent(poly) == [i \in DOMAIN poly |-> ScalarBaseMult(poly[i])]

\* The powers of index that the coefficients are multiplied with.
Powers(index, n) ==
    LET power[i \in 1 .. n] == IF i = 1 THEN 1 ELSE (power[i - 1] * index) % Q
    IN  power

\* The sum of [x^i] A_i with a running power.
evaluateClassic(exp, index) ==
    LET step[i \in 0 .. Len(exp)] ==
            IF i = 0 THEN [x |-> 1, sum |-> Identity]
            ELSE [x   |-> (step[i - 1].x * index) % Q,
                  sum |-> Add(step[i - 1].sum,
                              VarTimeDoubleScalarBaseMult(step[i - 1].x, exp[i], 0))]
    IN  Guarded(index, step[Len(exp)].sum)

\* The same as one multi-scalar multiplication with a table of powers.
evaluateVar(exp, index) ==
    LET powers == Powers(index, Len(exp))
    IN  Guarded(index, SumElements([i \in DOMAIN exp |-> ScalarMult(powers[i], exp[i])]))

\* Mutant: the coefficients are taken in the wrong order.
evaluateHornerReversed(exp, index) ==
    EvaluateExponent([i \in DOMAIN exp |-> exp[Len(exp) + 1 - i]], index)

evaluateHorner(exp, index) == Guarded(index, EvaluateExponent(exp, index))

\* Exponent.Evaluate is evaluateVar.
EvaluateMulti(exp, ids) == [id \in ids |-> evaluateVar(exp, id)]

\* Exponent.Add: an error for different lengths.
AddExponents(p, q) ==
    IF Len(p) # Len(q) THEN None ELSE [i \in DOMAIN p |-> Add(p[i], q[i])]

\* Sum: the first one is copied, the others are added to the copy.
SumExponents(exps) ==
    LET sum[k \in 1 .. Len(exps)] ==
            IF k = 1 THEN exps[1]
            ELSE IF sum[k - 1] = None THEN None
            ELSE AddExponents(sum[k - 1], exps[k])
    IN  sum[Len(exps)]

\* The degree in two bytes, then the coefficients.
MarshalExponent(exp) == [degree |-> (Len(exp) - 1) % MaxSize, blocks |-> exp]

UnmarshalExponent(data) ==
    IF Len(data.blocks) # (data.degree + 1) % MaxSize THEN None ELSE data.blocks

-----------------------------------------------------------------------------
(* helpers.GenerateSecrets and GeneratePublic: a dealer *)

GenerateSecrets(set, poly) == [id \in set |-> polyEvaluate(poly, id)]

GeneratePublic(threshold, secrets) ==
    NewPublic([id \in DOMAIN secrets |-> ScalarBaseMult(secrets[id])], threshold)
=============================================================================

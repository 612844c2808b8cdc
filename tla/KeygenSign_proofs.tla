-------------------------- MODULE KeygenSign_proofs --------------------------
(***************************************************************************)
(* Proofs about KeygenSign: what a lock-step signing computes, for every   *)
(* key, group of signers and choice of nonces.                             *)
(*                                                                         *)
(* The state of a signing is a function of a few numbers: the key, the     *)
(* shares held, and the nonces drawn.  The inductive invariant SignInv     *)
(* writes every round of every signer in terms of them; the properties are *)
(* then arithmetic.                                                        *)
(***************************************************************************)
EXTENDS KeygenSign, ChillDKG_proofs

-----------------------------------------------------------------------------
(* The numbers of a signing.  A context c has the signers, the key and the *)
(* shares, right and held; n has the nonces (d, e) of the signers.         *)

Ctx == [S |-> signers, GroupKey |-> key.public.GroupKey, Shares |-> key.public.Shares,
        right |-> [p \in signers |-> key.secrets[p]],
        held |-> [p \in signers |-> Held(p)]]

IsCtx(c) ==
    /\ c.S \in Groups /\ c.GroupKey \in Element
    /\ c.right \in [c.S -> Scalar] /\ c.held \in [c.S -> Scalar]
    /\ \A q \in c.S : c.Shares[q] = ScalarBaseMult(c.right[q])

IsNonces(n, c) == n \in [c.S -> Scalar \X Scalar]

Hiding(c, n) == [q \in c.S |-> ScalarBaseMult(n[q][1])]

Binding(c, n) == [q \in c.S |-> ScalarBaseMult(n[q][2])]

Factors(c, n) ==
    [q \in c.S |-> sha512Scalar("rho", <<q, Message, Hiding(c, n), Binding(c, n)>>)]

NonceOf(c, n) == [q \in c.S |-> (n[q][1] + n[q][2] * Factors(c, n)[q]) % Q]

NoncePoints(c, n) == [q \in c.S |-> ScalarBaseMult(NonceOf(c, n)[q])]

NonceSum(c, n) == SumScalars(NonceOf(c, n))

NoncePoint(c, n) == ScalarBaseMult(NonceSum(c, n))

Challenge(c, n) == sha512Scalar("challenge", <<NoncePoint(c, n), c.GroupKey, Message>>)

\* The signature shares made from the key shares v.
SharesFrom(c, n, v) ==
    [q \in c.S |-> Lin(1, Challenge(c, n), NonceOf(c, n)[q], Terms(v, c.S)[q])]

PublicOf(c) == [q \in c.S |-> ScalarMult(Lagrange(q, c.S), c.Shares[q])]

SignatureOf(c, n) == [R |-> NoncePoint(c, n), S |-> SumScalars(SharesFrom(c, n, c.held))]

-----------------------------------------------------------------------------
(* The rounds of signer p in terms of these numbers, after its 0th, 1st,   *)
(* 2nd and 3rd pass, and the messages it sends in the first two            *)

Round0(c, p) ==
    [number |-> 0, received |-> [q \in c.S \ {p} |-> None], Public |-> PublicOf(c),
     SecretKeyShare |-> Terms(c.held, c.S)[p], d |-> 0, e |-> 0,
     Di |-> [q \in c.S |-> Identity], Ei |-> [q \in c.S |-> Identity],
     Pi |-> [q \in c.S |-> 0], Ri |-> [q \in c.S |-> Identity],
     Zi |-> [q \in c.S |-> 0], R |-> Identity, C |-> 0, err |-> None, Signature |-> None]

Round1(c, n, p) ==
    [number |-> 1, received |-> <<>>, Public |-> PublicOf(c),
     SecretKeyShare |-> Terms(c.held, c.S)[p], d |-> n[p][1], e |-> n[p][2],
     Di |-> [q \in c.S |-> IF q = p THEN Hiding(c, n)[p] ELSE Identity],
     Ei |-> [q \in c.S |-> IF q = p THEN Binding(c, n)[p] ELSE Identity],
     Pi |-> [q \in c.S |-> 0], Ri |-> [q \in c.S |-> Identity],
     Zi |-> [q \in c.S |-> 0], R |-> Identity, C |-> 0, err |-> None, Signature |-> None]

Round2(c, n, p) ==
    [number |-> 2, received |-> <<>>, Public |-> PublicOf(c),
     SecretKeyShare |-> Terms(c.held, c.S)[p], d |-> n[p][1], e |-> n[p][2],
     Di |-> Hiding(c, n), Ei |-> Binding(c, n), Pi |-> Factors(c, n),
     Ri |-> NoncePoints(c, n),
     Zi |-> [q \in c.S |-> IF q = p THEN SharesFrom(c, n, c.held)[p] ELSE 0],
     R |-> NoncePoint(c, n), C |-> Challenge(c, n), err |-> None, Signature |-> None]

Round3(c, n, p) ==
    [number |-> 2, received |-> <<>>, Public |-> PublicOf(c),
     SecretKeyShare |-> Terms(c.held, c.S)[p], d |-> n[p][1], e |-> n[p][2],
     Di |-> Hiding(c, n), Ei |-> Binding(c, n), Pi |-> Factors(c, n),
     Ri |-> NoncePoints(c, n), Zi |-> SharesFrom(c, n, c.held),
     R |-> NoncePoint(c, n), C |-> Challenge(c, n), err |-> None,
     Signature |-> SignatureOf(c, n)]

RoundFields ==
    {"number", "received", "Public", "SecretKeyShare", "d", "e", "Di", "Ei", "Pi", "Ri",
     "Zi", "R", "C", "err", "Signature"}

\* r is the round s, field by field.
Has(r, s) ==
    /\ DOMAIN r = RoundFields
    /\ r.number = s.number /\ r.received = s.received
    /\ r.Public = s.Public /\ r.SecretKeyShare = s.SecretKeyShare
    /\ r.d = s.d /\ r.e = s.e /\ r.Di = s.Di /\ r.Ei = s.Ei /\ r.Pi = s.Pi /\ r.Ri = s.Ri
    /\ r.Zi = s.Zi /\ r.R = s.R /\ r.C = s.C /\ r.err = s.err
    /\ r.Signature = s.Signature

Sign1(c, n, q) ==
    [type |-> 1, from |-> q, Di |-> Hiding(c, n)[q], Ei |-> Binding(c, n)[q]]

Sign2(c, n, q) == [type |-> 2, from |-> q, Zi |-> SharesFrom(c, n, c.held)[q]]

\* The signature that the shares held add up to is one of the group key.
Verifies(c, n) ==
    VarTimeDoubleScalarBaseMult(Challenge(c, n), Negate(c.GroupKey), SignatureOf(c, n).S)
        = NoncePoint(c, n)

-----------------------------------------------------------------------------
(* The invariant *)

\* The shares of a key fit together: enough of them interpolate to the secret
\* of the group key.
IsKey(k, needed) ==
    /\ needed \in Nat
    /\ k.secrets \in [IDs -> Scalar]
    /\ \A id \in IDs : k.public.Shares[id] = ScalarBaseMult(k.secrets[id])
    /\ \E a \in Scalar :
          /\ k.public.GroupKey = ScalarBaseMult(a)
          /\ \A S \in SUBSET IDs : Cardinality(S) >= needed => Interp(k.secrets, S) = a
    /\ k.poly # None =>
          /\ IsPoly(k.poly, needed) /\ needed \in 1 .. N
          /\ k.public.Shares = [id \in IDs |-> ScalarBaseMult(Evaluate(k.poly, id))]

\* Signer p after calls[p] passes.
At(c, n, p) ==
    /\ calls[p] = 0 => Has(past[p], Round0(c, p)) /\ round[p] = past[p]
    /\ calls[p] = 1 => Has(past[p], Round1(c, n, p)) /\ round[p] = past[p]
    /\ calls[p] = 2 => Has(past[p], Round2(c, n, p)) /\ round[p] = past[p]
    /\ calls[p] = 3 => /\ Has(past[p], Round3(c, n, p)) /\ round[p] = Reset(past[p])
                       /\ Verifies(c, n)
    /\ calls[p] >= 1 => n[p] \in Nonces

\* Those who have called PartyRoutine k times.
Called(k) == {q \in signers : calls[q] >= k}

Running(c, n) ==
    /\ IsNonces(n, c)
    /\ DOMAIN round = signers /\ DOMAIN past = signers
    /\ calls \in [signers -> 0 .. 3]
    /\ \A p, q \in signers : calls[p] <= calls[q] + 1
    /\ \A p \in signers : At(c, n, p)
    /\ mail = <<{Marshal(Sign1(c, n, q)) : q \in Called(1)},
                {Marshal(Sign2(c, n, q)) : q \in Called(2)}>>

\* Nothing has been sent.
Fresh == round = <<>> /\ past = <<>> /\ mail = <<{}, {}>> /\ failure = None

Chosen == key # None /\ signers \in Groups /\ offset \in Offsets

SignInv ==
    /\ key # None => IsKey(key, Needed)
    /\ command \in {"idle", "loaded", "signing", "success", "failed"}
    /\ command = "idle" => signers = {} /\ Fresh
    /\ command # "idle" => Chosen
    /\ command = "loaded" => Fresh
    /\ command \in {"signing", "success"} => failure = None /\ \E n : Running(Ctx, n)
    /\ command = "failed" => StaleShareNamed

-----------------------------------------------------------------------------
(* Arithmetic *)

\* [c](-A) + [z]B is the point of k just when z = k + c a, for A = [a]B.
LEMMA OpensIff ==
    ASSUME NEW a \in Scalar, NEW k \in Scalar, NEW c \in Scalar, NEW z \in Scalar
    PROVE  VarTimeDoubleScalarBaseMult(c, Negate(ScalarBaseMult(a)), z) = ScalarBaseMult(k)
              <=> z = Lin(1, c, k, a)
<1> DEFINE o == ((Q - 1) * a) % Q
           m == (c * o) % Q
<1>1. Q \in Nat /\ Q > 1 /\ Q - 1 \in Scalar /\ a \in Int /\ k \in Int /\ c \in Int /\ z \in Int
    BY QNat
<1>2. (Q - 1) * a \in Int /\ c * a \in Int /\ c * ((Q - 1) * a) \in Int
    BY <1>1
<1>3. o \in Scalar /\ o \in Int /\ m \in Scalar
    <2>1. o \in Scalar /\ o \in Int
        BY <1>2, ModType
    <2>2. c * o \in Int
        BY <1>1, <2>1
    <2>3. QED
        BY <2>1, <2>2, ModType
<1>4. Negate(ScalarBaseMult(a)) = ScalarBaseMult(o)
    BY <1>1, GroupLaws DEF Negate
<1>5. ScalarMult(c, ScalarBaseMult(o)) = ScalarBaseMult(m)
    BY <1>3, GroupLaws
<1>6. Add(ScalarBaseMult(m), ScalarBaseMult(z)) = ScalarBaseMult((m + z) % Q)
    BY <1>3, GroupLaws
<1>7. VarTimeDoubleScalarBaseMult(c, Negate(ScalarBaseMult(a)), z) = ScalarBaseMult((m + z) % Q)
    BY <1>4, <1>5, <1>6 DEF VarTimeDoubleScalarBaseMult
<1>8. m + z \in Int /\ (m + z) % Q \in Scalar
    <2> HIDE DEF m
    <2>1. m \in Int
        BY <1>3, QNat
    <2>2. m + z \in Int
        BY <1>1, <2>1
    <2>3. QED
        BY <2>2, ModType
<1>9. VarTimeDoubleScalarBaseMult(c, Negate(ScalarBaseMult(a)), z) = ScalarBaseMult(k)
         <=> (m + z) % Q = k
    BY <1>7, <1>8, GroupLaws
<1>10. m = (c * ((Q - 1) * a)) % Q
    BY <1>1, <1>2, ModMul
<1>11. PICK w \in Int : w = c * a
    BY <1>2
<1>12. c * ((Q - 1) * a) = Q * w - w
    BY <1>1, <1>11
<1>13. PICK u \in Int : m = Q * u - w
    <2>1. PICK j \in Int : c * ((Q - 1) * a) = Q * j + m
        BY <1>2, <1>10, ModType
    <2>2. m \in Int
        BY <1>3, QNat
    <2>3. Q * w - w = Q * j + m
        BY <1>12, <2>1
    <2>4. m = Q * (w - j) - w
        BY <1>1, <2>2, <2>3
    <2>5. w - j \in Int
        OBVIOUS
    <2>6. QED
        BY <2>4, <2>5
<1>14. Lin(1, c, k, a) = (k + w) % Q
    BY <1>1, <1>11 DEF Lin
<1>15. PICK x \in Int : x = m
    BY <1>3, QNat
<1> HIDE DEF m, o
<1>16. ASSUME (m + z) % Q = k PROVE z = (k + w) % Q
    <2>1. PICK l \in Int : m + z = Q * l + k
        BY <1>8, <1>16, ModType
    <2>2. k + w = z + Q * (u - l)
        BY <1>1, <1>13, <1>15, <2>1
    <2>3. u - l \in Int /\ k + w \in Int
        BY <1>1
    <2>4. PICK y \in Int : y = k + w
        BY <2>3
    <2>5. y % Q = z % Q
        <3>1. y = z + Q * (u - l)
            BY <2>2, <2>4
        <3>2. z \in Int
            BY <1>1
        <3>3. QED
            BY ONLY <2>3, <3>1, <3>2, y \in Int, ModCong
    <2>6. QED
        BY <2>4, <2>5, ModScalar
<1>17. ASSUME z = (k + w) % Q PROVE (m + z) % Q = k
    <2>1. k + w \in Int
        BY <1>1
    <2>2. PICK l \in Int : k + w = Q * l + z
        BY <1>17, <2>1, ModType
    <2>3. m + z = k + Q * (u - l)
        BY <1>1, <1>13, <1>15, <2>2
    <2>4. u - l \in Int
        OBVIOUS
    <2>5. (m + z) % Q = k % Q
        BY <1>1, <1>8, <2>3, <2>4, ModCong
    <2>6. QED
        BY <2>5, ModScalar
<1>18. QED
    BY <1>9, <1>14, <1>16, <1>17

\* D + [rho] E has the discrete logarithm d + e rho.
LEMMA NonceBase ==
    ASSUME NEW d \in Scalar, NEW e \in Scalar, NEW rho \in Scalar
    PROVE  /\ Add(ScalarMult(rho, ScalarBaseMult(e)), ScalarBaseMult(d))
                = ScalarBaseMult((d + e * rho) % Q)
           /\ (d + e * rho) % Q \in Scalar
<1>1. d \in Int /\ e \in Int /\ rho \in Int
    BY QNat
<1>2. e * rho \in Int
    BY <1>1
<1>3. d + e * rho \in Int /\ e * rho + d = d + e * rho
    BY <1>1, <1>2
<1>4. Add(ScalarMult(rho, ScalarBaseMult(e)), ScalarBaseMult(d))
         = ScalarBaseMult((e * rho + d) % Q)
    BY HornerBase
<1>5. QED
    BY <1>3, <1>4, ModType

\* z = d + e rho + s c is the nonce plus c times s.
LEMMA ShareForm ==
    ASSUME NEW d \in Scalar, NEW e \in Scalar, NEW rho \in Scalar, NEW s \in Int,
           NEW c \in Scalar
    PROVE  (d + e * rho + s * c) % Q = Lin(1, c, (d + e * rho) % Q, s)
<1>1. d \in Int /\ e \in Int /\ rho \in Int /\ c \in Int /\ Q \in Int
    BY QNat
<1>2. e * rho \in Int
    BY <1>1
<1>3. PICK x \in Int : x = d + e * rho
    BY <1>1, <1>2
<1>4. PICK y \in Int : y = s * c
    BY <1>1
<1>5. Lin(1, c, x % Q, s) = ((x % Q) + y) % Q
    <2>1. x % Q \in Int /\ c * s = y
        BY <1>1, <1>4, ModType
    <2>2. QED
        BY <2>1 DEF Lin
<1>6. ((x % Q) + y) % Q = (x + y) % Q
    BY ModAdd
<1>7. QED
    BY <1>3, <1>4, <1>5, <1>6

\* The types of the numbers of a signing.
LEMMA NumbersOK ==
    ASSUME NEW c, IsCtx(c), NEW n, IsNonces(n, c)
    PROVE  /\ IsIDs(c.S) /\ IsFiniteSet(c.S) /\ c.S # {} /\ c.S \subseteq IDs
           /\ \A q \in c.S : n[q][1] \in Scalar /\ n[q][2] \in Scalar
           /\ Hiding(c, n) \in [c.S -> Element] /\ Binding(c, n) \in [c.S -> Element]
           /\ Factors(c, n) \in [c.S -> Scalar] /\ NonceOf(c, n) \in [c.S -> Scalar]
           /\ NonceSum(c, n) \in Scalar
           /\ NoncePoint(c, n) \in Element /\ NoncePoint(c, n) = SumElements(NoncePoints(c, n))
           /\ Challenge(c, n) \in Scalar
<1>1. c.S \in Groups /\ c.GroupKey \in Element
    BY DEF IsCtx
<1>2. IsIDs(c.S) /\ c.S # {} /\ c.S \subseteq IDs /\ IsFiniteSet(c.S)
    BY <1>1, FrostAssumption, KeygenAssumption, IDsOK DEF IsIDs
<1>3. \A q \in c.S : n[q] \in Scalar \X Scalar
    BY DEF IsNonces
<1>4. \A q \in c.S : n[q][1] \in Scalar /\ n[q][2] \in Scalar
    BY <1>3
<1>5. Hiding(c, n) \in [c.S -> Element] /\ Binding(c, n) \in [c.S -> Element]
    BY <1>4, AddBase DEF Hiding, Binding
<1>6. Factors(c, n) \in [c.S -> Scalar]
    <2>1. \A q \in c.S :
             sha512Scalar("rho", <<q, Message, Hiding(c, n), Binding(c, n)>>) \in Scalar
        BY <1>1, <1>5, HashToScalar
    <2>2. QED
        BY <2>1 DEF Factors
<1>7. NonceOf(c, n) \in [c.S -> Scalar]
    <2>1. ASSUME NEW q \in c.S
          PROVE  (n[q][1] + n[q][2] * Factors(c, n)[q]) % Q \in Scalar
        BY <1>4, <1>6, NonceBase
    <2>2. QED
        BY <2>1 DEF NonceOf
<1>8. NonceSum(c, n) \in Scalar
    BY <1>2, <1>7, SumScalarsType DEF NonceSum
<1>9. NoncePoint(c, n) \in Element
    BY <1>8, AddBase DEF NoncePoint
<1>10. NoncePoint(c, n) = SumElements(NoncePoints(c, n))
    BY <1>2, <1>7, SumElementsType DEF NoncePoint, NoncePoints, NonceSum
<1>11. Challenge(c, n) \in Scalar
    BY <1>1, <1>9, HashToScalar DEF Challenge
<1>12. QED
    BY <1>2, <1>4, <1>5, <1>6, <1>7, <1>8, <1>9, <1>10, <1>11

\* The shares made from the key shares v are scalars and add up to the sum of
\* the nonces plus the challenge times what v interpolates to.
LEMMA SharesOK ==
    ASSUME NEW c, IsCtx(c), NEW n, IsNonces(n, c), NEW v \in [c.S -> Scalar]
    PROVE  /\ Terms(v, c.S) \in [c.S -> Scalar] /\ Interp(v, c.S) \in Scalar
           /\ SharesFrom(c, n, v) \in [c.S -> Scalar]
           /\ SumScalars(SharesFrom(c, n, v)) \in Scalar
           /\ SumScalars(SharesFrom(c, n, v))
                = Lin(1, Challenge(c, n), NonceSum(c, n), Interp(v, c.S))
<1> DEFINE S == c.S
           f == NonceOf(c, n)
           g == Terms(v, c.S)
           h == SharesFrom(c, n, v)
           b == Challenge(c, n)
<1>1. IsIDs(S) /\ IsFiniteSet(S) /\ f \in [S -> Scalar] /\ b \in Scalar
      /\ NonceSum(c, n) = SumScalars(f)
    BY NumbersOK DEF NonceSum
<1>2. g \in [S -> Scalar] /\ Interp(v, S) = SumOn(g, S) /\ Interp(v, S) \in Scalar
    BY <1>1, InterpType
<1>3. b \in Int /\ 1 \in Int
    BY <1>1, QNat
<1>4. h = [q \in S |-> Lin(1, b, f[q], g[q])]
    BY DEF SharesFrom
<1> HIDE DEF S, f, g, h, b
<1>5. \A q \in S : h[q] = Lin(1, b, f[q], g[q])
    BY <1>4
<1>6. \A q \in S : Lin(1, b, f[q], g[q]) \in Scalar
    <2>1. SUFFICES ASSUME NEW q \in S PROVE Lin(1, b, f[q], g[q]) \in Scalar
        OBVIOUS
    <2>2. PICK x \in Int : x = f[q]
        BY <1>1, QNat
    <2>3. PICK y \in Int : y = g[q]
        BY <1>2, QNat
    <2>4. b * y \in Int
        BY <1>3
    <2>5. 1 * x + b * y \in Int
        BY <2>4
    <2>6. QED
        BY <2>2, <2>3, <2>5, ModType DEF Lin
<1>7. h \in [S -> Scalar]
    BY <1>4, <1>6
<1>8. SumOn(h, S) = Lin(1, b, SumOn(f, S), SumOn(g, S))
    BY <1>1, <1>2, <1>3, <1>5, <1>7, SumCombine
<1>9. SumScalars(h) \in Scalar /\ SumScalars(h) = SumOn(h, S)
    BY <1>1, <1>7, SumScalarsType
<1>10. SumScalars(f) = SumOn(f, S)
    BY <1>1, SumScalarsType
<1>11. SumScalars(h) = Lin(1, b, NonceSum(c, n), Interp(v, S))
    BY <1>1, <1>2, <1>8, <1>9, <1>10
<1>12. QED
    BY <1>2, <1>7, <1>9, <1>11 DEF S, g, h, b

\* The weighted public shares are the points of the weighted shares.
LEMMA PublicOK ==
    ASSUME NEW c, IsCtx(c), NEW q \in c.S, IsIDs(c.S)
    PROVE  PublicOf(c)[q] = ScalarBaseMult(Terms(c.right, c.S)[q])
<1>1. c.right[q] \in Scalar /\ c.Shares[q] = ScalarBaseMult(c.right[q])
    BY DEF IsCtx
<1>2. Lagrange(q, c.S) \in Scalar
    BY LagrangeType
<1>3. ScalarMult(Lagrange(q, c.S), ScalarBaseMult(c.right[q]))
         = ScalarBaseMult((Lagrange(q, c.S) * c.right[q]) % Q)
    BY <1>1, <1>2, GroupLaws
<1>4. QED
    BY <1>1, <1>3 DEF PublicOf, Terms

\* A share passes the check of round 2 just when it is made from the share of
\* the key.
LEMMA ShareAccepted ==
    ASSUME NEW c, IsCtx(c), NEW n, IsNonces(n, c), NEW q \in c.S, NEW z \in Scalar
    PROVE  VarTimeDoubleScalarBaseMult(Challenge(c, n), Negate(PublicOf(c)[q]), z)
              = NoncePoints(c, n)[q]
           <=> z = SharesFrom(c, n, c.right)[q]
<1>1. IsIDs(c.S) /\ Challenge(c, n) \in Scalar /\ NonceOf(c, n)[q] \in Scalar
    BY NumbersOK
<1>2. c.right \in [c.S -> Scalar]
    BY DEF IsCtx
<1>3. Terms(c.right, c.S)[q] \in Scalar
    BY <1>2, SharesOK
<1>4. PublicOf(c)[q] = ScalarBaseMult(Terms(c.right, c.S)[q])
    BY <1>1, PublicOK
<1>5. NoncePoints(c, n)[q] = ScalarBaseMult(NonceOf(c, n)[q])
    BY DEF NoncePoints
<1>6. SharesFrom(c, n, c.right)[q]
         = Lin(1, Challenge(c, n), NonceOf(c, n)[q], Terms(c.right, c.S)[q])
    BY DEF SharesFrom
<1>7. QED
    BY <1>1, <1>3, <1>4, <1>5, <1>6, OpensIff

\* A signature passes Verify just when it is made from the secret of the key.
LEMMA VerifiesIff ==
    ASSUME NEW c, IsCtx(c), NEW n, IsNonces(n, c), NEW a \in Scalar, NEW s \in Scalar,
           c.GroupKey = ScalarBaseMult(a)
    PROVE  VarTimeDoubleScalarBaseMult(Challenge(c, n), Negate(c.GroupKey), s)
              = NoncePoint(c, n)
           <=> s = Lin(1, Challenge(c, n), NonceSum(c, n), a)
<1>1. Challenge(c, n) \in Scalar /\ NonceSum(c, n) \in Scalar
    BY NumbersOK
<1>2. QED
    BY <1>1, OpensIff DEF NoncePoint

\* What a context stands for.
IsCtxOf(c) ==
    /\ IsCtx(c) /\ c = Ctx /\ signers = c.S
    /\ key.public.GroupKey = c.GroupKey /\ key.public.Shares = c.Shares
    /\ \A p \in signers : c.right[p] = key.secrets[p] /\ c.held[p] = Held(p)

\* The numbers of a signing that has begun.
LEMMA CtxOK ==
    ASSUME key # None => IsKey(key, Needed), Chosen
    PROVE  IsCtxOf(Ctx)
<1>1. signers \subseteq IDs /\ offset \in [IDs -> Scalar] /\ signers \in Groups
    BY FrostAssumption DEF Chosen
<1>2. key.secrets \in [IDs -> Scalar]
      /\ \A id \in IDs : key.public.Shares[id] = ScalarBaseMult(key.secrets[id])
    BY DEF Chosen, IsKey
<1>3. ASSUME NEW p \in signers PROVE key.secrets[p] \in Scalar /\ Held(p) \in Scalar
    <2>1. key.secrets[p] \in Scalar /\ offset[p] \in Scalar
        BY <1>1, <1>2
    <2>2. key.secrets[p] + offset[p] \in Int
        BY <2>1, QNat
    <2>3. QED
        BY <2>1, <2>2, ModType DEF Held
<1>4. key.public.GroupKey \in Element
    BY AddBase DEF Chosen, IsKey
<1>5. /\ Ctx.S = signers /\ Ctx.GroupKey = key.public.GroupKey
      /\ Ctx.Shares = key.public.Shares
      /\ Ctx.right = [p \in signers |-> key.secrets[p]]
      /\ Ctx.held = [p \in signers |-> Held(p)]
    BY DEF Ctx
<1>6. Ctx.right \in [signers -> Scalar] /\ Ctx.held \in [signers -> Scalar]
    BY <1>3, <1>5
<1>7. \A q \in signers : Ctx.Shares[q] = ScalarBaseMult(Ctx.right[q])
    BY <1>1, <1>2, <1>5
<1>8. IsCtx(Ctx)
    BY <1>1, <1>4, <1>5, <1>6, <1>7 DEF IsCtx
<1>9. QED
    BY <1>5, <1>8 DEF IsCtxOf

-----------------------------------------------------------------------------
(* The three passes *)

\* NewState makes the first round.
LEMMA Pass0Start ==
    ASSUME NEW c, IsCtxOf(c), NEW p \in signers
    PROVE  Has(NewRound(p, Held(p)), Round0(c, p))
<1>1. signers = c.S /\ key.public.Shares = c.Shares /\ c.held[p] = Held(p)
    BY DEF IsCtxOf
<1>2. Terms(c.held, c.S)[p] = (Lagrange(p, c.S) * Held(p)) % Q
    BY <1>1 DEF Terms
<1>3. QED
    BY <1>1, <1>2 DEF Has, RoundFields, NewRound, Round0, PublicOf

\* A signer has the messages of all others.
LEMMA AllThere ==
    ASSUME NEW c, IsCtxOf(c), NEW p \in signers, NEW r, DOMAIN r.received = signers \ {p}
    PROVE  HaveAll(r)
<1>1. IsFiniteSet(signers)
    BY FrostAssumption, KeygenAssumption, IDsOK DEF IsCtxOf, IsCtx, IsIDs
<1>2. Cardinality(signers \ {p}) = Cardinality(signers) - 1
    BY <1>1, FS_RemoveElement
<1>3. QED
    BY <1>2 DEF HaveAll

\* The messages of a pass are stored in the field received, and nothing else
\* changes.
LEMMA Handled ==
    ASSUME NEW r, DOMAIN r = RoundFields, NEW p, NEW msgs, NEW s,
           s = HandleMessages(r, p, msgs)
    PROVE  /\ DOMAIN s = RoundFields
           /\ s.number = r.number /\ s.Public = r.Public
           /\ s.SecretKeyShare = r.SecretKeyShare
           /\ s.d = r.d /\ s.e = r.e /\ s.Di = r.Di /\ s.Ei = r.Ei /\ s.Pi = r.Pi
           /\ s.Ri = r.Ri /\ s.Zi = r.Zi /\ s.R = r.R /\ s.C = r.C /\ s.err = r.err
           /\ s.Signature = r.Signature
           /\ s.received = [q \in DOMAIN r.received \cup ({m.from : m \in msgs} \ {p}) |->
                               IF q \in DOMAIN r.received THEN r.received[q]
                               ELSE CHOOSE m \in msgs : m.from = q]
BY DEF HandleMessages, RoundFields

\* A signer with the nonces m[p] has made its commitments.
Commits(c, m, p, step) ==
    /\ step.round = step.past
    /\ Has(step.past, Round1(c, m, p))
    /\ step.msg = Sign1(c, m, p)

\* The first pass: nonces are drawn, and the commitments sent.
LEMMA Pass0 ==
    ASSUME NEW c, IsCtxOf(c), NEW p \in signers, NEW n, IsNonces(n, c),
           NEW r0, Has(r0, Round0(c, p)),
           NEW step \in ProcessAll(HandleMessages(r0, p, {}), p)
    PROVE  \E x \in Nonces : Commits(c, [n EXCEPT ![p] = x], p, step)
<1> DEFINE r == HandleMessages(r0, p, {})
<1>1. signers = c.S
    BY DEF IsCtxOf
<1>2. /\ DOMAIN r0 = RoundFields /\ r0.received = [q \in signers \ {p} |-> None]
      /\ r0.number = 0
    BY <1>1 DEF Has, Round0
<1>3. /\ DOMAIN r = RoundFields
      /\ r.number = 0 /\ r.Public = PublicOf(c)
      /\ r.SecretKeyShare = Terms(c.held, c.S)[p]
      /\ r.Di = [q \in c.S |-> Identity] /\ r.Ei = [q \in c.S |-> Identity]
      /\ r.Pi = [q \in c.S |-> 0] /\ r.Ri = [q \in c.S |-> Identity]
      /\ r.Zi = [q \in c.S |-> 0] /\ r.R = Identity /\ r.C = 0
      /\ r.err = None /\ r.Signature = None
    BY <1>2, Handled DEF Has, Round0
<1>4. DOMAIN r.received = signers \ {p}
    <2>1. r.received = [q \in DOMAIN r0.received \cup ({m.from : m \in {}} \ {p}) |->
                           IF q \in DOMAIN r0.received THEN r0.received[q]
                           ELSE CHOOSE m \in {} : m.from = q]
        BY <1>2, Handled
    <2>2. DOMAIN r.received = DOMAIN r0.received \cup ({m.from : m \in {}} \ {p})
        BY <2>1
    <2>3. QED
        BY <1>2, <2>2
<1> HIDE DEF r
<1>5. HaveAll(r)
    BY <1>4, AllThere
<1>6. {q \in signers \ {p} : ~ Accepts(r, q)} = {}
    BY <1>3 DEF Accepts
<1>7. Processed(r) = r
    BY <1>3 DEF Processed
<1>8. ProcessAll(r, p) = Generate(r, p)
    BY <1>5, <1>6, <1>7 DEF ProcessAll
<1>9. step \in Generate(r, p)
    BY <1>8 DEF r
<1>10. PICK x \in Nonces :
         LET r1 == [r EXCEPT !.d = x[1], !.e = x[2],
                             !.Di[p] = ScalarBaseMult(x[1]),
                             !.Ei[p] = ScalarBaseMult(x[2])]
         IN  step = Step(NextRound(r1), [type |-> 1, from |-> p,
                                         Di |-> r1.Di[p], Ei |-> r1.Ei[p]])
    BY <1>3, <1>9 DEF Generate
<1> DEFINE m == [n EXCEPT ![p] = x]
           r1 == [r EXCEPT !.d = x[1], !.e = x[2],
                           !.Di[p] = ScalarBaseMult(x[1]), !.Ei[p] = ScalarBaseMult(x[2])]
<1>11. m[p] = x /\ Hiding(c, m)[p] = ScalarBaseMult(x[1])
       /\ Binding(c, m)[p] = ScalarBaseMult(x[2])
    BY <1>1 DEF IsNonces, Hiding, Binding
<1>12. /\ DOMAIN r1 = RoundFields
       /\ r1.number = 0 /\ r1.Public = PublicOf(c)
       /\ r1.SecretKeyShare = Terms(c.held, c.S)[p]
       /\ r1.d = x[1] /\ r1.e = x[2]
       /\ r1.Pi = [q \in c.S |-> 0] /\ r1.Ri = [q \in c.S |-> Identity]
       /\ r1.Zi = [q \in c.S |-> 0] /\ r1.R = Identity /\ r1.C = 0
       /\ r1.err = None /\ r1.Signature = None
       /\ r1.Di = [r.Di EXCEPT ![p] = ScalarBaseMult(x[1])]
       /\ r1.Ei = [r.Ei EXCEPT ![p] = ScalarBaseMult(x[2])]
    BY <1>3 DEF RoundFields
<1>13. /\ r1.Di = [q \in c.S |-> IF q = p THEN ScalarBaseMult(x[1]) ELSE Identity]
       /\ r1.Ei = [q \in c.S |-> IF q = p THEN ScalarBaseMult(x[2]) ELSE Identity]
    BY <1>3, <1>12
<1> HIDE DEF r1, m
<1>14. Has(NextRound(r1), Round1(c, m, p))
    BY <1>11, <1>12, <1>13 DEF NextRound, Has, Round1, RoundFields
<1>15. [type |-> 1, from |-> p, Di |-> r1.Di[p], Ei |-> r1.Ei[p]] = Sign1(c, m, p)
    BY <1>1, <1>11, <1>13 DEF Sign1
<1>16. step = Step(NextRound(r1), Sign1(c, m, p))
    BY <1>10, <1>15 DEF r1
<1>17. Commits(c, m, p, step)
    BY <1>14, <1>16 DEF Step, Commits
<1>18. QED
    BY <1>17 DEF m

\* Everybody in S has sent one message.
SentBy(msgs, M, S) == msgs = {M[q] : q \in S} /\ \A q \in S : M[q].from = q

\* A round that has received nothing.
Waits(r) == DOMAIN r = RoundFields /\ r.received = <<>>

\* If everybody has sent one message, the others' messages are received.
LEMMA Received ==
    ASSUME NEW S, NEW M, NEW msgs, SentBy(msgs, M, S), NEW r, Waits(r), NEW p
    PROVE  HandleMessages(r, p, msgs).received = [q \in S \ {p} |-> M[q]]
<1> DEFINE s == HandleMessages(r, p, msgs)
           dom == DOMAIN r.received \cup ({m.from : m \in msgs} \ {p})
<1> USE DEF SentBy, Waits
<1>1. s.received = [q \in dom |-> IF q \in DOMAIN r.received THEN r.received[q]
                                  ELSE CHOOSE m \in msgs : m.from = q]
    BY Handled
<1>2. DOMAIN r.received = {}
    OBVIOUS
<1>3. {m.from : m \in msgs} = S
    OBVIOUS
<1>4. dom = S \ {p}
    BY <1>2, <1>3
<1>5. ASSUME NEW q \in S PROVE (CHOOSE m \in msgs : m.from = q) = M[q]
    <2>1. \E m \in msgs : m.from = q
        OBVIOUS
    <2>2. PICK o \in S : (CHOOSE m \in msgs : m.from = q) = M[o] /\ M[o].from = q
        BY <2>1
    <2>3. QED
        BY <2>2
<1>6. QED
    BY <1>1, <1>2, <1>4, <1>5

\* All signers have drawn their nonces; msgs are the messages of round 1, 2.
AllDrawn(n) == \A q \in signers : n[q] \in Nonces
AllSign1(c, n, msgs) == msgs = {Sign1(c, n, q) : q \in signers}
AllSign2(c, n, msgs) == msgs = {Sign2(c, n, q) : q \in signers}

\* The second pass: the binding factors, the nonce, the challenge and the own
\* share are computed, and the share is sent.
LEMMA Pass1 ==
    ASSUME NEW c, IsCtxOf(c), NEW p \in signers, NEW n, IsNonces(n, c),
           AllDrawn(n), NEW r0, Has(r0, Round1(c, n, p)), NEW msgs, AllSign1(c, n, msgs)
    PROVE  /\ \A m \in msgs : ~ Refuses(r0, p, m)
           /\ \A step \in ProcessAll(HandleMessages(r0, p, msgs), p) :
                 /\ step.round = step.past
                 /\ Has(step.past, Round2(c, n, p))
                 /\ step.msg = Sign2(c, n, p)
<1> USE DEF AllDrawn, AllSign1
<1> DEFINE r == HandleMessages(r0, p, msgs)
           M == [q \in signers |-> Sign1(c, n, q)]
<1>1. signers = c.S /\ IsCtx(c) /\ key.public.GroupKey = c.GroupKey
    BY DEF IsCtxOf
<1>2. DOMAIN r0 = RoundFields /\ r0.received = <<>> /\ r0.number = 1
    BY DEF Has, Round1
<1>3. \A q \in signers : M[q].from = q /\ M[q] = Sign1(c, n, q) /\ M[q].type = 1
                         /\ M[q].Di = Hiding(c, n)[q] /\ M[q].Ei = Binding(c, n)[q]
    BY DEF Sign1
<1>4. msgs = {M[q] : q \in signers}
    BY <1>3
<1> HIDE DEF M
<1>5. /\ IsIDs(c.S) /\ IsFiniteSet(c.S) /\ c.S \subseteq IDs
      /\ \A q \in c.S : n[q][1] \in Scalar /\ n[q][2] \in Scalar
      /\ Hiding(c, n) \in [c.S -> Element] /\ Binding(c, n) \in [c.S -> Element]
      /\ Factors(c, n) \in [c.S -> Scalar] /\ NonceOf(c, n) \in [c.S -> Scalar]
      /\ NoncePoint(c, n) = SumElements(NoncePoints(c, n)) /\ Challenge(c, n) \in Scalar
    BY <1>1, NumbersOK
<1>6. ASSUME NEW m \in msgs PROVE ~ Refuses(r0, p, m)
    <2>1. PICK q \in signers : m = Sign1(c, n, q)
        OBVIOUS
    <2>2. m \in [type : {1}, from : IDs, Di : Element, Ei : Element]
        BY <1>1, <1>5, <2>1 DEF Sign1
    <2>3. m # None /\ m.from = q /\ m.type = 1
        BY <2>1, <2>2, NilAssumption DEF Sign1
    <2>4. q \notin DOMAIN r0.received
        BY <1>2
    <2>5. QED
        BY <1>2, <2>3, <2>4 DEF Refuses
<1>7. /\ DOMAIN r = RoundFields
      /\ r.number = 1 /\ r.Public = PublicOf(c)
      /\ r.SecretKeyShare = Terms(c.held, c.S)[p] /\ r.d = n[p][1] /\ r.e = n[p][2]
      /\ r.Di = [q \in c.S |-> IF q = p THEN Hiding(c, n)[p] ELSE Identity]
      /\ r.Ei = [q \in c.S |-> IF q = p THEN Binding(c, n)[p] ELSE Identity]
      /\ r.Pi = [q \in c.S |-> 0] /\ r.Ri = [q \in c.S |-> Identity]
      /\ r.Zi = [q \in c.S |-> 0] /\ r.R = Identity /\ r.C = 0
      /\ r.err = None /\ r.Signature = None
    <2>1. /\ DOMAIN r = RoundFields
          /\ r.number = r0.number /\ r.Public = r0.Public
          /\ r.SecretKeyShare = r0.SecretKeyShare
          /\ r.d = r0.d /\ r.e = r0.e /\ r.Di = r0.Di /\ r.Ei = r0.Ei /\ r.Pi = r0.Pi
          /\ r.Ri = r0.Ri /\ r.Zi = r0.Zi /\ r.R = r0.R /\ r.C = r0.C /\ r.err = r0.err
          /\ r.Signature = r0.Signature
        BY <1>2 DEF HandleMessages, RoundFields
    <2> HIDE DEF r
    <2>2. QED
        BY <2>1 DEF Has, Round1
<1>8. r.received = [q \in signers \ {p} |-> M[q]]
    <2>1. SentBy(msgs, M, signers)
        BY <1>3, <1>4 DEF SentBy
    <2>2. Waits(r0)
        BY <1>2 DEF Waits
    <2>3. QED
        BY <2>1, <2>2, Received
<1> HIDE DEF r
<1>9. HaveAll(r)
    BY <1>8, AllThere
<1>10. {q \in signers \ {p} : ~ Accepts(r, q)} = {}
    <2>1. ASSUME NEW q \in signers \ {p} PROVE Accepts(r, q)
        <3>1. r.received[q].Di = ScalarBaseMult(n[q][1])
              /\ r.received[q].Ei = ScalarBaseMult(n[q][2])
            <4>1. r.received[q] = M[q]
                BY <1>8
            <4>2. M[q].Di = Hiding(c, n)[q] /\ M[q].Ei = Binding(c, n)[q]
                BY <1>3
            <4>3. QED
                BY <1>1, <4>1, <4>2 DEF Hiding, Binding
        <3>2. n[q] \in (Scalar \ {0}) \X (Scalar \ {0})
            BY FrostAssumption
        <3>3. n[q][1] \in Scalar \ {0} /\ n[q][2] \in Scalar \ {0}
            BY <3>2
        <3>4. Identity = ScalarBaseMult(0)
            BY GroupLaws
        <3>5. ScalarBaseMult(n[q][1]) # Identity /\ ScalarBaseMult(n[q][2]) # Identity
            BY <3>3, <3>4, AddBase, QNat
        <3>6. QED
            BY <1>7, <3>1, <3>5 DEF Accepts
    <2>2. QED
        BY <2>1
<1> DEFINE s == Processed(r)
<1>11. /\ DOMAIN s = RoundFields
       /\ s.number = 1 /\ s.Public = PublicOf(c)
       /\ s.SecretKeyShare = Terms(c.held, c.S)[p] /\ s.d = n[p][1] /\ s.e = n[p][2]
       /\ s.Pi = [q \in c.S |-> 0] /\ s.Ri = [q \in c.S |-> Identity]
       /\ s.Zi = [q \in c.S |-> 0] /\ s.R = Identity /\ s.C = 0
       /\ s.err = None /\ s.Signature = None
       /\ s.Di = [q \in signers |-> IF q \in DOMAIN r.received THEN r.received[q].Di
                                    ELSE r.Di[q]]
       /\ s.Ei = [q \in signers |-> IF q \in DOMAIN r.received THEN r.received[q].Ei
                                    ELSE r.Ei[q]]
    BY <1>7 DEF Processed, RoundFields
<1>12. s.Di = Hiding(c, n) /\ s.Ei = Binding(c, n)
    <2>1. \A q \in signers : /\ s.Di[q] = Hiding(c, n)[q] /\ s.Ei[q] = Binding(c, n)[q]
        BY <1>1, <1>3, <1>7, <1>8, <1>11
    <2>2. s.Di = [q \in signers |-> s.Di[q]] /\ s.Ei = [q \in signers |-> s.Ei[q]]
        BY <1>11
    <2> HIDE DEF s
    <2>3. s.Di = [q \in signers |-> Hiding(c, n)[q]]
          /\ s.Ei = [q \in signers |-> Binding(c, n)[q]]
        BY <2>1, <2>2
    <2>4. QED
        BY <1>1, <1>5, <2>3
<1> HIDE DEF s
<1> DEFINE r1 == [s EXCEPT !.Pi = [q \in signers |-> Rho(s, q)]]
           Ri == [q \in signers |-> NonceShare(r1, q)]
           t == ComputeShare(s, p)
<1>13. [q \in signers |-> Rho(s, q)] = Factors(c, n)
    BY <1>1, <1>12 DEF Rho, Factors
<1>14. r1.Pi = Factors(c, n) /\ r1.Di = Hiding(c, n) /\ r1.Ei = Binding(c, n)
       /\ DOMAIN r1 = RoundFields
       /\ r1.number = 1 /\ r1.Public = PublicOf(c)
       /\ r1.SecretKeyShare = Terms(c.held, c.S)[p] /\ r1.d = n[p][1] /\ r1.e = n[p][2]
       /\ r1.Zi = [q \in c.S |-> 0] /\ r1.err = None /\ r1.Signature = None
    BY <1>11, <1>12, <1>13 DEF RoundFields
<1>15. Ri = NoncePoints(c, n)
    <2> HIDE DEF r1
    <2>1. ASSUME NEW q \in signers PROVE NonceShare(r1, q) = ScalarBaseMult(NonceOf(c, n)[q])
        <3>1. NonceShare(r1, q) = Add(ScalarMult(Factors(c, n)[q], ScalarBaseMult(n[q][2])),
                                      ScalarBaseMult(n[q][1]))
            BY <1>1, <1>14 DEF NonceShare, Hiding, Binding
        <3>2. n[q][1] \in Scalar /\ n[q][2] \in Scalar /\ Factors(c, n)[q] \in Scalar
            BY <1>1, <1>5
        <3>3. NonceShare(r1, q)
                 = ScalarBaseMult((n[q][1] + n[q][2] * Factors(c, n)[q]) % Q)
            BY <3>1, <3>2, NonceBase
        <3>4. QED
            BY <1>1, <3>3 DEF NonceOf
    <2>2. QED
        BY <1>1, <2>1 DEF NoncePoints
<1>16. SumElements(Ri) = NoncePoint(c, n) /\ ComputeChallenge(SumElements(Ri)) = Challenge(c, n)
    BY <1>1, <1>5, <1>15 DEF ComputeChallenge, Challenge
<1> DEFINE z == (s.d + s.e * r1.Pi[p] + s.SecretKeyShare * Challenge(c, n)) % Q
<1>17. t = [r1 EXCEPT !.Ri = NoncePoints(c, n), !.R = NoncePoint(c, n),
                      !.C = Challenge(c, n), !.Zi[p] = z]
    BY <1>15, <1>16 DEF ComputeShare
<1>18. z = SharesFrom(c, n, c.held)[p]
    <2>1. n[p][1] \in Scalar /\ n[p][2] \in Scalar /\ Factors(c, n)[p] \in Scalar
          /\ Challenge(c, n) \in Scalar
        BY <1>1, <1>5
    <2>2. Terms(c.held, c.S)[p] \in Int
        <3>1. c.held \in [c.S -> Scalar]
            BY <1>1 DEF IsCtx
        <3>2. Terms(c.held, c.S) \in [c.S -> Scalar]
            BY <1>1, <3>1, SharesOK
        <3>3. QED
            BY <1>1, <3>2, QNat
    <2>3. (n[p][1] + n[p][2] * Factors(c, n)[p] + Terms(c.held, c.S)[p] * Challenge(c, n)) % Q
             = Lin(1, Challenge(c, n), (n[p][1] + n[p][2] * Factors(c, n)[p]) % Q,
                   Terms(c.held, c.S)[p])
        BY <2>1, <2>2, ShareForm
    <2>4. z = (n[p][1] + n[p][2] * Factors(c, n)[p]
               + Terms(c.held, c.S)[p] * Challenge(c, n)) % Q
        BY <1>11, <1>14
    <2>5. NonceOf(c, n)[p] = (n[p][1] + n[p][2] * Factors(c, n)[p]) % Q
        BY <1>1 DEF NonceOf
    <2>6. SharesFrom(c, n, c.held)[p]
             = Lin(1, Challenge(c, n), NonceOf(c, n)[p], Terms(c.held, c.S)[p])
        BY <1>1 DEF SharesFrom
    <2>7. QED
        BY <2>3, <2>4, <2>5, <2>6
<1> HIDE DEF z, r1, t
<1>19. /\ DOMAIN t = RoundFields
       /\ t.number = 1 /\ t.Public = PublicOf(c)
       /\ t.SecretKeyShare = Terms(c.held, c.S)[p] /\ t.d = n[p][1] /\ t.e = n[p][2]
       /\ t.Di = Hiding(c, n) /\ t.Ei = Binding(c, n) /\ t.Pi = Factors(c, n)
       /\ t.Ri = NoncePoints(c, n) /\ t.R = NoncePoint(c, n) /\ t.C = Challenge(c, n)
       /\ t.err = None /\ t.Signature = None
       /\ t.Zi = [r1.Zi EXCEPT ![p] = z]
    BY <1>14, <1>17 DEF RoundFields
<1>20. t.Zi = [q \in c.S |-> IF q = p THEN SharesFrom(c, n, c.held)[p] ELSE 0]
       /\ t.Zi[p] = SharesFrom(c, n, c.held)[p]
    BY <1>1, <1>14, <1>18, <1>19
<1>21. Has(NextRound(t), Round2(c, n, p))
    BY <1>19, <1>20 DEF NextRound, Has, Round2, RoundFields
<1>22. [type |-> 2, from |-> p, Zi |-> t.Zi[p]] = Sign2(c, n, p)
    BY <1>20 DEF Sign2
<1>23. ProcessAll(r, p) = Generate(s, p)
    BY <1>9, <1>10 DEF ProcessAll, s
<1>24. Generate(s, p) = {Step(NextRound(t), [type |-> 2, from |-> p, Zi |-> t.Zi[p]])}
    BY <1>11 DEF Generate, t
<1>25. \A step \in ProcessAll(r, p) : step = Step(NextRound(t), Sign2(c, n, p))
    BY <1>22, <1>23, <1>24
<1>26. QED
    BY <1>6, <1>21, <1>25 DEF Step, r

\* Reset leaves the number, the error and the signature of a round.
LEMMA ResetOK ==
    ASSUME NEW r, DOMAIN r = RoundFields
    PROVE  /\ Reset(r).number = r.number /\ Reset(r).err = r.err
           /\ Reset(r).Signature = r.Signature
BY DEF Reset, RoundFields

\* A signer stops with an error that accuses q, or nobody if q is 0.
Aborts(c, n, step, q) ==
    /\ step.msg = None
    /\ step.round.number = 2 /\ step.round.Signature = None
    /\ step.round.err = [culprit |-> q, round |-> 2]
    /\ step.past.Di = Hiding(c, n) /\ step.past.Ei = Binding(c, n)

\* A round that fails.
LEMMA FailedOK ==
    ASSUME NEW c, NEW n, NEW r, NEW q, DOMAIN r = RoundFields, r.number = 2,
           r.Signature = None, r.Di = Hiding(c, n), r.Ei = Binding(c, n)
    PROVE  Aborts(c, n, Failed(r, q), q)
<1> DEFINE f == [r EXCEPT !.err = [culprit |-> q, round |-> r.number]]
<1>1. /\ DOMAIN f = RoundFields /\ f.number = 2 /\ f.Signature = None
      /\ f.Di = Hiding(c, n) /\ f.Ei = Binding(c, n)
      /\ f.err = [culprit |-> q, round |-> 2]
    BY DEF RoundFields
<1>2. Failed(r, q) = [round |-> Reset(f), past |-> f, msg |-> None]
    BY DEF Failed, Finished
<1> HIDE DEF f
<1>3. Reset(f).number = 2 /\ Reset(f).Signature = None
      /\ Reset(f).err = [culprit |-> q, round |-> 2]
    BY <1>1, ResetOK
<1>4. QED
    BY <1>1, <1>2, <1>3 DEF Aborts

\* What the signers hold instead of shares of the key shows.
Wrong(c, n, q) == SharesFrom(c, n, c.held)[q] # SharesFrom(c, n, c.right)[q]

\* The last pass: somebody whose share is wrong is accused, or the signature is
\* put together, and kept if it is one of the group key.
LEMMA Pass2 ==
    ASSUME NEW c, IsCtxOf(c), NEW p \in signers, NEW n, IsNonces(n, c),
           NEW r0, Has(r0, Round2(c, n, p)), NEW msgs, AllSign2(c, n, msgs)
    PROVE  /\ \A m \in msgs : ~ Refuses(r0, p, m)
           /\ \A step \in ProcessAll(HandleMessages(r0, p, msgs), p) :
                 \/ \E q \in signers \ {p} : Wrong(c, n, q) /\ Aborts(c, n, step, q)
                 \/ /\ \A q \in signers \ {p} : ~ Wrong(c, n, q)
                    /\ ~ Verifies(c, n) /\ Aborts(c, n, step, 0)
                 \/ /\ Verifies(c, n) /\ Has(step.past, Round3(c, n, p))
                    /\ step.round = Reset(step.past) /\ step.msg = None
<1> USE DEF AllSign2
<1> DEFINE r == HandleMessages(r0, p, msgs)
           M == [q \in signers |-> Sign2(c, n, q)]
           Z == SharesFrom(c, n, c.held)
<1>1. signers = c.S /\ IsCtx(c) /\ key.public.GroupKey = c.GroupKey
      /\ c.held \in [c.S -> Scalar]
    BY DEF IsCtxOf, IsCtx
<1>2. Waits(r0) /\ r0.number = 2
    BY DEF Has, Round2, Waits
<1>3. \A q \in signers : M[q].from = q /\ M[q] = Sign2(c, n, q) /\ M[q].type = 2
                         /\ M[q].Zi = Z[q]
    BY DEF Sign2
<1>4. SentBy(msgs, M, signers)
    BY <1>3 DEF SentBy
<1> HIDE DEF M
<1>5. c.S \subseteq IDs /\ Challenge(c, n) \in Scalar
    BY <1>1, NumbersOK
<1>6. Z \in [c.S -> Scalar]
    BY <1>1, SharesOK
<1> HIDE DEF Z
<1>7. ASSUME NEW m \in msgs PROVE ~ Refuses(r0, p, m)
    <2>1. PICK q \in signers : m = M[q]
        BY <1>4 DEF SentBy
    <2>2. m = [type |-> 2, from |-> q, Zi |-> Z[q]]
        BY <1>3, <2>1 DEF Sign2, Z
    <2>3. m \in [type : {2}, from : IDs, Zi : Scalar]
        BY <1>1, <1>5, <1>6, <2>2
    <2>4. m # None /\ m.from = q /\ m.type = 2
        BY <2>2, <2>3, NilAssumption
    <2>5. q \notin DOMAIN r0.received
        BY <1>2 DEF Waits
    <2>6. QED
        BY <1>2, <2>4, <2>5 DEF Refuses
<1>8. /\ DOMAIN r = RoundFields
      /\ r.number = 2 /\ r.Public = PublicOf(c)
      /\ r.SecretKeyShare = Terms(c.held, c.S)[p] /\ r.d = n[p][1] /\ r.e = n[p][2]
      /\ r.Di = Hiding(c, n) /\ r.Ei = Binding(c, n) /\ r.Pi = Factors(c, n)
      /\ r.Ri = NoncePoints(c, n) /\ r.R = NoncePoint(c, n) /\ r.C = Challenge(c, n)
      /\ r.Zi = [q \in c.S |-> IF q = p THEN Z[p] ELSE 0]
      /\ r.err = None /\ r.Signature = None
    <2>1. /\ DOMAIN r = RoundFields
          /\ r.number = r0.number /\ r.Public = r0.Public
          /\ r.SecretKeyShare = r0.SecretKeyShare
          /\ r.d = r0.d /\ r.e = r0.e /\ r.Di = r0.Di /\ r.Ei = r0.Ei /\ r.Pi = r0.Pi
          /\ r.Ri = r0.Ri /\ r.Zi = r0.Zi /\ r.R = r0.R /\ r.C = r0.C /\ r.err = r0.err
          /\ r.Signature = r0.Signature
        BY <1>2 DEF HandleMessages, RoundFields, Waits
    <2> HIDE DEF r
    <2>2. QED
        BY <2>1 DEF Has, Round2, Z
<1>9. r.received = [q \in signers \ {p} |-> M[q]]
    BY <1>2, <1>4, Received
<1> HIDE DEF r
<1>10. HaveAll(r)
    BY <1>9, AllThere
<1>11. ASSUME NEW q \in signers \ {p} PROVE Accepts(r, q) <=> ~ Wrong(c, n, q)
    <2>1. r.received[q].Zi = Z[q]
        <3>1. r.received[q] = M[q]
            BY <1>9
        <3>2. QED
            BY <1>3, <3>1
    <2>2. Accepts(r, q) <=> ShareOpens(r, q, Z[q])
        BY <1>8, <2>1 DEF Accepts
    <2>3. ShareOpens(r, q, Z[q]) <=>
             VarTimeDoubleScalarBaseMult(Challenge(c, n), Negate(PublicOf(c)[q]), Z[q])
                = NoncePoints(c, n)[q]
        BY <1>8 DEF ShareOpens
    <2>4. q \in c.S /\ Z[q] \in Scalar
        BY <1>1, <1>6
    <2>5. QED
        BY <1>1, <2>2, <2>3, <2>4, ShareAccepted DEF Wrong, Z
<1> DEFINE s == Processed(r)
<1>12. /\ DOMAIN s = RoundFields
       /\ s.number = 2 /\ s.Public = PublicOf(c)
       /\ s.SecretKeyShare = Terms(c.held, c.S)[p] /\ s.d = n[p][1] /\ s.e = n[p][2]
       /\ s.Di = Hiding(c, n) /\ s.Ei = Binding(c, n) /\ s.Pi = Factors(c, n)
       /\ s.Ri = NoncePoints(c, n) /\ s.R = NoncePoint(c, n) /\ s.C = Challenge(c, n)
       /\ s.err = None /\ s.Signature = None
       /\ s.Zi = [q \in signers |-> IF q \in DOMAIN r.received THEN r.received[q].Zi
                                    ELSE r.Zi[q]]
    BY <1>8 DEF Processed, RoundFields
<1>13. s.Zi = Z
    <2>1. \A q \in signers : s.Zi[q] = Z[q]
        BY <1>1, <1>3, <1>8, <1>9, <1>12
    <2>2. s.Zi = [q \in signers |-> s.Zi[q]]
        BY <1>12
    <2> HIDE DEF s
    <2>3. s.Zi = [q \in signers |-> Z[q]]
        BY <2>1, <2>2
    <2>4. QED
        BY <1>1, <1>6, <2>3
<1> HIDE DEF s
<1>14. Signature(s) = SignatureOf(c, n)
    BY <1>12, <1>13 DEF Signature, SignatureOf, Z
<1>15. Verify(Signature(s)) <=> Verifies(c, n)
    <2>1. SignatureOf(c, n).R = NoncePoint(c, n)
        BY DEF SignatureOf
    <2>2. ComputeChallenge(NoncePoint(c, n)) = Challenge(c, n)
        BY <1>1 DEF ComputeChallenge, Challenge
    <2>3. QED
        BY <1>1, <1>14, <2>1, <2>2 DEF Verify, Verifies
<1> DEFINE t == [s EXCEPT !.Signature = Signature(s), !.received = <<>>]
<1>16. Has(t, Round3(c, n, p))
    BY <1>12, <1>13, <1>14 DEF Has, Round3, RoundFields, Z
<1> HIDE DEF t
<1>17. ASSUME NEW step \in Generate(s, p)
       PROVE  \/ ~ Verifies(c, n) /\ Aborts(c, n, step, 0)
              \/ /\ Verifies(c, n) /\ Has(step.past, Round3(c, n, p))
                 /\ step.round = Reset(step.past) /\ step.msg = None
    <2>1. step = IF Verify(Signature(s)) THEN Finished(t) ELSE Failed(s, 0)
        BY <1>12 DEF Generate, t
    <2>2. Aborts(c, n, Failed(s, 0), 0)
        BY <1>12, FailedOK
    <2>3. Finished(t) = [round |-> Reset(t), past |-> t, msg |-> None]
        BY DEF Finished
    <2>4. QED
        BY <1>15, <1>16, <2>1, <2>2, <2>3
<1>18. ASSUME NEW step \in ProcessAll(r, p)
       PROVE  \/ \E q \in signers \ {p} : Wrong(c, n, q) /\ Aborts(c, n, step, q)
              \/ (\A q \in signers \ {p} : ~ Wrong(c, n, q)) /\ step \in Generate(s, p)
    <2>1. \A q : Aborts(c, n, Failed(r, q), q)
        BY <1>8, FailedOK
    <2> DEFINE rejected == {q \in signers \ {p} : ~ Accepts(r, q)}
    <2>2. CASE rejected # {}
        <3>1. PICK q \in rejected : step = Failed(r, q)
            BY <1>10, <2>2 DEF ProcessAll
        <3>2. QED
            BY <1>11, <2>1, <3>1
    <2>3. CASE rejected = {}
        <3>1. step \in Generate(s, p)
            BY <1>10, <2>3 DEF ProcessAll, s
        <3>2. QED
            BY <1>11, <2>3, <3>1
    <2>4. QED
        BY <2>2, <2>3
<1>19. QED
    BY <1>7, <1>17, <1>18 DEF r

-----------------------------------------------------------------------------
(* What PartyRoutine does *)

\* What is sent arrives.
LEMMA Decoded ==
    ASSUME NEW c, IsCtx(c), NEW n, IsNonces(n, c), NEW q \in c.S
    PROVE  /\ Unmarshal(Marshal(Sign1(c, n, q))) = Sign1(c, n, q)
           /\ Unmarshal(Marshal(Sign2(c, n, q))) = Sign2(c, n, q)
<1>1. q # 0
    BY NumbersOK DEF IsIDs
<1> DEFINE D == Hiding(c, n)[q]
           E == Binding(c, n)[q]
           z == SharesFrom(c, n, c.held)[q]
<1> HIDE DEF D, E, z
<1>2. Sign1(c, n, q) = [type |-> 1, from |-> q, Di |-> D, Ei |-> E]
      /\ Sign2(c, n, q) = [type |-> 2, from |-> q, Zi |-> z]
    BY DEF Sign1, Sign2, D, E, z
<1>3. Marshal(Sign1(c, n, q)) = [type |-> 1, from |-> q, to |-> 0, body |-> <<D, E>>]
    BY <1>2 DEF Marshal
<1>4. Marshal(Sign2(c, n, q)) = [type |-> 2, from |-> q, to |-> 0, body |-> <<z>>]
    BY <1>2 DEF Marshal
<1>5. Unmarshal(Marshal(Sign1(c, n, q))) = [type |-> 1, from |-> q, Di |-> D, Ei |-> E]
    BY <1>1, <1>3 DEF Unmarshal, HeaderOK
<1>6. Unmarshal(Marshal(Sign2(c, n, q))) = [type |-> 2, from |-> q, Zi |-> z]
    BY <1>1, <1>4 DEF Unmarshal, HeaderOK
<1>7. QED
    BY <1>2, <1>5, <1>6

\* A signer whose turn it is finds the messages of all signers.
LEMMA MailRead ==
    ASSUME NEW c, IsCtxOf(c), NEW n, Running(c, n), NEW p \in signers, Turn(p)
    PROVE  /\ calls[p] = 1 => /\ {Unmarshal(m) : m \in mail[calls[p]]}
                                   = {Sign1(c, n, q) : q \in signers}
                              /\ \A q \in signers : n[q] \in Nonces
           /\ calls[p] = 2 => {Unmarshal(m) : m \in mail[calls[p]]}
                                 = {Sign2(c, n, q) : q \in signers}
<1>1. IsCtx(c) /\ signers = c.S /\ IsNonces(n, c)
    BY DEF IsCtxOf, Running
<1>2. \A q \in signers : /\ Unmarshal(Marshal(Sign1(c, n, q))) = Sign1(c, n, q)
                         /\ Unmarshal(Marshal(Sign2(c, n, q))) = Sign2(c, n, q)
    BY <1>1, Decoded
<1>3. calls \in [signers -> 0 .. 3]
    BY DEF Running
<1>4. ASSUME calls[p] = 1
      PROVE  /\ {Unmarshal(m) : m \in mail[calls[p]]} = {Sign1(c, n, q) : q \in signers}
             /\ \A q \in signers : n[q] \in Nonces
    <2>1. Called(1) = signers
        BY <1>3, <1>4 DEF Called, Turn
    <2>2. mail[1] = {Marshal(Sign1(c, n, q)) : q \in signers}
        BY <2>1 DEF Running
    <2>3. {Unmarshal(m) : m \in mail[1]} = {Sign1(c, n, q) : q \in signers}
        BY <1>2, <2>2
    <2>4. \A q \in signers : calls[q] >= 1
        BY <1>3, <1>4 DEF Turn
    <2>5. QED
        BY <1>4, <2>3, <2>4 DEF Running, At
<1>5. ASSUME calls[p] = 2
      PROVE  {Unmarshal(m) : m \in mail[calls[p]]} = {Sign2(c, n, q) : q \in signers}
    <2>1. Called(2) = signers
        BY <1>3, <1>5 DEF Called, Turn
    <2>2. mail[2] = {Marshal(Sign2(c, n, q)) : q \in signers}
        BY <2>1 DEF Running
    <2>3. {Unmarshal(m) : m \in mail[2]} = {Sign2(c, n, q) : q \in signers}
        BY <1>2, <2>2
    <2>4. QED
        BY <1>5, <2>3
<1>6. QED
    BY <1>4, <1>5

\* What one step of ProcessAll does to the command.
Effect(p, step) ==
    /\ round' = [round EXCEPT ![p] = step.round]
    /\ past' = [past EXCEPT ![p] = step.past]
    /\ mail' = IF step.msg = None THEN mail
               ELSE [mail EXCEPT ![calls[p] + 1] = @ \cup {Marshal(step.msg)}]
    /\ IF step.round.err = None THEN UNCHANGED <<command, failure>>
       ELSE Stop("failed", [by |-> p, culprit |-> step.round.err.culprit,
                            round |-> step.round.err.round])

\* A signer draws its nonces and sends its commitments.
Draws(c, m, p, r) ==
    /\ Has(r, Round1(c, m, p))
    /\ round' = [round EXCEPT ![p] = r] /\ past' = [past EXCEPT ![p] = r]
    /\ mail' = [mail EXCEPT ![1] = @ \cup {Marshal(Sign1(c, m, p))}]
    /\ UNCHANGED <<command, failure>>

\* The first pass of a signer.
LEMMA PassOne ==
    ASSUME NEW c, IsCtxOf(c), NEW n, Running(c, n), NEW p \in signers, PartyRoutine(p),
           calls[p] = 0
    PROVE  \E x \in Nonces : \E r : Draws(c, [n EXCEPT ![p] = x], p, r)
<1>1. IsCtx(c) /\ signers = c.S /\ IsNonces(n, c)
    BY DEF IsCtxOf, Running
<1>2. Has(round[p], Round0(c, p))
    BY DEF Running, At
<1>3. PICK step \in ProcessAll(HandleMessages(round[p], p, {}), p) : Effect(p, step)
    <2> DEFINE all == IF calls[p] = 0 THEN {} ELSE {Unmarshal(m) : m \in mail[calls[p]]}
    <2>1. \/ \E m \in all : Refuses(round[p], p, m)
          \/ \E step \in ProcessAll(HandleMessages(round[p], p, all), p) : Effect(p, step)
        BY Zenon DEF PartyRoutine, Effect
    <2>2. all = {}
        OBVIOUS
    <2> HIDE DEF all
    <2>3. QED
        BY <2>1, <2>2
<1>4. PICK x \in Nonces : Commits(c, [n EXCEPT ![p] = x], p, step)
    BY <1>1, <1>2, Pass0
<1> DEFINE m == [n EXCEPT ![p] = x]
<1>5. IsNonces(m, c)
    <2>1. x \in Scalar \X Scalar
        BY FrostAssumption
    <2>2. QED
        BY <1>1, <2>1 DEF IsNonces
<1>6. Sign1(c, m, p) # None
    <2>1. Hiding(c, m) \in [c.S -> Element] /\ Binding(c, m) \in [c.S -> Element]
          /\ c.S \subseteq IDs
        BY <1>1, <1>5, NumbersOK
    <2>2. Sign1(c, m, p) \in [type : {1}, from : IDs, Di : Element, Ei : Element]
        BY <1>1, <2>1 DEF Sign1
    <2>3. QED
        BY <2>2, NilAssumption
<1> HIDE DEF m
<1>7. step.round = step.past /\ Has(step.past, Round1(c, m, p)) /\ step.msg = Sign1(c, m, p)
    BY <1>4 DEF m, Commits
<1>8. step.round.err = None
    BY <1>7 DEF Has, Round1
<1>9. /\ round' = [round EXCEPT ![p] = step.past] /\ past' = [past EXCEPT ![p] = step.past]
      /\ mail' = [mail EXCEPT ![1] = @ \cup {Marshal(Sign1(c, m, p))}]
      /\ UNCHANGED <<command, failure>>
    BY <1>3, <1>6, <1>7, <1>8 DEF Effect
<1>10. Draws(c, m, p, step.past)
    BY <1>7, <1>9 DEF Draws
<1>11. QED
    BY <1>10 DEF m

\* The second pass of a signer.
LEMMA PassTwo ==
    ASSUME NEW c, IsCtxOf(c), NEW n, Running(c, n), NEW p \in signers, PartyRoutine(p),
           calls[p] = 1
    PROVE  /\ \A q \in signers : n[q] \in Nonces
           /\ \E r :
                 /\ Has(r, Round2(c, n, p))
                 /\ round' = [round EXCEPT ![p] = r] /\ past' = [past EXCEPT ![p] = r]
                 /\ mail' = [mail EXCEPT ![2] = @ \cup {Marshal(Sign2(c, n, p))}]
                 /\ UNCHANGED <<command, failure>>
<1> DEFINE msgs == {Unmarshal(m) : m \in mail[calls[p]]}
<1>1. IsCtx(c) /\ signers = c.S /\ IsNonces(n, c) /\ c.held \in [c.S -> Scalar]
    BY DEF IsCtxOf, Running, IsCtx
<1>2. Has(round[p], Round1(c, n, p))
    BY DEF Running, At
<1>3. msgs = {Sign1(c, n, q) : q \in signers} /\ \A q \in signers : n[q] \in Nonces
    BY MailRead DEF PartyRoutine
<1>4. \/ \E m \in msgs : Refuses(round[p], p, m)
      \/ \E step \in ProcessAll(HandleMessages(round[p], p, msgs), p) : Effect(p, step)
    <2> DEFINE all == IF calls[p] = 0 THEN {} ELSE msgs
    <2>1. \/ \E m \in all : Refuses(round[p], p, m)
          \/ \E step \in ProcessAll(HandleMessages(round[p], p, all), p) : Effect(p, step)
        BY Zenon DEF PartyRoutine, Effect
    <2>2. all = msgs
        OBVIOUS
    <2> HIDE DEF all
    <2>3. QED
        BY <2>1, <2>2
<1> HIDE DEF msgs
<1>5. /\ \A m \in msgs : ~ Refuses(round[p], p, m)
      /\ \A step \in ProcessAll(HandleMessages(round[p], p, msgs), p) :
            /\ step.round = step.past
            /\ Has(step.past, Round2(c, n, p))
            /\ step.msg = Sign2(c, n, p)
    <2>1. AllDrawn(n) /\ AllSign1(c, n, msgs)
        BY <1>3 DEF AllDrawn, AllSign1
    <2>2. QED
        BY <1>1, <1>2, <2>1, Pass1
<1>6. PICK step \in ProcessAll(HandleMessages(round[p], p, msgs), p) : Effect(p, step)
    BY <1>4, <1>5
<1>7. step.round = step.past /\ Has(step.past, Round2(c, n, p)) /\ step.msg = Sign2(c, n, p)
    BY <1>5
<1>8. Sign2(c, n, p) # None
    <2>1. SharesFrom(c, n, c.held) \in [c.S -> Scalar] /\ c.S \subseteq IDs
        BY <1>1, SharesOK, NumbersOK
    <2>2. Sign2(c, n, p) \in [type : {2}, from : IDs, Zi : Scalar]
        BY <1>1, <2>1 DEF Sign2
    <2>3. QED
        BY <2>2, NilAssumption
<1>9. step.round.err = None
    BY <1>7 DEF Has, Round2
<1>10. /\ round' = [round EXCEPT ![p] = step.past] /\ past' = [past EXCEPT ![p] = step.past]
       /\ mail' = [mail EXCEPT ![2] = @ \cup {Marshal(Sign2(c, n, p))}]
       /\ UNCHANGED <<command, failure>>
    BY <1>6, <1>7, <1>8, <1>9 DEF Effect
<1>11. QED
    BY <1>3, <1>7, <1>10

\* The last pass of a signer that fails.
Fails(c, n, p, q) ==
    \E step : /\ Aborts(c, n, step, q)
              /\ round' = [round EXCEPT ![p] = step.round]
              /\ past' = [past EXCEPT ![p] = step.past]
              /\ mail' = mail /\ command' = "failed"
              /\ failure' = [by |-> p, culprit |-> q, round |-> 2]

\* The last pass of a signer.
LEMMA PassThree ==
    ASSUME NEW c, IsCtxOf(c), NEW n, Running(c, n), NEW p \in signers, PartyRoutine(p),
           calls[p] = 2
    PROVE  \/ \E q \in signers \ {p} : Wrong(c, n, q) /\ Fails(c, n, p, q)
           \/ /\ \A q \in signers \ {p} : ~ Wrong(c, n, q)
              /\ ~ Verifies(c, n) /\ Fails(c, n, p, 0)
           \/ /\ Verifies(c, n)
              /\ \E r : /\ Has(r, Round3(c, n, p))
                        /\ round' = [round EXCEPT ![p] = Reset(r)]
                        /\ past' = [past EXCEPT ![p] = r]
                        /\ UNCHANGED <<mail, command, failure>>
<1> DEFINE msgs == {Unmarshal(m) : m \in mail[calls[p]]}
<1>1. IsCtx(c) /\ signers = c.S /\ IsNonces(n, c)
    BY DEF IsCtxOf, Running
<1>2. Has(round[p], Round2(c, n, p))
    BY DEF Running, At
<1>3. msgs = {Sign2(c, n, q) : q \in signers}
    BY MailRead DEF PartyRoutine
<1>4. \/ \E m \in msgs : Refuses(round[p], p, m)
      \/ \E step \in ProcessAll(HandleMessages(round[p], p, msgs), p) : Effect(p, step)
    <2> DEFINE all == IF calls[p] = 0 THEN {} ELSE msgs
    <2>1. \/ \E m \in all : Refuses(round[p], p, m)
          \/ \E step \in ProcessAll(HandleMessages(round[p], p, all), p) : Effect(p, step)
        BY Zenon DEF PartyRoutine, Effect
    <2>2. all = msgs
        OBVIOUS
    <2> HIDE DEF all
    <2>3. QED
        BY <2>1, <2>2
<1> HIDE DEF msgs
<1>5. /\ \A m \in msgs : ~ Refuses(round[p], p, m)
      /\ \A step \in ProcessAll(HandleMessages(round[p], p, msgs), p) :
            \/ \E q \in signers \ {p} : Wrong(c, n, q) /\ Aborts(c, n, step, q)
            \/ /\ \A q \in signers \ {p} : ~ Wrong(c, n, q)
               /\ ~ Verifies(c, n) /\ Aborts(c, n, step, 0)
            \/ /\ Verifies(c, n) /\ Has(step.past, Round3(c, n, p))
               /\ step.round = Reset(step.past) /\ step.msg = None
    <2>1. AllSign2(c, n, msgs)
        BY <1>3 DEF AllSign2
    <2>2. QED
        BY <1>1, <1>2, <2>1, Pass2
<1>6. PICK step \in ProcessAll(HandleMessages(round[p], p, msgs), p) : Effect(p, step)
    BY <1>4, <1>5
<1>7. \/ \E q \in signers \ {p} : Wrong(c, n, q) /\ Aborts(c, n, step, q)
      \/ /\ \A q \in signers \ {p} : ~ Wrong(c, n, q)
         /\ ~ Verifies(c, n) /\ Aborts(c, n, step, 0)
      \/ /\ Verifies(c, n) /\ Has(step.past, Round3(c, n, p))
         /\ step.round = Reset(step.past) /\ step.msg = None
    BY <1>5
<1>8. ASSUME NEW q \in Scalar, Aborts(c, n, step, q) PROVE Fails(c, n, p, q)
    <2>1. step.msg = None /\ step.round.err = [culprit |-> q, round |-> 2]
        BY <1>8 DEF Aborts
    <2>2. step.round.err \in [culprit : Scalar, round : 0 .. 2]
        BY <2>1
    <2>3. step.round.err # None /\ step.round.err.culprit = q /\ step.round.err.round = 2
        BY <2>1, <2>2, NilAssumption
    <2>4. QED
        BY <1>6, <1>8, <2>1, <2>3 DEF Effect, Stop, Fails
<1>9. ASSUME Has(step.past, Round3(c, n, p)), step.round = Reset(step.past), step.msg = None
      PROVE  /\ round' = [round EXCEPT ![p] = Reset(step.past)]
             /\ past' = [past EXCEPT ![p] = step.past]
             /\ UNCHANGED <<mail, command, failure>>
    <2>1. DOMAIN step.past = RoundFields /\ step.past.err = None
        BY <1>9 DEF Has, Round3
    <2>2. step.round.err = None
        BY <1>9, <2>1, ResetOK
    <2>3. QED
        BY <1>6, <1>9, <2>2 DEF Effect
<1>10. signers \subseteq Scalar /\ 0 \in Scalar
    BY <1>1, NumbersOK, QNat DEF IsIDs
<1>11. QED
    BY <1>7, <1>8, <1>9, <1>10

-----------------------------------------------------------------------------
(* The keys *)

\* Only those who follow the code have outputs.
OnlyHonest == \A p \in Participants \ Honest : output[p] = None

\* The coordinator follows the code.
Led == coord.honest

KeyGenInv == DKGInv /\ BlameInv /\ WellFormed /\ Agreement /\ OnlyHonest /\ Led

\* Key generation goes on as in ChillDKG, whatever is signed.
LEMMA RunsDKG == KSpec => Spec
<1>1. KInit => Init
    BY DEF KInit
<1>2. [KNext]_kvars => [Next]_vars
    BY DEF KNext, kvars, Keygen, Deal
<1>3. QED
    BY <1>1, <1>2, PTL DEF KSpec, Spec

\* Outputs go to those who follow the code.
LEMMA OnlyHonestOutput == Spec => []OnlyHonest
<1>1. Init => OnlyHonest
    BY DEF Init, Nobody, OnlyHonest
<1>2. ASSUME OnlyHonest, DKGInv, [Next]_vars PROVE OnlyHonest'
    <2>1. CASE output' = output
        BY <1>2, <2>1 DEF OnlyHonest
    <2>2. ASSUME NEW p \in Honest, NEW o, output' = [output EXCEPT ![p] = o]
          PROVE  OnlyHonest'
        <3>1. IsMap(output)
            BY <1>2 DEF DKGInv, Maps
        <3>2. QED
            BY <1>2, <2>2, <3>1 DEF OnlyHonest, IsMap
    <2>3. ASSUME NEW p \in Honest, ParticipantStep1(p) \/ ParticipantStep2(p)
          PROVE  output' = output
        BY <2>3 DEF ParticipantStep1, ParticipantStep2, Fail
    <2>4. ASSUME NEW p \in Honest, ParticipantFinalize(p) \/ Crash(p) \/ Recover(p)
          PROVE  output' = output \/ \E o : output' = [output EXCEPT ![p] = o]
        BY <2>4 DEF ParticipantFinalize, Crash, Recover, Fail, FailAndGoOn
    <2>5. ASSUME \/ \E p \in Honest : FaultyCoordinatorStep1(p) \/ FaultyCoordinatorFinalize(p)
                 \/ CoordinatorStep1 \/ CoordinatorFinalize
                 \/ \E i \in Participants \ Honest : FaultyStep1(i) \/ FaultyStep2(i)
          PROVE  output' = output
        BY <2>5 DEF FaultyCoordinatorStep1, FaultyCoordinatorFinalize, CoordinatorStep1,
                    CoordinatorFinalize, FaultyStep1, FaultyStep2
    <2>6. CASE UNCHANGED vars
        BY <2>1, <2>6 DEF vars
    <2>7. QED
        BY <1>2, <2>1, <2>2, <2>3, <2>4, <2>5, <2>6 DEF Next
<1>3. QED
    BY <1>1, <1>2, DKGInvariant, PTL DEF Spec

\* The coordinator of cmd/keygen follows the code to the end.
LEMMA Coordinated == Spec => []Led
<1>1. Init => Led
    BY KeygenAssumption DEF Init, Led
<1>2. ASSUME Led, DKGInv, [Next]_vars PROVE Led'
    <2>1. CASE coord' = coord
        BY <1>2, <2>1 DEF Led
    <2>2. ASSUME CoordinatorStep1 \/ CoordinatorFinalize PROVE Led'
        BY <1>2, <2>2 DEF Led, CoordinatorStep1, CoordinatorFinalize, DKGInv, Maps
    <2>3. ASSUME NEW p \in Honest,
                 \/ ParticipantStep1(p) \/ ParticipantStep2(p) \/ ParticipantFinalize(p)
                 \/ Crash(p) \/ Recover(p)
                 \/ FaultyCoordinatorStep1(p) \/ FaultyCoordinatorFinalize(p)
          PROVE  coord' = coord
        BY <2>3 DEF ParticipantStep1, ParticipantStep2, ParticipantFinalize, Fail, FailAndGoOn,
                    Crash, Recover, FaultyCoordinatorStep1, FaultyCoordinatorFinalize
    <2>4. ASSUME NEW i \in Participants, FaultyStep1(i) \/ FaultyStep2(i)
          PROVE  coord' = coord
        BY <2>4 DEF FaultyStep1, FaultyStep2
    <2>5. CASE UNCHANGED vars
        BY <2>1, <2>5 DEF vars
    <2>6. QED
        BY <1>2, <2>1, <2>2, <2>3, <2>4, <2>5 DEF Next
<1>3. QED
    BY <1>1, <1>2, DKGInvariant, PTL DEF Spec

\* What is known of the key generation at any time.
LEMMA KeyGenInvariant == KSpec => []KeyGenInv
BY RunsDKG, DKGInvariant, DKGBlameInvariant, DKGWellFormed, DKGAgreement, OnlyHonestOutput,
   Coordinated, PTL DEF KeyGenInv

\* The outputs of a session are the shares of one key.
LEMMA KeygenKey ==
    ASSUME KeyGenInv, Keygen
    PROVE  IsKey(key', Needed')
<1> DEFINE t == params.Threshold
           e == recovery[0].eqInput
           shares == [id \in 1 .. N |-> output[0].PubShares[id - 1]]
           secrets == [id \in 1 .. N |-> output[id - 1].SecShare]
<1>1. /\ N <= 100 /\ t < N /\ \A p \in Participants : output[p] # None
      /\ key' = [public |-> NewPublic(shares, t), secrets |-> secrets, poly |-> None]
    BY DEF Keygen, KeygenArgs, maxN, OutputToFROST
<1>2. N \in Nat /\ t \in Nat
    <2>1. params \in Sessions
        BY DEF KeyGenInv, DKGInv, Maps, Sessions
    <2>2. QED
        BY <2>1, ChillAssumption DEF Sessions
<1>3. 0 \in Participants /\ \A id \in 1 .. N : id - 1 \in Participants /\ (id - 1) + 1 = id
    BY <1>1, <1>2 DEF Participants
<1>4. \A p \in Participants : p \in Honest
    BY <1>1 DEF KeyGenInv, OnlyHonest
<1>5. /\ ParamsValidate /\ EqOK(e) /\ output[0] = DKGOutput(e.sumComs, ShareIn(e, 0))
    BY <1>1, <1>3, <1>4, OutputMade DEF KeyGenInv
<1>6. \A p \in Participants : /\ output[p] \in DKGOutputs
                              /\ ScalarBaseMult(output[p].SecShare) = output[p].PubShares[p]
    BY <1>1, <1>4, OutputMade DEF KeyGenInv
<1>7. \A p \in Participants : output[p].PubShares = output[0].PubShares
    BY <1>1, <1>3, <1>4 DEF KeyGenInv, Agreement
<1>8. IsExponent(e.sumComs, t) /\ t >= 1
    <2>1. 0 \in Honest /\ Valid(pmsgs2, recovery[0])
        BY <1>1, <1>3, <1>4 DEF KeyGenInv, DKGInv, Finalised
    <2>2. Complete(e)
        BY <2>1, HonestComplete DEF KeyGenInv, Led
    <2>3. QED
        BY <1>2, <1>5, <2>2 DEF EqOK, IsCommitment, Complete, ParamsValidate
<1>9. ASSUME NEW id \in 1 .. N
      PROVE  /\ shares[id] = EvaluateExponent(e.sumComs, id)
             /\ shares[id] = ScalarBaseMult(secrets[id]) /\ secrets[id] \in Scalar
    <2>1. id - 1 \in Participants /\ (id - 1) + 1 = id
        BY <1>3
    <2>2. shares[id] = EvaluateExponent(e.sumComs, id)
        BY <1>5, <2>1 DEF DKGOutput, pubshare
    <2>3. shares[id] = output[0].PubShares[id - 1] /\ secrets[id] = output[id - 1].SecShare
        OBVIOUS
    <2>4. output[id - 1] \in DKGOutputs
          /\ ScalarBaseMult(output[id - 1].SecShare) = output[id - 1].PubShares[id - 1]
          /\ output[id - 1].PubShares = output[0].PubShares
        BY <1>6, <1>7, <2>1
    <2>5. output[id - 1].SecShare \in Scalar
        BY <2>4 DEF DKGOutputs
    <2>6. QED
        BY <2>2, <2>3, <2>4, <2>5
<1>10. DOMAIN shares = 1 .. N /\ secrets \in [1 .. N -> Scalar]
    BY <1>9
<1> HIDE DEF shares, secrets, e, t
<1>11. PICK a \in Scalar : e.sumComs[1] = ScalarBaseMult(a)
    BY <1>2, <1>8 DEF IsExponent, Element
<1>12. ASSUME NEW S \in SUBSET IDs, Cardinality(S) >= t
       PROVE  computeGroupKey(S, shares) = ScalarBaseMult(a) /\ Interp(secrets, S) = a
    <2>1. IsIDs(S) /\ S \subseteq 1 .. N
        BY KeygenAssumption, IDsOK
    <2>2. \A i \in S : shares[i] = EvaluateExponent(e.sumComs, i)
        BY <1>9, <2>1
    <2>3. computeGroupKey(S, shares) = e.sumComs[1]
        BY <1>8, <1>12, <2>1, <2>2, PointsInterpolate
    <2>4. \A i \in S : secrets[i] \in Scalar
        BY <1>9, <2>1
    <2>5. \A i \in S : shares[i] = ScalarBaseMult(secrets[i])
        BY <1>9, <2>1
    <2>6. computeGroupKey(S, shares) = ScalarBaseMult(Interp(secrets, S))
        BY <2>1, <2>4, <2>5, GroupKeyInterp
    <2>7. Interp(secrets, S) \in Scalar
        BY <2>1, <2>4, InterpType
    <2>8. PICK i \in Scalar : i = Interp(secrets, S)
        BY <2>7
    <2>9. ScalarBaseMult(i) = ScalarBaseMult(a)
        BY <1>11, <2>3, <2>6, <2>8
    <2>10. i = a
        BY <2>9, GroupLaws
    <2>11. QED
        BY <1>11, <2>3, <2>8, <2>10
<1>13. (t + 1) % MaxSize = t + 1
    <2>1. MaxSize = 65536
        BY DEF MaxSize
    <2>2. t + 1 \in Nat /\ t + 1 < 65536
        BY <1>1, <1>2
    <2>3. QED
        BY <2>1, <2>2
<1>14. Cardinality(1 .. N) = N /\ IDs = 1 .. N
    BY IDsOK, KeygenAssumption
<1>15. NewPublic(shares, t) = [Threshold |-> t, Shares |-> shares,
                               GroupKey |-> computeGroupKey(1 .. N, shares)]
    BY <1>1, <1>2, <1>10, <1>13, <1>14 DEF NewPublic
<1>16. /\ key'.secrets = secrets /\ key'.public.Shares = shares /\ key'.poly = None
       /\ key'.public.Threshold = t /\ key'.public.GroupKey = computeGroupKey(1 .. N, shares)
    BY <1>1, <1>15
<1>17. Needed' = t
    BY <1>2, <1>16 DEF Needed
<1>18. computeGroupKey(1 .. N, shares) = ScalarBaseMult(a)
    BY <1>1, <1>2, <1>12, <1>14
<1>19. QED
    BY <1>2, <1>9, <1>10, <1>12, <1>14, <1>16, <1>17, <1>18 DEF IsKey

\* A polynomial with the given constant term.
LEMMA NewPolynomialOK ==
    ASSUME NEW t \in Nat, NEW secret \in Scalar, NEW randoms \in [1 .. t -> Scalar]
    PROVE  IsPoly(NewPolynomial(secret, randoms), t + 1)
<1> DEFINE poly == NewPolynomial(secret, randoms)
<1>1. randoms \in Seq(Scalar) /\ Len(randoms) = t
    OBVIOUS
<1>2. <<secret>> \in Seq(Scalar) /\ Len(<<secret>>) = 1
    OBVIOUS
<1>3. poly \in Seq(Scalar) /\ Len(poly) = 1 + t
    BY <1>1, <1>2 DEF NewPolynomial
<1> HIDE DEF poly
<1>4. poly \in [1 .. Len(poly) -> Scalar]
    BY <1>3
<1>5. Len(poly) = t + 1
    BY <1>3
<1>6. QED
    BY <1>4, <1>5 DEF IsPoly, poly

\* A dealer makes shares of one key.
LEMMA DealKey ==
    ASSUME KeyGenInv, Deal
    PROVE  IsKey(key', Needed')
<1> DEFINE t == params.Threshold
<1>1. N \in Nat /\ t \in Nat /\ t < N /\ N < Q
    <2>1. params \in Sessions
        BY DEF KeyGenInv, DKGInv, Maps, Sessions
    <2>2. QED
        BY <2>1, ChillAssumption DEF Sessions, Deal
<1>2. PICK secret \in Coefficients, randoms \in [1 .. t -> Coefficients] :
         LET poly    == NewPolynomial(secret, randoms)
             secrets == GenerateSecrets(1 .. N, poly)
         IN  key' = [public  |-> GeneratePublic(t, secrets),
                     secrets |-> secrets, poly |-> poly]
    BY DEF Deal
<1> DEFINE poly == NewPolynomial(secret, randoms)
           secrets == GenerateSecrets(1 .. N, poly)
           shares == [id \in DOMAIN secrets |-> ScalarBaseMult(secrets[id])]
<1>3. IsPoly(poly, t + 1)
    <2>1. secret \in Scalar /\ randoms \in [1 .. t -> Scalar]
        BY KeygenAssumption
    <2>2. QED
        BY <1>1, <2>1, NewPolynomialOK
<1>4. key'.secrets = secrets /\ key'.poly = poly /\ key'.public = NewPublic(shares, t)
    BY <1>2 DEF GeneratePublic
<1> HIDE DEF poly
<1>5. DOMAIN secrets = 1 .. N /\ DOMAIN shares = 1 .. N
    BY DEF GenerateSecrets
<1>6. ASSUME NEW id \in 1 .. N
      PROVE  /\ secrets[id] = Evaluate(poly, id) /\ secrets[id] \in Scalar
             /\ shares[id] = ScalarBaseMult(secrets[id])
    <2>1. id \in Scalar /\ id # 0
        BY <1>1, QNat
    <2>2. secrets[id] = Evaluate(poly, id)
        BY <2>1 DEF GenerateSecrets, polyEvaluate, Guarded
    <2>3. Evaluate(poly, id) \in Scalar
        BY <1>3, <2>1, EvaluateType
    <2>4. QED
        BY <1>5, <2>2, <2>3
<1>7. secrets \in [1 .. N -> Scalar]
    BY <1>6 DEF GenerateSecrets
<1> HIDE DEF secrets, shares
<1>8. poly \in [1 .. t + 1 -> Scalar] /\ poly[1] \in Scalar /\ poly # None
    <2>1. poly \in [1 .. t + 1 -> Scalar] /\ 1 \in 1 .. t + 1
        BY <1>1, <1>3 DEF IsPoly
    <2>2. t + 1 \in Scalar
        BY <1>1, QNat
    <2>3. QED
        BY <2>1, <2>2, NilAssumption
<1>9. ASSUME NEW S \in SUBSET IDs, Cardinality(S) >= t + 1
      PROVE  Interp(secrets, S) = poly[1]
    <2>1. IsIDs(S) /\ S \subseteq 1 .. N
        BY KeygenAssumption, IDsOK
    <2>2. \A i \in S : secrets[i] = Evaluate(poly, i)
        BY <1>6, <2>1
    <2>3. t + 1 >= 1
        BY <1>1
    <2>4. QED
        BY <1>3, <1>9, <2>1, <2>2, <2>3, Interpolate
<1>10. Cardinality(1 .. N) = N /\ IDs = 1 .. N /\ IsIDs(1 .. N)
    BY IDsOK, KeygenAssumption
<1>11. ~ (t + 1) % MaxSize > N
    <2>1. MaxSize = 65536
        BY DEF MaxSize
    <2>2. (t + 1) % 65536 <= t + 1
        BY <1>1
    <2>3. (t + 1) % 65536 \in Int
        BY <1>1
    <2>4. QED
        BY <1>1, <2>1, <2>2, <2>3
<1>12. NewPublic(shares, t) = [Threshold |-> t, Shares |-> shares,
                               GroupKey |-> computeGroupKey(1 .. N, shares)]
    BY <1>5, <1>10, <1>11 DEF NewPublic
<1>13. /\ key'.public.Shares = shares /\ key'.public.Threshold = t
       /\ key'.public.GroupKey = computeGroupKey(1 .. N, shares)
    BY <1>4, <1>12
<1>14. Needed' = t + 1
    BY <1>4, <1>8, <1>13 DEF Needed
<1>15. computeGroupKey(1 .. N, shares) = ScalarBaseMult(poly[1])
    <2>1. \A i \in 1 .. N : secrets[i] \in Scalar
        BY <1>6
    <2>2. \A i \in 1 .. N : shares[i] = ScalarBaseMult(secrets[i])
        BY <1>6
    <2>3. computeGroupKey(1 .. N, shares) = ScalarBaseMult(Interp(secrets, 1 .. N))
        BY <1>10, <2>1, <2>2, GroupKeyInterp
    <2>4. N >= t + 1
        BY <1>1
    <2>5. QED
        BY <1>9, <1>10, <2>3, <2>4
<1>16. shares = [id \in IDs |-> ScalarBaseMult(Evaluate(poly, id))]
    <2>1. shares = [id \in 1 .. N |-> shares[id]]
        BY <1>5 DEF shares
    <2>2. QED
        BY <1>6, <1>10, <2>1
<1>17. t + 1 \in 1 .. N /\ t + 1 \in Nat
    BY <1>1
<1>18. QED
    BY <1>3, <1>4, <1>6, <1>7, <1>8, <1>9, <1>10, <1>13, <1>14, <1>15, <1>16, <1>17
    DEF IsKey

-----------------------------------------------------------------------------
(* The invariant is inductive *)

\* At the beginning there is no key.
LEMMA SignInit == KInit => SignInv
BY DEF KInit, FInit, SignInv, Fresh

\* Steps that leave the signing alone.
LEMMA SignStutter ==
    ASSUME SignInv, UNCHANGED fvars
    PROVE  SignInv'
<1>1. /\ key' = key /\ signers' = signers /\ offset' = offset /\ round' = round
      /\ past' = past /\ mail' = mail /\ calls' = calls /\ command' = command
      /\ failure' = failure
    BY DEF fvars
<1>2. Ctx' = Ctx /\ Needed' = Needed
    BY <1>1 DEF Ctx, Held, Needed
<1>3. \A c, n : Running(c, n) => Running(c, n)'
    BY <1>1 DEF Running, At, Called
<1>4. StaleShareNamed' <=> StaleShareNamed
    BY <1>1, <1>2 DEF StaleShareNamed
<1>5. (Fresh' <=> Fresh) /\ (Chosen' <=> Chosen)
    BY <1>1 DEF Fresh, Chosen
<1>6. QED
    BY <1>1, <1>2, <1>3, <1>4, <1>5 DEF SignInv

\* A key is made before anything is signed.
LEMMA SignKey ==
    ASSUME SignInv, KeyGenInv, Keygen \/ Deal
    PROVE  SignInv'
<1>1. key = None /\ UNCHANGED <<signers, offset, round, past, mail, calls, command, failure>>
    BY DEF Keygen, Deal
<1>2. command = "idle"
    BY <1>1 DEF SignInv, Chosen
<1>3. IsKey(key', Needed')
    BY KeygenKey, DealKey
<1>4. QED
    BY <1>1, <1>2, <1>3 DEF SignInv, Fresh

\* The key is read.
LEMMA SignRead ==
    ASSUME SignInv, ReadKeys
    PROVE  SignInv'
<1>1. /\ command = "idle" /\ key # None /\ signers' \in Groups /\ offset' \in Offsets
      /\ command' \in {"loaded", "failed"} /\ failure' = None
      /\ key' = key /\ round' = round /\ past' = past /\ mail' = mail
    BY DEF ReadKeys, Stop
<1>2. Needed' = Needed
    BY <1>1 DEF Needed
<1>3. StaleShareNamed'
    BY <1>1 DEF StaleShareNamed
<1>4. QED
    BY <1>1, <1>2, <1>3 DEF SignInv, Fresh, Chosen

\* The states are made.
LEMMA SignNew ==
    ASSUME SignInv, NewStates
    PROVE  SignInv'
<1>1. /\ command = "loaded" /\ command' = "signing"
      /\ round' = [p \in signers |-> NewRound(p, Held(p))] /\ past' = round'
      /\ calls' = [p \in signers |-> 0]
      /\ key' = key /\ signers' = signers /\ offset' = offset /\ mail' = mail
      /\ failure' = failure
    BY DEF NewStates
<1>2. Chosen /\ Fresh /\ (key # None => IsKey(key, Needed))
    BY <1>1 DEF SignInv
<1>3. Ctx' = Ctx /\ Needed' = Needed /\ Chosen'
    BY <1>1, <1>2 DEF Ctx, Held, Needed, Chosen
<1>4. IsCtxOf(Ctx)
    BY <1>2, CtxOK
<1>5. PICK c : c = Ctx
    OBVIOUS
<1>6. PICK n : IsNonces(n, c)
    <2>1. [p \in c.S |-> <<0, 0>>] \in [c.S -> Scalar \X Scalar]
        BY QNat
    <2>2. QED
        BY <2>1 DEF IsNonces
<1>7. \A p \in signers : Has(NewRound(p, Held(p)), Round0(c, p))
    BY <1>4, <1>5, Pass0Start
<1>8. \A p \in signers : /\ calls'[p] = 0 /\ past'[p] = NewRound(p, Held(p))
                         /\ round'[p] = past'[p]
    BY <1>1
<1>9. \A p \in signers : At(c, n, p)'
    BY <1>7, <1>8 DEF At
<1>10. Called(1)' = {} /\ Called(2)' = {}
    BY <1>1, <1>8 DEF Called
<1>11. Running(c, n)'
    <2>1. DOMAIN round' = signers' /\ DOMAIN past' = signers' /\ calls' \in [signers' -> 0 .. 3]
        BY <1>1
    <2>2. \A p, q \in signers' : calls'[p] <= calls'[q] + 1
        BY <1>1, <1>8
    <2>3. mail' = <<{}, {}>>
        BY <1>1, <1>2 DEF Fresh
    <2>4. /\ {Marshal(Sign1(c, n, q)) : q \in Called(1)'} = {}
          /\ {Marshal(Sign2(c, n, q)) : q \in Called(2)'} = {}
        BY <1>10
    <2>5. QED
        BY <1>1, <1>6, <1>9, <2>1, <2>2, <2>3, <2>4 DEF Running
<1>12. failure' = None
    BY <1>1, <1>2 DEF Fresh
<1>13. QED
    BY <1>1, <1>2, <1>3, <1>5, <1>11, <1>12 DEF SignInv

\* The command ends.
LEMMA SignConclude ==
    ASSUME SignInv, Conclude
    PROVE  SignInv'
<1>1. /\ command = "signing" /\ command' \in {"failed", "success"} /\ failure' = None
      /\ key' = key /\ signers' = signers /\ offset' = offset /\ round' = round
      /\ past' = past /\ mail' = mail /\ calls' = calls
    BY DEF Conclude, Stop
<1>2. Ctx' = Ctx /\ Needed' = Needed /\ (Chosen' <=> Chosen)
    BY <1>1 DEF Ctx, Held, Needed, Chosen
<1>3. \A c, n : Running(c, n) => Running(c, n)'
    BY <1>1 DEF Running, At, Called
<1>4. StaleShareNamed'
    BY <1>1 DEF StaleShareNamed
<1>5. QED
    BY <1>1, <1>2, <1>3, <1>4 DEF SignInv

\* Only a share that is off makes a wrong signature share.
LEMMA WrongShare ==
    ASSUME NEW c, IsCtxOf(c), Chosen, NEW n, NEW q \in signers, Wrong(c, n, q)
    PROVE  offset[q] # 0
<1>1. SUFFICES ASSUME offset[q] = 0 PROVE FALSE
    OBVIOUS
<1>2. signers = c.S /\ c.right[q] = key.secrets[q] /\ c.held[q] = Held(q)
      /\ c.right[q] \in Scalar
    BY DEF IsCtxOf, IsCtx
<1>3. key.secrets[q] + 0 = key.secrets[q] /\ key.secrets[q] % Q = key.secrets[q]
    BY <1>2, ModScalar
<1>4. Held(q) = key.secrets[q]
    BY <1>1, <1>3 DEF Held
<1>5. Terms(c.held, c.S)[q] = Terms(c.right, c.S)[q]
    BY <1>2, <1>4 DEF Terms
<1>6. SharesFrom(c, n, c.held)[q] = SharesFrom(c, n, c.right)[q]
    BY <1>2, <1>5 DEF SharesFrom
<1>7. QED
    BY <1>6 DEF Wrong

\* What shares of the key interpolate to.
LEMMA RightInterp ==
    ASSUME NEW c, IsCtxOf(c), Chosen, IsKey(key, Needed)
    PROVE  \E a \in Scalar : /\ c.GroupKey = ScalarBaseMult(a)
                             /\ Cardinality(signers) >= Needed => Interp(c.right, c.S) = a
<1>1. signers = c.S /\ c.GroupKey = key.public.GroupKey
      /\ \A q \in c.S : c.right[q] = key.secrets[q]
    BY DEF IsCtxOf
<1>2. PICK a \in Scalar :
         /\ key.public.GroupKey = ScalarBaseMult(a)
         /\ \A S \in SUBSET IDs : Cardinality(S) >= Needed => Interp(key.secrets, S) = a
    BY DEF IsKey
<1>3. signers \in SUBSET IDs
    BY FrostAssumption DEF Chosen
<1>4. Terms(c.right, c.S) = Terms(key.secrets, c.S)
    BY <1>1 DEF Terms
<1>5. Interp(c.right, c.S) = Interp(key.secrets, signers)
    BY <1>1, <1>4 DEF Interp
<1>6. QED
    BY <1>1, <1>2, <1>3, <1>5

\* If all shares are right and enough, the signature is one of the group key.
LEMMA RightVerifies ==
    ASSUME NEW c, IsCtxOf(c), Chosen, IsKey(key, Needed), NEW n, IsNonces(n, c),
           Cardinality(signers) >= Needed
    PROVE  VarTimeDoubleScalarBaseMult(Challenge(c, n), Negate(c.GroupKey),
                                       SumScalars(SharesFrom(c, n, c.right)))
              = NoncePoint(c, n)
<1>1. IsCtx(c) /\ c.right \in [c.S -> Scalar]
    BY DEF IsCtxOf, IsCtx
<1>2. PICK a \in Scalar : c.GroupKey = ScalarBaseMult(a) /\ Interp(c.right, c.S) = a
    BY RightInterp
<1>3. SumScalars(SharesFrom(c, n, c.right)) \in Scalar
      /\ SumScalars(SharesFrom(c, n, c.right))
           = Lin(1, Challenge(c, n), NonceSum(c, n), Interp(c.right, c.S))
    BY <1>1, SharesOK
<1>4. PICK s \in Scalar : s = SumScalars(SharesFrom(c, n, c.right))
    BY <1>3
<1>5. s = Lin(1, Challenge(c, n), NonceSum(c, n), a)
    BY <1>2, <1>3, <1>4
<1>6. QED
    BY <1>1, <1>2, <1>4, <1>5, VerifiesIff

\* If the shares of all others are right and the signature is none, the own
\* share is off, or the signers are too few.
LEMMA NobodyNamed ==
    ASSUME NEW c, IsCtxOf(c), Chosen, IsKey(key, Needed), NEW n, IsNonces(n, c),
           NEW p \in signers, \A q \in signers \ {p} : ~ Wrong(c, n, q), ~ Verifies(c, n)
    PROVE  offset[p] # 0 \/ ~ (Cardinality(signers) >= Needed)
<1>1. SUFFICES ASSUME offset[p] = 0, Cardinality(signers) >= Needed PROVE FALSE
    OBVIOUS
<1>2. IsCtx(c) /\ signers = c.S /\ c.right \in [c.S -> Scalar] /\ c.held \in [c.S -> Scalar]
    BY DEF IsCtxOf, IsCtx
<1>3. \A q \in signers : ~ Wrong(c, n, q)
    BY <1>1, WrongShare
<1>4. SharesFrom(c, n, c.held) = SharesFrom(c, n, c.right)
    <2>1. SharesFrom(c, n, c.held) \in [c.S -> Scalar]
        BY <1>2, SharesOK
    <2>2. SharesFrom(c, n, c.right) \in [c.S -> Scalar]
        BY <1>2, SharesOK
    <2>3. \A q \in c.S : SharesFrom(c, n, c.held)[q] = SharesFrom(c, n, c.right)[q]
        BY <1>2, <1>3 DEF Wrong
    <2>4. QED
        BY <2>1, <2>2, <2>3
<1>5. SignatureOf(c, n).S = SumScalars(SharesFrom(c, n, c.right))
    BY <1>4 DEF SignatureOf
<1>6. QED
    BY <1>1, <1>5, RightVerifies DEF Verifies

\* What the passes have in common: the counters stay in lock step.
LEMMA LockStep ==
    ASSUME NEW c, NEW n, Running(c, n), NEW p \in signers, PartyRoutine(p)
    PROVE  /\ calls[p] \in {0, 1, 2}
           /\ \A q \in signers : calls[q] \in {calls[p], calls[p] + 1}
           /\ calls' \in [signers -> 0 .. 3] /\ calls'[p] = calls[p] + 1
           /\ \A q \in signers \ {p} : calls'[q] = calls[q]
           /\ \A x, y \in signers : calls'[x] <= calls'[y] + 1
<1>1. calls \in [signers -> 0 .. 3] /\ \A x, y \in signers : calls[x] <= calls[y] + 1
    BY DEF Running
<1>2. calls' = [calls EXCEPT ![p] = @ + 1] /\ calls[p] < 3 /\ \A q \in signers : calls[q] >= calls[p]
    BY DEF PartyRoutine, Turn
<1>3. calls[p] \in 0 .. 3 /\ \A q \in signers : calls[q] \in 0 .. 3
    BY <1>1
<1>4. calls[p] \in {0, 1, 2}
    BY <1>2, <1>3
<1>5. \A q \in signers : calls[q] \in {calls[p], calls[p] + 1}
    <2>1. SUFFICES ASSUME NEW q \in signers PROVE calls[q] \in {calls[p], calls[p] + 1}
        OBVIOUS
    <2>2. calls[q] >= calls[p] /\ calls[q] <= calls[p] + 1 /\ calls[q] \in Int /\ calls[p] \in Int
        BY <1>1, <1>2, <1>3
    <2>3. QED
        BY <2>2
<1>6. calls'[p] = calls[p] + 1 /\ \A q \in signers \ {p} : calls'[q] = calls[q]
    BY <1>1, <1>2
<1>7. calls' \in [signers -> 0 .. 3]
    BY <1>1, <1>2, <1>4
<1>8. \A x, y \in signers : calls'[x] <= calls'[y] + 1
    <2>1. SUFFICES ASSUME NEW x \in signers, NEW y \in signers PROVE calls'[x] <= calls'[y] + 1
        OBVIOUS
    <2>2. calls[x] \in {calls[p], calls[p] + 1} /\ calls[y] \in {calls[p], calls[p] + 1}
          /\ calls[p] \in Int
        BY <1>3, <1>5
    <2>3. calls'[x] = (IF x = p THEN calls[p] + 1 ELSE calls[x])
          /\ calls'[y] = (IF y = p THEN calls[p] + 1 ELSE calls[y])
        BY <1>6
    <2>4. QED
        BY <2>2, <2>3
<1>9. QED
    BY <1>4, <1>5, <1>6, <1>7, <1>8

\* m is n with other nonces for p.
Redraws(c, n, m, p) == IsNonces(n, c) /\ \E x : m = [n EXCEPT ![p] = x]

\* The numbers of the others do not depend on the nonces of p.
LEMMA OthersSame ==
    ASSUME NEW c, NEW n, NEW m, NEW p, Redraws(c, n, m, p),
           NEW q \in c.S, q # p
    PROVE  /\ m[q] = n[q] /\ Hiding(c, m)[q] = Hiding(c, n)[q]
           /\ Binding(c, m)[q] = Binding(c, n)[q]
           /\ Sign1(c, m, q) = Sign1(c, n, q) /\ Round1(c, m, q) = Round1(c, n, q)
<1>1. m[q] = n[q]
    BY DEF IsNonces, Redraws
<1>2. Hiding(c, m)[q] = Hiding(c, n)[q] /\ Binding(c, m)[q] = Binding(c, n)[q]
    BY <1>1 DEF Hiding, Binding
<1>3. QED
    BY <1>1, <1>2 DEF Sign1, Round1

\* The situation in which PartyRoutine is called.
Calling(c, n, p) == SignInv /\ IsCtxOf(c) /\ Running(c, n) /\ PartyRoutine(p)

\* What a successful pass has to establish.
LEMMA SignGoesOn ==
    ASSUME NEW c, NEW n, NEW p \in signers, Calling(c, n, p), NEW m,
           UNCHANGED <<command, failure>>, Running(c, m)'
    PROVE  SignInv'
<1>1. key' = key /\ signers' = signers /\ offset' = offset /\ command = "signing"
    BY DEF Calling, PartyRoutine, Turn
<1>2. Ctx' = c /\ Needed' = Needed /\ (Chosen' <=> Chosen)
    BY <1>1 DEF Ctx, Held, Needed, Chosen, Calling, IsCtxOf
<1>3. QED
    BY <1>1, <1>2 DEF Calling, SignInv

\* The first pass preserves the invariant.
LEMMA SignFirst ==
    ASSUME NEW c, NEW n, NEW p \in signers, Calling(c, n, p), calls[p] = 0
    PROVE  SignInv'
<1>1. IsCtxOf(c) /\ Running(c, n) /\ PartyRoutine(p) /\ signers = c.S /\ IsNonces(n, c)
    BY DEF Calling, IsCtxOf, Running
<1>2. PICK x \in Nonces : \E r : Draws(c, [n EXCEPT ![p] = x], p, r)
    BY <1>1, PassOne
<1>3. PICK m : m = [n EXCEPT ![p] = x]
    OBVIOUS
<1>4. PICK r : Draws(c, m, p, r)
    BY <1>2, <1>3
<1>0. Redraws(c, n, m, p)
    BY <1>1, <1>3 DEF Redraws
<1>5. /\ calls' \in [signers -> 0 .. 3] /\ calls'[p] = 1
      /\ \A q \in signers \ {p} : calls'[q] = calls[q]
      /\ \A q \in signers : calls[q] \in {0, 1}
      /\ \A y, z \in signers : calls'[y] <= calls'[z] + 1
    BY <1>1, LockStep
<1>6. signers' = signers
    BY <1>1 DEF PartyRoutine
<1>7. IsNonces(m, c) /\ m[p] = x
    <2>1. x \in Scalar \X Scalar
        BY FrostAssumption
    <2>2. QED
        BY <1>1, <1>3, <2>1 DEF IsNonces
<1>8. /\ DOMAIN round = signers /\ DOMAIN past = signers
      /\ mail = <<{Marshal(Sign1(c, n, q)) : q \in Called(1)},
                  {Marshal(Sign2(c, n, q)) : q \in Called(2)}>>
    BY <1>1 DEF Running
<1>9. /\ DOMAIN round' = signers /\ DOMAIN past' = signers
      /\ round'[p] = r /\ past'[p] = r
      /\ \A q \in signers \ {p} : round'[q] = round[q] /\ past'[q] = past[q]
    BY <1>4, <1>8 DEF Draws
<1>10. ASSUME NEW q \in signers PROVE At(c, m, q)'
    <2>1. CASE q = p
        BY <1>4, <1>5, <1>7, <1>9, <2>1 DEF At, Draws
    <2>2. CASE q # p
        <3>1. At(c, n, q)
            BY <1>1 DEF Running
        <3>2. m[q] = n[q] /\ Round1(c, m, q) = Round1(c, n, q)
            BY <1>0, <1>1, <2>2, OthersSame
        <3>3. calls'[q] = calls[q] /\ calls[q] \in {0, 1}
              /\ round'[q] = round[q] /\ past'[q] = past[q]
            BY <1>5, <1>9, <2>2
        <3>4. QED
            BY <3>1, <3>2, <3>3 DEF At
    <2>3. QED
        BY <2>1, <2>2
<1>11. Called(1)' = Called(1) \cup {p} /\ p \notin Called(1) /\ Called(1) \subseteq signers
    <2>1. \A q \in signers : calls'[q] >= 1 <=> q = p \/ calls[q] >= 1
        BY <1>5
    <2>2. QED
        BY <1>6, <2>1 DEF Called
<1>12. Called(2)' = {} /\ Called(2) = {}
    BY <1>5, <1>6 DEF Called
<1>13. mail' = <<{Marshal(Sign1(c, m, q)) : q \in Called(1)'},
                 {Marshal(Sign2(c, m, q)) : q \in Called(2)'}>>
    <2>1. \A q \in Called(1) : Sign1(c, m, q) = Sign1(c, n, q)
        BY <1>0, <1>1, <1>11, OthersSame
    <2>2. mail[1] = {Marshal(Sign1(c, n, q)) : q \in Called(1)} /\ mail[2] = {}
        BY <1>8, <1>12
    <2>3. mail' = <<mail[1] \cup {Marshal(Sign1(c, m, p))}, mail[2]>>
        BY <1>4, <1>8 DEF Draws
    <2>4. mail[1] \cup {Marshal(Sign1(c, m, p))} = {Marshal(Sign1(c, m, q)) : q \in Called(1)'}
        BY <1>11, <2>1, <2>2
    <2>5. QED
        BY <1>12, <2>2, <2>3, <2>4
<1>14. Running(c, m)'
    BY <1>5, <1>6, <1>7, <1>9, <1>10, <1>13 DEF Running
<1>15. QED
    BY <1>4, <1>14, SignGoesOn DEF Draws

\* The second pass preserves the invariant.
LEMMA SignSecond ==
    ASSUME NEW c, NEW n, NEW p \in signers, Calling(c, n, p), calls[p] = 1
    PROVE  SignInv'
<1>1. IsCtxOf(c) /\ Running(c, n) /\ PartyRoutine(p) /\ signers = c.S /\ IsNonces(n, c)
    BY DEF Calling, IsCtxOf, Running
<1>2. \A q \in signers : n[q] \in Nonces
    BY <1>1, PassTwo
<1>3. PICK r : /\ Has(r, Round2(c, n, p))
               /\ round' = [round EXCEPT ![p] = r] /\ past' = [past EXCEPT ![p] = r]
               /\ mail' = [mail EXCEPT ![2] = @ \cup {Marshal(Sign2(c, n, p))}]
               /\ UNCHANGED <<command, failure>>
    BY <1>1, PassTwo
<1>4. /\ calls' \in [signers -> 0 .. 3] /\ calls'[p] = 2
      /\ \A q \in signers \ {p} : calls'[q] = calls[q]
      /\ \A q \in signers : calls[q] \in {1, 2}
      /\ \A y, z \in signers : calls'[y] <= calls'[z] + 1
    BY <1>1, LockStep
<1>5. signers' = signers
    BY <1>1 DEF PartyRoutine
<1>6. /\ DOMAIN round = signers /\ DOMAIN past = signers
      /\ mail = <<{Marshal(Sign1(c, n, q)) : q \in Called(1)},
                  {Marshal(Sign2(c, n, q)) : q \in Called(2)}>>
    BY <1>1 DEF Running
<1>7. /\ DOMAIN round' = signers /\ DOMAIN past' = signers
      /\ round'[p] = r /\ past'[p] = r
      /\ \A q \in signers \ {p} : round'[q] = round[q] /\ past'[q] = past[q]
    BY <1>3, <1>6
<1>8. ASSUME NEW q \in signers PROVE At(c, n, q)'
    <2>1. CASE q = p
        BY <1>2, <1>3, <1>4, <1>7, <2>1 DEF At
    <2>2. CASE q # p
        <3>1. At(c, n, q)
            BY <1>1 DEF Running
        <3>2. calls'[q] = calls[q] /\ round'[q] = round[q] /\ past'[q] = past[q]
            BY <1>4, <1>7, <2>2
        <3>3. QED
            BY <3>1, <3>2 DEF At
    <2>3. QED
        BY <2>1, <2>2
<1>9. Called(1)' = Called(1) /\ Called(2)' = Called(2) \cup {p}
    <2>1. \A q \in signers : /\ calls'[q] >= 1 /\ calls[q] >= 1
                             /\ calls'[q] >= 2 <=> q = p \/ calls[q] >= 2
        BY <1>4
    <2>2. QED
        BY <1>5, <2>1 DEF Called
<1>10. mail' = <<{Marshal(Sign1(c, n, q)) : q \in Called(1)'},
                 {Marshal(Sign2(c, n, q)) : q \in Called(2)'}>>
    <2>1. mail' = <<mail[1], mail[2] \cup {Marshal(Sign2(c, n, p))}>>
        BY <1>3, <1>6
    <2>2. mail[1] = {Marshal(Sign1(c, n, q)) : q \in Called(1)}
          /\ mail[2] = {Marshal(Sign2(c, n, q)) : q \in Called(2)}
        BY <1>6
    <2>3. mail[2] \cup {Marshal(Sign2(c, n, p))} = {Marshal(Sign2(c, n, q)) : q \in Called(2)'}
        BY <1>9, <2>2
    <2>4. QED
        BY <1>9, <2>1, <2>2, <2>3
<1>11. Running(c, n)'
    BY <1>1, <1>4, <1>5, <1>7, <1>8, <1>10 DEF Running
<1>12. QED
    BY <1>3, <1>11, SignGoesOn

\* A failing pass has to establish that the error is right.
LEMMA SignFails ==
    ASSUME NEW c, NEW n, NEW p \in signers, Calling(c, n, p), NEW q, Fails(c, n, p, q),
           IF q # 0 THEN q # p /\ offset[q] # 0
           ELSE offset[p] # 0 \/ Cardinality(signers) < Needed
    PROVE  SignInv'
<1>1. key' = key /\ signers' = signers /\ offset' = offset /\ command = "signing"
    BY DEF Calling, PartyRoutine, Turn
<1>2. Needed' = Needed /\ (Chosen' <=> Chosen) /\ Chosen /\ (key # None => IsKey(key, Needed))
    BY <1>1 DEF Needed, Chosen, Calling, SignInv
<1>3. command' = "failed" /\ failure' = [by |-> p, culprit |-> q, round |-> 2]
    BY DEF Fails
<1>4. failure'.by = p /\ failure'.culprit = q /\ failure'.round = 2
    BY <1>3
<1>5. StaleShareNamed'
    BY <1>1, <1>2, <1>4 DEF StaleShareNamed
<1>6. QED
    BY <1>1, <1>2, <1>3, <1>5 DEF SignInv

\* The third pass preserves the invariant.
LEMMA SignThird ==
    ASSUME NEW c, NEW n, NEW p \in signers, Calling(c, n, p), calls[p] = 2
    PROVE  SignInv'
<1>1. IsCtxOf(c) /\ Running(c, n) /\ PartyRoutine(p) /\ signers = c.S /\ IsNonces(n, c)
    BY DEF Calling, IsCtxOf, Running
<1>2. Chosen /\ IsKey(key, Needed)
    BY DEF Calling, SignInv, PartyRoutine, Turn, Chosen
<1>3. 0 \notin signers /\ Needed \in Int /\ Cardinality(signers) \in Int
    <2>1. 0 \notin signers
        BY <1>2, FrostAssumption DEF Chosen
    <2>2. IsFiniteSet(c.S)
        BY <1>1, NumbersOK DEF IsCtxOf
    <2>3. QED
        BY <1>1, <1>2, <2>1, <2>2, FS_CardinalityType DEF IsKey
<1>4. CASE \E q \in signers \ {p} : Wrong(c, n, q) /\ Fails(c, n, p, q)
    <2>1. PICK q \in signers \ {p} : Wrong(c, n, q) /\ Fails(c, n, p, q)
        BY <1>4
    <2>2. offset[q] # 0
        BY <1>1, <1>2, <2>1, WrongShare
    <2>3. QED
        BY <1>3, <2>1, <2>2, SignFails
<1>5. CASE /\ \A q \in signers \ {p} : ~ Wrong(c, n, q)
           /\ ~ Verifies(c, n) /\ Fails(c, n, p, 0)
    <2>1. offset[p] # 0 \/ ~ (Cardinality(signers) >= Needed)
        BY <1>1, <1>2, <1>5, NobodyNamed
    <2>2. offset[p] # 0 \/ Cardinality(signers) < Needed
        BY <1>3, <2>1
    <2>3. QED
        BY <1>5, <2>2, SignFails
<1>6. ASSUME Verifies(c, n), NEW r, Has(r, Round3(c, n, p)),
             round' = [round EXCEPT ![p] = Reset(r)], past' = [past EXCEPT ![p] = r],
             UNCHANGED <<mail, command, failure>>
      PROVE  SignInv'
    <2>1. /\ calls' \in [signers -> 0 .. 3] /\ calls'[p] = 3
          /\ \A q \in signers \ {p} : calls'[q] = calls[q]
          /\ \A q \in signers : calls[q] \in {2, 3}
          /\ \A y, z \in signers : calls'[y] <= calls'[z] + 1
        BY <1>1, LockStep
    <2>2. signers' = signers
        BY <1>1 DEF PartyRoutine
    <2>3. /\ DOMAIN round = signers /\ DOMAIN past = signers
          /\ mail = <<{Marshal(Sign1(c, n, q)) : q \in Called(1)},
                      {Marshal(Sign2(c, n, q)) : q \in Called(2)}>>
        BY <1>1 DEF Running
    <2>4. /\ DOMAIN round' = signers /\ DOMAIN past' = signers
          /\ round'[p] = Reset(r) /\ past'[p] = r
          /\ \A q \in signers \ {p} : round'[q] = round[q] /\ past'[q] = past[q]
        BY <1>6, <2>3
    <2>5. ASSUME NEW q \in signers PROVE At(c, n, q)'
        <3>1. At(c, n, q)
            BY <1>1 DEF Running
        <3>2. n[q] \in Nonces
            BY <2>1, <3>1 DEF At
        <3>3. CASE q = p
            BY <1>6, <2>1, <2>4, <3>2, <3>3 DEF At
        <3>4. CASE q # p
            BY <2>1, <2>4, <3>1, <3>4 DEF At
        <3>5. QED
            BY <3>3, <3>4
    <2>6. Called(1)' = Called(1) /\ Called(2)' = Called(2)
        <3>1. \A q \in signers : /\ calls'[q] >= 1 /\ calls[q] >= 1
                                 /\ calls'[q] >= 2 /\ calls[q] >= 2
            BY <2>1
        <3>2. QED
            BY <2>2, <3>1 DEF Called
    <2>7. mail' = <<{Marshal(Sign1(c, n, q)) : q \in Called(1)'},
                    {Marshal(Sign2(c, n, q)) : q \in Called(2)'}>>
        BY <1>6, <2>3, <2>6
    <2>8. Running(c, n)'
        BY <1>1, <2>1, <2>2, <2>4, <2>5, <2>7 DEF Running
    <2>9. QED
        BY <1>6, <2>8, SignGoesOn
<1>7. QED
    BY <1>1, <1>4, <1>5, <1>6, PassThree

\* A call of PartyRoutine preserves the invariant.
LEMMA SignParty ==
    ASSUME SignInv, NEW p \in signers, PartyRoutine(p)
    PROVE  SignInv'
<1>1. command = "signing" /\ Chosen /\ (key # None => IsKey(key, Needed))
    BY DEF PartyRoutine, Turn, SignInv
<1>2. PICK c : c = Ctx
    OBVIOUS
<1>3. IsCtxOf(c)
    BY <1>1, <1>2, CtxOK
<1>4. PICK n : Running(c, n)
    BY <1>1, <1>2 DEF SignInv
<1>5. Calling(c, n, p)
    BY <1>3, <1>4 DEF Calling
<1>6. calls[p] \in {0, 1, 2}
    BY <1>4, LockStep
<1>7. QED
    BY <1>5, <1>6, SignFirst, SignSecond, SignThird

\* Every round of every signer is a function of the key, the shares held and
\* the nonces drawn, in every state of a signing: the inductive invariant.
THEOREM KeygenSignInvariant == KSpec => []SignInv
<1>1. KInit => SignInv
    BY SignInit
<1>2. SignInv /\ KeyGenInv /\ [KNext]_kvars => SignInv'
    <2>1. SUFFICES ASSUME SignInv, KeyGenInv, [KNext]_kvars PROVE SignInv'
        OBVIOUS
    <2>2. CASE UNCHANGED fvars
        BY <2>1, <2>2, SignStutter
    <2>3. CASE Keygen \/ Deal
        BY <2>1, <2>3, SignKey
    <2>4. CASE FNext
        BY <2>1, <2>4, SignRead, SignNew, SignParty, SignConclude DEF FNext
    <2>5. QED
        BY <2>1, <2>2, <2>3, <2>4 DEF KNext, kvars
<1>3. QED
    BY <1>1, <1>2, KeyGenInvariant, PTL DEF KSpec

\* A signer that is accused holds a share that is not of this key; an error
\* that accuses nobody comes from a signer with a wrong share itself, or from
\* a group that is too small.
THEOREM StaleSharesAreNamed == KSpec => []StaleShareNamed
<1>1. SignInv => StaleShareNamed
    <2>1. SUFFICES ASSUME SignInv PROVE StaleShareNamed
        OBVIOUS
    <2>2. CASE command = "failed"
        BY <2>1, <2>2 DEF SignInv
    <2>3. CASE command # "failed"
        BY <2>1, <2>3 DEF SignInv, Fresh, StaleShareNamed
    <2>4. QED
        BY <2>2, <2>3
<1>2. QED
    BY <1>1, KeygenSignInvariant, PTL

-----------------------------------------------------------------------------
(* What the last pass begins with, and the check of the shares *)

AtThird(c, n) ==
    /\ IsCtxOf(c) /\ IsCtx(c) /\ IsNonces(n, c) /\ Chosen /\ IsKey(key, Needed)
    /\ signers = c.S
    /\ \A p \in signers : Has(round[p], Round2(c, n, p)) /\ n[p] \in Nonces

\* When all shares are out, all signers are in the same round.
LEMMA ThirdState ==
    ASSUME SignInv, ThirdPass
    PROVE  \E c, n : AtThird(c, n)
<1>1. command = "signing" /\ Chosen /\ IsKey(key, Needed)
    BY DEF SignInv, ThirdPass, Chosen
<1>2. PICK c : c = Ctx
    OBVIOUS
<1>3. IsCtxOf(c) /\ IsCtx(c) /\ signers = c.S
    BY <1>1, <1>2, CtxOK DEF IsCtxOf
<1>4. PICK n : Running(c, n)
    BY <1>1, <1>2 DEF SignInv
<1>5. ASSUME NEW p \in signers PROVE Has(round[p], Round2(c, n, p)) /\ n[p] \in Nonces
    <2>1. At(c, n, p) /\ calls[p] = 2
        BY <1>4 DEF Running, ThirdPass
    <2>2. QED
        BY <2>1 DEF At
<1>6. AtThird(c, n)
    BY <1>1, <1>3, <1>4, <1>5 DEF AtThird, Running
<1>7. QED
    BY <1>6

\* Weights may be reduced before or after.
LEMMA LinMod ==
    ASSUME NEW b \in Scalar, NEW k \in Scalar, NEW s \in Int
    PROVE  Lin(1, b, k, s % Q) = Lin(1, b, k, s)
<1>1. b \in Int /\ k \in Int /\ s % Q \in Int
    BY ModScalar, ModType
<1>2. PICK x \in Int : x = b * (s % Q)
    BY <1>1
<1>3. PICK y \in Int : y = b * s
    BY <1>1
<1>4. x % Q = y % Q
    BY <1>1, <1>2, <1>3, ModMul
<1>5. (k + x) % Q = (k + (x % Q)) % Q /\ (k + y) % Q = (k + (y % Q)) % Q
    BY <1>1, ModAdd
<1>6. Lin(1, b, k, s % Q) = (k + x) % Q /\ Lin(1, b, k, s) = (k + y) % Q
    BY <1>1, <1>2, <1>3 DEF Lin
<1>7. QED
    BY <1>4, <1>5, <1>6

\* The share that signer q makes from v[q], as round 1 and SignRound write it.
LEMMA ShareValue ==
    ASSUME NEW c, IsCtx(c), NEW n, IsNonces(n, c), NEW v \in [c.S -> Scalar], NEW q \in c.S
    PROVE  /\ SharesFrom(c, n, v)[q] \in Scalar
           /\ SharesFrom(c, n, v)[q]
                = (n[q][1] + n[q][2] * Factors(c, n)[q]
                     + Lagrange(q, c.S) * v[q] * Challenge(c, n)) % Q
           /\ SharesFrom(c, n, v)[q]
                = (Lagrange(q, c.S) * v[q] * Challenge(c, n)
                     + n[q][2] * Factors(c, n)[q] + n[q][1]) % Q
<1>1. /\ IsIDs(c.S) /\ n[q][1] \in Scalar /\ n[q][2] \in Scalar /\ v[q] \in Scalar
      /\ Factors(c, n)[q] \in Scalar /\ Challenge(c, n) \in Scalar
      /\ NonceOf(c, n)[q] \in Scalar
    BY NumbersOK
<1>2. PICK d \in Scalar, e \in Scalar, r \in Scalar, b \in Scalar, L \in Scalar, w \in Scalar :
         /\ d = n[q][1] /\ e = n[q][2] /\ r = Factors(c, n)[q] /\ b = Challenge(c, n)
         /\ L = Lagrange(q, c.S) /\ w = v[q]
    BY <1>1, LagrangeType
<1>3. d \in Int /\ e \in Int /\ r \in Int /\ b \in Int /\ L \in Int /\ w \in Int
    BY ModScalar
<1>4. NonceOf(c, n)[q] = (d + e * r) % Q /\ Terms(v, c.S)[q] = (L * w) % Q
    BY <1>2 DEF NonceOf, Terms
<1>5. PICK s \in Int : s = L * w
    BY <1>3
<1>6. SharesFrom(c, n, v)[q] = Lin(1, b, (d + e * r) % Q, s % Q)
    BY <1>2, <1>4, <1>5 DEF SharesFrom
<1>7. (d + e * r) % Q \in Scalar
    BY <1>1, <1>4
<1>8. SharesFrom(c, n, v)[q] = (d + e * r + s * b) % Q
    BY <1>6, <1>7, LinMod, ShareForm
<1>9. d + e * r + s * b = s * b + e * r + d /\ d + e * r + s * b \in Int
    <2>1. PICK x \in Int, y \in Int : x = e * r /\ y = s * b
        BY <1>3
    <2>2. QED
        BY <1>3, <2>1
<1>10. SharesFrom(c, n, v)[q] \in Scalar
    BY <1>8, <1>9, ModType
<1>11. QED
    BY <1>2, <1>5, <1>8, <1>9, <1>10

\* The check of a share in the last round accepts exactly the share made from
\* the signer's share of the key and the nonces it has committed to.
LEMMA CheckExact == SignInv => ShareCheckExact
<1>1. SUFFICES ASSUME SignInv, ThirdPass, NEW p \in signers, NEW q \in signers,
                      NEW z \in Scalar
               PROVE  ShareOpens(round[p], q, z) <=>
                         z = (round[q].d + round[q].e * round[p].Pi[q]
                               + Lagrange(q, signers) * key.secrets[q] * round[p].C) % Q
    BY DEF ShareCheckExact
<1>2. PICK c, n : AtThird(c, n)
    BY <1>1, ThirdState
<1>3. /\ IsCtx(c) /\ IsNonces(n, c) /\ signers = c.S /\ c.right \in [c.S -> Scalar]
      /\ c.right[q] = key.secrets[q]
    BY <1>2 DEF AtThird, IsCtxOf, IsCtx
<1>4. /\ round[p].C = Challenge(c, n) /\ round[p].Public = PublicOf(c)
      /\ round[p].Ri = NoncePoints(c, n) /\ round[p].Pi = Factors(c, n)
    BY <1>2 DEF AtThird, Has, Round2
<1>5. round[q].d = n[q][1] /\ round[q].e = n[q][2]
    BY <1>2 DEF AtThird, Has, Round2
<1>6. ShareOpens(round[p], q, z) <=> z = SharesFrom(c, n, c.right)[q]
    BY <1>3, <1>4, ShareAccepted DEF ShareOpens
<1>7. SharesFrom(c, n, c.right)[q]
         = (n[q][1] + n[q][2] * Factors(c, n)[q]
              + Lagrange(q, c.S) * c.right[q] * Challenge(c, n)) % Q
    BY <1>3, ShareValue
<1>8. QED
    BY <1>3, <1>4, <1>5, <1>6, <1>7

\* Round 2 takes exactly the right shares.
THEOREM SharesAreChecked == KSpec => []ShareCheckExact
BY CheckExact, KeygenSignInvariant, PTL

-----------------------------------------------------------------------------
(* ROAST computes with the same numbers *)

RoastPre == [p \in signers |-> PreShareOf(p)]

\* The commitments, binding factors, nonce and challenge of a ROAST session with
\* the nonces of the signers.
LEMMA RoastNumbers ==
    ASSUME NEW c, NEW n, AtThird(c, n)
    PROVE  /\ ComputeBindingFactors(signers, RoastPre) = Factors(c, n)
           /\ ComputeNonceCommitments(signers, RoastPre) = NoncePoints(c, n)
           /\ SumElements(NoncePoints(c, n)) = NoncePoint(c, n)
           /\ ComputeChallenge(NoncePoint(c, n)) = Challenge(c, n)
           /\ SessionChallenge(signers, RoastPre) = Challenge(c, n)
<1>1. /\ IsCtx(c) /\ IsNonces(n, c) /\ signers = c.S /\ key.public.GroupKey = c.GroupKey
    BY DEF AtThird, IsCtxOf
<1>2. ASSUME NEW q \in c.S
      PROVE  RoastPre[q].Di = Hiding(c, n)[q] /\ RoastPre[q].Ei = Binding(c, n)[q]
    <2>1. round[q].Di = Hiding(c, n) /\ round[q].Ei = Binding(c, n)
        BY <1>1 DEF AtThird, Has, Round2
    <2>2. RoastPre[q] = [Di |-> round[q].Di[q], Ei |-> round[q].Ei[q]]
        BY <1>1 DEF RoastPre, PreShareOf
    <2>3. QED
        BY <2>1, <2>2
<1>3. [q \in c.S |-> RoastPre[q].Di] = Hiding(c, n)
      /\ [q \in c.S |-> RoastPre[q].Ei] = Binding(c, n)
    <2>1. Hiding(c, n) = [q \in c.S |-> Hiding(c, n)[q]]
          /\ Binding(c, n) = [q \in c.S |-> Binding(c, n)[q]]
        BY DEF Hiding, Binding
    <2>2. QED
        BY <1>2, <2>1
<1>4. ComputeBindingFactors(signers, RoastPre) = Factors(c, n)
    BY <1>1, <1>3 DEF ComputeBindingFactors, Factors
<1>5. ComputeNonceCommitments(signers, RoastPre) = NoncePoints(c, n)
    <2>1. ComputeNonceCommitments(signers, RoastPre)
             = [q \in c.S |-> Add(ScalarMult(Factors(c, n)[q], RoastPre[q].Ei), RoastPre[q].Di)]
        BY <1>1, <1>4 DEF ComputeNonceCommitments
    <2>2. ASSUME NEW q \in c.S
          PROVE  Add(ScalarMult(Factors(c, n)[q], RoastPre[q].Ei), RoastPre[q].Di)
                    = ScalarBaseMult(NonceOf(c, n)[q])
        <3>1. n[q][1] \in Scalar /\ n[q][2] \in Scalar /\ Factors(c, n)[q] \in Scalar
            BY <1>1, NumbersOK
        <3>2. RoastPre[q].Di = ScalarBaseMult(n[q][1]) /\ RoastPre[q].Ei = ScalarBaseMult(n[q][2])
            BY <1>2 DEF Hiding, Binding
        <3>3. NonceOf(c, n)[q] = (n[q][1] + n[q][2] * Factors(c, n)[q]) % Q
            BY DEF NonceOf
        <3>4. QED
            BY <3>1, <3>2, <3>3, NonceBase
    <2>3. QED
        BY <2>1, <2>2 DEF NoncePoints
<1>6. SumElements(NoncePoints(c, n)) = NoncePoint(c, n)
    BY <1>1, NumbersOK
<1>7. ComputeChallenge(NoncePoint(c, n)) = Challenge(c, n)
    BY <1>1 DEF ComputeChallenge, Challenge
<1>8. QED
    BY <1>4, <1>5, <1>6, <1>7 DEF SessionChallenge

\* ROAST's shares are those of the FROST signers.
LEMMA RoastShare ==
    ASSUME NEW c, NEW n, AtThird(c, n), NEW v \in [c.S -> Scalar], NEW p \in signers
    PROVE  SignRound(p, v[p], signers, round[p].d, round[p].e, RoastPre)
              = SharesFrom(c, n, v)[p]
<1>1. IsCtx(c) /\ IsNonces(n, c) /\ signers = c.S
    BY DEF AtThird
<1>2. round[p].d = n[p][1] /\ round[p].e = n[p][2]
    BY DEF AtThird, Has, Round2
<1>3. SharesFrom(c, n, v)[p]
         = (Lagrange(p, c.S) * v[p] * Challenge(c, n)
              + n[p][2] * Factors(c, n)[p] + n[p][1]) % Q
    BY <1>1, ShareValue
<1>4. QED
    BY <1>1, <1>2, <1>3, RoastNumbers DEF SignRound

\* The arithmetic of ROAST agrees with that of FROST.
LEMMA RoastSame == SignInv => RoastAgrees
<1> DEFINE Sign(p, secret) == SignRound(p, secret, signers, round[p].d, round[p].e, RoastPre)
           right == [p \in signers |-> Sign(p, key.secrets[p])]
<1>1. SUFFICES ASSUME SignInv, ThirdPass
               PROVE  /\ \A p \in signers :
                            /\ round[p].Zi[p] = Sign(p, Held(p))
                            /\ \A z \in Scalar :
                                  ShareVal(signers, p, RoastPre, z) <=> z = right[p]
                      /\ Cardinality(signers) >= Needed =>
                            Verify(SignAgg(signers, RoastPre, right))
    BY DEF RoastAgrees, RoastPre
<1>2. PICK c, n : AtThird(c, n)
    BY <1>1, ThirdState
<1>3. /\ IsCtx(c) /\ IsNonces(n, c) /\ signers = c.S /\ IsCtxOf(c) /\ Chosen
      /\ IsKey(key, Needed)
      /\ c.right \in [c.S -> Scalar] /\ c.held \in [c.S -> Scalar]
      /\ key.public.GroupKey = c.GroupKey /\ key.public.Shares = c.Shares
      /\ \A p \in signers : c.right[p] = key.secrets[p] /\ c.held[p] = Held(p)
    BY <1>2 DEF AtThird, IsCtxOf, IsCtx
<1>4. ASSUME NEW p \in signers
      PROVE  /\ Sign(p, key.secrets[p]) = SharesFrom(c, n, c.right)[p]
             /\ Sign(p, Held(p)) = SharesFrom(c, n, c.held)[p]
    BY <1>2, <1>3, RoastShare
<1>5. right = SharesFrom(c, n, c.right)
    <2>1. SharesFrom(c, n, c.right) = [p \in c.S |-> SharesFrom(c, n, c.right)[p]]
        BY DEF SharesFrom
    <2>2. QED
        BY <1>3, <1>4, <2>1
<1> HIDE DEF right
<1>6. ASSUME NEW p \in signers
      PROVE  /\ round[p].Zi[p] = Sign(p, Held(p))
             /\ \A z \in Scalar : ShareVal(signers, p, RoastPre, z) <=> z = right[p]
    <2>1. round[p].Zi[p] = SharesFrom(c, n, c.held)[p]
        BY <1>2, <1>3 DEF AtThird, Has, Round2
    <2>2. ScalarMult(Lagrange(p, signers), key.public.Shares[p]) = PublicOf(c)[p]
        BY <1>3 DEF PublicOf
    <2>3. ASSUME NEW z \in Scalar
          PROVE  ShareVal(signers, p, RoastPre, z) <=> z = right[p]
        <3>1. VarTimeDoubleScalarBaseMult(Challenge(c, n), Negate(PublicOf(c)[p]), z)
                 = NoncePoints(c, n)[p] <=> z = right[p]
            BY <1>3, <1>5, ShareAccepted
        <3>2. QED
            BY <1>2, <2>2, <3>1, RoastNumbers DEF ShareVal
    <2>4. QED
        BY <1>4, <2>1, <2>3
<1>7. ASSUME Cardinality(signers) >= Needed
      PROVE  Verify(SignAgg(signers, RoastPre, right))
    <2>1. SignAgg(signers, RoastPre, right)
             = [R |-> NoncePoint(c, n), S |-> SumScalars(SharesFrom(c, n, c.right))]
        BY <1>2, <1>5, RoastNumbers DEF SignAgg
    <2>2. VarTimeDoubleScalarBaseMult(Challenge(c, n), Negate(c.GroupKey),
                                      SumScalars(SharesFrom(c, n, c.right)))
             = NoncePoint(c, n)
        BY <1>3, <1>7, RightVerifies
    <2>3. ComputeChallenge(NoncePoint(c, n)) = Challenge(c, n)
        BY <1>2, RoastNumbers
    <2>4. QED
        BY <1>3, <2>1, <2>2, <2>3 DEF Verify
<1>8. QED
    BY <1>6, <1>7

\* ROAST makes, checks and adds up the shares that FROST does.
THEOREM RoastComputesTheSame == KSpec => []RoastAgrees
BY RoastSame, KeygenSignInvariant, PTL

-----------------------------------------------------------------------------
(* Only the key signs *)

\* Shares that give the same signature add up to the same secret, unless the
\* challenge is 0.
LEMMA LinCancel ==
    ASSUME NEW b \in Scalar \ {0}, NEW k \in Scalar, NEW x \in Scalar, NEW y \in Scalar,
           Lin(1, b, k, x) = Lin(1, b, k, y)
    PROVE  x = y
<1>1. b \in Int /\ k \in Int /\ x \in Int /\ y \in Int /\ Q \in Int
    BY ModScalar, QNat
<1>2. PICK u \in Int : u = b * x
    BY <1>1
<1>3. PICK w \in Int : w = b * y
    BY <1>1
<1>4. (k + u) % Q = (k + w) % Q
    BY <1>1, <1>2, <1>3 DEF Lin
<1>5. k + u \in Int /\ k + w \in Int
    BY <1>1
<1>6. PICK i \in Int : k + u = Q * i + ((k + u) % Q)
    BY <1>5, ModType
<1>7. PICK j \in Int : k + w = Q * j + ((k + u) % Q)
    BY <1>4, <1>5, ModType
<1>8. (k + u) % Q \in Int
    BY <1>5, ModType
<1>9. i - j \in Int /\ u = w + Q * (i - j)
    BY <1>1, <1>6, <1>7, <1>8
<1>10. u % Q = w % Q
    BY <1>9, ModCong
<1>11. (b * x) % Q = (b * y) % Q
    BY <1>2, <1>3, <1>10
<1>12. x % Q = y % Q
    BY <1>1, <1>11, Cancel
<1>13. QED
    BY <1>12, ModScalar

\* Those who sign do so with the secret of the group key.
LEMMA KeySigns == SignInv => OnlyTheKeySigns
<1>1. SUFFICES ASSUME SignInv, NEW p \in signers, command \in {"signing", "success"},
                      calls[p] = 3
               PROVE  /\ round[p].Signature.S = (NonceSecret + past[p].C * GroupSecret) % Q
                      /\ past[p].C = 0 \/ HeldSecret = GroupSecret
    BY DEF OnlyTheKeySigns
<1>2. Chosen /\ IsKey(key, Needed)
    BY <1>1 DEF SignInv, Chosen
<1>3. PICK c : c = Ctx
    OBVIOUS
<1>4. /\ IsCtxOf(c) /\ IsCtx(c) /\ signers = c.S /\ c.held \in [c.S -> Scalar]
      /\ c.GroupKey = key.public.GroupKey /\ \A q \in signers : c.held[q] = Held(q)
    BY <1>2, <1>3, CtxOK DEF IsCtxOf, IsCtx
<1>5. PICK n : Running(c, n)
    BY <1>1, <1>3 DEF SignInv
<1>6. IsNonces(n, c)
    BY <1>5 DEF Running
<1>7. Has(past[p], Round3(c, n, p)) /\ round[p] = Reset(past[p]) /\ Verifies(c, n)
    BY <1>1, <1>5 DEF Running, At
<1>8. round[p].Signature = SignatureOf(c, n)
    <2>1. DOMAIN past[p] = RoundFields /\ past[p].Signature = SignatureOf(c, n)
        BY <1>7 DEF Has, Round3
    <2>2. QED
        BY <1>7, <2>1, ResetOK
<1>9. past[p].C = Challenge(c, n)
    BY <1>7 DEF Has, Round3
<1>10. ASSUME NEW q \in signers
       PROVE  past[q].d = n[q][1] /\ past[q].e = n[q][2] /\ past[q].Pi = Factors(c, n)
    <2>1. calls[p] <= calls[q] + 1 /\ calls[q] \in 0 .. 3 /\ At(c, n, q)
        BY <1>5 DEF Running
    <2>2. calls[q] \in {2, 3}
        BY <1>1, <2>1
    <2>3. QED
        BY <2>1, <2>2 DEF At, Has, Round2, Round3
<1>11. NonceSecret = NonceSum(c, n)
    <2>1. [q \in signers |-> (past[q].d + past[q].e * past[q].Pi[q]) % Q] = NonceOf(c, n)
        BY <1>4, <1>10 DEF NonceOf
    <2>2. QED
        BY <2>1 DEF NonceSecret, NonceSum
<1>12. HeldSecret = Interp(c.held, c.S)
    <2>1. [q \in signers |-> (Lagrange(q, signers) * Held(q)) % Q] = Terms(c.held, c.S)
        BY <1>4 DEF Terms
    <2>2. QED
        BY <2>1 DEF HeldSecret, Interp
<1>13. PICK a \in Scalar : c.GroupKey = ScalarBaseMult(a)
    BY <1>2, <1>4, RightInterp
<1>14. GroupSecret = a
    <2>1. \A s \in Scalar : ScalarBaseMult(s) = key.public.GroupKey => s = a
        BY <1>4, <1>13, GroupLaws
    <2>2. QED
        BY <1>4, <1>13, <2>1 DEF GroupSecret
<1>15. PICK s : s = SumScalars(SharesFrom(c, n, c.held))
    OBVIOUS
<1>16. s \in Scalar /\ s = Lin(1, Challenge(c, n), NonceSum(c, n), Interp(c.held, c.S))
       /\ Interp(c.held, c.S) \in Scalar
    BY <1>4, <1>6, <1>15, SharesOK
<1>17. SignatureOf(c, n).S = s
    BY <1>15 DEF SignatureOf
<1>18. s = Lin(1, Challenge(c, n), NonceSum(c, n), a)
    <2>1. VarTimeDoubleScalarBaseMult(Challenge(c, n), Negate(c.GroupKey), s)
              = NoncePoint(c, n)
        BY <1>7, <1>17 DEF Verifies
    <2>2. QED
        BY <1>4, <1>6, <1>13, <1>16, <2>1, VerifiesIff
<1>19. Challenge(c, n) \in Scalar /\ NonceSum(c, n) \in Scalar
    BY <1>4, <1>6, NumbersOK
<1>20. s = (NonceSum(c, n) + Challenge(c, n) * a) % Q
    BY <1>18, <1>19, ModScalar DEF Lin
<1>21. Challenge(c, n) = 0 \/ Interp(c.held, c.S) = a
    BY <1>16, <1>18, <1>19, LinCancel
<1>22. QED
    BY <1>8, <1>9, <1>11, <1>12, <1>14, <1>17, <1>20, <1>21

\* A signature that comes out is one of the group key's secret, made from
\* shares that add up to it.
THEOREM OnlyKeySigns == KSpec => []OnlyTheKeySigns
BY KeySigns, KeygenSignInvariant, PTL

-----------------------------------------------------------------------------
(* Refinement of Signing *)

\* The abstract state.
AShares ==
    {[party |-> p, session |-> View(p)] : p \in {q \in DOMAIN round : round[q].number = 2}}

ASigned ==
    {[party |-> p, session |-> View(p)] :
        p \in {q \in DOMAIN round : round[q].Signature # None}}

AFailed == {p \in DOMAIN round : round[p].err # None}

Entries(A, V) == {[party |-> q, session |-> V] : q \in A}

ViewOf(S, pa, p) ==
    [q \in IDs |-> IF q \in S THEN [Di |-> pa[p].Di[q], Ei |-> pa[p].Ei[q]] ELSE None]

\* The session of the nonces n.
SessionOf(c, n) ==
    [q \in IDs |-> IF q \in c.S THEN [Di |-> Hiding(c, n)[q], Ei |-> Binding(c, n)[q]]
                   ELSE None]

\* In the rounds rd of the signers S, with the history pa, those in A have
\* released a share for session V, those in B have signed, those in F failed.
Sums(S, rd, pa, V, A, B, F) ==
    /\ DOMAIN rd = S /\ DOMAIN pa = S /\ A \subseteq S /\ B \subseteq A /\ F \subseteq S
    /\ \A q \in S : /\ rd[q].number = 2 <=> q \in A
                    /\ rd[q].Signature # None <=> q \in B
                    /\ rd[q].err # None <=> q \in F
    /\ \A q \in A : ViewOf(S, pa, q) = V

\* The abstract state of such rounds.
LEMMA SumsOK ==
    ASSUME NEW S, NEW rd, NEW pa, NEW V, NEW A, NEW B, NEW F, Sums(S, rd, pa, V, A, B, F)
    PROVE  /\ {[party |-> p, session |-> ViewOf(S, pa, p)] :
                  p \in {q \in DOMAIN rd : rd[q].number = 2}} = Entries(A, V)
           /\ {[party |-> p, session |-> ViewOf(S, pa, p)] :
                  p \in {q \in DOMAIN rd : rd[q].Signature # None}} = Entries(B, V)
           /\ {p \in DOMAIN rd : rd[p].err # None} = F
<1>1. /\ {q \in DOMAIN rd : rd[q].number = 2} = A
      /\ {q \in DOMAIN rd : rd[q].Signature # None} = B
      /\ {q \in DOMAIN rd : rd[q].err # None} = F
    BY DEF Sums
<1>2. \A q \in A : ViewOf(S, pa, q) = V
    BY DEF Sums
<1>3. B \subseteq A
    BY DEF Sums
<1>4. {[party |-> p, session |-> ViewOf(S, pa, p)] : p \in A} = Entries(A, V)
    BY <1>2 DEF Entries
<1>5. {[party |-> p, session |-> ViewOf(S, pa, p)] : p \in B} = Entries(B, V)
    BY <1>2, <1>3 DEF Entries
<1>6. QED
    BY <1>1, <1>4, <1>5

\* The same for the variables.
LEMMA SumsNow ==
    ASSUME NEW V, NEW A, NEW B, NEW F, Sums(signers, round, past, V, A, B, F)
    PROVE  AShares = Entries(A, V) /\ ASigned = Entries(B, V) /\ AFailed = F
<1>1. \A p : View(p) = ViewOf(signers, past, p)
    BY DEF View, ViewOf
<1>2. QED
    BY <1>1, SumsOK DEF AShares, ASigned, AFailed

\* And after a step.
LEMMA SumsNext ==
    ASSUME NEW V, NEW A, NEW B, NEW F, Sums(signers', round', past', V, A, B, F)
    PROVE  AShares' = Entries(A, V) /\ ASigned' = Entries(B, V) /\ AFailed' = F
<1>1. \A p : View(p)' = ViewOf(signers', past', p)
    BY DEF View, ViewOf
<1>2. QED
    BY <1>1, SumsOK DEF AShares, ASigned, AFailed

\* One signer changes.
LEMMA SumsStep ==
    ASSUME NEW S, NEW rd, NEW pa, NEW V, NEW A, NEW B, NEW F, Sums(S, rd, pa, V, A, B, F),
           NEW p \in S, NEW r, NEW s, NEW A2, NEW B2, NEW F2,
           A2 \in {A, A \cup {p}}, B2 \in {B, B \cup {p}}, F2 \in {F, F \cup {p}}, B2 \subseteq A2,
           r.number = 2 <=> p \in A2, r.Signature # None <=> p \in B2,
           r.err # None <=> p \in F2,
           p \in A2 => ViewOf(S, [pa EXCEPT ![p] = s], p) = V
    PROVE  Sums(S, [rd EXCEPT ![p] = r], [pa EXCEPT ![p] = s], V, A2, B2, F2)
<1>1. DOMAIN rd = S /\ DOMAIN pa = S
    BY DEF Sums
<1>2. PICK rd2 : rd2 = [rd EXCEPT ![p] = r]
    OBVIOUS
<1>3. PICK pa2 : pa2 = [pa EXCEPT ![p] = s]
    OBVIOUS
<1>4. /\ DOMAIN rd2 = S /\ DOMAIN pa2 = S /\ rd2[p] = r
      /\ \A q \in S \ {p} : rd2[q] = rd[q] /\ pa2[q] = pa[q]
    BY <1>1, <1>2, <1>3
<1>5. ASSUME NEW q \in A2 PROVE ViewOf(S, pa2, q) = V
    <2>1. CASE q = p
        BY <1>3, <1>5, <2>1
    <2>2. CASE q # p
        <3>1. q \in A /\ q \in S
            BY <2>2 DEF Sums
        <3>2. ViewOf(S, pa2, q) = ViewOf(S, pa, q)
            BY <1>4, <2>2, <3>1 DEF ViewOf
        <3>3. QED
            BY <3>1, <3>2 DEF Sums
    <2>3. QED
        BY <2>1, <2>2
<1>6. A2 \subseteq S /\ F2 \subseteq S
    BY DEF Sums
<1>7. ASSUME NEW q \in S
      PROVE  /\ rd2[q].number = 2 <=> q \in A2
             /\ rd2[q].Signature # None <=> q \in B2
             /\ rd2[q].err # None <=> q \in F2
    <2>1. CASE q = p
        BY <1>4, <2>1
    <2>2. CASE q # p
        BY <1>4, <2>2 DEF Sums
    <2>3. QED
        BY <2>1, <2>2
<1>8. Sums(S, rd2, pa2, V, A2, B2, F2)
    BY <1>4, <1>5, <1>6, <1>7 DEF Sums
<1>9. QED
    BY <1>2, <1>3, <1>8

\* A signature is not nil, nor is an error.
LEMMA NotNil ==
    ASSUME NEW c, IsCtx(c), NEW n, IsNonces(n, c)
    PROVE  /\ SignatureOf(c, n) # None
           /\ \A q \in Scalar : [culprit |-> q, round |-> 2] # None
<1>1. NoncePoint(c, n) \in Element
    BY NumbersOK
<1>2. SumScalars(SharesFrom(c, n, c.held)) \in Scalar
    BY SharesOK DEF IsCtx
<1>3. SignatureOf(c, n) \in [R : Element, S : Scalar]
    BY <1>1, <1>2 DEF SignatureOf
<1>4. \A q \in Scalar : [culprit |-> q, round |-> 2] \in [culprit : Scalar, round : 0 .. 2]
    OBVIOUS
<1>5. QED
    BY <1>3, <1>4, NilAssumption

\* How far a signer has got, as seen from the abstract state.
LEMMA Status ==
    ASSUME NEW c, IsCtx(c), NEW n, IsNonces(n, c), NEW p, NEW r, NEW s,
           NEW k \in 0 .. 3,
           \/ k = 0 /\ Has(s, Round0(c, p)) /\ r = s
           \/ k = 1 /\ Has(s, Round1(c, n, p)) /\ r = s
           \/ k = 2 /\ Has(s, Round2(c, n, p)) /\ r = s
           \/ k = 3 /\ Has(s, Round3(c, n, p)) /\ r = Reset(s)
    PROVE  /\ r.number = 2 <=> k >= 2
           /\ r.Signature # None <=> k >= 3
           /\ r.err = None
           /\ k >= 2 => s.Di = Hiding(c, n) /\ s.Ei = Binding(c, n)
<1>1. CASE k = 0
    BY <1>1 DEF Has, Round0
<1>2. CASE k = 1
    BY <1>2 DEF Has, Round1
<1>3. CASE k = 2
    BY <1>3 DEF Has, Round2
<1>4. CASE k = 3
    <2>1. Has(s, Round3(c, n, p)) /\ r = Reset(s)
        BY <1>4
    <2>2. r.number = s.number /\ r.err = s.err /\ r.Signature = s.Signature
        BY <2>1, ResetOK DEF Has
    <2>3. s.number = 2 /\ s.err = None /\ s.Signature = SignatureOf(c, n)
          /\ s.Di = Hiding(c, n) /\ s.Ei = Binding(c, n)
        BY <2>1 DEF Has, Round3
    <2>4. QED
        BY <1>4, <2>2, <2>3, NotNil
<1>5. QED
    BY <1>1, <1>2, <1>3, <1>4

\* A signer with the commitments of all has the view of all.
LEMMA SameView ==
    ASSUME NEW c, NEW n, NEW pa, NEW p, pa[p].Di = Hiding(c, n), pa[p].Ei = Binding(c, n)
    PROVE  ViewOf(c.S, pa, p) = SessionOf(c, n)
BY DEF ViewOf, SessionOf

\* The view of all is a session.
LEMMA IsSession ==
    ASSUME NEW c, NEW n, \A q \in c.S : n[q] \in Nonces
    PROVE  SessionOf(c, n) \in [IDs -> Commitments \cup {None}]
<1>1. ASSUME NEW q \in c.S
      PROVE  [Di |-> Hiding(c, n)[q], Ei |-> Binding(c, n)[q]] \in Commitments
    BY DEF Hiding, Binding, Commitments
<1>2. QED
    BY <1>1 DEF SessionOf

\* The abstract state of a signing that runs.
LEMMA RunningSums ==
    ASSUME NEW c, NEW n, IsCtxOf(c), Running(c, n)
    PROVE  Sums(c.S, round, past, SessionOf(c, n), Called(2), Called(3), {})
<1>1. IsCtx(c) /\ signers = c.S /\ IsNonces(n, c)
    BY DEF IsCtxOf, Running
<1>2. ASSUME NEW q \in signers
      PROVE  /\ round[q].number = 2 <=> calls[q] >= 2
             /\ round[q].Signature # None <=> calls[q] >= 3
             /\ round[q].err = None
             /\ calls[q] >= 2 => past[q].Di = Hiding(c, n) /\ past[q].Ei = Binding(c, n)
    <2>1. calls[q] \in 0 .. 3 /\ At(c, n, q)
        BY DEF Running
    <2>2. \/ calls[q] = 0 /\ Has(past[q], Round0(c, q)) /\ round[q] = past[q]
          \/ calls[q] = 1 /\ Has(past[q], Round1(c, n, q)) /\ round[q] = past[q]
          \/ calls[q] = 2 /\ Has(past[q], Round2(c, n, q)) /\ round[q] = past[q]
          \/ calls[q] = 3 /\ Has(past[q], Round3(c, n, q)) /\ round[q] = Reset(past[q])
        BY <2>1 DEF At
    <2>3. QED
        BY <1>1, <2>1, <2>2, Status
<1>3. Called(2) \subseteq signers /\ Called(3) \subseteq Called(2)
    <2>1. \A q \in signers : calls[q] \in 0 .. 3
        BY DEF Running
    <2>2. QED
        BY <2>1 DEF Called
<1>4. \A q \in Called(2) : ViewOf(c.S, past, q) = SessionOf(c, n)
    BY <1>2, <1>3, SameView DEF Called
<1>5. DOMAIN round = signers /\ DOMAIN past = signers
    BY DEF Running
<1>6. QED
    BY <1>1, <1>2, <1>3, <1>4, <1>5 DEF Sums, Called

\* Nothing that is promised changes.
LEMMA AbsStutter ==
    ASSUME signers' = signers, AShares' = AShares, ASigned' = ASigned, AFailed' = AFailed
    PROVE  UNCHANGED Abstract!svars
BY DEF Abstract!svars, AShares, ASigned, AFailed

\* Who has not signed and not failed is pending.
LEMMA AbsPending ==
    ASSUME NEW p, NEW B, NEW V, ASigned = Entries(B, V), p \notin B, AFailed = {}
    PROVE  Abstract!Pending(p)
<1>1. \A x \in ASigned : x.party # p
    BY DEF Entries
<1>2. p \notin AFailed
    OBVIOUS
<1>3. QED
    BY <1>1, <1>2 DEF Abstract!Pending, ASigned, AFailed

\* A new share is Release.
LEMMA AbsRelease ==
    ASSUME NEW p \in signers, NEW V \in [IDs -> Commitments \cup {None}], NEW A, p \notin A,
           AShares = Entries(A, V), AShares' = Entries(A \cup {p}, V),
           ASigned = Entries({}, V), ASigned' = ASigned, AFailed = {}, AFailed' = {},
           signers' = signers
    PROVE  Abstract!Next
<1> DEFINE x == [party |-> p, session |-> V]
<1>1. \A y \in AShares : y.party # p
    BY DEF Entries
<1>2. AShares' = AShares \cup {x}
    BY DEF Entries
<1>3. x \in AShares' \ AShares /\ x.party = p /\ x.session \in [IDs -> Commitments \cup {None}]
    BY <1>1, <1>2
<1>4. Abstract!Pending(p)
    BY AbsPending
<1> HIDE DEF x
<1>5. Abstract!Release(p)
    BY <1>1, <1>2, <1>3, <1>4 DEF Abstract!Release, AShares, ASigned, AFailed
<1>6. QED
    BY <1>5 DEF Abstract!Next

\* A new signature is Complete.
LEMMA AbsComplete ==
    ASSUME NEW p \in signers, NEW V \in [IDs -> Commitments \cup {None}], NEW B, p \notin B,
           AShares = Entries(signers, V), AShares' = AShares,
           ASigned = Entries(B, V), ASigned' = Entries(B \cup {p}, V),
           AFailed = {}, AFailed' = {}, signers' = signers
    PROVE  Abstract!Next
<1> DEFINE x == [party |-> p, session |-> V]
<1>1. \A y \in ASigned : y.party # p
    BY DEF Entries
<1>2. ASigned' = ASigned \cup {x}
    BY DEF Entries
<1>3. x \in ASigned' \ ASigned /\ x.party = p /\ x.session \in [IDs -> Commitments \cup {None}]
      /\ x.session = V
    BY <1>1, <1>2
<1>4. Abstract!Pending(p)
    BY AbsPending
<1> HIDE DEF x
<1>5. \A q \in signers : Abstract!For(q, x.session) \in AShares
    BY <1>3 DEF Abstract!For, Entries
<1>6. Abstract!Complete(p)
    BY <1>2, <1>3, <1>4, <1>5 DEF Abstract!Complete, AShares, ASigned, AFailed
<1>7. QED
    BY <1>6 DEF Abstract!Next

\* An error is Abort.
LEMMA AbsAbort ==
    ASSUME NEW p \in signers, NEW V, NEW B, p \notin B, AShares' = AShares,
           ASigned = Entries(B, V), ASigned' = ASigned, AFailed = {}, AFailed' = {p},
           signers' = signers
    PROVE  Abstract!Next
<1>1. Abstract!Pending(p)
    BY AbsPending
<1>2. AFailed' = AFailed \cup {p}
    OBVIOUS
<1>3. Abstract!Abort(p)
    BY <1>1, <1>2 DEF Abstract!Abort, AShares, ASigned, AFailed
<1>4. QED
    BY <1>3 DEF Abstract!Next

\* The first pass promises nothing yet.
LEMMA FirstRefines ==
    ASSUME NEW c, NEW n, NEW p \in signers, Calling(c, n, p), calls[p] = 0
    PROVE  [Abstract!Next]_(Abstract!svars)
<1>1. IsCtxOf(c) /\ Running(c, n) /\ PartyRoutine(p) /\ signers = c.S
      /\ IsCtx(c) /\ IsNonces(n, c)
    BY DEF Calling, IsCtxOf, Running
<1>2. PICK x \in Nonces : \E r : Draws(c, [n EXCEPT ![p] = x], p, r)
    BY <1>1, PassOne
<1>3. PICK m : m = [n EXCEPT ![p] = x]
    OBVIOUS
<1>4. PICK r : Draws(c, m, p, r)
    BY <1>2, <1>3
<1>5. r.number = 1 /\ r.Signature = None /\ r.err = None
    BY <1>4 DEF Draws, Has, Round1
<1>6. signers' = signers
    BY <1>1 DEF PartyRoutine
<1>7. Called(2) = {} /\ Called(3) = {}
    <2>1. \A q \in signers : calls[q] \in {0, 1}
        BY <1>1, LockStep
    <2>2. QED
        BY <2>1 DEF Called
<1>8. Sums(c.S, round, past, SessionOf(c, n), {}, {}, {})
    BY <1>1, <1>7, RunningSums
<1>9. Sums(c.S, [round EXCEPT ![p] = r], [past EXCEPT ![p] = r], SessionOf(c, n), {}, {}, {})
    BY <1>1, <1>5, <1>8, SumsStep
<1>10. Sums(signers', round', past', SessionOf(c, n), {}, {}, {})
    BY <1>1, <1>4, <1>6, <1>9 DEF Draws
<1>11. AShares' = AShares /\ ASigned' = ASigned /\ AFailed' = AFailed
    BY <1>1, <1>8, <1>10, SumsNow, SumsNext
<1>12. QED
    BY <1>6, <1>11, AbsStutter

\* In the second pass a signer releases its share.
LEMMA SecondRefines ==
    ASSUME NEW c, NEW n, NEW p \in signers, Calling(c, n, p), calls[p] = 1
    PROVE  [Abstract!Next]_(Abstract!svars)
<1>1. IsCtxOf(c) /\ Running(c, n) /\ PartyRoutine(p) /\ signers = c.S
      /\ IsCtx(c) /\ IsNonces(n, c)
    BY DEF Calling, IsCtxOf, Running
<1>2. \A q \in signers : n[q] \in Nonces
    BY <1>1, PassTwo
<1>3. PICK r : /\ Has(r, Round2(c, n, p))
               /\ round' = [round EXCEPT ![p] = r] /\ past' = [past EXCEPT ![p] = r]
    BY <1>1, PassTwo
<1>4. r.number = 2 /\ r.Signature = None /\ r.err = None
      /\ r.Di = Hiding(c, n) /\ r.Ei = Binding(c, n)
    BY <1>3 DEF Has, Round2
<1>5. signers' = signers
    BY <1>1 DEF PartyRoutine
<1>6. Called(3) = {} /\ p \notin Called(2)
    <2>1. \A q \in signers : calls[q] \in {1, 2}
        BY <1>1, LockStep
    <2>2. QED
        BY <2>1 DEF Called
<1>7. PICK A : A = Called(2)
    OBVIOUS
<1>8. PICK V : V = SessionOf(c, n)
    OBVIOUS
<1>9. V \in [IDs -> Commitments \cup {None}]
    BY <1>1, <1>2, <1>8, IsSession
<1>10. Sums(c.S, round, past, V, A, {}, {})
    BY <1>1, <1>6, <1>7, <1>8, RunningSums
<1>11. ViewOf(c.S, [past EXCEPT ![p] = r], p) = V
    <2>1. DOMAIN past = c.S
        BY <1>10 DEF Sums
    <2>2. [past EXCEPT ![p] = r][p] = r
        BY <1>1, <2>1
    <2>3. QED
        BY <1>4, <1>8, <2>2, SameView
<1>12. Sums(c.S, [round EXCEPT ![p] = r], [past EXCEPT ![p] = r], V, A \cup {p}, {}, {})
    BY <1>1, <1>4, <1>10, <1>11, SumsStep
<1>13. Sums(signers', round', past', V, A \cup {p}, {}, {})
    BY <1>1, <1>3, <1>5, <1>12
<1>14. AShares = Entries(A, V) /\ ASigned = Entries({}, V) /\ AFailed = {}
    BY <1>1, <1>10, SumsNow
<1>15. AShares' = Entries(A \cup {p}, V) /\ ASigned' = Entries({}, V) /\ AFailed' = {}
    BY <1>13, SumsNext
<1>16. QED
    BY <1>5, <1>6, <1>7, <1>9, <1>14, <1>15, AbsRelease

\* In the third pass it completes or aborts.
LEMMA ThirdRefines ==
    ASSUME NEW c, NEW n, NEW p \in signers, Calling(c, n, p), calls[p] = 2
    PROVE  [Abstract!Next]_(Abstract!svars)
<1>1. IsCtxOf(c) /\ Running(c, n) /\ PartyRoutine(p) /\ signers = c.S
      /\ IsCtx(c) /\ IsNonces(n, c)
    BY DEF Calling, IsCtxOf, Running
<1>2. \A q \in signers : calls[q] \in {2, 3}
    BY <1>1, LockStep
<1>3. \A q \in signers : n[q] \in Nonces
    BY <1>1, <1>2 DEF Running, At
<1>4. signers' = signers
    BY <1>1 DEF PartyRoutine
<1>5. Called(2) = signers /\ p \notin Called(3)
    BY <1>2 DEF Called
<1>6. PICK B : B = Called(3)
    OBVIOUS
<1>7. PICK V : V = SessionOf(c, n)
    OBVIOUS
<1>8. V \in [IDs -> Commitments \cup {None}]
    BY <1>1, <1>3, <1>7, IsSession
<1>9. Sums(c.S, round, past, V, c.S, B, {})
    BY <1>1, <1>5, <1>6, <1>7, RunningSums
<1>10. AShares = Entries(signers, V) /\ ASigned = Entries(B, V) /\ AFailed = {}
    BY <1>1, <1>9, SumsNow
<1>11. ASSUME NEW s, s.Di = Hiding(c, n), s.Ei = Binding(c, n)
       PROVE  ViewOf(c.S, [past EXCEPT ![p] = s], p) = V
    <2>1. DOMAIN past = c.S
        BY <1>9 DEF Sums
    <2>2. [past EXCEPT ![p] = s][p] = s
        BY <1>1, <2>1
    <2>3. QED
        BY <1>7, <1>11, <2>2, SameView
<1>12. ASSUME NEW q \in Scalar, Fails(c, n, p, q) PROVE Abstract!Next
    <2>1. PICK step : /\ Aborts(c, n, step, q)
                      /\ round' = [round EXCEPT ![p] = step.round]
                      /\ past' = [past EXCEPT ![p] = step.past]
        BY <1>12 DEF Fails
    <2>2. PICK r : r = step.round
        OBVIOUS
    <2>3. PICK s : s = step.past
        OBVIOUS
    <2>4. /\ r.number = 2 /\ r.Signature = None /\ r.err # None
          /\ s.Di = Hiding(c, n) /\ s.Ei = Binding(c, n)
        BY <1>1, <2>1, <2>2, <2>3, NotNil DEF Aborts
    <2>5. ViewOf(c.S, [past EXCEPT ![p] = s], p) = V
        BY <1>11, <2>4
    <2>6. p \notin B
        BY <1>5, <1>6
    <2>7. Sums(c.S, [round EXCEPT ![p] = r], [past EXCEPT ![p] = s], V, c.S, B, {} \cup {p})
        <3>1. B \subseteq c.S
            BY <1>9 DEF Sums
        <3>2. QED
            BY <1>1, <1>9, <2>4, <2>5, <2>6, <3>1, SumsStep
    <2>8. Sums(signers', round', past', V, c.S, B, {p})
        BY <1>1, <1>4, <2>1, <2>2, <2>3, <2>7
    <2>9. AShares' = Entries(signers, V) /\ ASigned' = Entries(B, V) /\ AFailed' = {p}
        BY <1>1, <2>8, SumsNext
    <2>10. QED
        BY <1>4, <1>10, <2>6, <2>9, AbsAbort
<1>13. ASSUME NEW r, Has(r, Round3(c, n, p)),
              round' = [round EXCEPT ![p] = Reset(r)], past' = [past EXCEPT ![p] = r]
       PROVE  Abstract!Next
    <2>1. PICK f : f = Reset(r)
        OBVIOUS
    <2>2. /\ f.number = 2 /\ f.Signature # None /\ f.err = None
          /\ r.Di = Hiding(c, n) /\ r.Ei = Binding(c, n)
        BY <1>1, <1>13, <2>1, Status
    <2>3. ViewOf(c.S, [past EXCEPT ![p] = r], p) = V
        BY <1>11, <2>2
    <2>4. p \notin B
        BY <1>5, <1>6
    <2>5. Sums(c.S, [round EXCEPT ![p] = f], [past EXCEPT ![p] = r], V, c.S, B \cup {p}, {})
        <3>1. B \cup {p} \subseteq c.S
            BY <1>1, <1>9 DEF Sums
        <3>2. QED
            BY <1>1, <1>9, <2>2, <2>3, <3>1, SumsStep
    <2>6. Sums(signers', round', past', V, c.S, B \cup {p}, {})
        BY <1>1, <1>4, <1>13, <2>1, <2>5
    <2>7. AShares' = Entries(signers, V) /\ ASigned' = Entries(B \cup {p}, V) /\ AFailed' = {}
        BY <1>1, <2>6, SumsNext
    <2>8. QED
        BY <1>4, <1>8, <1>10, <2>4, <2>7, AbsComplete
<1>14. signers \subseteq Scalar /\ 0 \in Scalar
    BY <1>1, NumbersOK, FrostAssumption, QNat
<1>15. QED
    BY <1>1, <1>12, <1>13, <1>14, PassThree

\* Every step is a step of Signing or leaves it unchanged.
LEMMA KNextRefines ==
    SignInv /\ [KNext]_kvars => [Abstract!Next]_(Abstract!svars)
<1>1. SUFFICES ASSUME SignInv, [KNext]_kvars PROVE [Abstract!Next]_(Abstract!svars)
    OBVIOUS
<1>2. CASE UNCHANGED <<signers, round, past>>
    BY <1>2, AbsStutter DEF AShares, ASigned, AFailed, View
<1>3. CASE ReadKeys
    <2>1. /\ signers = {} /\ round = <<>> /\ round' = round /\ signers' \in Groups
        BY <1>1, <1>3 DEF ReadKeys, SignInv, Fresh
    <2>2. DOMAIN round = {} /\ signers' \in SUBSET IDs
        BY <2>1, FrostAssumption
    <2>3. /\ AShares = {} /\ ASigned = {} /\ AFailed = {}
          /\ AShares' = {} /\ ASigned' = {} /\ AFailed' = {}
        BY <2>1, <2>2 DEF AShares, ASigned, AFailed
    <2>4. Abstract!Gather
        BY <2>1, <2>2, <2>3 DEF Abstract!Gather, AShares, ASigned, AFailed
    <2>5. QED
        BY <2>4 DEF Abstract!Next
<1>4. CASE NewStates
    <2>1. signers' = signers
          /\ round' = [p \in signers |-> NewRound(p, Held(p))]
        BY <1>1, <1>4 DEF NewStates, SignInv
    <2>2. round = <<>>
        BY <1>1, <1>4 DEF NewStates, SignInv, Fresh
    <2>3. \A p \in signers : round'[p].number = 0 /\ round'[p].Signature = None
                             /\ round'[p].err = None
        BY <2>1 DEF NewRound
    <2>4. DOMAIN round = {} /\ DOMAIN round' = signers
        BY <2>1, <2>2
    <2>5. /\ AShares = {} /\ ASigned = {} /\ AFailed = {}
          /\ AShares' = {} /\ ASigned' = {} /\ AFailed' = {}
        BY <2>3, <2>4 DEF AShares, ASigned, AFailed
    <2>6. QED
        BY <2>1, <2>5, AbsStutter
<1>5. ASSUME NEW p \in signers, PartyRoutine(p) PROVE [Abstract!Next]_(Abstract!svars)
    <2>1. command = "signing" /\ Chosen /\ (key # None => IsKey(key, Needed))
        BY <1>1, <1>5 DEF PartyRoutine, Turn, SignInv
    <2>2. PICK c : c = Ctx
        OBVIOUS
    <2>3. IsCtxOf(c)
        BY <2>1, <2>2, CtxOK
    <2>4. PICK n : Running(c, n)
        BY <1>1, <2>1, <2>2 DEF SignInv
    <2>5. Calling(c, n, p)
        BY <1>1, <1>5, <2>3, <2>4 DEF Calling
    <2>6. calls[p] \in {0, 1, 2}
        BY <1>5, <2>4, LockStep
    <2>7. QED
        BY <2>5, <2>6, FirstRefines, SecondRefines, ThirdRefines
<1>6. CASE Conclude
    BY <1>2, <1>6 DEF Conclude
<1>7. CASE Keygen \/ Deal \/ UNCHANGED fvars
    BY <1>2, <1>7 DEF Keygen, Deal, fvars
<1>8. QED
    BY <1>1, <1>3, <1>4, <1>5, <1>6, <1>7 DEF KNext, FNext, kvars

\* Nothing is released or signed at first.
LEMMA KInitRefines == KInit => Abstract!Init
<1>1. SUFFICES ASSUME KInit PROVE Abstract!Init
    OBVIOUS
<1>2. signers = {} /\ DOMAIN round = {}
    BY <1>1 DEF KInit, FInit
<1>3. AShares = {} /\ ASigned = {} /\ AFailed = {}
    BY <1>2 DEF AShares, ASigned, AFailed
<1>4. QED
    BY <1>2, <1>3 DEF Abstract!Init, AShares, ASigned, AFailed

\* Lock-step signing, with its arithmetic, implements Signing: a signer
\* releases one share, for the nonces it has seen, and a signature comes out
\* only when all of the group have released a share for the same nonces.
THEOREM KeygenSignRefinesSigning == KSpec => ImplementsSigning
BY KInitRefines, KNextRefines, KeygenSignInvariant, PTL
   DEF KSpec, ImplementsSigning, Abstract!Spec

-----------------------------------------------------------------------------
(* Exponents *)

\* e commits to the polynomial c with n > 0 coefficients.
IsExp(e, c, n) ==
    /\ IsPoly(c, n) /\ n >= 1
    /\ e \in [1 .. n -> Element] /\ Len(e) = n
    /\ \A i \in 1 .. n : e[i] = ScalarBaseMult(c[i])

\* NewPolynomialExponent commits to the polynomial.
LEMMA ExpOf ==
    ASSUME NEW c, NEW n, IsPoly(c, n), n >= 1
    PROVE  IsExp(NewPolynomialExponent(c), c, n)
<1>1. n \in Nat /\ c \in [1 .. n -> Scalar]
    BY DEF IsPoly
<1>2. PICK e : e = NewPolynomialExponent(c)
    OBVIOUS
<1>3. e = [i \in 1 .. n |-> ScalarBaseMult(c[i])]
    BY <1>1, <1>2 DEF NewPolynomialExponent
<1>4. \A i \in 1 .. n : ScalarBaseMult(c[i]) \in Element
    BY <1>1, AddBase
<1>5. e \in [1 .. n -> Element]
    BY <1>3, <1>4
<1>6. e \in Seq(Element) /\ Len(e) = n
    BY <1>1, <1>5
<1>7. QED
    BY <1>2, <1>3, <1>5, <1>6 DEF IsExp

\* One turn of the loop of evaluateClassic.
LEMMA ClassicTurn ==
    ASSUME NEW t \in Scalar, NEW p \in Scalar, NEW z \in Scalar
    PROVE  Add(ScalarBaseMult(t), VarTimeDoubleScalarBaseMult(p, ScalarBaseMult(z), 0))
              = ScalarBaseMult((t + p * z) % Q)
<1>1. t \in Int /\ p \in Int /\ z \in Int /\ 0 \in Scalar
    BY ModScalar, QNat
<1>2. PICK y \in Int : y = p * z
    BY <1>1
<1>3. z * p + 0 = y
    BY <1>1, <1>2
<1>4. VarTimeDoubleScalarBaseMult(p, ScalarBaseMult(z), 0) = ScalarBaseMult(y % Q)
    BY <1>1, <1>3, HornerBase DEF VarTimeDoubleScalarBaseMult
<1>5. y % Q \in Scalar
    BY ModType
<1>6. Add(ScalarBaseMult(t), ScalarBaseMult(y % Q)) = ScalarBaseMult((t + (y % Q)) % Q)
    BY <1>5, GroupLaws
<1>7. (t + (y % Q)) % Q = (t + y) % Q
    BY <1>1, ModAdd
<1>8. QED
    BY <1>2, <1>4, <1>6, <1>7

\* evaluateClassic commits to the value of the polynomial.
LEMMA ClassicOK ==
    ASSUME NEW e, NEW c, NEW n, IsExp(e, c, n), NEW x \in Scalar \ {0}
    PROVE  evaluateClassic(e, x) = ScalarBaseMult(Evaluate(c, x))
<1> DEFINE Eq(w) == w = [i \in 0 .. n |->
                IF i = 0 THEN [x |-> 1, sum |-> Identity]
                ELSE [x   |-> (w[i - 1].x * x) % Q,
                      sum |-> Add(w[i - 1].sum,
                                  VarTimeDoubleScalarBaseMult(w[i - 1].x, e[i], 0))]]
           w0 == CHOOSE w : Eq(w)
<1>1. n \in Nat /\ IsPoly(c, n) /\ Len(e) = n /\ c \in [1 .. n -> Scalar]
      /\ \A i \in 1 .. n : e[i] = ScalarBaseMult(c[i])
    BY DEF IsExp, IsPoly
<1>2. PICK p : IsPowers(p, n, x)
    BY <1>1, PowersExist
<1>3. PICK T : IsPowerSums(T, p, c, n)
    BY <1>1, <1>2, PowerSumsExist
<1>4. T[n] = Evaluate(c, x)
    BY <1>1, <1>2, <1>3, PowerSumEvaluate
<1> DEFINE u == [k \in 0 .. n |-> [x |-> p[k], sum |-> ScalarBaseMult(T[k])]]
<1>5. u[0] = [x |-> 1, sum |-> Identity]
    BY <1>1, <1>2, <1>3, GroupLaws DEF IsPowers, IsPowerSums
<1>6. ASSUME NEW k \in 1 .. n
      PROVE  u[k] = [x   |-> (u[k - 1].x * x) % Q,
                     sum |-> Add(u[k - 1].sum,
                                 VarTimeDoubleScalarBaseMult(u[k - 1].x, e[k], 0))]
    <2>1. k - 1 \in 0 .. n /\ k \in 0 .. n
        BY <1>1
    <2>2. T[k - 1] \in Scalar /\ p[k - 1] \in Scalar /\ c[k] \in Scalar
        BY <1>1, <1>2, <1>3, <2>1 DEF IsPowers, IsPowerSums
    <2>3. u[k - 1].x = p[k - 1] /\ u[k - 1].sum = ScalarBaseMult(T[k - 1])
          /\ u[k] = [x |-> p[k], sum |-> ScalarBaseMult(T[k])]
        BY <2>1
    <2>4. p[k] = (p[k - 1] * x) % Q /\ T[k] = (T[k - 1] + p[k - 1] * c[k]) % Q
        BY <1>2, <1>3 DEF IsPowers, IsPowerSums
    <2>5. Add(ScalarBaseMult(T[k - 1]), VarTimeDoubleScalarBaseMult(p[k - 1], e[k], 0))
             = ScalarBaseMult(T[k])
        BY <1>1, <2>2, <2>4, ClassicTurn
    <2> HIDE DEF u
    <2>6. QED
        BY <2>3, <2>4, <2>5
<1>7. Eq(w0)
    <2>1. \A k \in 0 .. n :
              u[k] = IF k = 0 THEN [x |-> 1, sum |-> Identity]
                     ELSE [x   |-> (u[k - 1].x * x) % Q,
                           sum |-> Add(u[k - 1].sum,
                                       VarTimeDoubleScalarBaseMult(u[k - 1].x, e[k], 0))]
        <3> HIDE DEF u
        <3>1. QED
            BY <1>1, <1>5, <1>6
    <2>2. u = [k \in 0 .. n |-> u[k]]
        OBVIOUS
    <2>3. Eq(u)
        <3> HIDE DEF u
        <3>1. QED
            BY <2>1, <2>2
    <2>4. QED
        BY <2>3, Zenon
<1>8. evaluateClassic(e, x) = w0[n].sum
    BY <1>1 DEF evaluateClassic, Guarded
<1> HIDE DEF w0, u
<1>9. /\ w0[0] = [x |-> 1, sum |-> Identity]
      /\ \A k \in 1 .. n :
            w0[k] = [x   |-> (w0[k - 1].x * x) % Q,
                     sum |-> Add(w0[k - 1].sum,
                                 VarTimeDoubleScalarBaseMult(w0[k - 1].x, e[k], 0))]
    BY <1>1, <1>7
<1>10. \A k \in 0 .. n : w0[k] = u[k]
    <2>1. w0[0] = u[0]
        BY <1>5, <1>9
    <2>2. \A k \in 1 .. n : w0[k - 1] = u[k - 1] => w0[k] = u[k]
        BY <1>6, <1>9
    <2>3. Follows(w0, u, n)
        BY <2>1, <2>2 DEF Follows
    <2>4. QED
        BY ONLY <1>1, <2>3, RecSame
<1>11. w0[n] = u[n] /\ u[n].sum = ScalarBaseMult(T[n])
    <2>1. n \in 0 .. n
        BY <1>1
    <2>2. w0[n] = u[n]
        BY ONLY <1>10, <2>1
    <2>3. u[n].sum = ScalarBaseMult(T[n])
        BY <2>1 DEF u
    <2>4. QED
        BY <2>2, <2>3
<1>12. QED
    BY <1>4, <1>8, <1>11

\* So does evaluateHorner.
LEMMA HornerOK ==
    ASSUME NEW e, NEW c, NEW n, IsExp(e, c, n), NEW x \in Scalar \ {0}
    PROVE  evaluateHorner(e, x) = ScalarBaseMult(Evaluate(c, x))
<1>1. IsPoly(c, n) /\ Len(e) = n /\ \A i \in 1 .. n : e[i] = ScalarBaseMult(c[i])
    BY DEF IsExp
<1>2. EvaluateExponent(e, x) = ScalarBaseMult(Evaluate(c, x))
    BY <1>1, EvaluateInExponent
<1>3. QED
    BY <1>2 DEF evaluateHorner, Guarded

\* The table of powers has the powers.
LEMMA PowersTable ==
    ASSUME NEW n \in Nat, n >= 1, NEW x \in Scalar, NEW p, IsPowers(p, n, x)
    PROVE  \A i \in 1 .. n : Powers(x, n)[i] = p[i - 1]
<1> DEFINE Eq(w) == w = [i \in 1 .. n |-> IF i = 1 THEN 1 ELSE (w[i - 1] * x) % Q]
           w0 == CHOOSE w : Eq(w)
           u == [i \in 1 .. n |-> p[i - 1]]
<1>1. Eq(w0)
    <2>1. \A i \in 1 .. n : u[i] = IF i = 1 THEN 1 ELSE (u[i - 1] * x) % Q
        <3>1. SUFFICES ASSUME NEW i \in 1 .. n
                       PROVE  u[i] = IF i = 1 THEN 1 ELSE (u[i - 1] * x) % Q
            OBVIOUS
        <3>2. CASE i = 1
            BY <3>2 DEF IsPowers
        <3>3. CASE i # 1
            <4>1. i - 1 \in 1 .. n
                BY <3>3
            <4>2. u[i - 1] = p[(i - 1) - 1] /\ u[i] = p[i - 1]
                BY <4>1
            <4>3. p[i - 1] = (p[(i - 1) - 1] * x) % Q
                BY <4>1 DEF IsPowers
            <4>4. QED
                BY <3>3, <4>2, <4>3
        <3>4. QED
            BY <3>2, <3>3
    <2>2. u = [i \in 1 .. n |-> u[i]]
        OBVIOUS
    <2>3. Eq(u)
        <3> HIDE DEF u
        <3>1. QED
            BY <2>1, <2>2
    <2>4. QED
        BY <2>3, Zenon
<1>2. Powers(x, n) = w0
    BY DEF Powers
<1> HIDE DEF w0
<1>3. w0[1] = 1 /\ \A i \in 1 .. n : i # 1 => w0[i] = (w0[i - 1] * x) % Q
    BY <1>1
<1> DEFINE v == [k \in 0 .. n - 1 |-> w0[k + 1]]
<1>4. \A k \in 0 .. n - 1 : v[k] = p[k]
    <2>1. v[0] = p[0]
        BY <1>3 DEF IsPowers
    <2>2. ASSUME NEW k \in 1 .. n - 1, v[k - 1] = p[k - 1] PROVE v[k] = p[k]
        <3>1. k \in 0 .. n - 1 /\ k - 1 \in 0 .. n - 1 /\ k + 1 \in 1 .. n /\ k + 1 # 1
              /\ (k + 1) - 1 = k /\ (k - 1) + 1 = k /\ k \in 1 .. n
            OBVIOUS
        <3>2. v[k] = w0[k + 1] /\ v[k - 1] = w0[k]
            BY <3>1
        <3>3. w0[k + 1] = (w0[k] * x) % Q
            BY <1>3, <3>1
        <3>4. p[k] = (p[k - 1] * x) % Q
            BY <3>1 DEF IsPowers
        <3>5. QED
            BY <2>2, <3>2, <3>3, <3>4
    <2> HIDE DEF v
    <2>3. Follows(v, p, n - 1)
        BY <2>1, <2>2 DEF Follows
    <2>4. n - 1 \in Nat
        OBVIOUS
    <2>5. QED
        BY ONLY <2>3, <2>4, RecSame
<1>5. ASSUME NEW i \in 1 .. n PROVE w0[i] = p[i - 1]
    <2>1. i - 1 \in 0 .. n - 1 /\ (i - 1) + 1 = i
        OBVIOUS
    <2>2. v[i - 1] = w0[i]
        BY <2>1
    <2>3. QED
        BY <1>4, <2>1, <2>2
<1>6. QED
    BY <1>2, <1>5

\* evaluateVar commits to the value as well.
LEMMA VarOK ==
    ASSUME NEW e, NEW c, NEW n, IsExp(e, c, n), NEW x \in Scalar \ {0}
    PROVE  evaluateVar(e, x) = ScalarBaseMult(Evaluate(c, x))
<1>1. n \in Nat /\ n >= 1 /\ IsPoly(c, n) /\ Len(e) = n /\ c \in [1 .. n -> Scalar]
      /\ DOMAIN e = 1 .. n /\ \A i \in 1 .. n : e[i] = ScalarBaseMult(c[i])
    BY DEF IsExp, IsPoly
<1>2. PICK p : IsPowers(p, n, x)
    BY <1>1, PowersExist
<1>3. PICK T : IsPowerSums(T, p, c, n)
    BY <1>1, <1>2, PowerSumsExist
<1>4. T[n] = Evaluate(c, x)
    BY <1>1, <1>2, <1>3, PowerSumEvaluate
<1>5. PICK g : g = [i \in 1 .. n |-> (p[i - 1] * c[i]) % Q]
    OBVIOUS
<1>0. IsTerms(g, p, c, n)
    BY <1>5 DEF IsTerms
<1>6. g \in [1 .. n -> Scalar] /\ SumScalars(g) = T[n]
    BY <1>0, <1>1, <1>2, <1>3, TermSum
<1>7. ASSUME NEW i \in 1 .. n
      PROVE  ScalarMult(Powers(x, n)[i], e[i]) = ScalarBaseMult(g[i])
    <2>1. p[i - 1] \in Scalar /\ c[i] \in Scalar
        BY <1>1, <1>2 DEF IsPowers
    <2>2. Powers(x, n)[i] = p[i - 1]
        BY <1>1, <1>2, PowersTable
    <2>3. g[i] = (p[i - 1] * c[i]) % Q
        BY <1>5
    <2>4. QED
        BY <1>1, <2>1, <2>2, <2>3, GroupLaws
<1>8. [i \in DOMAIN e |-> ScalarMult(Powers(x, Len(e))[i], e[i])]
         = [i \in 1 .. n |-> ScalarBaseMult(g[i])]
    BY <1>1, <1>7
<1>9. IsFiniteSet(1 .. n)
    BY <1>1, FS_Interval
<1>10. SumElements([i \in 1 .. n |-> ScalarBaseMult(g[i])]) = ScalarBaseMult(SumScalars(g))
    BY <1>6, <1>9, SumElementsType
<1>11. evaluateVar(e, x)
          = SumElements([i \in DOMAIN e |-> ScalarMult(Powers(x, Len(e))[i], e[i])])
    BY DEF evaluateVar, Guarded
<1>12. QED
    BY <1>4, <1>6, <1>8, <1>10, <1>11

\* The sum of three Exponents, one after the other.
LEMMA SumOfThree ==
    ASSUME NEW a, NEW b, NEW d
    PROVE  SumExponents(<<a, b, d>>) =
              IF a = None THEN None
              ELSE IF AddExponents(a, b) = None THEN None
              ELSE AddExponents(AddExponents(a, b), d)
<1> DEFINE exps == <<a, b, d>>
           Eq(w) == w = [k \in 1 .. 3 |->
                IF k = 1 THEN exps[1]
                ELSE IF w[k - 1] = None THEN None ELSE AddExponents(w[k - 1], exps[k])]
           w0 == CHOOSE w : Eq(w)
           two == IF a = None THEN None ELSE AddExponents(a, b)
           three == IF two = None THEN None ELSE AddExponents(two, d)
           u == [k \in 1 .. 3 |-> IF k = 1 THEN a ELSE IF k = 2 THEN two ELSE three]
<1>1. Len(exps) = 3 /\ exps[1] = a /\ exps[2] = b /\ exps[3] = d
    OBVIOUS
<1> HIDE DEF exps
<1>2. Eq(w0)
    <2>1. u[1] = a /\ u[2] = two /\ u[3] = three
        OBVIOUS
    <2>2. u = [k \in 1 .. 3 |-> u[k]]
        OBVIOUS
    <2>3. \A k \in 1 .. 3 :
             u[k] = IF k = 1 THEN exps[1]
                    ELSE IF u[k - 1] = None THEN None ELSE AddExponents(u[k - 1], exps[k])
        <3> HIDE DEF u
        <3>1. SUFFICES ASSUME NEW k \in {1, 2, 3}
                       PROVE u[k] = IF k = 1 THEN exps[1]
                                    ELSE IF u[k - 1] = None THEN None
                                    ELSE AddExponents(u[k - 1], exps[k])
            OBVIOUS
        <3>2. CASE k = 1
            BY <1>1, <2>1, <3>2
        <3>3. CASE k = 2
            BY <1>1, <2>1, <3>3
        <3>4. CASE k = 3
            BY <1>1, <2>1, <3>4
        <3>5. QED
            BY <3>1, <3>2, <3>3, <3>4
    <2>4. Eq(u)
        <3> HIDE DEF u
        <3>1. QED
            BY <2>2, <2>3
    <2>5. QED
        BY <2>4, Zenon
<1>3. SumExponents(exps) = w0[3]
    BY <1>1 DEF SumExponents
<1> HIDE DEF w0
<1>4. w0[1] = a
    BY <1>1, <1>2
<1>5. w0[2] = two
    BY <1>1, <1>2, <1>4
<1>6. w0[3] = three
    BY <1>1, <1>2, <1>5
<1>7. QED
    BY <1>3, <1>6 DEF exps

\* An Exponent survives its encoding, as long as its degree fits two bytes.
LEMMA RoundTrip ==
    ASSUME NEW e, NEW c, NEW n, IsExp(e, c, n), n < MaxSize
    PROVE  UnmarshalExponent(MarshalExponent(e)) = e
<1>1. n \in Nat /\ n >= 1 /\ Len(e) = n /\ MaxSize = 65536
    BY DEF IsExp, IsPoly, MaxSize
<1>2. (n - 1) % MaxSize = n - 1 /\ n % MaxSize = n /\ (n - 1) + 1 = n
    BY <1>1
<1>3. MarshalExponent(e).degree = n - 1 /\ MarshalExponent(e).blocks = e
    BY <1>1, <1>2 DEF MarshalExponent
<1>4. QED
    BY <1>1, <1>2, <1>3 DEF UnmarshalExponent

\* A polynomial has one Exponent, which is not nil.
LEMMA ExpUnique ==
    ASSUME NEW a, NEW b, NEW c, NEW n, IsExp(a, c, n), IsExp(b, c, n), n \in Scalar
    PROVE  a = b /\ a # None
<1>1. a \in [1 .. n -> Element] /\ b \in [1 .. n -> Element] /\ \A i \in 1 .. n : a[i] = b[i]
    BY DEF IsExp
<1>2. a = [i \in 1 .. n |-> a[i]] /\ b = [i \in 1 .. n |-> b[i]]
    BY <1>1
<1>3. a = b
    BY <1>1, <1>2
<1>4. QED
    BY <1>1, <1>3, NilAssumption

PolySum(c, d, n) == [i \in 1 .. n |-> (c[i] + d[i]) % Q]

\* Exponents add up as the polynomials do.
LEMMA AddExp ==
    ASSUME NEW a, NEW b, NEW c, NEW d, NEW n, IsExp(a, c, n), IsExp(b, d, n)
    PROVE  IsExp(AddExponents(a, b), PolySum(c, d, n), n)
<1>1. /\ n \in Nat /\ n >= 1 /\ Len(a) = n /\ Len(b) = n /\ DOMAIN a = 1 .. n
      /\ c \in [1 .. n -> Scalar] /\ d \in [1 .. n -> Scalar]
      /\ \A i \in 1 .. n : a[i] = ScalarBaseMult(c[i]) /\ b[i] = ScalarBaseMult(d[i])
    BY DEF IsExp, IsPoly
<1>2. PICK s : s = PolySum(c, d, n)
    OBVIOUS
<1>3. ASSUME NEW i \in 1 .. n
      PROVE  s[i] \in Scalar /\ Add(a[i], b[i]) = ScalarBaseMult(s[i])
    <2>1. PICK y \in Scalar, z \in Scalar : y = c[i] /\ z = d[i]
        BY <1>1
    <2>2. y + z \in Int
        BY ModScalar
    <2>3. s[i] = (y + z) % Q
        BY <1>2, <2>1 DEF PolySum
    <2>4. s[i] \in Scalar
        BY <2>2, <2>3, ModType
    <2>5. Add(ScalarBaseMult(y), ScalarBaseMult(z)) = ScalarBaseMult((y + z) % Q)
        BY GroupLaws
    <2>6. QED
        BY <1>1, <2>1, <2>3, <2>4, <2>5
<1>4. s \in [1 .. n -> Scalar]
    BY <1>2, <1>3 DEF PolySum
<1>5. s \in Seq(Scalar) /\ Len(s) = n
    BY <1>1, <1>4
<1>6. PICK e : e = AddExponents(a, b)
    OBVIOUS
<1>7. e = [i \in 1 .. n |-> Add(a[i], b[i])]
    BY <1>1, <1>6 DEF AddExponents
<1>8. \A i \in 1 .. n : ScalarBaseMult(s[i]) \in Element
    BY <1>3, AddBase
<1>9. e \in [1 .. n -> Element] /\ \A i \in 1 .. n : e[i] = ScalarBaseMult(s[i])
    BY <1>3, <1>7, <1>8
<1>10. e \in Seq(Element) /\ Len(e) = n
    BY <1>1, <1>9
<1>11. QED
    BY <1>1, <1>2, <1>4, <1>5, <1>6, <1>9, <1>10 DEF IsExp, IsPoly

\* The three evaluations agree with the polynomial.
LEMMA EvaluationsAgree ==
    ASSUME NEW e, NEW c, NEW n, IsExp(e, c, n)
    PROVE  /\ \A x \in Scalar \ {0} : ScalarBaseMult(Evaluate(c, x)) = evaluateClassic(e, x)
           /\ \A x \in Scalar : /\ evaluateVar(e, x) = evaluateClassic(e, x)
                                /\ evaluateHorner(e, x) = evaluateClassic(e, x)
<1>1. \A x \in Scalar \ {0} : ScalarBaseMult(Evaluate(c, x)) = evaluateClassic(e, x)
    BY ClassicOK
<1>2. \A x \in Scalar \ {0} : /\ evaluateVar(e, x) = evaluateClassic(e, x)
                              /\ evaluateHorner(e, x) = evaluateClassic(e, x)
    BY ClassicOK, VarOK, HornerOK
<1>3. evaluateVar(e, 0) = None /\ evaluateHorner(e, 0) = None /\ evaluateClassic(e, 0) = None
    BY DEF evaluateVar, evaluateHorner, evaluateClassic, Guarded
<1>4. QED
    BY <1>1, <1>2, <1>3

\* Adding one after the other.
LEMMA SumsAgree ==
    ASSUME NEW F, NEW f, NEW n, IsExp(F, f, n), n \in Scalar,
           NEW g \in [1 .. n -> Scalar]
    PROVE  SumExponents(<<F, NewPolynomialExponent(g), F>>)
              = NewPolynomialExponent([i \in 1 .. n |-> (f[i] + g[i] + f[i]) % Q])
<1>1. n \in Nat /\ n >= 1 /\ f \in [1 .. n -> Scalar]
    BY DEF IsExp, IsPoly
<1>2. g \in Seq(Scalar) /\ Len(g) = n
    BY <1>1
<1>3. PICK G : G = NewPolynomialExponent(g)
    OBVIOUS
<1>4. IsExp(G, g, n)
    BY <1>1, <1>2, <1>3, ExpOf DEF IsPoly
<1>5. PICK s : s = PolySum(f, g, n)
    OBVIOUS
<1>6. IsExp(AddExponents(F, G), s, n)
    BY <1>4, <1>5, AddExp
<1>7. PICK r : r = PolySum(s, f, n)
    OBVIOUS
<1>8. IsExp(AddExponents(AddExponents(F, G), F), r, n)
    BY <1>6, <1>7, AddExp
<1>9. F # None /\ AddExponents(F, G) # None
    BY <1>6, ExpUnique
<1>10. SumExponents(<<F, G, F>>) = AddExponents(AddExponents(F, G), F)
    BY <1>9, SumOfThree
<1>11. r = [i \in 1 .. n |-> (f[i] + g[i] + f[i]) % Q]
    <2>1. ASSUME NEW i \in 1 .. n PROVE (s[i] + f[i]) % Q = (f[i] + g[i] + f[i]) % Q
        <3>1. PICK y \in Int, z \in Int : y = f[i] /\ z = g[i]
            BY <1>1, ModScalar
        <3>2. s[i] = (y + z) % Q
            BY <1>5, <3>1 DEF PolySum
        <3>3. (((y + z) % Q) + y) % Q = ((y + z) + y) % Q
            <4>1. PICK w \in Int : w = y + z
                OBVIOUS
            <4>2. QED
                BY <4>1, ModAdd
        <3>4. QED
            BY <3>1, <3>2, <3>3
    <2>2. QED
        BY <1>7, <2>1 DEF PolySum
<1>12. IsExp(NewPolynomialExponent(r), r, n)
    <2>1. IsPoly(r, n)
        BY <1>8 DEF IsExp
    <2>2. QED
        BY <1>1, <2>1, ExpOf
<1>13. AddExponents(AddExponents(F, G), F) = NewPolynomialExponent(r)
    BY <1>8, <1>12, ExpUnique
<1>14. QED
    BY <1>3, <1>10, <1>11, <1>13

\* Polynomials of different degree are not added.
LEMMA SumRefused ==
    ASSUME NEW F, NEW f, NEW n, IsExp(F, f, n)
    PROVE  SumExponents(<<F, Append(F, Identity), F>>) = None
<1>1. n \in Nat /\ F \in [1 .. n -> Element] /\ Len(F) = n
    BY DEF IsExp, IsPoly
<1>2. Identity \in Element
    BY GroupLaws, QNat DEF Element
<1>3. F \in Seq(Element)
    BY <1>1
<1>4. Len(Append(F, Identity)) = n + 1
    BY <1>1, <1>2, <1>3
<1>5. AddExponents(F, Append(F, Identity)) = None
    BY <1>1, <1>4 DEF AddExponents
<1>6. QED
    BY <1>5, SumOfThree

\* What a dealer's polynomial determines, in the exponent.
LEMMA ExponentsAgree == N < MaxSize /\ SignInv => ExponentAgrees
<1> DEFINE f == key.poly
           n == Needed
           F == UnmarshalExponent(MarshalExponent(NewPolynomialExponent(f)))
<1>1. SUFFICES ASSUME N < MaxSize, SignInv, key # None, f # None
               PROVE  /\ \A x \in Scalar \ {0} :
                            ScalarBaseMult(Evaluate(f, x)) = evaluateClassic(F, x)
                      /\ \A x \in Scalar : /\ evaluateVar(F, x) = evaluateClassic(F, x)
                                           /\ evaluateHorner(F, x) = evaluateClassic(F, x)
                      /\ EvaluateMulti(F, 1 .. N) = key.public.Shares
                      /\ \A g \in [1 .. Len(f) -> Coefficients] :
                            SumExponents(<<F, NewPolynomialExponent(g), F>>)
                              = NewPolynomialExponent(
                                    [i \in 1 .. Len(f) |-> (f[i] + g[i] + f[i]) % Q])
                      /\ SumExponents(<<F, Append(F, Identity), F>>) = None
    BY DEF ExponentAgrees
<1>2. /\ IsPoly(f, n) /\ n \in 1 .. N
      /\ key.public.Shares = [id \in IDs |-> ScalarBaseMult(Evaluate(f, id))]
    BY <1>1 DEF SignInv, IsKey
<1>3. n \in Nat /\ n >= 1 /\ n < MaxSize /\ n \in Scalar /\ N \in Nat /\ Len(f) = n
      /\ IDs = 1 .. N /\ \A id \in IDs : id \in Scalar \ {0}
    <2>1. N \in Nat /\ N < Q
        BY ChillAssumption
    <2>2. MaxSize = 65536
        BY DEF MaxSize
    <2>3. QED
        BY <1>1, <1>2, <2>1, <2>2, QNat, KeygenAssumption, FrostAssumption DEF IsPoly
<1> HIDE DEF n
<1>4. IsExp(NewPolynomialExponent(f), f, n)
    BY <1>2, <1>3, ExpOf
<1>5. F = NewPolynomialExponent(f)
    BY <1>3, <1>4, RoundTrip
<1> HIDE DEF F
<1>6. IsExp(F, f, n)
    BY <1>4, <1>5
<1>7. EvaluateMulti(F, 1 .. N) = key.public.Shares
    <2>1. \A id \in IDs : evaluateVar(F, id) = ScalarBaseMult(Evaluate(f, id))
        BY <1>3, <1>6, VarOK
    <2>2. QED
        BY <1>2, <1>3, <2>1 DEF EvaluateMulti
<1>8. ASSUME NEW g \in [1 .. Len(f) -> Coefficients]
      PROVE  SumExponents(<<F, NewPolynomialExponent(g), F>>)
                = NewPolynomialExponent([i \in 1 .. Len(f) |-> (f[i] + g[i] + f[i]) % Q])
    <2>1. g \in [1 .. n -> Scalar]
        BY <1>3, KeygenAssumption
    <2>2. QED
        BY <1>3, <1>6, <2>1, SumsAgree
<1>9. SumExponents(<<F, Append(F, Identity), F>>) = None
    BY <1>6, SumRefused
<1>10. QED
    BY <1>6, <1>7, <1>8, <1>9, EvaluationsAgree

\* The three evaluations of an Exponent, its encoding and its sums agree with
\* the polynomial it was made from, as long as the number of parties fits
\* the 16 bits of party.Size.
THEOREM ExponentsArePolynomials ==
    ASSUME N < MaxSize
    PROVE  KSpec => []ExponentAgrees
<1>1. SignInv => ExponentAgrees
    BY ExponentsAgree
<1>2. QED
    BY <1>1, KeygenSignInvariant, PTL
=============================================================================

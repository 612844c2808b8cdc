------------------------------ MODULE Group_proofs ------------------------------
(***************************************************************************)
(* The arithmetic that signing and key generation rest on, for every group *)
(* of prime order: sums and products over finite sets do not depend on the *)
(* order, the points behave like the scalars, Horner's rule in the         *)
(* exponent agrees with Horner's rule, and Lagrange interpolation at 0     *)
(* returns the constant term of a polynomial from as many values as it has *)
(* coefficients, or more.                                                  *)
(*                                                                         *)
(* Induction is done over sets: the set of the naturals (or subsets) for   *)
(* which a claim holds is shown to be all of them.                         *)
(***************************************************************************)
EXTENDS Group, FiniteSetTheorems, WellFoundedInduction, TLAPS

-----------------------------------------------------------------------------
(* Induction *)

\* A set of naturals that has 0 and all successors is Nat.
LEMMA NatInd ==
    ASSUME NEW G \in SUBSET Nat, 0 \in G, \A n \in G : n + 1 \in G
    PROVE  \A n \in Nat : n \in G
<1> DEFINE R == OpToRel(<, Nat)
           S == Nat \ G
<1>1. SUFFICES ASSUME S # {} PROVE FALSE
    OBVIOUS
<1>2. IsWellFoundedOn(R, Nat)
    BY NatLessThanWellFounded, Zenon
<1>3. \A x, y \in Nat : x < y => <<x, y>> \in R
    BY DEF OpToRel
<1> HIDE DEF R
<1>4. PICK x \in S : \A y \in S : ~ (<<y, x>> \in R)
    BY <1>1, <1>2, WFMin
<1>5. x \in Nat /\ x # 0 /\ x \notin G
    OBVIOUS
<1>6. x - 1 \in Nat /\ x - 1 < x /\ (x - 1) + 1 = x
    BY <1>5
<1>7. x - 1 \notin S
    BY <1>3, <1>4, <1>5, <1>6, Zenon
<1>8. QED
    BY <1>5, <1>6, <1>7

\* Induction over the subsets of a finite set.
LEMMA SubsetInd ==
    ASSUME NEW S, IsFiniteSet(S), NEW G, {} \in G,
           \A T \in SUBSET S : T # {} /\ (\A x \in T : T \ {x} \in G) => T \in G
    PROVE  \A T \in SUBSET S : T \in G
<1> DEFINE H == {n \in Nat : \A T \in SUBSET S : Cardinality(T) = n => T \in G}
<1>1. \A T \in SUBSET S : IsFiniteSet(T) /\ Cardinality(T) \in Nat
    BY FS_Subset, FS_CardinalityType
<1>2. 0 \in H
    BY <1>1, FS_EmptySet
<1>3. ASSUME NEW n \in H PROVE n + 1 \in H
    <2>1. SUFFICES ASSUME NEW T \in SUBSET S, Cardinality(T) = n + 1 PROVE T \in G
        OBVIOUS
    <2>2. T # {}
        BY <2>1, FS_EmptySet
    <2>3. ASSUME NEW x \in T PROVE T \ {x} \in G
        <3>1. Cardinality(T \ {x}) = n
            BY <1>1, <2>1, FS_RemoveElement
        <3>2. QED
            BY <3>1
    <2>4. QED
        BY <2>2, <2>3
<1>4. \A n \in Nat : n \in H
    <2> HIDE DEF H
    <2>1. H \in SUBSET Nat
        BY DEF H
    <2>2. QED
        BY <1>2, <1>3, <2>1, NatInd, Zenon
<1>5. QED
    BY <1>1, <1>4

-----------------------------------------------------------------------------
(* Arithmetic modulo Q *)

\* The order of the group, for the steps that need no more.
LEMMA QNat == Q \in Nat /\ Q > 1 /\ Scalar = 0 .. Q - 1 /\ 0 \in Scalar /\ 1 \in Scalar
BY GroupAssumption DEF Scalar

\* Congruent integers have the same remainder.
LEMMA ModCong ==
    ASSUME NEW a \in Int, NEW b \in Int, NEW k \in Int, a = b + Q * k
    PROVE  a % Q = b % Q
<1> DEFINE qa == a \div Q   ra == a % Q   qb == b \div Q   rb == b % Q
           d == qa - qb - k
<1>1. /\ qa \in Int /\ qb \in Int /\ ra \in Int /\ rb \in Int
      /\ a = Q * qa + ra /\ b = Q * qb + rb
      /\ 0 <= ra /\ ra < Q /\ 0 <= rb /\ rb < Q
    BY QNat
<1> HIDE DEF qa, ra, qb, rb
<1>2. rb - ra = Q * d /\ d \in Int
    BY <1>1, QNat
<1> HIDE DEF d
<1>3. d >= 1 => Q * d >= Q
    BY <1>2, QNat
<1>4. d <= -1 => Q * d <= -Q
    BY <1>2, QNat
<1>5. d = 0
    BY <1>1, <1>2, <1>3, <1>4, QNat
<1>6. ra = rb
    BY <1>1, <1>2, <1>5, QNat
<1>7. QED
    BY <1>6 DEF ra, rb

\* Remainders are scalars, and differ from the number by a multiple of Q.
LEMMA ModType ==
    ASSUME NEW a \in Int
    PROVE  a % Q \in Scalar /\ a % Q \in Int /\ a \div Q \in Int /\ a = Q * (a \div Q) + (a % Q)
BY QNat

\* Scalars are their own remainders.
LEMMA ModScalar ==
    ASSUME NEW a \in Scalar
    PROVE  a % Q = a /\ a \in Int
BY QNat

\* Sums may be reduced before or after.
LEMMA ModAdd ==
    ASSUME NEW a \in Int, NEW b \in Int
    PROVE  ((a % Q) + b) % Q = (a + b) % Q /\ (a + (b % Q)) % Q = (a + b) % Q
<1> DEFINE x == a % Q  y == b % Q  u == a \div Q  v == b \div Q
<1>1. /\ x \in Int /\ u \in Int /\ a = Q * u + x
      /\ y \in Int /\ v \in Int /\ b = Q * v + y
    BY ModType
<1> HIDE DEF x, y, u, v
<1>2. (a + b) % Q = (x + b) % Q
    <2>1. a + b = (x + b) + Q * u /\ a + b \in Int /\ x + b \in Int
        BY <1>1, QNat
    <2>2. QED
        BY <1>1, <2>1, ModCong
<1>3. (a + b) % Q = (a + y) % Q
    <2>1. a + b = (a + y) + Q * v /\ a + b \in Int /\ a + y \in Int
        BY <1>1, QNat
    <2>2. QED
        BY <1>1, <2>1, ModCong
<1>4. QED
    BY <1>2, <1>3 DEF x, y

\* So may differences ...
LEMMA ModSub ==
    ASSUME NEW a \in Int, NEW b \in Int
    PROVE  ((a % Q) - b) % Q = (a - b) % Q /\ (a - (b % Q)) % Q = (a - b) % Q
<1> DEFINE x == a % Q  y == b % Q  u == a \div Q  v == b \div Q
<1>1. /\ x \in Int /\ u \in Int /\ a = Q * u + x
      /\ y \in Int /\ v \in Int /\ b = Q * v + y
    BY ModType
<1> HIDE DEF x, y, u, v
<1>2. (a - b) % Q = (x - b) % Q
    <2>1. a - b = (x - b) + Q * u /\ a - b \in Int /\ x - b \in Int
        BY <1>1, QNat
    <2>2. QED
        BY <1>1, <2>1, ModCong
<1>3. (a - b) % Q = (a - y) % Q
    <2>1. a - b = (a - y) + Q * (-v) /\ a - b \in Int /\ a - y \in Int /\ -v \in Int
        BY <1>1, QNat
    <2>2. QED
        BY <1>1, <2>1, ModCong
<1>4. QED
    BY <1>2, <1>3 DEF x, y

\* ... and products.
LEMMA ModMul ==
    ASSUME NEW a \in Int, NEW b \in Int
    PROVE  ((a % Q) * b) % Q = (a * b) % Q /\ (a * (b % Q)) % Q = (a * b) % Q
<1> DEFINE x == a % Q  y == b % Q  u == a \div Q  v == b \div Q
<1>1. /\ x \in Int /\ u \in Int /\ a = Q * u + x
      /\ y \in Int /\ v \in Int /\ b = Q * v + y
    BY ModType
<1> HIDE DEF x, y, u, v
<1>2. (a * b) % Q = (x * b) % Q
    <2>1. a * b = (x * b) + Q * (u * b) /\ a * b \in Int /\ x * b \in Int /\ u * b \in Int
        BY <1>1, QNat
    <2>2. QED
        BY <2>1, ModCong
<1>3. (a * b) % Q = (a * y) % Q
    <2>1. a * b = (a * y) + Q * (v * a) /\ a * b \in Int /\ a * y \in Int /\ v * a \in Int
        BY <1>1, QNat
    <2>2. QED
        BY <2>1, ModCong
<1>4. QED
    BY <1>2, <1>3 DEF x, y

\* What is not 0 has an inverse.
LEMMA HasInverse ==
    ASSUME NEW a \in Scalar \ {0}
    PROVE  \E b \in Scalar : (a * b) % Q = 1
<1>1. \A c \in 1 .. Q - 1 : \E b \in 1 .. Q - 1 : (c * b) % Q = 1
    BY GroupAssumption, Zenon
<1>2. a \in 1 .. Q - 1
    BY QNat
<1>3. PICK b \in 1 .. Q - 1 : (a * b) % Q = 1
    BY <1>1, <1>2, Zenon
<1>4. b \in Scalar
    BY QNat
<1>5. QED
    BY <1>3, <1>4

\* So it can be cancelled.
LEMMA Cancel ==
    ASSUME NEW a \in Scalar \ {0}, NEW x \in Int, NEW y \in Int,
           (a * x) % Q = (a * y) % Q
    PROVE  x % Q = y % Q
<1>1. PICK b \in Scalar : (a * b) % Q = 1
    BY HasInverse
<1>2. a \in Int /\ b \in Int
    BY QNat
<1>3. ASSUME NEW z \in Int PROVE z % Q = (b * ((a * z) % Q)) % Q
    <2>1. a * z \in Int /\ a * b \in Int /\ b * (a * z) = (a * b) * z
        BY <1>2
    <2>2. (b * ((a * z) % Q)) % Q = (b * (a * z)) % Q
        BY <1>2, <2>1, ModMul
    <2>3. ((a * b) * z) % Q = (((a * b) % Q) * z) % Q
        BY <2>1, ModMul
    <2>4. 1 * z = z
        OBVIOUS
    <2>5. QED
        BY <1>1, <2>1, <2>2, <2>3, <2>4
<1>4. QED
    BY <1>3

\* Scalar.Invert.
LEMMA InvertOK ==
    ASSUME NEW k \in Scalar \ {0}
    PROVE  Invert(k) \in Scalar /\ (Invert(k) * k) % Q = 1
<1>1. PICK b \in Scalar : (k * b) % Q = 1
    BY HasInverse
<1>2. b * k = k * b
    BY QNat
<1>3. \E j \in Scalar : (j * k) % Q = 1
    BY <1>1, <1>2
<1>4. QED
    BY <1>3 DEF Invert

\* There are no zero divisors.
LEMMA NoZeroDivisors ==
    ASSUME NEW a \in Scalar \ {0}, NEW b \in Scalar \ {0}
    PROVE  (a * b) % Q \in Scalar \ {0}
<1>1. a \in Int /\ b \in Int /\ 0 \in Int /\ a * b \in Int /\ a * 0 = 0
    BY QNat
<1>2. (a * b) % Q \in Scalar
    BY <1>1, ModType
<1>3. SUFFICES ASSUME (a * b) % Q = 0 PROVE FALSE
    BY <1>2
<1>4. 0 % Q = 0
    BY ModScalar, QNat
<1>5. b % Q = 0 % Q
    BY <1>1, <1>3, <1>4, Cancel
<1>6. QED
    BY <1>4, <1>5, ModScalar

-----------------------------------------------------------------------------
(* Folds over finite sets.  The operation is given as a function, so that  *)
(* one lemma serves the sums of scalars and of points and the products.    *)

Pick(s) == CHOOSE x \in s : TRUE

\* The recursion over the subsets by which MapThenFoldSet is defined.
IsFold(it, op, base, f, S) ==
    \A s \in SUBSET S :
        it[s] = IF s = {} THEN base ELSE op[f[Pick(s)]][it[s \ {Pick(s)}]]

\* Commutative and associative.
AC(op, A) ==
    /\ \A a, b \in A : op[a][b] = op[b][a]
    /\ \A a, b, c \in A : op[a][op[b][c]] = op[op[a][b]][c]

\* Any element may be taken out first.
TakesAny(it, op, f, S) ==
    \A s \in SUBSET S, x \in S : x \in s => it[s] = op[f[x]][it[s \ {x}]]

\* It holds the folds over all subsets of S.
AllFolds(it, op, base, f, S) ==
    /\ it[{}] = base
    /\ TakesAny(it, op, f, S)
    /\ \A T \in SUBSET S :
          IsFold([s \in SUBSET T |-> it[s]], op, base, [i \in T |-> f[i]], T)

\* The recursion has a solution.
LEMMA FoldExists ==
    ASSUME NEW S, IsFiniteSet(S), NEW A, NEW op \in [A -> [A -> A]], NEW base \in A,
           NEW f \in [S -> A]
    PROVE  \E it \in [SUBSET S -> A] : IsFold(it, op, base, f, S)
<1> DEFINE Solves(it, n) ==
               /\ it[{}] = base
               /\ \A s \in SUBSET S : s # {} /\ Cardinality(s) <= n =>
                     it[s] = op[f[Pick(s)]][it[s \ {Pick(s)}]]
           H == {n \in Nat : \E it \in [SUBSET S -> A] : Solves(it, n)}
<1>1. \A s \in SUBSET S : IsFiniteSet(s) /\ Cardinality(s) \in Nat
                          /\ (Cardinality(s) = 0 <=> s = {})
    BY FS_Subset, FS_CardinalityType, FS_EmptySet
<1>2. \A s \in SUBSET S : s # {} =>
          /\ Pick(s) \in s /\ Pick(s) \in S /\ s \ {Pick(s)} \in SUBSET S
          /\ Cardinality(s \ {Pick(s)}) = Cardinality(s) - 1
    BY <1>1, FS_RemoveElement DEF Pick
<1>3. 0 \in H
    <2>1. Solves([s \in SUBSET S |-> base], 0)
        BY <1>1
    <2>2. QED
        BY <2>1
<1>4. ASSUME NEW n \in H PROVE n + 1 \in H
    <2>1. PICK it \in [SUBSET S -> A] : Solves(it, n)
        OBVIOUS
    <2> DEFINE nx == [s \in SUBSET S |->
                         IF Cardinality(s) <= n THEN it[s]
                         ELSE op[f[Pick(s)]][it[s \ {Pick(s)}]]]
    <2>2. nx \in [SUBSET S -> A]
        <3>1. ASSUME NEW s \in SUBSET S PROVE nx[s] \in A
            <4>1. CASE Cardinality(s) <= n
                BY <4>1
            <4>2. CASE ~ (Cardinality(s) <= n)
                <5>1. s # {}
                    BY <1>1, <4>2
                <5>2. f[Pick(s)] \in A /\ it[s \ {Pick(s)}] \in A
                    BY <1>2, <5>1
                <5>3. QED
                    BY <4>2, <5>2
            <4>3. QED
                BY <4>1, <4>2
        <3>2. QED
            BY <3>1
    <2>3. nx[{}] = base
        BY <1>1, <2>1
    <2>4. ASSUME NEW s \in SUBSET S, s # {}, Cardinality(s) <= n + 1
          PROVE  nx[s] = op[f[Pick(s)]][nx[s \ {Pick(s)}]]
        <3>0. s \ {Pick(s)} \in SUBSET S /\ Cardinality(s \ {Pick(s)}) <= n
            <4>1. /\ s \ {Pick(s)} \in SUBSET S
                  /\ Cardinality(s \ {Pick(s)}) = Cardinality(s) - 1
                BY <1>2, <2>4
            <4>2. n \in Nat /\ Cardinality(s) \in Nat
                BY <1>1
            <4>3. QED
                BY <2>4, <4>1, <4>2
        <3>1. nx[s \ {Pick(s)}] = it[s \ {Pick(s)}]
            BY <3>0
        <3>2. CASE Cardinality(s) <= n
            BY <2>1, <2>4, <3>1, <3>2
        <3>3. CASE ~ (Cardinality(s) <= n)
            BY <3>1, <3>3
        <3>4. QED
            BY <3>2, <3>3
    <2>5. Solves(nx, n + 1)
        BY <2>3, <2>4
    <2> HIDE DEF nx, Solves
    <2>6. QED
        BY <2>2, <2>5
<1>5. Cardinality(S) \in H
    <2> HIDE DEF H
    <2>1. H \in SUBSET Nat
        BY DEF H
    <2>2. \A n \in Nat : n \in H
        BY <1>3, <1>4, <2>1, NatInd, Zenon
    <2>3. QED
        BY <1>1, <2>2
<1>6. PICK it \in [SUBSET S -> A] : Solves(it, Cardinality(S))
    BY <1>5
<1>7. \A s \in SUBSET S : Cardinality(s) <= Cardinality(S)
    BY FS_Subset
<1>8. QED
    BY <1>6, <1>7 DEF IsFold

\* Two elements may be taken out in either order.
LEMMA ACSwap ==
    ASSUME NEW A, NEW op \in [A -> [A -> A]], AC(op, A)
    PROVE  \A u, v, w \in A : op[v][op[u][w]] = op[u][op[v][w]]
BY DEF AC

\* If the operation is commutative and associative, any element may be taken
\* out first.
LEMMA FoldAny ==
    ASSUME NEW S, IsFiniteSet(S), NEW A, NEW op \in [A -> [A -> A]], NEW base \in A,
           NEW f \in [S -> A], NEW it \in [SUBSET S -> A],
           AC(op, A), IsFold(it, op, base, f, S)
    PROVE  TakesAny(it, op, f, S)
<1> DEFINE G == {s \in SUBSET S : \A x \in s : it[s] = op[f[x]][it[s \ {x}]]}
           H == {n \in Nat : \A s \in SUBSET S : Cardinality(s) = n => s \in G}
<1>1. \A s \in SUBSET S : IsFiniteSet(s) /\ Cardinality(s) \in Nat
    BY FS_Subset, FS_CardinalityType
<1>2. 0 \in H
    BY <1>1, FS_EmptySet
<1>3. ASSUME NEW n \in H PROVE n + 1 \in H
    <2>0. n \in Nat /\ n + 1 \in Nat
        OBVIOUS
    <2>1. SUFFICES ASSUME NEW s \in SUBSET S, Cardinality(s) = n + 1, NEW x \in s
                   PROVE  it[s] = op[f[x]][it[s \ {x}]]
        BY <2>0, Zenon
    <2> DEFINE y == Pick(s)
    <2>2. y \in s /\ it[s] = op[f[y]][it[s \ {y}]]
        BY <2>1 DEF Pick, IsFold
    <2> HIDE DEF y
    <2>3. CASE x = y
        BY <2>2, <2>3
    <2>4. CASE x # y
        <3>1. /\ s \ {y} \in SUBSET S /\ s \ {x} \in SUBSET S /\ s \ {x, y} \in SUBSET S
            BY <2>1, <2>2
        <3>9. Cardinality(s \ {y}) = n /\ Cardinality(s \ {x}) = n
            <4>1. IsFiniteSet(s) /\ n \in Nat
                BY <1>1
            <4>2. /\ Cardinality(s \ {y}) = Cardinality(s) - 1
                  /\ Cardinality(s \ {x}) = Cardinality(s) - 1
                BY <2>1, <2>2, <4>1, FS_RemoveElement
            <4>3. QED
                BY <2>1, <4>1, <4>2
        <3>2. s \ {y} \in G /\ s \ {x} \in G
            BY <3>1, <3>9
        <3>3. (s \ {y}) \ {x} = s \ {x, y} /\ (s \ {x}) \ {y} = s \ {x, y}
            OBVIOUS
        <3>4. it[s \ {y}] = op[f[x]][it[s \ {x, y}]]
            BY <2>4, <3>2, <3>3
        <3>5. it[s \ {x}] = op[f[y]][it[s \ {x, y}]]
            <4>1. y \in s \ {x}
                BY <2>2, <2>4
            <4>2. it[s \ {x}] = op[f[y]][it[(s \ {x}) \ {y}]]
                BY <3>2, <4>1
            <4>3. QED
                BY <3>3, <4>2
        <3>6. f[x] \in A /\ f[y] \in A /\ it[s \ {x, y}] \in A
            BY <2>1, <2>2, <3>1
        <3>7. \A u, v, w \in A : op[v][op[u][w]] = op[u][op[v][w]]
            BY ACSwap
        <3>8. PICK u \in A, v \in A, w \in A : u = f[x] /\ v = f[y] /\ w = it[s \ {x, y}]
            BY <3>6
        <3>10. op[v][op[u][w]] = op[u][op[v][w]]
            BY <3>7
        <3>11. QED
            BY <2>2, <3>4, <3>5, <3>8, <3>10
    <2>5. QED
        BY <2>3, <2>4
<1>4. \A n \in Nat : n \in H
    <2> HIDE DEF H
    <2>1. H \in SUBSET Nat
        BY DEF H
    <2>2. QED
        BY <1>2, <1>3, <2>1, NatInd, Zenon
<1>5. QED
    BY <1>1, <1>4 DEF TakesAny

\* The recursion over the subsets has one solution.
LEMMA RecUnique ==
    ASSUME NEW S, IsFiniteSet(S), NEW i, NEW j, i[{}] = j[{}],
           \A s \in SUBSET S : s # {} /\ i[s \ {Pick(s)}] = j[s \ {Pick(s)}] => i[s] = j[s]
    PROVE  i[S] = j[S]
<1> DEFINE G == {s \in SUBSET S : i[s] = j[s]}
<1>1. {} \in G
    OBVIOUS
<1>2. ASSUME NEW T \in SUBSET S, T # {}, \A x \in T : T \ {x} \in G PROVE T \in G
    BY <1>2 DEF Pick
<1> HIDE DEF G
<1>3. \A T \in SUBSET S : T \in G
    BY <1>1, <1>2, SubsetInd
<1>4. QED
    BY <1>3 DEF G

\* A fold over a set holds the folds over its subsets.
LEMMA Folds ==
    ASSUME NEW S, IsFiniteSet(S), NEW A, NEW op \in [A -> [A -> A]], AC(op, A),
           NEW base \in A, NEW f \in [S -> A]
    PROVE  \E it \in [SUBSET S -> A] : AllFolds(it, op, base, f, S)
<1>1. PICK it \in [SUBSET S -> A] : IsFold(it, op, base, f, S)
    BY FoldExists, Zenon
<1>2. TakesAny(it, op, f, S)
    BY <1>1, FoldAny, Zenon
<1>3. it[{}] = base
    BY <1>1 DEF IsFold
<1>4. ASSUME NEW T \in SUBSET S
      PROVE  IsFold([s \in SUBSET T |-> it[s]], op, base, [i \in T |-> f[i]], T)
    <2> DEFINE g == [i \in T |-> f[i]]
               j == [s \in SUBSET T |-> it[s]]
    <2>1. ASSUME NEW s \in SUBSET T
          PROVE  j[s] = IF s = {} THEN base ELSE op[g[Pick(s)]][j[s \ {Pick(s)}]]
        <3>1. CASE s = {}
            BY <1>3, <3>1
        <3>2. CASE s # {}
            <4>1. Pick(s) \in s
                BY <3>2 DEF Pick
            <4>2. it[s] = op[f[Pick(s)]][it[s \ {Pick(s)}]]
                BY <1>2, <4>1 DEF TakesAny
            <4>3. g[Pick(s)] = f[Pick(s)] /\ j[s \ {Pick(s)}] = it[s \ {Pick(s)}] /\ j[s] = it[s]
                BY <4>1
            <4>4. QED
                BY <3>2, <4>2, <4>3
        <3>3. QED
            BY <3>1, <3>2
    <2>2. QED
        BY <2>1 DEF IsFold
<1>5. QED
    BY <1>1, <1>2, <1>3, <1>4 DEF AllFolds

-----------------------------------------------------------------------------
(* The three operations *)

Plus == [a \in Scalar |-> [b \in Scalar |-> (a + b) % Q]]

Times == [a \in Scalar |-> [b \in Scalar |-> (a * b) % Q]]

Join == [a \in Element |-> [b \in Element |-> Add(a, b)]]

\* The addition of scalars.
LEMMA PlusAC == Plus \in [Scalar -> [Scalar -> Scalar]] /\ AC(Plus, Scalar)
<1>1. \A a, b \in Scalar : (a + b) % Q \in Scalar /\ a + b = b + a
    <2>1. \A a, b \in Scalar : a + b \in Int /\ a + b = b + a
        BY QNat
    <2>2. QED
        BY <2>1, ModType
<1>2. \A a, b, c \in Scalar : (a + ((b + c) % Q)) % Q = (((a + b) % Q) + c) % Q
    <2>1. SUFFICES ASSUME NEW a \in Scalar, NEW b \in Scalar, NEW c \in Scalar
                   PROVE  (a + ((b + c) % Q)) % Q = (((a + b) % Q) + c) % Q
        OBVIOUS
    <2>6. a \in Int /\ b \in Int /\ c \in Int
        BY ModScalar
    <2>2. (a + ((b + c) % Q)) % Q = (a + (b + c)) % Q
        BY <2>6, ModAdd
    <2>3. (((a + b) % Q) + c) % Q = ((a + b) + c) % Q
        BY <2>6, ModAdd
    <2>4. a + (b + c) = (a + b) + c
        BY <2>6
    <2>5. QED
        BY <2>2, <2>3, <2>4
<1>3. QED
    BY <1>1, <1>2 DEF Plus, AC

\* The multiplication of scalars.
LEMMA TimesAC == Times \in [Scalar -> [Scalar -> Scalar]] /\ AC(Times, Scalar)
<1>1. \A a, b \in Scalar : (a * b) % Q \in Scalar /\ a * b = b * a
    <2>1. \A a, b \in Scalar : a * b \in Int /\ a * b = b * a
        BY QNat
    <2>2. QED
        BY <2>1, ModType
<1>2. \A a, b, c \in Scalar : (a * ((b * c) % Q)) % Q = (((a * b) % Q) * c) % Q
    <2>1. SUFFICES ASSUME NEW a \in Scalar, NEW b \in Scalar, NEW c \in Scalar
                   PROVE  (a * ((b * c) % Q)) % Q = (((a * b) % Q) * c) % Q
        OBVIOUS
    <2>6. a \in Int /\ b \in Int /\ c \in Int
        BY ModScalar
    <2>7. a * b \in Int /\ b * c \in Int
        BY <2>6
    <2>2. (a * ((b * c) % Q)) % Q = (a * (b * c)) % Q
        BY <2>6, <2>7, ModMul
    <2>3. (((a * b) % Q) * c) % Q = ((a * b) * c) % Q
        BY <2>6, <2>7, ModMul
    <2>4. a * (b * c) = (a * b) * c
        BY <2>6
    <2>5. QED
        BY <2>2, <2>3, <2>4
<1>3. QED
    BY <1>1, <1>2 DEF Times, AC

\* The points add up as the scalars do.
LEMMA AddBase ==
    ASSUME NEW a \in Scalar, NEW b \in Scalar
    PROVE  /\ Add(ScalarBaseMult(a), ScalarBaseMult(b)) = ScalarBaseMult(Plus[a][b])
           /\ ScalarMult(a, ScalarBaseMult(b)) = ScalarBaseMult(Times[a][b])
           /\ ScalarBaseMult(a) = ScalarBaseMult(b) => a = b
           /\ ScalarBaseMult(a) \in Element
           /\ Plus[a][b] = (a + b) % Q /\ Plus[a][b] \in Scalar
           /\ Times[a][b] = (a * b) % Q /\ Times[a][b] \in Scalar
<1>1. Plus[a][b] = (a + b) % Q /\ Times[a][b] = (a * b) % Q
    BY DEF Plus, Times
<1>2. Plus[a][b] \in Scalar /\ Times[a][b] \in Scalar
    BY PlusAC, TimesAC
<1>3. /\ Add(ScalarBaseMult(a), ScalarBaseMult(b)) = ScalarBaseMult((a + b) % Q)
      /\ ScalarMult(a, ScalarBaseMult(b)) = ScalarBaseMult((a * b) % Q)
      /\ ScalarBaseMult(a) = ScalarBaseMult(b) => a = b
    BY GroupLaws, Zenon
<1>4. ScalarBaseMult(a) \in Element
    BY DEF Element
<1>5. QED
    BY <1>1, <1>2, <1>3, <1>4

\* The addition of points.
LEMMA JoinAC == Join \in [Element -> [Element -> Element]] /\ AC(Join, Element)
<1>1. \A a, b \in Scalar :
          Join[ScalarBaseMult(a)][ScalarBaseMult(b)] = ScalarBaseMult(Plus[a][b])
    BY AddBase DEF Join
<1>2. Join \in [Element -> [Element -> Element]]
    <2>1. \A a, b \in Scalar : Add(ScalarBaseMult(a), ScalarBaseMult(b)) \in Element
        BY AddBase
    <2>2. QED
        BY <2>1 DEF Element, Join
<1>3. \A a, b \in Element : Join[a][b] = Join[b][a]
    <2>1. SUFFICES ASSUME NEW a \in Scalar, NEW b \in Scalar
                   PROVE  Join[ScalarBaseMult(a)][ScalarBaseMult(b)]
                            = Join[ScalarBaseMult(b)][ScalarBaseMult(a)]
        BY DEF Element
    <2>2. Plus[a][b] = Plus[b][a]
        BY PlusAC DEF AC
    <2>3. QED
        BY <1>1, <2>2
<1>4. \A a, b, c \in Element : Join[a][Join[b][c]] = Join[Join[a][b]][c]
    <2>1. SUFFICES ASSUME NEW a \in Scalar, NEW b \in Scalar, NEW c \in Scalar
                   PROVE  Join[ScalarBaseMult(a)][Join[ScalarBaseMult(b)][ScalarBaseMult(c)]]
                        = Join[Join[ScalarBaseMult(a)][ScalarBaseMult(b)]][ScalarBaseMult(c)]
        BY DEF Element
    <2>2. Plus[a][Plus[b][c]] = Plus[Plus[a][b]][c]
        BY PlusAC DEF AC
    <2>3. Plus[b][c] \in Scalar /\ Plus[a][b] \in Scalar
        BY AddBase
    <2>4. QED
        BY <1>1, <2>2, <2>3
<1>5. QED
    BY <1>2, <1>3, <1>4 DEF AC

\* Sums of scalars are folds ...
LEMMA SumScalarsFold ==
    ASSUME NEW S, IsFiniteSet(S), NEW f \in [S -> Scalar], NEW it \in [SUBSET S -> Scalar],
           IsFold(it, Plus, 0, f, S)
    PROVE  SumScalars(f) = it[S]
<1> DEFINE Eq(i) == i = [s \in SUBSET S |->
                IF s = {} THEN 0 ELSE (f[Pick(s)] + i[s \ {Pick(s)}]) % Q]
           i0 == CHOOSE i : Eq(i)
<1>1. ASSUME NEW s \in SUBSET S
      PROVE  it[s] = IF s = {} THEN 0 ELSE (f[Pick(s)] + it[s \ {Pick(s)}]) % Q
    <2>1. s # {} => f[Pick(s)] \in Scalar /\ it[s \ {Pick(s)}] \in Scalar
        BY DEF Pick
    <2>2. QED
        BY <2>1 DEF IsFold, Plus
<1>2. Eq(i0)
    <2>1. Eq(it)
        BY <1>1
    <2>2. QED
        BY <2>1, Zenon
<1>3. SumScalars(f) = i0[S]
    BY DEF SumScalars, FoldFunction, FoldFunctionOnSet, MapThenFoldSet, Pick
<1> HIDE DEF i0
<1>4. \A s \in SUBSET S :
          i0[s] = IF s = {} THEN 0 ELSE (f[Pick(s)] + i0[s \ {Pick(s)}]) % Q
    BY <1>2
<1>5. i0[{}] = it[{}]
    BY <1>1, <1>4
<1>6. i0[S] = it[S]
    <2>1. \A s \in SUBSET S :
              s # {} /\ i0[s \ {Pick(s)}] = it[s \ {Pick(s)}] => i0[s] = it[s]
        BY <1>1, <1>4
    <2>2. QED
        BY <1>5, <2>1, RecUnique, Zenon
<1>7. QED
    BY <1>3, <1>6

\* ... and so are sums of points ...
LEMMA SumElementsFold ==
    ASSUME NEW S, IsFiniteSet(S), NEW f \in [S -> Element], NEW it \in [SUBSET S -> Element],
           IsFold(it, Join, Identity, f, S)
    PROVE  SumElements(f) = it[S]
<1> DEFINE Eq(i) == i = [s \in SUBSET S |->
                IF s = {} THEN Identity ELSE Add(f[Pick(s)], i[s \ {Pick(s)}])]
           i0 == CHOOSE i : Eq(i)
<1>1. ASSUME NEW s \in SUBSET S
      PROVE  it[s] = IF s = {} THEN Identity ELSE Add(f[Pick(s)], it[s \ {Pick(s)}])
    <2>1. s # {} => f[Pick(s)] \in Element /\ it[s \ {Pick(s)}] \in Element
        BY DEF Pick
    <2>2. QED
        BY <2>1 DEF IsFold, Join
<1>2. Eq(i0)
    <2>1. Eq(it)
        BY <1>1
    <2>2. QED
        BY <2>1, Zenon
<1>3. SumElements(f) = i0[S]
    BY DEF SumElements, FoldFunction, FoldFunctionOnSet, MapThenFoldSet, Pick
<1> HIDE DEF i0
<1>4. \A s \in SUBSET S :
          i0[s] = IF s = {} THEN Identity ELSE Add(f[Pick(s)], i0[s \ {Pick(s)}])
    BY <1>2
<1>5. i0[{}] = it[{}]
    BY <1>1, <1>4
<1>6. i0[S] = it[S]
    <2>1. \A s \in SUBSET S :
              s # {} /\ i0[s \ {Pick(s)}] = it[s \ {Pick(s)}] => i0[s] = it[s]
        BY <1>1, <1>4
    <2>2. QED
        BY <1>5, <2>1, RecUnique, Zenon
<1>7. QED
    BY <1>3, <1>6

\* ... and the products in Lagrange coefficients.
Product(f) == FoldFunction(LAMBDA a, b : (a * b) % Q, 1, f)

\* Products of scalars are folds.
LEMMA ProductFold ==
    ASSUME NEW S, IsFiniteSet(S), NEW f \in [S -> Scalar], NEW it \in [SUBSET S -> Scalar],
           IsFold(it, Times, 1, f, S)
    PROVE  Product(f) = it[S]
<1> DEFINE Eq(i) == i = [s \in SUBSET S |->
                IF s = {} THEN 1 ELSE (f[Pick(s)] * i[s \ {Pick(s)}]) % Q]
           i0 == CHOOSE i : Eq(i)
<1>1. ASSUME NEW s \in SUBSET S
      PROVE  it[s] = IF s = {} THEN 1 ELSE (f[Pick(s)] * it[s \ {Pick(s)}]) % Q
    <2>1. s # {} => f[Pick(s)] \in Scalar /\ it[s \ {Pick(s)}] \in Scalar
        BY DEF Pick
    <2>2. QED
        BY <2>1 DEF IsFold, Times
<1>2. Eq(i0)
    <2>1. Eq(it)
        BY <1>1
    <2>2. QED
        BY <2>1, Zenon
<1>3. Product(f) = i0[S]
    BY DEF Product, FoldFunction, FoldFunctionOnSet, MapThenFoldSet, Pick
<1> HIDE DEF i0
<1>4. \A s \in SUBSET S :
          i0[s] = IF s = {} THEN 1 ELSE (f[Pick(s)] * i0[s \ {Pick(s)}]) % Q
    BY <1>2
<1>5. i0[{}] = it[{}]
    BY <1>1, <1>4
<1>6. i0[S] = it[S]
    <2>1. \A s \in SUBSET S :
              s # {} /\ i0[s \ {Pick(s)}] = it[s \ {Pick(s)}] => i0[s] = it[s]
        BY <1>1, <1>4
    <2>2. QED
        BY <1>5, <2>1, RecUnique, Zenon
<1>7. QED
    BY <1>3, <1>6

-----------------------------------------------------------------------------
(* Sums and products over the subsets of a finite set *)

SumOn(f, T) == SumScalars([i \in T |-> f[i]])
\* A sum of scalars: any term may be taken out.
LEMMA SumTake ==
    ASSUME NEW S, IsFiniteSet(S), NEW f \in [S -> Scalar], NEW T \in SUBSET S
    PROVE  /\ SumOn(f, T) \in Scalar
           /\ T = {} => SumOn(f, T) = 0
           /\ \A x \in T : SumOn(f, T) = (f[x] + SumOn(f, T \ {x})) % Q
<1>1. 0 \in Scalar
    BY QNat
<1>2. PICK it \in [SUBSET S -> Scalar] : AllFolds(it, Plus, 0, f, S)
    BY <1>1, PlusAC, Folds, Zenon
<1>3. ASSUME NEW U \in SUBSET S PROVE SumOn(f, U) = it[U]
    <2> DEFINE g == [i \in U |-> f[i]]
               j == [s \in SUBSET U |-> it[s]]
    <2>1. IsFiniteSet(U) /\ g \in [U -> Scalar] /\ j \in [SUBSET U -> Scalar]
        BY FS_Subset
    <2>2. IsFold(j, Plus, 0, g, U)
        BY <1>2 DEF AllFolds
    <2>3. j[U] = it[U]
        OBVIOUS
    <2> HIDE DEF g, j
    <2>4. SumScalars(g) = j[U]
        BY <2>1, <2>2, SumScalarsFold, Zenon
    <2>5. QED
        BY <2>3, <2>4 DEF SumOn, g
<1>4. SumOn(f, T) \in Scalar /\ (T = {} => SumOn(f, T) = 0)
    BY <1>2, <1>3 DEF AllFolds
<1>5. ASSUME NEW x \in T PROVE SumOn(f, T) = (f[x] + SumOn(f, T \ {x})) % Q
    <2>1. it[T] = Plus[f[x]][it[T \ {x}]]
        BY <1>2 DEF AllFolds, TakesAny
    <2>2. f[x] \in Scalar /\ it[T \ {x}] \in Scalar
        OBVIOUS
    <2>3. Plus[f[x]][it[T \ {x}]] = (f[x] + it[T \ {x}]) % Q
        BY <2>2 DEF Plus
    <2>4. QED
        BY <1>3, <2>1, <2>3
<1>6. QED
    BY <1>4, <1>5

JoinOn(f, T) == SumElements([i \in T |-> f[i]])
\* A sum of points likewise.
LEMMA JoinTake ==
    ASSUME NEW S, IsFiniteSet(S), NEW f \in [S -> Element], NEW T \in SUBSET S
    PROVE  /\ JoinOn(f, T) \in Element
           /\ T = {} => JoinOn(f, T) = Identity
           /\ \A x \in T : JoinOn(f, T) = Add(f[x], JoinOn(f, T \ {x}))
<1>1. Identity \in Element
    BY GroupLaws, QNat DEF Element
<1>2. PICK it \in [SUBSET S -> Element] : AllFolds(it, Join, Identity, f, S)
    BY <1>1, JoinAC, Folds, Zenon
<1>3. ASSUME NEW U \in SUBSET S PROVE JoinOn(f, U) = it[U]
    <2> DEFINE g == [i \in U |-> f[i]]
               j == [s \in SUBSET U |-> it[s]]
    <2>1. IsFiniteSet(U) /\ g \in [U -> Element] /\ j \in [SUBSET U -> Element]
        BY FS_Subset
    <2>2. IsFold(j, Join, Identity, g, U)
        BY <1>2 DEF AllFolds
    <2>3. j[U] = it[U]
        OBVIOUS
    <2> HIDE DEF g, j
    <2>4. SumElements(g) = j[U]
        BY <2>1, <2>2, SumElementsFold, Zenon
    <2>5. QED
        BY <2>3, <2>4 DEF JoinOn, g
<1>4. JoinOn(f, T) \in Element /\ (T = {} => JoinOn(f, T) = Identity)
    BY <1>2, <1>3 DEF AllFolds
<1>5. ASSUME NEW x \in T PROVE JoinOn(f, T) = Add(f[x], JoinOn(f, T \ {x}))
    <2>1. it[T] = Join[f[x]][it[T \ {x}]]
        BY <1>2 DEF AllFolds, TakesAny
    <2>2. f[x] \in Element /\ it[T \ {x}] \in Element
        OBVIOUS
    <2>3. Join[f[x]][it[T \ {x}]] = Add(f[x], it[T \ {x}])
        BY <2>2 DEF Join
    <2>4. QED
        BY <1>3, <2>1, <2>3
<1>6. QED
    BY <1>4, <1>5

ProductOn(f, T) == Product([i \in T |-> f[i]])
\* A product of scalars likewise.
LEMMA ProductTake ==
    ASSUME NEW S, IsFiniteSet(S), NEW f \in [S -> Scalar], NEW T \in SUBSET S
    PROVE  /\ ProductOn(f, T) \in Scalar
           /\ T = {} => ProductOn(f, T) = 1
           /\ \A x \in T : ProductOn(f, T) = (f[x] * ProductOn(f, T \ {x})) % Q
<1>1. 1 \in Scalar
    BY QNat
<1>2. PICK it \in [SUBSET S -> Scalar] : AllFolds(it, Times, 1, f, S)
    BY <1>1, TimesAC, Folds, Zenon
<1>3. ASSUME NEW U \in SUBSET S PROVE ProductOn(f, U) = it[U]
    <2> DEFINE g == [i \in U |-> f[i]]
               j == [s \in SUBSET U |-> it[s]]
    <2>1. IsFiniteSet(U) /\ g \in [U -> Scalar] /\ j \in [SUBSET U -> Scalar]
        BY FS_Subset
    <2>2. IsFold(j, Times, 1, g, U)
        BY <1>2 DEF AllFolds
    <2>3. j[U] = it[U]
        OBVIOUS
    <2> HIDE DEF g, j
    <2>4. Product(g) = j[U]
        BY <2>1, <2>2, ProductFold, Zenon
    <2>5. QED
        BY <2>3, <2>4 DEF ProductOn, g
<1>4. ProductOn(f, T) \in Scalar /\ (T = {} => ProductOn(f, T) = 1)
    BY <1>2, <1>3 DEF AllFolds
<1>5. ASSUME NEW x \in T PROVE ProductOn(f, T) = (f[x] * ProductOn(f, T \ {x})) % Q
    <2>1. it[T] = Times[f[x]][it[T \ {x}]]
        BY <1>2 DEF AllFolds, TakesAny
    <2>2. f[x] \in Scalar /\ it[T \ {x}] \in Scalar
        OBVIOUS
    <2>3. Times[f[x]][it[T \ {x}]] = (f[x] * it[T \ {x}]) % Q
        BY <2>2 DEF Times
    <2>4. QED
        BY <1>3, <2>1, <2>3
<1>6. QED
    BY <1>4, <1>5

\* A linear combination.
Lin(a, b, x, y) == (a * x + b * y) % Q

\* Linear combinations add up.
LEMMA ModCombine ==
    ASSUME NEW a \in Int, NEW b \in Int, NEW f \in Int, NEW F \in Int,
           NEW g \in Int, NEW G \in Int
    PROVE  (Lin(a, b, f, g) + Lin(a, b, F, G)) % Q
              = Lin(a, b, (f + F) % Q, (g + G) % Q)
<1> DEFINE u == a * f + b * g
           v == a * F + b * G
           x == (f + F) % Q
           y == (g + G) % Q
           k == (f + F) \div Q
           l == (g + G) \div Q
<1>1. /\ u \in Int /\ v \in Int /\ f + F \in Int /\ g + G \in Int
    OBVIOUS
<1>2. /\ x \in Int /\ k \in Int /\ f + F = Q * k + x
      /\ y \in Int /\ l \in Int /\ g + G = Q * l + y
    BY <1>1, ModType
<1>3. ((u % Q) + (v % Q)) % Q = (u + v) % Q
    <2> HIDE DEF u, v
    <2>1. v % Q \in Int
        BY <1>1, ModType
    <2>2. QED
        BY <1>1, <2>1, ModAdd
<1>4. u + v = a * (f + F) + b * (g + G)
    OBVIOUS
<1> HIDE DEF u, v, x, y, k, l
<1>5. u + v = (a * x + b * y) + Q * (a * k + b * l)
    <2>1. a * (f + F) = a * (Q * k + x) /\ b * (g + G) = b * (Q * l + y)
        BY <1>2
    <2>2. a * (Q * k + x) + b * (Q * l + y) = (a * x + b * y) + Q * (a * k + b * l)
        BY <1>2, QNat
    <2>3. QED
        BY <1>4, <2>1, <2>2
<1>6. u + v \in Int /\ a * x + b * y \in Int /\ a * k + b * l \in Int
    BY <1>1, <1>2
<1>7. (u + v) % Q = (a * x + b * y) % Q
    BY <1>5, <1>6, ModCong
<1>8. QED
    BY <1>3, <1>7 DEF u, v, x, y, Lin

\* The same for scalars.
LEMMA PlusCombine ==
    ASSUME NEW a \in Int, NEW b \in Int, NEW f \in Scalar, NEW F \in Scalar,
           NEW g \in Scalar, NEW G \in Scalar
    PROVE  Plus[Lin(a, b, f, g)][Lin(a, b, F, G)] = Lin(a, b, Plus[f][F], Plus[g][G])
<1>1. f \in Int /\ F \in Int /\ g \in Int /\ G \in Int
    BY ModScalar
<1>2. Lin(a, b, f, g) \in Scalar /\ Lin(a, b, F, G) \in Scalar
    BY <1>1, ModType DEF Lin
<1>3. (Lin(a, b, f, g) + Lin(a, b, F, G)) % Q = Lin(a, b, (f + F) % Q, (g + G) % Q)
    BY <1>1, ModCombine
<1>4. QED
    BY <1>2, <1>3 DEF Plus

\* Sums are linear.
LEMMA SumCombine ==
    ASSUME NEW S, IsFiniteSet(S), NEW f \in [S -> Scalar], NEW g \in [S -> Scalar],
           NEW h \in [S -> Scalar], NEW a \in Int, NEW b \in Int,
           \A i \in S : h[i] = Lin(a, b, f[i], g[i])
    PROVE  \A T \in SUBSET S : SumOn(h, T) = Lin(a, b, SumOn(f, T), SumOn(g, T))
<1> DEFINE Good(T) == SumOn(h, T) = Lin(a, b, SumOn(f, T), SumOn(g, T))
           H == {T \in SUBSET S : Good(T)}
<1>1. {} \in H
    <2>1. SumOn(h, {}) = 0 /\ SumOn(f, {}) = 0 /\ SumOn(g, {}) = 0
        BY SumTake
    <2>2. Lin(a, b, 0, 0) = 0
        BY QNat DEF Lin
    <2>3. QED
        BY <2>1, <2>2
<1>2. ASSUME NEW T \in SUBSET S, T # {}, \A x \in T : T \ {x} \in H PROVE T \in H
    <2>1. PICK x \in T : TRUE
        BY <1>2
    <2>2. Good(T \ {x})
        BY <1>2
    <2> DEFINE U == T \ {x}
    <2>3. U \in SUBSET S /\ x \in S
        OBVIOUS
    <2>4. /\ SumOn(h, T) = (h[x] + SumOn(h, U)) % Q
          /\ SumOn(f, T) = (f[x] + SumOn(f, U)) % Q
          /\ SumOn(g, T) = (g[x] + SumOn(g, U)) % Q
        BY SumTake
    <2>5. /\ f[x] \in Scalar /\ g[x] \in Scalar /\ h[x] \in Scalar
          /\ SumOn(f, U) \in Scalar /\ SumOn(g, U) \in Scalar /\ SumOn(h, U) \in Scalar
        BY <2>3, SumTake
    <2>6. Good(U) /\ h[x] = Lin(a, b, f[x], g[x])
        BY <2>2
    <2> HIDE DEF U
    <2>7. /\ SumOn(h, T) = Plus[h[x]][SumOn(h, U)]
          /\ SumOn(f, T) = Plus[f[x]][SumOn(f, U)]
          /\ SumOn(g, T) = Plus[g[x]][SumOn(g, U)]
        BY <2>4, <2>5 DEF Plus
    <2>8. Good(T)
        BY <2>5, <2>6, <2>7, PlusCombine
    <2>9. QED
        BY <2>8
<1> HIDE DEF H
<1>3. \A T \in SUBSET S : T \in H
    BY <1>1, <1>2, SubsetInd
<1>4. QED
    BY <1>3 DEF H

\* The sum of the multiples of the base point is the multiple by the sum.
LEMMA JoinSum ==
    ASSUME NEW S, IsFiniteSet(S), NEW f \in [S -> Scalar], NEW e,
           e = [i \in S |-> ScalarBaseMult(f[i])]
    PROVE  \A T \in SUBSET S : JoinOn(e, T) = ScalarBaseMult(SumOn(f, T))
<1> DEFINE H == {T \in SUBSET S : JoinOn(e, T) = ScalarBaseMult(SumOn(f, T))}
<1>0. e \in [S -> Element]
    BY DEF Element
<1>1. {} \in H
    <2>1. JoinOn(e, {}) = Identity /\ SumOn(f, {}) = 0
        BY <1>0, JoinTake, SumTake
    <2>2. ScalarBaseMult(0) = Identity
        BY GroupLaws
    <2>3. QED
        BY <2>1, <2>2
<1>2. ASSUME NEW T \in SUBSET S, T # {}, \A x \in T : T \ {x} \in H PROVE T \in H
    <2>1. PICK x \in T : TRUE
        BY <1>2
    <2> DEFINE U == T \ {x}
    <2>2. U \in SUBSET S /\ x \in S /\ JoinOn(e, U) = ScalarBaseMult(SumOn(f, U))
        BY <1>2
    <2>3. /\ JoinOn(e, T) = Add(e[x], JoinOn(e, U))
          /\ SumOn(f, T) = (f[x] + SumOn(f, U)) % Q
        BY <1>0, JoinTake, SumTake
    <2>4. f[x] \in Scalar /\ SumOn(f, U) \in Scalar /\ e[x] = ScalarBaseMult(f[x])
        BY <2>2, SumTake
    <2> HIDE DEF U
    <2>5. Add(e[x], JoinOn(e, U)) = ScalarBaseMult((f[x] + SumOn(f, U)) % Q)
        BY <2>2, <2>4, AddBase
    <2>6. QED
        BY <2>3, <2>5
<1> HIDE DEF H
<1>3. \A T \in SUBSET S : T \in H
    BY <1>1, <1>2, SubsetInd
<1>4. QED
    BY <1>3 DEF H

\* A product of scalars other than 0 is not 0.
LEMMA ProductNonzero ==
    ASSUME NEW S, IsFiniteSet(S), NEW f \in [S -> Scalar \ {0}]
    PROVE  \A T \in SUBSET S : ProductOn(f, T) \in Scalar \ {0}
<1> DEFINE H == {T \in SUBSET S : ProductOn(f, T) \in Scalar \ {0}}
<1>0. f \in [S -> Scalar]
    OBVIOUS
<1>1. {} \in H
    <2>1. ProductOn(f, {}) = 1
        BY <1>0, ProductTake
    <2>2. QED
        BY <2>1, QNat
<1>2. ASSUME NEW T \in SUBSET S, T # {}, \A x \in T : T \ {x} \in H PROVE T \in H
    <2>1. PICK x \in T : TRUE
        BY <1>2
    <2>2. ProductOn(f, T \ {x}) \in Scalar \ {0} /\ f[x] \in Scalar \ {0}
        BY <1>2
    <2>3. ProductOn(f, T) = (f[x] * ProductOn(f, T \ {x})) % Q
        BY <1>0, ProductTake
    <2>4. QED
        BY <2>2, <2>3, NoZeroDivisors
<1> HIDE DEF H
<1>3. \A T \in SUBSET S : T \in H
    BY <1>1, <1>2, SubsetInd
<1>4. QED
    BY <1>3 DEF H

-----------------------------------------------------------------------------
(* Lagrange coefficients *)

\* The parties: scalars other than 0.
IsIDs(S) == IsFiniteSet(S) /\ S \subseteq Scalar \ {0}

Others(i, S) == [x \in S \ {i} |-> x]

Diffs(i, S) == [x \in S \ {i} |-> (x - i) % Q]

\* Party.Lagrange divides the product of the others by that of the differences.
LEMMA LagrangeDef ==
    ASSUME NEW S, IsIDs(S), NEW i \in S
    PROVE  /\ Others(i, S) \in [S \ {i} -> Scalar] /\ Diffs(i, S) \in [S \ {i} -> Scalar \ {0}]
           /\ IsFiniteSet(S \ {i})
           /\ ProductOn(Others(i, S), S \ {i}) \in Scalar
           /\ ProductOn(Diffs(i, S), S \ {i}) \in Scalar \ {0}
           /\ Lagrange(i, S) \in Scalar
           /\ (Lagrange(i, S) * ProductOn(Diffs(i, S), S \ {i})) % Q
                 = ProductOn(Others(i, S), S \ {i})
<1> DEFINE O == S \ {i}
           num == Others(i, S)
           dif == Diffs(i, S)
           N == ProductOn(num, O)
           D == ProductOn(dif, O)
<1>1. IsFiniteSet(O) /\ O \in SUBSET O /\ \A x \in S : x \in Scalar
    BY FS_RemoveElement DEF IsIDs
<1>2. num \in [O -> Scalar]
    BY <1>1 DEF Others
<1>3. dif \in [O -> Scalar \ {0}]
    <2>1. ASSUME NEW x \in O PROVE (x - i) % Q \in Scalar \ {0}
        <3>1. x \in Scalar /\ i \in Scalar /\ x # i
            BY <1>1
        <3>2. x \in Int /\ i \in Int /\ 0 <= x /\ x < Q /\ 0 <= i /\ i < Q /\ Q \in Nat
            BY <3>1, QNat
        <3>3. (x - i) % Q \in Scalar
            BY <3>2, ModType
        <3>4. ASSUME (x - i) % Q = 0 PROVE FALSE
            <4>1. (((x - i) % Q) + i) % Q = ((x - i) + i) % Q
                BY <3>2, ModAdd
            <4>2. (x - i) + i = x /\ 0 + i = i
                BY <3>2
            <4>3. x % Q = i % Q
                BY <3>4, <4>1, <4>2
            <4>4. QED
                BY <3>1, <4>3, ModScalar
        <3>5. QED
            BY <3>3, <3>4
    <2>2. QED
        BY <2>1 DEF Diffs
<1>4. N \in Scalar
    BY <1>1, <1>2, ProductTake
<1>5. D \in Scalar \ {0}
    BY <1>1, <1>3, ProductNonzero
<1>6. Lagrange(i, S) = (N * Invert(D)) % Q
    <2>1. [x \in O |-> num[x]] = [x \in O |-> x] /\ [x \in O |-> dif[x]] = [x \in O |-> (x - i) % Q]
        BY DEF Others, Diffs
    <2>2. QED
        BY <2>1 DEF Lagrange, ProductOn, Product
<1> HIDE DEF N, D
<1>7. Invert(D) \in Scalar /\ (Invert(D) * D) % Q = 1
    BY <1>5, InvertOK
<1>8. N \in Int /\ D \in Int /\ Invert(D) \in Int
    BY <1>4, <1>5, <1>7, ModScalar
<1>9. (((N * Invert(D)) % Q) * D) % Q = N
    <2>1. N * Invert(D) \in Int /\ Invert(D) * D \in Int
        BY <1>8
    <2>2. (((N * Invert(D)) % Q) * D) % Q = ((N * Invert(D)) * D) % Q
        BY <1>8, <2>1, ModMul
    <2>3. (N * Invert(D)) * D = N * (Invert(D) * D)
        BY <1>8
    <2>4. (N * (Invert(D) * D)) % Q = (N * ((Invert(D) * D) % Q)) % Q
        BY <1>8, <2>1, ModMul
    <2>5. N * 1 = N
        BY <1>8
    <2>6. N % Q = N
        BY <1>4, ModScalar
    <2>7. QED
        BY <1>7, <2>2, <2>3, <2>4, <2>5, <2>6
<1>10. (N * Invert(D)) % Q \in Scalar
    BY <1>8, ModType
<1>11. QED
    BY <1>1, <1>2, <1>3, <1>4, <1>5, <1>6, <1>9, <1>10 DEF N, D

\* What they are for: scalars.
LEMMA LagrangeType ==
    ASSUME NEW S, IsIDs(S), NEW i \in S
    PROVE  Lagrange(i, S) \in Scalar
BY LagrangeDef

\* A party alone has coefficient 1.
LEMMA LagrangeAlone ==
    ASSUME NEW i \in Scalar \ {0}
    PROVE  Lagrange(i, {i}) = 1
<1> DEFINE num == Others(i, {i})
           dif == Diffs(i, {i})
           L == Lagrange(i, {i})
<1>1. IsIDs({i})
    BY FS_Singleton DEF IsIDs
<1>2. /\ num \in [{i} \ {i} -> Scalar] /\ dif \in [{i} \ {i} -> Scalar \ {0}]
      /\ IsFiniteSet({i} \ {i})
      /\ L \in Scalar
      /\ (L * ProductOn(dif, {i} \ {i})) % Q = ProductOn(num, {i} \ {i})
    BY <1>1, LagrangeDef
<1>3. {i} \ {i} = {} /\ dif \in [{i} \ {i} -> Scalar]
    BY <1>2
<1> HIDE DEF num, dif, L
<1>4. ProductOn(num, {}) = 1 /\ ProductOn(dif, {}) = 1
    BY <1>2, <1>3, ProductTake
<1>5. (L * 1) % Q = 1
    BY <1>2, <1>3, <1>4
<1>6. L * 1 = L /\ L % Q = L
    BY <1>2, ModScalar
<1>7. QED
    BY <1>5, <1>6 DEF L

\* The coefficients for a set and for the set without j: those of the larger
\* set have one more factor.
LEMMA LagrangeDrop ==
    ASSUME NEW S, IsIDs(S), NEW i \in S, NEW j \in S, i # j
    PROVE  (Lagrange(i, S) * (j - i)) % Q = (j * Lagrange(i, S \ {j})) % Q
<1> DEFINE O == S \ {i}
           R == (S \ {j}) \ {i}
           num == Others(i, S)
           dif == Diffs(i, S)
           rnum == Others(i, S \ {j})
           rdif == Diffs(i, S \ {j})
           L == Lagrange(i, S)
           M == Lagrange(i, S \ {j})
           c == (j - i) % Q
           N == ProductOn(rnum, R)
           D == ProductOn(rdif, R)
<1>1. IsIDs(S \ {j}) /\ i \in S \ {j} /\ j \in O /\ O \ {j} = R
    BY FS_RemoveElement DEF IsIDs
<1>2. /\ num \in [O -> Scalar] /\ dif \in [O -> Scalar \ {0}] /\ IsFiniteSet(O)
      /\ L \in Scalar
      /\ (L * ProductOn(dif, O)) % Q = ProductOn(num, O)
    BY LagrangeDef
<1>3. /\ N \in Scalar /\ D \in Scalar \ {0} /\ M \in Scalar
      /\ (M * D) % Q = N
    BY <1>1, LagrangeDef
<1>4. ProductOn(num, R) = N /\ ProductOn(dif, R) = D
    <2>1. [x \in R |-> num[x]] = [x \in R |-> rnum[x]]
        BY <1>1 DEF Others
    <2>2. [x \in R |-> dif[x]] = [x \in R |-> rdif[x]]
        BY <1>1 DEF Diffs
    <2>3. QED
        BY <2>1, <2>2 DEF ProductOn
<1>5. num[j] = j /\ dif[j] = c
    BY <1>1 DEF Others, Diffs
<1>6. j \in Int /\ i \in Int
    BY ModScalar DEF IsIDs
<1>7. c \in Scalar
    BY <1>6, ModType
<1> HIDE DEF num, dif, rnum, rdif, L, M, N, D, O, R
<1>8. dif \in [O -> Scalar]
    BY <1>2
<1>9. /\ ProductOn(num, O) = (j * N) % Q
      /\ ProductOn(dif, O) = (c * D) % Q
    <2>1. ProductOn(num, O) = (num[j] * ProductOn(num, O \ {j})) % Q
        BY <1>1, <1>2, ProductTake
    <2>2. ProductOn(dif, O) = (dif[j] * ProductOn(dif, O \ {j})) % Q
        BY <1>1, <1>2, <1>8, ProductTake
    <2>3. QED
        BY <1>1, <1>4, <1>5, <2>1, <2>2
<1>10. L \in Int /\ M \in Int /\ N \in Int /\ D \in Int /\ c \in Int /\ j - i \in Int
    BY <1>2, <1>3, <1>6, <1>7, ModScalar
<1>11. (D * (L * (j - i))) % Q = (j * N) % Q
    <2>1. (L * ((c * D) % Q)) % Q = (j * N) % Q
        BY <1>2, <1>9
    <2>2. c * D \in Int /\ L * D \in Int
        BY <1>10
    <2>3. (L * ((c * D) % Q)) % Q = (L * (c * D)) % Q
        BY <1>10, <2>2, ModMul
    <2>4. L * (c * D) = c * (L * D)
        BY <1>10
    <2>5. (c * (L * D)) % Q = ((j - i) * (L * D)) % Q
        BY <1>10, <2>2, ModMul
    <2>6. (j - i) * (L * D) = D * (L * (j - i))
        <3> DEFINE d == j - i
        <3>1. d \in Int
            BY <1>10
        <3> HIDE DEF d
        <3>2. d * (L * D) = D * (L * d)
            BY <1>10, <3>1
        <3>3. QED
            BY <3>2 DEF d
    <2>7. QED
        BY <2>1, <2>3, <2>4, <2>5, <2>6
<1>12. (D * (j * M)) % Q = (j * N) % Q
    <2>1. M * D \in Int
        BY <1>10
    <2>2. (j * ((M * D) % Q)) % Q = (j * (M * D)) % Q
        BY <1>6, <2>1, ModMul
    <2>3. j * (M * D) = D * (j * M)
        BY <1>6, <1>10
    <2>4. QED
        BY <1>3, <2>2, <2>3
<1>13. L * (j - i) \in Int /\ j * M \in Int
    BY <1>6, <1>10
<1>14. (L * (j - i)) % Q = (j * M) % Q
    BY <1>3, <1>11, <1>12, <1>13, Cancel
<1>15. QED
    BY <1>14 DEF L, M

-----------------------------------------------------------------------------
(* Interpolation at 0 *)

Terms(v, S) == [i \in S |-> (Lagrange(i, S) * v[i]) % Q]

\* What the values of v at S add up to.
Interp(v, S) == SumScalars(Terms(v, S))

\* The terms are scalars, and so is their sum.
LEMMA InterpType ==
    ASSUME NEW S, IsIDs(S), NEW v, \A i \in S : v[i] \in Scalar
    PROVE  /\ Terms(v, S) \in [S -> Scalar]
           /\ Interp(v, S) = SumOn(Terms(v, S), S)
           /\ Interp(v, S) \in Scalar
<1>1. ASSUME NEW i \in S PROVE (Lagrange(i, S) * v[i]) % Q \in Scalar
    <2>1. Lagrange(i, S) \in Int /\ v[i] \in Int
        BY LagrangeType, ModScalar
    <2>2. QED
        BY <2>1, ModType
<1>2. Terms(v, S) \in [S -> Scalar]
    BY <1>1 DEF Terms
<1>3. Interp(v, S) = SumOn(Terms(v, S), S)
    <2>1. Terms(v, S) = [i \in S |-> Terms(v, S)[i]]
        BY <1>2
    <2>2. QED
        BY <2>1 DEF Interp, SumOn
<1>4. QED
    BY <1>2, <1>3, SumTake DEF IsIDs

Mul(x, y) == (x * y) % Q

\* One term of a linear combination.
LEMMA TermLin ==
    ASSUME NEW L \in Int, NEW a \in Int, NEW b \in Int, NEW x \in Int, NEW y \in Int
    PROVE  Mul(L, Lin(a, b, x, y)) = Lin(a, b, Mul(L, x), Mul(L, y))
<1> DEFINE p == (L * x) % Q   q == (L * y) % Q
           k == (L * x) \div Q   l == (L * y) \div Q
           z == a * x + b * y
<1>1. L * x \in Int /\ L * y \in Int /\ z \in Int
    OBVIOUS
<1>2. /\ p \in Int /\ k \in Int /\ L * x = Q * k + p
      /\ q \in Int /\ l \in Int /\ L * y = Q * l + q
    BY <1>1, ModType
<1>3. (L * (z % Q)) % Q = (L * z) % Q
    <2> HIDE DEF z
    <2>1. QED
        BY <1>1, ModMul
<1>4. L * z = a * (L * x) + b * (L * y)
    OBVIOUS
<1> HIDE DEF p, q, k, l, z
<1>5. a * (L * x) + b * (L * y) = a * (Q * k + p) + b * (Q * l + q)
    BY <1>2
<1>6. a * (Q * k + p) + b * (Q * l + q) = (a * p + b * q) + Q * (a * k + b * l)
    BY <1>2, QNat
<1>7. L * z \in Int /\ a * p + b * q \in Int /\ a * k + b * l \in Int
    BY <1>1, <1>2
<1>8. (L * z) % Q = (a * p + b * q) % Q
    BY <1>4, <1>5, <1>6, <1>7, ModCong
<1>9. QED
    BY <1>3, <1>8 DEF p, q, z, Lin, Mul

\* The values w are the combination a u + b v of the values u and v.
Combined(w, a, b, u, v, S) ==
    \A i \in S : u[i] \in Scalar /\ v[i] \in Scalar /\ w[i] \in Scalar
                 /\ w[i] = Lin(a, b, u[i], v[i])

\* Interpolation is linear.
LEMMA InterpLin ==
    ASSUME NEW S, IsIDs(S), NEW u, NEW v, NEW w, NEW a \in Int, NEW b \in Int,
           Combined(w, a, b, u, v, S)
    PROVE  Interp(w, S) = Lin(a, b, Interp(u, S), Interp(v, S))
<1> DEFINE f == Terms(u, S)   g == Terms(v, S)   h == Terms(w, S)
<1> USE DEF Combined
<1>1. /\ f \in [S -> Scalar] /\ g \in [S -> Scalar] /\ h \in [S -> Scalar]
      /\ Interp(u, S) = SumOn(f, S) /\ Interp(v, S) = SumOn(g, S)
      /\ Interp(w, S) = SumOn(h, S)
    BY InterpType
<1>2. ASSUME NEW i \in S PROVE h[i] = Lin(a, b, f[i], g[i])
    <2> DEFINE L == Lagrange(i, S)
    <2>1. L \in Int /\ u[i] \in Int /\ v[i] \in Int
        BY LagrangeType, ModScalar
    <2>2. /\ f[i] = Mul(L, u[i]) /\ g[i] = Mul(L, v[i])
          /\ h[i] = Mul(L, Lin(a, b, u[i], v[i]))
        BY DEF Terms, Mul
    <2> HIDE DEF L, f, g, h
    <2>3. Mul(L, Lin(a, b, u[i], v[i])) = Lin(a, b, Mul(L, u[i]), Mul(L, v[i]))
        BY <2>1, TermLin
    <2>4. QED
        BY <2>2, <2>3
<1> HIDE DEF f, g, h
<1>3. IsFiniteSet(S) /\ S \in SUBSET S
    BY DEF IsIDs
<1>4. SumOn(h, S) = Lin(a, b, SumOn(f, S), SumOn(g, S))
    BY <1>1, <1>2, <1>3, SumCombine
<1>5. QED
    BY <1>1, <1>4

\* A factor (j - x) takes j out of the set.
LEMMA InterpDrop ==
    ASSUME NEW S, IsIDs(S), NEW j \in S, NEW v, NEW w,
           \A i \in S : v[i] \in Scalar /\ w[i] = ((j - i) * v[i]) % Q
    PROVE  Interp(w, S) = (j * Interp(v, S \ {j})) % Q
<1> DEFINE R == S \ {j}
           h == Terms(w, S)
           g == Terms(v, R)
           r == [i \in R |-> h[i]]
<1>1. IsIDs(R) /\ IsFiniteSet(S) /\ IsFiniteSet(R) /\ R \in SUBSET R
    BY FS_RemoveElement DEF IsIDs
<1>2. \A i \in S : i \in Int /\ i \in Scalar
    BY ModScalar DEF IsIDs
<1>3. \A i \in S : v[i] \in Int /\ (j - i) * v[i] \in Int
    BY <1>2, ModScalar
<1>4. \A i \in S : w[i] \in Scalar
    BY <1>3, ModType
<1>5. /\ h \in [S -> Scalar] /\ Interp(w, S) = SumOn(h, S)
      /\ g \in [R -> Scalar] /\ Interp(v, R) = SumOn(g, R) /\ SumOn(g, R) \in Scalar
    BY <1>1, <1>4, InterpType
<1>6. h[j] = 0
    <2>1. (j - j) * v[j] = 0 /\ 0 % Q = 0
        BY <1>2, <1>3, QNat
    <2>2. w[j] = 0
        BY <2>1
    <2>3. Lagrange(j, S) * 0 = 0
        BY LagrangeType, ModScalar
    <2>4. QED
        BY <2>1, <2>2, <2>3 DEF Terms
<1>7. ASSUME NEW i \in R PROVE r[i] = Lin(j, 0, g[i], g[i])
    <2> DEFINE L == Lagrange(i, S)   M == Lagrange(i, R)
    <2>1. i \in S /\ i # j /\ i \in Int /\ j \in Int /\ v[i] \in Int
        BY <1>2, <1>3
    <2>2. L \in Int /\ M \in Int
        BY <1>1, LagrangeType, ModScalar
    <2>3. (L * (j - i)) % Q = (j * M) % Q
        BY <2>1, LagrangeDrop
    <2>4. r[i] = (L * (((j - i) * v[i]) % Q)) % Q /\ g[i] = (M * v[i]) % Q
        BY DEF Terms
    <2> DEFINE d == j - i
    <2>5. d \in Int
        BY <2>1
    <2> HIDE DEF L, M, d, r, g
    <2>6. (L * ((d * v[i]) % Q)) % Q = (L * (d * v[i])) % Q
        <3>1. d * v[i] \in Int
            BY <2>1, <2>5
        <3>2. QED
            BY <2>2, <3>1, ModMul
    <2>7. L * (d * v[i]) = (L * d) * v[i]
        BY <2>1, <2>2, <2>5
    <2>8. ((L * d) * v[i]) % Q = (((L * d) % Q) * v[i]) % Q
        <3>1. L * d \in Int
            BY <2>2, <2>5
        <3>2. QED
            BY <2>1, <3>1, ModMul
    <2>9. (((j * M) % Q) * v[i]) % Q = ((j * M) * v[i]) % Q
        <3>1. j * M \in Int
            BY <2>1, <2>2
        <3>2. QED
            BY <2>1, <3>1, ModMul
    <2>10. (j * M) * v[i] = j * (M * v[i])
        BY <2>1, <2>2
    <2>11. (j * (M * v[i])) % Q = (j * ((M * v[i]) % Q)) % Q
        <3>1. M * v[i] \in Int
            BY <2>1, <2>2
        <3>2. QED
            BY <2>1, <3>1, ModMul
    <2>12. r[i] = (j * g[i]) % Q
        BY <2>3, <2>4, <2>6, <2>7, <2>8, <2>9, <2>10, <2>11 DEF d
    <2>13. g[i] \in Int
        BY <1>5, ModScalar
    <2>14. j * g[i] + 0 * g[i] = j * g[i]
        BY <2>1, <2>13
    <2>15. QED
        BY <2>12, <2>14 DEF Lin
<1>8. r \in [R -> Scalar] /\ SumOn(h, R) = SumOn(r, R)
    <2>1. r \in [R -> Scalar]
        BY <1>5
    <2>2. [i \in R |-> h[i]] = [i \in R |-> r[i]]
        OBVIOUS
    <2>3. QED
        BY <2>1, <2>2 DEF SumOn
<1>9. SumOn(h, S) = (h[j] + SumOn(h, R)) % Q /\ SumOn(h, R) \in Scalar
    BY <1>1, <1>5, SumTake
<1> HIDE DEF R, h, g, r
<1>10. SumOn(r, R) = Lin(j, 0, SumOn(g, R), SumOn(g, R))
    <2>1. j \in Int /\ 0 \in Int /\ IsFiniteSet(R) /\ R \in SUBSET R
        BY <1>1, <1>2
    <2>2. \A i \in R : r[i] = Lin(j, 0, g[i], g[i])
        BY <1>7
    <2>3. g \in [R -> Scalar] /\ r \in [R -> Scalar]
        BY <1>5, <1>8
    <2>4. \A T \in SUBSET R : SumOn(r, T) = Lin(j, 0, SumOn(g, T), SumOn(g, T))
        BY ONLY <2>1, <2>2, <2>3, SumCombine
    <2>5. QED
        BY <2>1, <2>4
<1>11. SumOn(h, S) = SumOn(h, R)
    BY <1>6, <1>9, ModScalar
<1>12. j * SumOn(g, R) + 0 * SumOn(g, R) = j * SumOn(g, R)
    BY <1>2, <1>5, ModScalar
<1>13. QED
    BY <1>5, <1>8, <1>10, <1>11, <1>12 DEF Lin, R

\* From the equation for two parties: the interpolation of 1 is 1.
LEMMA OneByTwo ==
    ASSUME NEW j \in Scalar, NEW k \in Scalar, j # k, NEW I \in Scalar,
           j = Lin(1, j - k, k, I)
    PROVE  I = 1
<1> DEFINE d == j - k
           a == d % Q
<1>1. j \in Int /\ k \in Int /\ I \in Int /\ d \in Int
    BY ModScalar
<1>2. a \in Scalar /\ a \in Int
    BY <1>1, ModType
<1>3. a # 0
    <2>1. SUFFICES ASSUME d % Q = 0 PROVE FALSE
        OBVIOUS
    <2> HIDE DEF d
    <2>2. d \div Q \in Int /\ d = Q * (d \div Q) + (d % Q)
        BY <1>1, ModType
    <2>3. PICK m \in Int : d = Q * m
        <3>1. PICK m \in Int : d = Q * m + 0
            BY <2>1, <2>2
        <3>2. Q * m + 0 = Q * m
            BY QNat
        <3>3. QED
            BY <3>1, <3>2
    <2> USE DEF d
    <2>4. j = k + Q * m
        BY <1>1, <2>3
    <2>5. j % Q = k % Q
        BY <1>1, <2>4, ModCong
    <2>6. QED
        BY <2>5, ModScalar
<1>4. j = (k + d * I) % Q
    BY <1>1 DEF Lin
<1> HIDE DEF d, a
<1>5. d * I \in Int
    BY <1>1
<1>6. (d * I) % Q = d % Q
    <2> DEFINE x == d * I
    <2>1. x \in Int /\ k + x \in Int /\ j = (k + x) % Q
        BY <1>1, <1>4, <1>5
    <2> HIDE DEF x
    <2>2. (k + x) \div Q \in Int /\ k + x = Q * ((k + x) \div Q) + j
        BY <2>1, ModType
    <2>3. PICK m \in Int : k + x = Q * m + j
        BY <2>2
    <2>4. x = d + Q * m
        <3>1. d = j - k
            BY DEF d
        <3>2. Q * m \in Int
            BY QNat
        <3>3. QED
            BY <1>1, <2>1, <2>3, <3>1, <3>2
    <2>5. x % Q = d % Q
        BY <1>1, <2>1, <2>4, ModCong
    <2>6. QED
        BY <2>5 DEF x
<1>7. (a * I) % Q = (a * 1) % Q
    <2>1. (a * I) % Q = (d * I) % Q
        BY <1>1, ModMul DEF a
    <2>2. a * 1 = a /\ a % Q = a
        BY <1>2, ModScalar
    <2>3. QED
        BY <1>6, <2>1, <2>2 DEF a
<1>8. I % Q = 1 % Q
    BY <1>1, <1>2, <1>3, <1>7, Cancel
<1>9. QED
    BY <1>8, ModScalar, QNat

\* Interpolating 1 gives 1, whatever the parties.
LEMMA InterpOne ==
    ASSUME NEW S, IsIDs(S), S # {}, NEW v, \A i \in S : v[i] = 1
    PROVE  Interp(v, S) = 1
<1> DEFINE G == {T \in SUBSET S : T # {} => Interp(v, T) = 1}
<1>1. {} \in G /\ IsFiniteSet(S)
    BY DEF IsIDs
<1>2. ASSUME NEW T \in SUBSET S, T # {}, \A x \in T : T \ {x} \in G PROVE T \in G
    <2>1. IsIDs(T) /\ IsFiniteSet(T) /\ \A i \in T : v[i] \in Scalar /\ v[i] = 1
        BY <1>1, FS_Subset, QNat DEF IsIDs
    <2>2. \A i \in T : i \in Scalar /\ i \in Int
        BY <2>1, ModScalar DEF IsIDs
    <2>3. PICK j \in T : TRUE
        BY <1>2
    <2>4. Interp(v, T) \in Scalar
        BY <2>1, InterpType
    <2>5. CASE T = {j}
        <3> DEFINE f == Terms(v, T)
        <3>1. f \in [T -> Scalar] /\ Interp(v, T) = SumOn(f, T)
            BY <2>1, InterpType
        <3>2. Lagrange(j, T) = 1
            BY <2>1, <2>5, LagrangeAlone DEF IsIDs
        <3>3. f[j] = (1 * 1) % Q
            BY <2>1, <3>2 DEF Terms
        <3>4. (1 * 1) % Q = 1
            BY QNat
        <3> HIDE DEF f
        <3>5. SumOn(f, T) = (f[j] + SumOn(f, T \ {j})) % Q
            BY <2>1, <3>1, SumTake
        <3>6. T \ {j} = {} /\ SumOn(f, {}) = 0
            BY <2>1, <2>5, <3>1, SumTake
        <3>7. (1 + 0) % Q = 1
            BY QNat
        <3>8. QED
            BY <3>1, <3>3, <3>4, <3>5, <3>6, <3>7
    <2>6. CASE T # {j}
        <3>1. PICK k \in T : k # j
            BY <2>6
        <3> DEFINE u == [i \in T |-> ((j - i) * v[i]) % Q]
                   w == [i \in T |-> ((k - i) * v[i]) % Q]
        <3>2. Interp(v, T \ {j}) = 1 /\ Interp(v, T \ {k}) = 1
            BY <1>2, <3>1
        <3>3. Interp(u, T) = (j * Interp(v, T \ {j})) % Q
            BY <2>1, InterpDrop
        <3>4. Interp(w, T) = (k * Interp(v, T \ {k})) % Q
            BY <2>1, InterpDrop
        <3>5. Interp(u, T) = j /\ Interp(w, T) = k
            BY <2>2, <3>2, <3>3, <3>4, ModScalar
        <3>6. ASSUME NEW i \in T
              PROVE  w[i] \in Scalar /\ u[i] \in Scalar /\ u[i] = Lin(1, j - k, w[i], v[i])
            <4>1. i \in Int /\ j \in Int /\ k \in Int /\ k - i \in Int /\ j - i \in Int /\ j - k \in Int
                BY <2>2
            <4>2. u[i] = (j - i) % Q /\ w[i] = (k - i) % Q
                BY <2>1, <4>1
            <4>3. Lin(1, j - k, w[i], v[i]) = (w[i] + (j - k)) % Q
                <5>1. w[i] \in Int
                    BY <4>1, <4>2, ModType
                <5> HIDE DEF w
                <5>2. 1 * w[i] + (j - k) * 1 = w[i] + (j - k)
                    BY <4>1, <5>1
                <5>3. QED
                    BY <2>1, <5>2 DEF Lin
            <4>4. (((k - i) % Q) + (j - k)) % Q = ((k - i) + (j - k)) % Q
                BY <4>1, ModAdd
            <4>5. (k - i) + (j - k) = j - i
                BY <4>1
            <4>6. (j - i) % Q \in Scalar /\ (k - i) % Q \in Scalar
                BY <4>1, ModType
            <4>7. QED
                BY <4>2, <4>3, <4>4, <4>5, <4>6
        <3> HIDE DEF u, w
        <3>7. 1 \in Int /\ j - k \in Int
            BY <2>2
        <3>8. Interp(u, T) = Lin(1, j - k, Interp(w, T), Interp(v, T))
            <4>1. Combined(u, 1, j - k, w, v, T)
                BY <2>1, <3>6 DEF Combined
            <4>2. QED
                BY <2>1, <3>7, <4>1, InterpLin
        <3>9. QED
            BY <2>2, <2>4, <3>1, <3>5, <3>8, OneByTwo
    <2>7. QED
        BY <2>5, <2>6
<1> HIDE DEF G
<1>3. \A T \in SUBSET S : T \in G
    BY <1>1, <1>2, SubsetInd
<1>4. QED
    BY <1>3 DEF G

-----------------------------------------------------------------------------
(* Recursion over 0 .. n *)

IsRec(v, base, F, n) == v[0] = base /\ \A k \in 1 .. n : v[k] = F[k][v[k - 1]]

\* A recursion has a solution ...
LEMMA RecExists ==
    ASSUME NEW n \in Nat, NEW A, NEW base \in A, NEW F \in [1 .. n -> [A -> A]]
    PROVE  \E v \in [0 .. n -> A] : IsRec(v, base, F, n)
<1> DEFINE H == {m \in Nat : m <= n => \E v \in [0 .. n -> A] : IsRec(v, base, F, m)}
<1>1. 0 \in H
    <2>1. IsRec([k \in 0 .. n |-> base], base, F, 0)
        BY DEF IsRec
    <2>2. QED
        BY <2>1
<1>2. ASSUME NEW m \in H PROVE m + 1 \in H
    <2>1. m \in Nat
        BY DEF H
    <2>2. SUFFICES ASSUME m + 1 <= n PROVE \E v \in [0 .. n -> A] : IsRec(v, base, F, m + 1)
        BY <2>1
    <2>3. PICK v \in [0 .. n -> A] : IsRec(v, base, F, m)
        BY <1>2, <2>1, <2>2
    <2> DEFINE w == [v EXCEPT ![m + 1] = F[m + 1][v[m]]]
    <2>4. m + 1 \in 1 .. n /\ m \in 0 .. n /\ m + 1 \in 0 .. n
        BY <2>1, <2>2
    <2>5. F[m + 1][v[m]] \in A
        BY <2>4
    <2>6. w \in [0 .. n -> A] /\ w[m + 1] = F[m + 1][v[m]]
          /\ \A k \in 0 .. m : w[k] = v[k]
        BY <2>1, <2>2, <2>4, <2>5
    <2> HIDE DEF w
    <2>7. IsRec(w, base, F, m + 1)
        <3>1. w[0] = base
            BY <2>1, <2>3, <2>6 DEF IsRec
        <3>2. ASSUME NEW k \in 1 .. m + 1 PROVE w[k] = F[k][w[k - 1]]
            <4>1. CASE k = m + 1
                BY <2>1, <2>6, <4>1
            <4>2. CASE k # m + 1
                <5>1. k \in 1 .. m /\ k \in 0 .. m /\ k - 1 \in 0 .. m
                    BY <2>1, <4>2
                <5>2. QED
                    BY <2>3, <2>6, <5>1 DEF IsRec
            <4>3. QED
                BY <4>1, <4>2
        <3>3. QED
            BY <3>1, <3>2 DEF IsRec
    <2>8. QED
        BY <2>6, <2>7
<1>3. \A m \in Nat : m \in H
    <2> HIDE DEF H
    <2>1. H \in SUBSET Nat
        BY DEF H
    <2>2. QED
        BY <1>1, <1>2, <2>1, NatInd, Zenon
<1>4. QED
    BY <1>3

Follows(u, v, n) ==
    u[0] = v[0] /\ \A k \in 1 .. n : u[k - 1] = v[k - 1] => u[k] = v[k]

\* ... and only one.
LEMMA RecSame ==
    ASSUME NEW n \in Nat, NEW u, NEW v, Follows(u, v, n)
    PROVE  \A k \in 0 .. n : u[k] = v[k]
<1>0. u[0] = v[0] /\ \A k \in 1 .. n : u[k - 1] = v[k - 1] => u[k] = v[k]
    BY DEF Follows
<1> DEFINE H == {m \in Nat : m <= n => u[m] = v[m]}
<1>1. 0 \in H
    BY <1>0
<1>2. ASSUME NEW m \in H PROVE m + 1 \in H
    <2>1. m \in Nat
        BY DEF H
    <2>2. SUFFICES ASSUME m + 1 <= n PROVE u[m + 1] = v[m + 1]
        BY <2>1
    <2>3. u[m] = v[m] /\ m + 1 \in 1 .. n /\ (m + 1) - 1 = m
        BY <1>2, <2>1, <2>2
    <2>4. QED
        BY <1>0, <2>3
<1>3. \A m \in Nat : m \in H
    <2> HIDE DEF H
    <2>1. H \in SUBSET Nat
        BY DEF H
    <2>2. QED
        BY <1>1, <1>2, <2>1, NatInd, Zenon
<1>4. QED
    BY <1>3

-----------------------------------------------------------------------------
(* Horner's rule *)

\* A polynomial with n coefficients.
IsPoly(c, n) == n \in Nat /\ c \in [1 .. n -> Scalar] /\ Len(c) = n

HornerStep(c, n, x) == [k \in 1 .. n |-> [y \in Scalar |-> (y * x + c[n - k + 1]) % Q]]

\* The intermediate values of Evaluate.
IsHorner(v, c, n, x) ==
    /\ v \in [0 .. n -> Scalar]
    /\ v[0] = 0
    /\ \A k \in 1 .. n : v[k] = (v[k - 1] * x + c[n - k + 1]) % Q

\* A step of Horner's rule gives a scalar.
LEMMA HornerType ==
    ASSUME NEW c, NEW n, IsPoly(c, n), NEW x \in Scalar, NEW y \in Scalar, NEW k \in 1 .. n
    PROVE  (y * x + c[n - k + 1]) % Q \in Scalar
<1>1. n - k + 1 \in 1 .. n
    BY DEF IsPoly
<1>2. c[n - k + 1] \in Scalar
    BY <1>1 DEF IsPoly
<1>3. PICK z \in Scalar : z = c[n - k + 1]
    BY <1>2
<1>4. y \in Int /\ x \in Int /\ z \in Int
    BY ModScalar
<1>5. y * x \in Int
    BY <1>4
<1>6. y * x + z \in Int
    BY <1>4, <1>5
<1>7. QED
    BY <1>3, <1>6, ModType

\* The intermediate values exist.
LEMMA HornerExists ==
    ASSUME NEW c, NEW n, IsPoly(c, n), NEW x \in Scalar
    PROVE  \E v : IsHorner(v, c, n, x)
<1> DEFINE F == HornerStep(c, n, x)
<1>1. n \in Nat /\ 0 \in Scalar
    BY QNat DEF IsPoly
<1>2. F \in [1 .. n -> [Scalar -> Scalar]]
    BY HornerType DEF HornerStep
<1>3. \A k \in 1 .. n, y \in Scalar : F[k][y] = (y * x + c[n - k + 1]) % Q
    BY DEF HornerStep
<1> HIDE DEF F
<1>4. PICK v \in [0 .. n -> Scalar] : IsRec(v, 0, F, n)
    BY <1>1, <1>2, RecExists, Zenon
<1>5. \A k \in 1 .. n : v[k - 1] \in Scalar
    BY <1>1
<1>6. IsHorner(v, c, n, x)
    BY <1>3, <1>4, <1>5 DEF IsHorner, IsRec
<1>7. QED
    BY <1>6

\* Evaluate returns the last one.
LEMMA EvaluateHorner ==
    ASSUME NEW c, NEW n, IsPoly(c, n), NEW x \in Scalar, NEW v, IsHorner(v, c, n, x)
    PROVE  Evaluate(c, x) = v[n]
<1> DEFINE Eq(w) == w = [k \in 0 .. n |->
                IF k = 0 THEN 0 ELSE (w[k - 1] * x + c[n - k + 1]) % Q]
           w0 == CHOOSE w : Eq(w)
<1>1. n \in Nat /\ Len(c) = n
    BY DEF IsPoly
<1>2. Eq(w0)
    <2>1. v = [k \in 0 .. n |-> v[k]]
        BY DEF IsHorner
    <2>2. \A k \in 0 .. n : v[k] = IF k = 0 THEN 0 ELSE (v[k - 1] * x + c[n - k + 1]) % Q
        BY <1>1 DEF IsHorner
    <2>3. Eq(v)
        BY <2>1, <2>2
    <2>4. QED
        BY <2>3, Zenon
<1>3. Evaluate(c, x) = w0[n]
    BY <1>1 DEF Evaluate
<1> HIDE DEF w0
<1>4. w0[0] = 0 /\ \A k \in 1 .. n : w0[k] = (w0[k - 1] * x + c[n - k + 1]) % Q
    BY <1>1, <1>2
<1>5. \A k \in 0 .. n : w0[k] = v[k]
    <2>1. w0[0] = v[0]
        BY <1>4 DEF IsHorner
    <2>2. \A k \in 1 .. n : w0[k - 1] = v[k - 1] => w0[k] = v[k]
        BY <1>4 DEF IsHorner
    <2>3. Follows(w0, v, n)
        BY <2>1, <2>2 DEF Follows
    <2>4. QED
        BY <1>1, <2>3, RecSame, Zenon
<1>6. QED
    BY <1>1, <1>3, <1>5

\* What Evaluate returns is a scalar.
LEMMA EvaluateType ==
    ASSUME NEW c, NEW n, IsPoly(c, n), NEW x \in Scalar
    PROVE  Evaluate(c, x) \in Scalar
<1>1. PICK v : IsHorner(v, c, n, x)
    BY HornerExists, Zenon
<1>2. Evaluate(c, x) = v[n]
    BY <1>1, EvaluateHorner, Zenon
<1>3. QED
    BY <1>1, <1>2 DEF IsHorner, IsPoly

\* One step of Horner's rule in the exponent.
LEMMA HornerBase ==
    ASSUME NEW x \in Scalar, NEW y \in Scalar, NEW z \in Scalar
    PROVE  Add(ScalarMult(x, ScalarBaseMult(y)), ScalarBaseMult(z))
             = ScalarBaseMult((y * x + z) % Q)
<1> DEFINE t == Times[x][y]
<1>1. /\ ScalarMult(x, ScalarBaseMult(y)) = ScalarBaseMult(t)
      /\ t \in Scalar /\ t = (x * y) % Q
    BY AddBase
<1> HIDE DEF t
<1>2. Add(ScalarBaseMult(t), ScalarBaseMult(z)) = ScalarBaseMult((t + z) % Q)
    BY <1>1, AddBase
<1>3. x \in Int /\ y \in Int /\ z \in Int
    BY ModScalar
<1>4. x * y \in Int /\ x * y = y * x
    BY <1>3
<1>5. (((x * y) % Q) + z) % Q = ((x * y) + z) % Q
    BY <1>3, <1>4, ModAdd
<1>6. QED
    BY <1>1, <1>2, <1>4, <1>5

\* The evaluation of commitments commits to the evaluation (vss.go, exponent.go).
LEMMA EvaluateInExponent ==
    ASSUME NEW c, NEW n, IsPoly(c, n), NEW x \in Scalar, NEW e, Len(e) = n,
           \A i \in 1 .. n : e[i] = ScalarBaseMult(c[i])
    PROVE  EvaluateExponent(e, x) = ScalarBaseMult(Evaluate(c, x))
<1> DEFINE Eq(w) == w = [k \in 0 .. n |->
                IF k = 0 THEN Identity ELSE Add(ScalarMult(x, w[k - 1]), e[n - k + 1])]
           w0 == CHOOSE w : Eq(w)
<1>1. n \in Nat /\ c \in [1 .. n -> Scalar]
    BY DEF IsPoly
<1>2. PICK v : IsHorner(v, c, n, x)
    BY HornerExists, Zenon
<1>3. Evaluate(c, x) = v[n]
    BY <1>2, EvaluateHorner, Zenon
<1> DEFINE u == [k \in 0 .. n |-> ScalarBaseMult(v[k])]
<1>4. u[0] = Identity
    BY <1>1, <1>2, GroupLaws DEF IsHorner
<1>5. ASSUME NEW k \in 1 .. n
      PROVE  u[k] = Add(ScalarMult(x, u[k - 1]), e[n - k + 1])
    <2>1. n - k + 1 \in 1 .. n /\ k - 1 \in 0 .. n /\ k \in 0 .. n
        BY <1>1
    <2>2. v[k - 1] \in Scalar /\ c[n - k + 1] \in Scalar
        BY <1>1, <1>2, <2>1 DEF IsHorner
    <2>3. u[k - 1] = ScalarBaseMult(v[k - 1]) /\ u[k] = ScalarBaseMult(v[k])
          /\ e[n - k + 1] = ScalarBaseMult(c[n - k + 1])
        BY <2>1
    <2>4. v[k] = (v[k - 1] * x + c[n - k + 1]) % Q
        BY <1>2 DEF IsHorner
    <2>5. QED
        BY <2>2, <2>3, <2>4, HornerBase
<1>6. Eq(w0)
    <2>1. \A k \in 0 .. n :
              u[k] = IF k = 0 THEN Identity ELSE Add(ScalarMult(x, u[k - 1]), e[n - k + 1])
        <3> HIDE DEF u
        <3>1. QED
            BY <1>1, <1>4, <1>5
    <2>2. u = [k \in 0 .. n |-> u[k]]
        OBVIOUS
    <2>3. Eq(u)
        <3> HIDE DEF u
        <3>1. QED
            BY <2>1, <2>2
    <2>4. QED
        BY <2>3, Zenon
<1>7. EvaluateExponent(e, x) = w0[n]
    BY DEF EvaluateExponent
<1> HIDE DEF w0, u
<1>8. w0[0] = Identity
      /\ \A k \in 1 .. n : w0[k] = Add(ScalarMult(x, w0[k - 1]), e[n - k + 1])
    BY <1>1, <1>6
<1>9. \A k \in 0 .. n : w0[k] = u[k]
    <2>1. w0[0] = u[0]
        BY <1>4, <1>8
    <2>2. \A k \in 1 .. n : w0[k - 1] = u[k - 1] => w0[k] = u[k]
        BY <1>5, <1>8
    <2>3. Follows(w0, u, n)
        BY <2>1, <2>2 DEF Follows
    <2>4. QED
        BY ONLY <1>1, <2>3, RecSame
<1>10. w0[n] = u[n] /\ u[n] = ScalarBaseMult(v[n])
    BY <1>1, <1>9 DEF u
<1>11. QED
    BY <1>3, <1>7, <1>10

-----------------------------------------------------------------------------
(* Interpolation returns the constant term *)

\* Interpolating a constant.
LEMMA InterpConst ==
    ASSUME NEW S, IsIDs(S), S # {}, NEW b \in Scalar, NEW v, \A i \in S : v[i] = b
    PROVE  Interp(v, S) = b
<1> DEFINE one == [i \in S |-> 1]
<1>1. Interp(one, S) = 1
    BY InterpOne
<1>2. b \in Int /\ b % Q = b /\ 0 \in Int /\ 1 \in Scalar
    BY ModScalar, QNat
<1>3. Lin(b, 0, 1, 1) = b
    BY <1>2 DEF Lin
<1>4. Combined(v, b, 0, one, one, S)
    BY <1>2, <1>3 DEF Combined
<1> HIDE DEF one
<1>5. Interp(v, S) = Lin(b, 0, Interp(one, S), Interp(one, S))
    BY <1>2, <1>4, InterpLin
<1>6. QED
    BY <1>1, <1>3, <1>5

\* The part of a Horner step that has a factor x: interpolated, it vanishes.
LEMMA InterpFactor ==
    ASSUME NEW S, IsIDs(S), NEW j \in S, NEW v, \A i \in S : v[i] \in Scalar,
           NEW a \in Scalar, Interp(v, S) = a, Interp(v, S \ {j}) = a,
           NEW y, \A i \in S : y[i] = (v[i] * i) % Q
    PROVE  Interp(y, S) = 0 /\ \A i \in S : y[i] \in Scalar
<1> DEFINE d == [i \in S |-> ((j - i) * v[i]) % Q]
<1>1. Interp(d, S) = (j * a) % Q
    BY InterpDrop
<1>2. \A i \in S : i \in Int /\ v[i] \in Int
    BY ModScalar DEF IsIDs
<1>3. j \in Int /\ a \in Int /\ -1 \in Int
    BY <1>2, ModScalar
<1>4. ASSUME NEW i \in S
      PROVE  y[i] \in Scalar /\ d[i] \in Scalar /\ y[i] = Lin(j, -1, v[i], d[i])
    <2>1. PICK z \in Int : z = v[i]
        BY <1>2
    <2>2. i \in Int /\ j \in Int
        BY <1>2
    <2>3. z * i \in Int /\ (j - i) * z \in Int /\ j * z \in Int
        BY <2>2
    <2>4. y[i] = (z * i) % Q /\ d[i] = ((j - i) * z) % Q
        BY <2>1
    <2>5. y[i] \in Scalar /\ d[i] \in Scalar
        BY <2>3, <2>4, ModType
    <2>6. Lin(j, -1, z, d[i]) = (j * z - (((j - i) * z) % Q)) % Q
        <3>1. PICK e \in Int : e = d[i]
            BY <2>5, ModScalar
        <3>2. j * z + (-1) * e = j * z - e
            BY <2>3
        <3>3. QED
            BY <2>4, <3>1, <3>2 DEF Lin
    <2>7. (j * z - (((j - i) * z) % Q)) % Q = (j * z - (j - i) * z) % Q
        BY <2>3, ModSub
    <2>8. j * z - (j - i) * z = z * i
        BY <2>2
    <2>9. QED
        BY <2>1, <2>4, <2>5, <2>6, <2>7, <2>8
<1> HIDE DEF d
<1>5. Interp(y, S) = Lin(j, -1, Interp(v, S), Interp(d, S))
    <2>1. PICK m \in Int : m = -1
        BY <1>3
    <2>2. Combined(y, j, m, v, d, S)
        BY <1>4, <2>1 DEF Combined
    <2>3. IsIDs(S) /\ j \in Int /\ m \in Int
        BY <1>3
    <2>4. Interp(y, S) = Lin(j, m, Interp(v, S), Interp(d, S))
        BY ONLY <2>2, <2>3, InterpLin
    <2>5. QED
        BY <2>1, <2>4
<1>6. Lin(j, -1, a, (j * a) % Q) = 0
    <2>1. PICK p \in Int : p = j * a
        BY <1>3
    <2>2. p % Q \in Int
        BY ModType
    <2>3. p + (-1) * (p % Q) = p - (p % Q)
        BY <2>2
    <2>4. (p - (p % Q)) % Q = (p - p) % Q
        BY ModSub
    <2>5. p - p = 0 /\ 0 % Q = 0
        BY QNat
    <2>6. QED
        BY <2>1, <2>3, <2>4, <2>5 DEF Lin
<1>7. QED
    BY <1>1, <1>4, <1>5, <1>6

\* One step of Horner's rule, interpolated.
LEMMA InterpStep ==
    ASSUME NEW S, IsIDs(S), NEW j \in S, NEW v, \A i \in S : v[i] \in Scalar,
           NEW a \in Scalar, Interp(v, S) = a, Interp(v, S \ {j}) = a,
           NEW b \in Scalar, NEW w, \A i \in S : w[i] = (v[i] * i + b) % Q
    PROVE  Interp(w, S) = b
<1> DEFINE y == [i \in S |-> (v[i] * i) % Q]
           one == [i \in S |-> 1]
<1>1. Interp(y, S) = 0 /\ \A i \in S : y[i] \in Scalar
    BY InterpFactor
<1>2. Interp(one, S) = 1 /\ 1 \in Scalar
    BY InterpOne, QNat
<1>3. b \in Int /\ b % Q = b /\ 1 \in Int
    BY ModScalar
<1>4. \A i \in S : i \in Int /\ v[i] \in Int
    BY ModScalar DEF IsIDs
<1>5. ASSUME NEW i \in S
      PROVE  w[i] \in Scalar /\ one[i] \in Scalar /\ w[i] = Lin(1, b, y[i], one[i])
    <2>1. PICK p \in Int : p = v[i] * i
        BY <1>4
    <2>2. w[i] = (p + b) % Q /\ y[i] = p % Q /\ one[i] = 1
        BY <2>1
    <2>3. p % Q \in Int /\ p + b \in Int
        BY <1>3, ModType
    <2>4. 1 * (p % Q) + b * 1 = (p % Q) + b
        BY <1>3, <2>3
    <2>5. ((p % Q) + b) % Q = (p + b) % Q
        BY <1>3, ModAdd
    <2>6. (p + b) % Q \in Scalar
        BY <2>3, ModType
    <2>7. QED
        BY <1>2, <2>2, <2>4, <2>5, <2>6 DEF Lin
<1> HIDE DEF y, one
<1>6. Interp(w, S) = Lin(1, b, Interp(y, S), Interp(one, S))
    <2>1. Combined(w, 1, b, y, one, S)
        BY <1>1, <1>5 DEF Combined
    <2>2. QED
        BY <1>3, <2>1, InterpLin
<1>7. 1 * 0 + b * 1 = b
    BY <1>3
<1>8. QED
    BY <1>1, <1>2, <1>3, <1>6, <1>7 DEF Lin

\* The values of Horner's rule, for all arguments at once.
IsHorners(V, c, n) ==
    /\ V \in [0 .. n -> [Scalar -> Scalar]]
    /\ \A x \in Scalar : V[0][x] = 0
    /\ \A k \in 1 .. n, x \in Scalar : V[k][x] = (V[k - 1][x] * x + c[n - k + 1]) % Q

\* They exist, and the last ones are what Evaluate returns.
LEMMA HornersExist ==
    ASSUME NEW c, NEW n, IsPoly(c, n)
    PROVE  \E V : IsHorners(V, c, n) /\ \A x \in Scalar : Evaluate(c, x) = V[n][x]
<1> DEFINE v(x) == CHOOSE v : IsHorner(v, c, n, x)
           V == [k \in 0 .. n |-> [x \in Scalar |-> v(x)[k]]]
<1>1. n \in Nat
    BY DEF IsPoly
<1>2. ASSUME NEW x \in Scalar PROVE IsHorner(v(x), c, n, x)
    BY HornerExists, Zenon
<1>3. \A x \in Scalar : Evaluate(c, x) = v(x)[n]
    BY <1>2, EvaluateHorner
<1> HIDE DEF v
<1>4. V \in [0 .. n -> [Scalar -> Scalar]]
    BY <1>2 DEF IsHorner
<1>5. \A k \in 0 .. n, x \in Scalar : V[k][x] = v(x)[k]
    OBVIOUS
<1> HIDE DEF V
<1>6. \A x \in Scalar : V[0][x] = 0 /\ Evaluate(c, x) = V[n][x]
    BY <1>1, <1>2, <1>3, <1>5 DEF IsHorner
<1>7. ASSUME NEW k \in 1 .. n, NEW x \in Scalar
      PROVE  V[k][x] = (V[k - 1][x] * x + c[n - k + 1]) % Q
    <2>1. k \in 0 .. n /\ k - 1 \in 0 .. n
        BY <1>1
    <2>2. v(x)[k] = (v(x)[k - 1] * x + c[n - k + 1]) % Q
        BY <1>2 DEF IsHorner
    <2>3. QED
        BY <1>5, <2>1, <2>2
<1>8. IsHorners(V, c, n)
    BY <1>4, <1>6, <1>7 DEF IsHorners
<1>9. QED
    BY <1>6, <1>8

\* After k + 1 steps, k + 1 values are enough for the coefficient last added.
LEMMA HornersInterp ==
    ASSUME NEW c, NEW n, IsPoly(c, n), NEW V, IsHorners(V, c, n)
    PROVE  \A k \in Nat : k + 1 <= n =>
              \A S : IsIDs(S) /\ Cardinality(S) >= k + 1 => Interp(V[k + 1], S) = c[n - k]
<1> DEFINE Claim(k) == \A S : IsIDs(S) /\ Cardinality(S) >= k + 1 =>
                                  Interp(V[k + 1], S) = c[n - k]
           H == {k \in Nat : k + 1 <= n => Claim(k)}
<1>1. n \in Nat /\ c \in [1 .. n -> Scalar] /\ V \in [0 .. n -> [Scalar -> Scalar]]
    BY DEF IsPoly, IsHorners
<1>2. \A S : IsIDs(S) => IsFiniteSet(S) /\ Cardinality(S) \in Nat
                         /\ (Cardinality(S) >= 1 => S # {})
                         /\ \A i \in S : i \in Scalar
    BY FS_CardinalityType, FS_EmptySet DEF IsIDs
<1>3. 0 \in H
    <2>1. SUFFICES ASSUME 1 <= n, NEW S, IsIDs(S), Cardinality(S) >= 1
                   PROVE  Interp(V[1], S) = c[n]
        BY <1>1
    <2>2. c[n] \in Scalar /\ S # {} /\ 1 \in 1 .. n /\ 1 - 1 = 0 /\ n - 1 + 1 = n
        BY <1>1, <1>2, <2>1
    <2>3. \A i \in S : V[1][i] = (0 * i + c[n]) % Q
        BY <1>2, <2>1, <2>2 DEF IsHorners
    <2>4. \A i \in S : V[1][i] = c[n]
        <3>1. c[n] \in Int /\ c[n] % Q = c[n] /\ \A i \in S : i \in Int
            BY <1>2, <2>1, <2>2, ModScalar
        <3>2. QED
            BY <2>3, <3>1
    <2>5. QED
        BY <2>1, <2>2, <2>4, InterpConst
<1>4. ASSUME NEW k \in H PROVE k + 1 \in H
    <2>1. k \in Nat
        BY DEF H
    <2>2. SUFFICES ASSUME (k + 1) + 1 <= n, NEW S, IsIDs(S), Cardinality(S) >= (k + 1) + 1
                   PROVE  Interp(V[(k + 1) + 1], S) = c[n - (k + 1)]
        BY <2>1
    <2>3. Claim(k)
        BY <1>1, <2>1, <2>2
    <2>4. S # {} /\ Cardinality(S) \in Nat /\ Cardinality(S) >= k + 1
        BY <1>2, <2>1, <2>2
    <2>5. PICK j \in S : TRUE
        BY <2>4
    <2>6. IsIDs(S \ {j}) /\ Cardinality(S \ {j}) >= k + 1
        <3>1. IsFiniteSet(S)
            BY <2>2 DEF IsIDs
        <3>2. IsFiniteSet(S \ {j}) /\ Cardinality(S \ {j}) = Cardinality(S) - 1
            BY <2>5, <3>1, FS_RemoveElement
        <3>3. IsIDs(S \ {j})
            BY <2>2, <3>2 DEF IsIDs
        <3>4. QED
            BY <2>1, <2>2, <2>4, <3>2, <3>3
    <2> DEFINE v == V[k + 1]  w == V[(k + 1) + 1]  a == c[n - k]  b == c[n - (k + 1)]
    <2>7. Interp(v, S) = a /\ Interp(v, S \ {j}) = a
        BY <2>2, <2>3, <2>4, <2>6
    <2>8. n - k \in 1 .. n /\ n - (k + 1) \in 1 .. n /\ k + 1 \in 0 .. n
          /\ (k + 1) + 1 \in 1 .. n /\ n - ((k + 1) + 1) + 1 = n - (k + 1)
          /\ ((k + 1) + 1) - 1 = k + 1
        BY <1>1, <2>1, <2>2
    <2>9. a \in Scalar /\ b \in Scalar /\ \A i \in S : v[i] \in Scalar
        BY <1>1, <1>2, <2>2, <2>8
    <2>10. \A i \in S : w[i] = (v[i] * i + b) % Q
        BY <1>2, <2>2, <2>8 DEF IsHorners
    <2> HIDE DEF v, w, a, b
    <2>11. Interp(w, S) = b
        BY <2>2, <2>7, <2>9, <2>10, InterpStep
    <2>12. QED
        BY <2>11 DEF w, b
<1>5. \A k \in Nat : k \in H
    <2> HIDE DEF H
    <2>1. H \in SUBSET Nat
        BY DEF H
    <2>2. QED
        BY <1>3, <1>4, <2>1, NatInd, Zenon
<1>6. QED
    BY <1>5

\* ComputeGroupKey and the aggregation of signatures rest on this: as many
\* values as a polynomial has coefficients, or more, interpolate to its
\* constant term.
THEOREM Interpolate ==
    ASSUME NEW c, NEW n, IsPoly(c, n), n >= 1, NEW S, IsIDs(S), Cardinality(S) >= n,
           NEW v, \A i \in S : v[i] = Evaluate(c, i)
    PROVE  Interp(v, S) = c[1]
<1>1. n \in Nat
    BY DEF IsPoly
<1>2. PICK V : IsHorners(V, c, n) /\ \A x \in Scalar : Evaluate(c, x) = V[n][x]
    BY HornersExist
<1>3. n - 1 \in Nat /\ (n - 1) + 1 = n /\ n - (n - 1) = 1 /\ n <= n
    BY <1>1
<1>4. Interp(V[n], S) = c[1]
    <2>1. \A k \in Nat : k + 1 <= n =>
              \A T : IsIDs(T) /\ Cardinality(T) >= k + 1 => Interp(V[k + 1], T) = c[n - k]
        <3>1. IsPoly(c, n) /\ IsHorners(V, c, n)
            BY <1>2
        <3>2. QED
            BY ONLY <3>1, HornersInterp
    <2>2. PICK k \in Nat : k + 1 = n /\ n - k = 1
        BY <1>3
    <2>3. QED
        BY <1>1, <2>1, <2>2
<1>5. \A i \in S : v[i] = V[n][i]
    BY <1>2 DEF IsIDs
<1>6. Terms(v, S) = Terms(V[n], S)
    BY <1>5 DEF Terms
<1>7. QED
    BY <1>4, <1>6 DEF Interp

-----------------------------------------------------------------------------
(* The same for points *)

\* Every point is a multiple of the base point.
LEMMA Logs ==
    ASSUME NEW S, NEW e \in [S -> Element]
    PROVE  \E v \in [S -> Scalar] : \A i \in S : e[i] = ScalarBaseMult(v[i])
<1> DEFINE v == [i \in S |-> CHOOSE k \in Scalar : e[i] = ScalarBaseMult(k)]
<1>1. ASSUME NEW i \in S PROVE \E k \in Scalar : e[i] = ScalarBaseMult(k)
    BY DEF Element
<1>2. v \in [S -> Scalar] /\ \A i \in S : e[i] = ScalarBaseMult(v[i])
    BY <1>1
<1>3. QED
    BY <1>2

\* Sums of scalars are scalars.
LEMMA SumScalarsType ==
    ASSUME NEW S, IsFiniteSet(S), NEW f \in [S -> Scalar]
    PROVE  SumScalars(f) \in Scalar /\ SumScalars(f) = SumOn(f, S)
<1>1. f = [i \in S |-> f[i]]
    OBVIOUS
<1>2. QED
    BY <1>1, SumTake DEF SumOn

\* Sums of points are points; a sum of multiples is the multiple by the sum.
LEMMA SumElementsType ==
    ASSUME NEW S, IsFiniteSet(S)
    PROVE  /\ \A e \in [S -> Element] : SumElements(e) \in Element
           /\ \A f \in [S -> Scalar] :
                 SumElements([i \in S |-> ScalarBaseMult(f[i])]) = ScalarBaseMult(SumScalars(f))
<1>1. ASSUME NEW e \in [S -> Element] PROVE SumElements(e) = JoinOn(e, S)
    <2>1. e = [i \in S |-> e[i]]
        OBVIOUS
    <2>2. QED
        BY <2>1 DEF JoinOn
<1>2. ASSUME NEW e \in [S -> Element] PROVE SumElements(e) \in Element
    BY <1>1, JoinTake
<1>3. ASSUME NEW f \in [S -> Scalar]
      PROVE  SumElements([i \in S |-> ScalarBaseMult(f[i])]) = ScalarBaseMult(SumScalars(f))
    <2> DEFINE e == [i \in S |-> ScalarBaseMult(f[i])]
    <2>1. e \in [S -> Element]
        BY DEF Element
    <2>2. e = [i \in S |-> ScalarBaseMult(f[i])]
        OBVIOUS
    <2> HIDE DEF e
    <2>3. \A T \in SUBSET S : JoinOn(e, T) = ScalarBaseMult(SumOn(f, T))
        BY <2>2, JoinSum
    <2>4. SumElements(e) = ScalarBaseMult(SumScalars(f))
        BY <1>1, <2>1, <2>3, SumScalarsType
    <2>5. QED
        BY <2>4 DEF e
<1>4. QED
    BY <1>2, <1>3

\* The group key is the interpolation of the shares, in the exponent.
LEMMA GroupKeyInterp ==
    ASSUME NEW S, IsIDs(S), NEW v, \A i \in S : v[i] \in Scalar,
           NEW shares, \A i \in S : shares[i] = ScalarBaseMult(v[i])
    PROVE  computeGroupKey(S, shares) = ScalarBaseMult(Interp(v, S))
<1> DEFINE f == Terms(v, S)
<1>1. f \in [S -> Scalar] /\ IsFiniteSet(S)
    BY InterpType DEF IsIDs
<1>2. ASSUME NEW i \in S
      PROVE  ScalarMult(Lagrange(i, S), shares[i]) = ScalarBaseMult(f[i])
    <2>1. Lagrange(i, S) \in Scalar
        BY LagrangeType
    <2>2. ScalarMult(Lagrange(i, S), ScalarBaseMult(v[i]))
             = ScalarBaseMult((Lagrange(i, S) * v[i]) % Q)
        BY <2>1, AddBase
    <2>3. QED
        BY <2>2 DEF Terms
<1> HIDE DEF f
<1>3. [i \in S |-> ScalarMult(Lagrange(i, S), shares[i])] = [i \in S |-> ScalarBaseMult(f[i])]
    BY <1>2
<1>4. QED
    BY <1>1, <1>3, SumElementsType DEF computeGroupKey, Interp, f

\* Commitments to a polynomial with n coefficients.
IsExponent(e, n) == n \in Nat /\ e \in [1 .. n -> Element] /\ Len(e) = n

\* They commit to some polynomial.
LEMMA ExponentLogs ==
    ASSUME NEW e, NEW n, IsExponent(e, n)
    PROVE  \E c : /\ IsPoly(c, n)
                  /\ \A i \in 1 .. n : e[i] = ScalarBaseMult(c[i])
                  /\ \A x \in Scalar : /\ EvaluateExponent(e, x) = ScalarBaseMult(Evaluate(c, x))
                                       /\ EvaluateExponent(e, x) \in Element
<1>1. n \in Nat /\ e \in [1 .. n -> Element] /\ Len(e) = n
    BY DEF IsExponent
<1>2. PICK c \in [1 .. n -> Scalar] : \A i \in 1 .. n : e[i] = ScalarBaseMult(c[i])
    BY <1>1, Logs
<1>3. IsPoly(c, n)
    <2>1. Len(c) = n
        BY <1>1
    <2>2. QED
        BY <1>1, <2>1 DEF IsPoly
<1>4. ASSUME NEW x \in Scalar PROVE EvaluateExponent(e, x) = ScalarBaseMult(Evaluate(c, x))
    BY <1>1, <1>2, <1>3, EvaluateInExponent
<1>5. ASSUME NEW x \in Scalar PROVE ScalarBaseMult(Evaluate(c, x)) \in Element
    BY <1>3, EvaluateType DEF Element
<1>6. QED
    BY <1>2, <1>3, <1>4, <1>5

\* As many public shares as there are commitments, or more, determine the
\* commitment to the secret (ComputeGroupKey).
THEOREM PointsInterpolate ==
    ASSUME NEW e, NEW n, IsExponent(e, n), n >= 1, NEW S, IsIDs(S), Cardinality(S) >= n,
           NEW shares, \A i \in S : shares[i] = EvaluateExponent(e, i)
    PROVE  computeGroupKey(S, shares) = e[1]
<1>1. PICK c : /\ IsPoly(c, n)
               /\ \A i \in 1 .. n : e[i] = ScalarBaseMult(c[i])
               /\ \A x \in Scalar : EvaluateExponent(e, x) = ScalarBaseMult(Evaluate(c, x))
    BY ExponentLogs
<1> DEFINE v == [i \in S |-> Evaluate(c, i)]
<1>2. \A i \in S : v[i] \in Scalar /\ shares[i] = ScalarBaseMult(v[i]) /\ v[i] = Evaluate(c, i)
    BY <1>1, EvaluateType DEF IsIDs
<1> HIDE DEF v
<1>3. computeGroupKey(S, shares) = ScalarBaseMult(Interp(v, S))
    BY <1>2, GroupKeyInterp
<1>4. Interp(v, S) = c[1]
    BY <1>1, <1>2, Interpolate
<1>5. 1 \in 1 .. n
    BY <1>1 DEF IsPoly
<1>6. QED
    BY <1>1, <1>3, <1>4, <1>5

-----------------------------------------------------------------------------
(* Evaluation by powers *)

\* The powers of x.
IsPowers(p, n, x) ==
    p \in [0 .. n -> Scalar] /\ p[0] = 1 /\ \A k \in 1 .. n : p[k] = (p[k - 1] * x) % Q

\* The sums of the first terms of the polynomial c.
IsPowerSums(T, p, c, n) ==
    /\ T \in [0 .. n -> Scalar] /\ T[0] = 0
    /\ \A k \in 1 .. n : T[k] = (T[k - 1] + p[k - 1] * c[k]) % Q

\* Both exist.
LEMMA PowersExist ==
    ASSUME NEW n \in Nat, NEW x \in Scalar
    PROVE  \E p : IsPowers(p, n, x)
<1> DEFINE F == [k \in 1 .. n |-> [y \in Scalar |-> (y * x) % Q]]
<1>1. \A y \in Scalar : (y * x) % Q \in Scalar
    <2>1. SUFFICES ASSUME NEW y \in Scalar PROVE (y * x) % Q \in Scalar
        OBVIOUS
    <2>2. y \in Int /\ x \in Int
        BY ModScalar
    <2>3. y * x \in Int
        BY <2>2
    <2>4. QED
        BY <2>3, ModType
<1>2. F \in [1 .. n -> [Scalar -> Scalar]]
    BY <1>1
<1>3. \A k \in 1 .. n, y \in Scalar : F[k][y] = (y * x) % Q
    OBVIOUS
<1> HIDE DEF F
<1>4. 1 \in Scalar
    BY QNat
<1>5. PICK p \in [0 .. n -> Scalar] : IsRec(p, 1, F, n)
    BY <1>2, <1>4, RecExists, Zenon
<1>6. \A k \in 1 .. n : p[k - 1] \in Scalar
    OBVIOUS
<1>7. IsPowers(p, n, x)
    BY <1>3, <1>5, <1>6 DEF IsPowers, IsRec
<1>8. QED
    BY <1>7

\* A term of the polynomial is a scalar, and so are sums with it.
LEMMA TermType ==
    ASSUME NEW a \in Scalar, NEW b \in Scalar, NEW z \in Scalar
    PROVE  (a + b * z) % Q \in Scalar /\ (b * z) % Q \in Scalar
<1>1. a \in Int /\ b \in Int /\ z \in Int
    BY ModScalar
<1>2. PICK y \in Int : y = b * z
    BY <1>1
<1>3. a + y \in Int
    BY <1>1
<1>4. QED
    BY <1>2, <1>3, ModType

\* The sums exist for given powers.
LEMMA PowerSumsExist ==
    ASSUME NEW c, NEW n, IsPoly(c, n), NEW x \in Scalar, NEW p, IsPowers(p, n, x)
    PROVE  \E T : IsPowerSums(T, p, c, n)
<1> DEFINE F == [k \in 1 .. n |-> [y \in Scalar |-> (y + p[k - 1] * c[k]) % Q]]
<1>1. n \in Nat /\ \A k \in 1 .. n : c[k] \in Scalar /\ p[k - 1] \in Scalar
    BY DEF IsPoly, IsPowers
<1>2. F \in [1 .. n -> [Scalar -> Scalar]]
    <2>1. \A k \in 1 .. n, y \in Scalar : (y + p[k - 1] * c[k]) % Q \in Scalar
        BY <1>1, TermType
    <2>2. QED
        BY <2>1
<1>3. \A k \in 1 .. n, y \in Scalar : F[k][y] = (y + p[k - 1] * c[k]) % Q
    OBVIOUS
<1> HIDE DEF F
<1>4. 0 \in Scalar
    BY QNat
<1>5. PICK T \in [0 .. n -> Scalar] : IsRec(T, 0, F, n)
    BY <1>1, <1>2, <1>4, RecExists, Zenon
<1>6. \A k \in 1 .. n : T[k - 1] \in Scalar
    BY <1>1
<1>7. IsPowerSums(T, p, c, n)
    BY <1>3, <1>5, <1>6 DEF IsPowerSums, IsRec
<1>8. QED
    BY <1>7

Moves(a, b, x, y, z) ==
    (((a + b * z) % Q) + ((b * x) % Q) * y) % Q = (a + b * ((y * x + z) % Q)) % Q

\* A coefficient moves from Horner's side to that of the powers.
LEMMA MoveTerm ==
    ASSUME NEW a \in Int, NEW b \in Int, NEW x \in Int, NEW y \in Int, NEW z \in Int
    PROVE  Moves(a, b, x, y, z)
<1>1. Q \in Int
    BY QNat
<1>2. y * x \in Int /\ b * z \in Int /\ b * x \in Int
    OBVIOUS
<1>3. PICK h \in Int : h = y * x + z
    BY <1>2
<1>4. PICK g \in Int : g = a + b * z
    BY <1>2
<1>5. PICK f \in Int : f = b * x
    BY <1>2
<1>6. b * h \in Int /\ f * y \in Int
    OBVIOUS
<1>7. b * h = f * y + b * z
    BY <1>2, <1>3, <1>5
<1>8. PICK m \in Int : m = f * y
    OBVIOUS
<1>9. PICK k \in Int : k = b * h
    OBVIOUS
<1>10. a + k = g + m
    BY <1>2, <1>4, <1>7, <1>8, <1>9
<1>11. (a + b * (h % Q)) % Q = (a + k) % Q
    <2>1. h % Q \in Int
        BY ModType
    <2>2. PICK l \in Int : l = b * (h % Q)
        BY <2>1
    <2>3. l % Q = k % Q
        BY <1>9, <2>2, ModMul
    <2>4. (a + l) % Q = (a + (l % Q)) % Q /\ (a + k) % Q = (a + (k % Q)) % Q
        BY ModAdd
    <2>5. QED
        BY <2>2, <2>3, <2>4
<1>12. ((g % Q) + (f % Q) * y) % Q = (g + m) % Q
    <2>1. f % Q \in Int /\ g % Q \in Int
        BY ModType
    <2>2. PICK l \in Int : l = (f % Q) * y
        BY <2>1
    <2>3. l % Q = m % Q
        BY <1>8, <2>2, ModMul
    <2>4. ((g % Q) + l) % Q = (g + l) % Q
        BY ModAdd
    <2>5. (g + l) % Q = (g + (l % Q)) % Q /\ (g + m) % Q = (g + (m % Q)) % Q
        BY ModAdd
    <2>6. QED
        BY <2>2, <2>3, <2>4, <2>5
<1>13. QED
    BY <1>3, <1>4, <1>5, <1>10, <1>11, <1>12 DEF Moves

\* Horner's rule computes the sum of the terms.
LEMMA PowerSumEvaluate ==
    ASSUME NEW c, NEW n, IsPoly(c, n), NEW x \in Scalar, NEW p, IsPowers(p, n, x),
           NEW T, IsPowerSums(T, p, c, n)
    PROVE  T[n] = Evaluate(c, x) /\ T[n] \in Scalar
<1>1. n \in Nat /\ c \in [1 .. n -> Scalar] /\ x \in Int
    BY ModScalar DEF IsPoly
<1>2. PICK v : IsHorner(v, c, n, x)
    BY HornerExists, Zenon
<1>3. Evaluate(c, x) = v[n]
    BY <1>2, EvaluateHorner, Zenon
<1>4. \A k \in 0 .. n : /\ v[k] \in Scalar /\ p[k] \in Scalar /\ T[k] \in Scalar
                        /\ v[k] \in Int /\ p[k] \in Int /\ T[k] \in Int
    BY <1>2, ModScalar DEF IsHorner, IsPowers, IsPowerSums
<1> DEFINE H == {j \in Nat : j <= n => (T[j] + p[j] * v[n - j]) % Q = v[n]}
<1>5. 0 \in H
    <2>1. T[0] = 0 /\ p[0] = 1 /\ n - 0 = n
        BY <1>1 DEF IsPowers, IsPowerSums
    <2>2. v[n] \in Scalar /\ v[n] \in Int
        BY <1>1, <1>4
    <2>3. v[n] % Q = v[n]
        BY <2>2, ModScalar
    <2>4. T[0] + p[0] * v[n - 0] = v[n]
        BY <2>1, <2>2
    <2>5. QED
        BY <2>3, <2>4
<1>6. ASSUME NEW j \in H PROVE j + 1 \in H
    <2>1. j \in Nat
        BY DEF H
    <2>2. SUFFICES ASSUME j + 1 <= n
                   PROVE  (T[j + 1] + p[j + 1] * v[n - (j + 1)]) % Q = v[n]
        BY <2>1
    <2>3. /\ j + 1 \in 1 .. n /\ j \in 0 .. n /\ n - j \in 1 .. n /\ n - (j + 1) \in 0 .. n
          /\ (j + 1) - 1 = j /\ (n - j) - 1 = n - (j + 1) /\ n - (n - j) + 1 = j + 1
        BY <1>1, <2>1, <2>2
    <2>10. j <= n
        BY <1>1, <2>1, <2>2
    <2>4. (T[j] + p[j] * v[n - j]) % Q = v[n]
        BY <1>6, <2>10, Zenon
    <2>5. PICK a \in Int, b \in Int, y \in Int, z \in Int :
             a = T[j] /\ b = p[j] /\ y = v[n - (j + 1)] /\ z = c[j + 1]
        BY <1>1, <1>4, <2>3, ModScalar
    <2>6. T[j + 1] = (a + b * z) % Q
        BY <2>3, <2>5 DEF IsPowerSums
    <2>7. p[j + 1] = (b * x) % Q
        BY <2>3, <2>5 DEF IsPowers
    <2>8. v[n - j] = (y * x + z) % Q
        BY <1>2, <2>3, <2>5 DEF IsHorner
    <2>9. (((a + b * z) % Q) + ((b * x) % Q) * y) % Q = (a + b * ((y * x + z) % Q)) % Q
        <3>1. Moves(a, b, x, y, z)
            BY <1>1, MoveTerm
        <3>2. QED
            BY <3>1 DEF Moves
    <2>11. (T[j + 1] + p[j + 1] * v[n - (j + 1)]) % Q = (T[j] + p[j] * v[n - j]) % Q
        BY ONLY <2>5, <2>6, <2>7, <2>8, <2>9
    <2>12. QED
        BY <2>4, <2>11
<1>7. \A j \in Nat : j \in H
    <2> HIDE DEF H
    <2>1. H \in SUBSET Nat
        BY DEF H
    <2>2. QED
        BY <1>5, <1>6, <2>1, NatInd, Zenon
<1>8. (T[n] + p[n] * v[n - n]) % Q = v[n]
    BY <1>1, <1>7
<1>9. n - n = 0 /\ v[0] = 0 /\ n \in 0 .. n
    BY <1>1, <1>2 DEF IsHorner
<1>10. T[n] + p[n] * v[n - n] = T[n] /\ T[n] \in Scalar
    BY <1>4, <1>9
<1>11. QED
    BY <1>3, <1>8, <1>10, ModScalar

IsRest(U, T, x) == U = T \ {x}

\* The sum without one term.
LEMMA SumRest ==
    ASSUME NEW S, IsFiniteSet(S), NEW f \in [S -> Scalar], NEW T \in SUBSET S, NEW x \in T,
           NEW U, IsRest(U, T, x)
    PROVE  SumOn(f, T) = (f[x] + SumOn(f, U)) % Q
BY SumTake DEF IsRest

\* The sum over an interval, term by term.
LEMMA SumInterval ==
    ASSUME NEW n \in Nat, NEW g \in [1 .. n -> Scalar], NEW j \in Nat, j + 1 <= n
    PROVE  SumOn(g, 1 .. j + 1) = (g[j + 1] + SumOn(g, 1 .. j)) % Q
<1>1. PICK S : S = 1 .. n
    OBVIOUS
<1>2. PICK U \in SUBSET S : U = 1 .. j + 1
    BY <1>1
<1>3. IsFiniteSet(S) /\ g \in [S -> Scalar]
    BY <1>1, FS_Interval
<1>4. PICK i \in U : i = j + 1
    BY <1>2
<1>5. PICK W : W = 1 .. j
    OBVIOUS
<1>6. IsRest(W, U, i)
    BY <1>2, <1>4, <1>5 DEF IsRest
<1>7. SumOn(g, U) = (g[i] + SumOn(g, W)) % Q
    BY <1>3, <1>6, SumRest
<1>8. QED
    BY <1>2, <1>4, <1>5, <1>7

IsTerms(g, p, c, n) == g = [i \in 1 .. n |-> (p[i - 1] * c[i]) % Q]

\* The sum over a set of terms is that of the running sum.
LEMMA TermSum ==
    ASSUME NEW c, NEW n, IsPoly(c, n), NEW x \in Scalar, NEW p, IsPowers(p, n, x),
           NEW T, IsPowerSums(T, p, c, n),
           NEW g, IsTerms(g, p, c, n)
    PROVE  g \in [1 .. n -> Scalar] /\ SumScalars(g) = T[n]
<1>1. n \in Nat /\ \A k \in 1 .. n : c[k] \in Scalar /\ p[k - 1] \in Scalar
    BY DEF IsPoly, IsPowers
<1>2. 0 \in Scalar
    BY QNat
<1>3. /\ g \in [1 .. n -> Scalar]
      /\ \A i \in 1 .. n : g[i] = (p[i - 1] * c[i]) % Q
    <2>1. \A i \in 1 .. n : (p[i - 1] * c[i]) % Q \in Scalar
        BY <1>1, <1>2, TermType
    <2>2. QED
        BY <2>1 DEF IsTerms
<1>4. IsFiniteSet(1 .. n)
    BY <1>1, FS_Interval
<1> DEFINE H == {j \in Nat : j <= n => SumOn(g, 1 .. j) = T[j]}
<1>5. 0 \in H
    <2>1. 1 .. 0 = {} /\ {} \in SUBSET (1 .. n)
        OBVIOUS
    <2>2. SumOn(g, {}) = 0
        BY <1>3, <1>4, <2>1, SumTake
    <2>3. QED
        BY <2>1, <2>2 DEF IsPowerSums
<1>6. ASSUME NEW j \in H PROVE j + 1 \in H
    <2>1. j \in Nat
        BY DEF H
    <2>2. SUFFICES ASSUME j + 1 <= n PROVE SumOn(g, 1 .. j + 1) = T[j + 1]
        BY <2>1
    <2>3. /\ j + 1 \in 1 .. n /\ j \in 0 .. n /\ (j + 1) - 1 = j /\ j + 1 \in 1 .. j + 1
          /\ 1 .. j + 1 \in SUBSET (1 .. n) /\ (1 .. j + 1) \ {j + 1} = 1 .. j
        BY <1>1, <2>1, <2>2
    <2>11. j <= n
        BY <1>1, <2>1, <2>2
    <2>4. SumOn(g, 1 .. j) = T[j]
        BY <1>6, <2>11, Zenon
    <2>5. SumOn(g, 1 .. j + 1) = (g[j + 1] + SumOn(g, 1 .. j)) % Q
        BY <1>1, <1>3, <2>1, <2>2, SumInterval
    <2>6. T[j + 1] = (T[j] + p[j] * c[j + 1]) % Q /\ g[j + 1] = (p[j] * c[j + 1]) % Q
        BY <1>3, <2>3 DEF IsPowerSums
    <2>7. T[j] \in Int /\ p[j] \in Int /\ c[j + 1] \in Int
        BY <1>1, <2>3, ModScalar DEF IsPowerSums, IsPowers
    <2>8. PICK y \in Int : y = p[j] * c[j + 1]
        BY <2>7
    <2>9. ((y % Q) + T[j]) % Q = (y + T[j]) % Q /\ y + T[j] = T[j] + y
        <3>1. PICK w \in Int : w = T[j]
            BY <2>7
        <3>2. ((y % Q) + w) % Q = (y + w) % Q /\ y + w = w + y
            BY ModAdd
        <3>3. QED
            BY <3>1, <3>2
    <2>10. QED
        BY <2>4, <2>5, <2>6, <2>8, <2>9
<1>7. \A j \in Nat : j \in H
    <2> HIDE DEF H
    <2>1. H \in SUBSET Nat
        BY DEF H
    <2>2. QED
        BY <1>5, <1>6, <2>1, NatInd, Zenon
<1>8. SumOn(g, 1 .. n) = T[n]
    BY <1>1, <1>7
<1>9. QED
    BY <1>3, <1>4, <1>8, SumScalarsType
=============================================================================

------------------------------ MODULE NatLemmas ------------------------------
(***************************************************************************)
(* What the proofs of the other modules need of numbers and of lists:      *)
(* induction for a set, recursion up to a number, smallest and largest     *)
(* elements, powers of two, division, sorting, sums, lists put together.   *)
(***************************************************************************)
EXTENDS Sorting, FiniteSetsExt, FiniteSetTheorems, SequenceTheorems, WellFoundedInduction, TLAPS

\* Every set of naturals that is not empty has a smallest element.
LEMMA LeastNat ==
    ASSUME NEW S \in SUBSET Nat, S # {}
    PROVE  \E m \in S : \A n \in S : m <= n
<1> DEFINE R == OpToRel(<, Nat)
<1>1. \A x, y \in Nat : <<y, x>> \in R <=> y < x
  BY DEF OpToRel
<1>2. IsWellFoundedOn(R, Nat)
  BY NatLessThanWellFounded
<1> HIDE DEF R
<1>3. PICK x \in S : \A y \in S : ~ (<<y, x>> \in R)
  BY <1>2, WFMin
<1>4. \A y \in S : ~ (y < x)
  BY <1>1, <1>3
<1> QED
  BY <1>4

\* A set with 0 and with the successor of each of its naturals has all of them.
LEMMA NatInSet ==
    ASSUME NEW T, 0 \in T, \A n \in Nat : n \in T => n + 1 \in T
    PROVE  Nat \subseteq T
<1> SUFFICES ASSUME Nat \ T # {} PROVE FALSE
  OBVIOUS
<1>1. PICK m \in Nat \ T : \A n \in Nat \ T : m <= n
  BY LeastNat
<1>2. m - 1 \in Nat /\ m - 1 < m
  BY <1>1
<1>3. m - 1 \in T
  BY <1>1, <1>2
<1> QED
  BY <1>1, <1>2, <1>3

\* A function on 0 .. n may be defined by its value at 0 and a step from each to the next.
Recurs(f, n, base, step) == f[0] = base /\ \A q \in 1 .. n : f[q] = step[q][f[q - 1]]

LEMMA RecursionUpTo ==
    ASSUME NEW n \in Nat, NEW S, NEW base \in S, NEW step \in [1 .. n -> [S -> S]]
    PROVE  \E f \in [0 .. n -> S] : Recurs(f, n, base, step)
<1> DEFINE Good(f, k) == f[0] = base /\ \A q \in 1 .. k : f[q] = step[q][f[q - 1]]
           T == {k \in Nat : k <= n => \E f \in [0 .. k -> S] : Good(f, k)}
<1>1. 0 \in T
  <2>1. [q \in 0 .. 0 |-> base] \in [0 .. 0 -> S] /\ Good([q \in 0 .. 0 |-> base], 0)
    OBVIOUS
  <2> QED
    BY <2>1
<1>2. ASSUME NEW k \in Nat, k \in T PROVE k + 1 \in T
  <2> SUFFICES ASSUME k + 1 <= n PROVE \E f \in [0 .. k + 1 -> S] : Good(f, k + 1)
    OBVIOUS
  <2>1. PICK f \in [0 .. k -> S] : Good(f, k)
    BY <1>2
  <2> DEFINE next == step[k + 1][f[k]]
             g == [q \in 0 .. k + 1 |-> IF q <= k THEN f[q] ELSE next]
  <2>2. next \in S
    <3>1. k + 1 \in 1 .. n /\ f[k] \in S
      BY <2>1
    <3>2. step[k + 1] \in [S -> S]
      BY <3>1
    <3> QED
      BY <3>1, <3>2
  <2>3. g \in [0 .. k + 1 -> S]
    BY <2>2
  <2>4. g[0] = base
    BY <2>1
  <2>5. ASSUME NEW q \in 1 .. k + 1 PROVE g[q] = step[q][g[q - 1]]
    <3>1. CASE q <= k
      <4>1. q \in 1 .. k /\ q \in 0 .. k + 1 /\ q - 1 \in 0 .. k + 1 /\ q - 1 <= k
        BY <3>1
      <4>2. g[q] = f[q] /\ g[q - 1] = f[q - 1]
        BY <3>1, <4>1
      <4> QED
        BY <2>1, <4>1, <4>2
    <3>2. CASE q = k + 1
      <4>1. g[q] = next /\ g[k] = f[k] /\ q - 1 = k
        BY <3>2
      <4> QED
        BY <3>2, <4>1
    <3> QED
      BY <3>1, <3>2
  <2> QED
    BY <2>3, <2>4, <2>5
<1>3. Nat \subseteq T
  <2> HIDE DEF T
  <2> QED
    BY <1>1, <1>2, NatInSet
<1>4. \E f \in [0 .. n -> S] : Good(f, n)
  BY <1>3
<1> QED
  BY <1>4 DEF Recurs

\* A bounded set that is not empty has a largest element, and Max is that one.
LEMMA MaxOfBounded ==
    ASSUME NEW S \in SUBSET Nat, S # {}, NEW b \in Nat, \A x \in S : x <= b
    PROVE  Max(S) \in S /\ \A x \in S : x <= Max(S)
<1> DEFINE bounds == {n \in Nat : \A x \in S : x <= n}
<1>1. b \in bounds
  OBVIOUS
<1>2. PICK m \in bounds : \A n \in bounds : m <= n
  BY <1>1, LeastNat
<1>3. m \in S
  <2> SUFFICES ASSUME m \notin S PROVE FALSE
    OBVIOUS
  <2>1. PICK x \in S : TRUE
    OBVIOUS
  <2>2. m - 1 \in Nat
    BY <1>2, <2>1
  <2>3. m - 1 \in bounds
    BY <1>2, <2>2
  <2> QED
    BY <1>2, <2>2, <2>3
<1>4. \E x \in S : \A y \in S : x >= y
  BY <1>2, <1>3
<1> QED
  BY <1>4 DEF Max

\* Min of a set of naturals is its smallest element.
LEMMA MinOfSome ==
    ASSUME NEW S \in SUBSET Nat, S # {}
    PROVE  Min(S) \in S /\ \A x \in S : Min(S) <= x
<1>1. \E x \in S : \A y \in S : x =< y
  BY LeastNat
<1> QED
  BY <1>1 DEF Min

\* A power of two counts the sets of so many elements, which are more than the elements.
LEMMA PowersGrow ==
    ASSUME NEW n \in Nat
    PROVE  2 ^ n \in Nat /\ n < 2 ^ n
<1> DEFINE S == 1 .. n
           one == [i \in S |-> {i}]
<1>1. IsFiniteSet(S) /\ Cardinality(S) = n
  BY FS_Interval
<1>2. IsFiniteSet(SUBSET S) /\ Cardinality(SUBSET S) = 2 ^ n /\ Cardinality(SUBSET S) \in Nat
  BY <1>1, FS_SUBSET, FS_CardinalityType
<1>3. one \in Injection(S, SUBSET S)
  BY DEF Injection, IsInjective
<1>4. one \notin Surjection(S, SUBSET S)
  <2>1. {} \in SUBSET S /\ \A i \in S : one[i] # {}
    OBVIOUS
  <2> HIDE DEF one
  <2> QED
    BY <2>1 DEF Surjection
<1>5. Cardinality(S) <= Cardinality(SUBSET S) /\ Cardinality(S) # Cardinality(SUBSET S)
  BY <1>2, <1>3, <1>4, FS_Injection
<1> QED
  BY <1>1, <1>2, <1>5

LEMMA PowersDouble ==
    ASSUME NEW n \in Nat
    PROVE  2 ^ (n + 1) = 2 * 2 ^ n
<1> DEFINE S == 1 .. n
           x == n + 1
           P == SUBSET S
           Q == {A \cup {x} : A \in P}
           f == [A \in P |-> A \cup {x}]
<1>1. x \notin S /\ S \cup {x} = 1 .. n + 1
  OBVIOUS
<1>2. /\ IsFiniteSet(S) /\ Cardinality(S) = n
      /\ IsFiniteSet(1 .. n + 1) /\ Cardinality(1 .. n + 1) = n + 1
  BY FS_Interval
<1> HIDE DEF x, S
<1>3. /\ IsFiniteSet(P) /\ Cardinality(P) = 2 ^ n /\ Cardinality(P) \in Nat
      /\ Cardinality(SUBSET (1 .. n + 1)) = 2 ^ (n + 1)
  BY <1>2, FS_SUBSET, FS_CardinalityType
<1>4. SUBSET (1 .. n + 1) = P \cup Q
  <2>1. ASSUME NEW A \in SUBSET (S \cup {x}) PROVE A \in P \cup Q
    <3>1. A \ {x} \in P
      OBVIOUS
    <3>2. CASE x \in A
      <4>1. A = (A \ {x}) \cup {x}
        BY <3>2
      <4> QED
        BY <3>1, <4>1
    <3>3. CASE x \notin A
      BY <3>3
    <3> QED
      BY <3>2, <3>3
  <2>2. \A A \in P : A \in SUBSET (S \cup {x}) /\ A \cup {x} \in SUBSET (S \cup {x})
    OBVIOUS
  <2> QED
    BY <1>1, <2>1, <2>2
<1>5. P \cap Q = {}
  BY <1>1
<1>6. IsFiniteSet(Q) /\ Cardinality(Q) = Cardinality(P)
  <2>1. f \in [P -> Q] /\ \A B \in Q : \E A \in P : f[A] = B
    OBVIOUS
  <2>2. \A A, B \in P : f[A] = f[B] => A = B
    BY <1>1
  <2> HIDE DEF f, P, Q
  <2>3. f \in Bijection(P, Q)
    BY <2>1, <2>2 DEF Bijection, Injection, Surjection, IsInjective
  <2> QED
    BY <1>3, <2>3, FS_Bijection DEF ExistsBijection
<1> HIDE DEF P, Q
<1>7. Cardinality(P \cup Q) = Cardinality(P) + Cardinality(Q)
  <2>1. Cardinality(P \cap Q) = 0
    BY <1>5, FS_EmptySet
  <2>2. Cardinality(P \cup Q) = Cardinality(P) + Cardinality(Q) - Cardinality(P \cap Q)
    BY <1>3, <1>6, FS_Union
  <2> DEFINE a == Cardinality(P)
             b == Cardinality(Q)
  <2>3. a + b - 0 = a + b
    <3>1. a \in Nat /\ b \in Nat
      BY <1>3, <1>6
    <3> HIDE DEF a, b
    <3> QED
      BY <3>1
  <2> QED
    BY <2>1, <2>2, <2>3
<1> DEFINE p == 2 ^ n
<1>8. 2 ^ (n + 1) = p + p /\ p \in Nat
  <2>1. p \in Nat
    BY <1>3
  <2> QED
    BY <1>3, <1>4, <1>6, <1>7, <2>1
<1> HIDE DEF p
<1>9. 2 ^ (n + 1) = 2 * p
  BY <1>8
<1> QED
  BY <1>9 DEF p

\* The length in bits.
LEMMA BitsOf ==
    ASSUME NEW n \in Nat
    PROVE  \E k \in 0 .. n : n < 2 ^ k /\ \A j \in 0 .. k - 1 : n >= 2 ^ j
<1> DEFINE S == {k \in Nat : n < 2 ^ k}
<1>1. n \in S
  BY PowersGrow
<1>2. PICK k \in S : \A j \in S : k <= j
  BY <1>1, LeastNat
<1>3. ASSUME NEW j \in 0 .. k - 1 PROVE n >= 2 ^ j
  <2>1. j \in Nat /\ j \notin S
    BY <1>2
  <2> DEFINE p == 2 ^ j
  <2>2. p \in Nat /\ ~(n < p)
    BY <2>1, PowersGrow
  <2> HIDE DEF p
  <2>3. n >= p
    BY <2>2
  <2> QED
    BY <2>3 DEF p
<1>4. k \in 0 .. n /\ n < 2 ^ k
  BY <1>1, <1>2
<1> QED
  BY <1>3, <1>4

\* The larger of two naturals, and the smaller.
LEMMA MaxOfTwo ==
    ASSUME NEW a \in Int, NEW b \in Int
    PROVE  Max({a, b}) = IF a >= b THEN a ELSE b
BY DEF Max

LEMMA MinOfTwo ==
    ASSUME NEW a \in Int, NEW b \in Int
    PROVE  Min({a, b}) = IF a <= b THEN a ELSE b
BY DEF Min

-----------------------------------------------------------------------------
\* Quotient and remainder, and that no others will do.
LEMMA Division ==
    ASSUME NEW a \in Int, NEW b \in Nat \ {0}
    PROVE  a \div b \in Int /\ a % b \in 0 .. b - 1 /\ a = (a \div b) * b + (a % b)
OBVIOUS

LEMMA Divided ==
    ASSUME NEW a \in Int, NEW b \in Nat \ {0}, a % b = 0
    PROVE  \E q \in Int : a = q * b
<1>1. a \div b \in Int /\ a = (a \div b) * b
  BY Division
<1> QED
  BY <1>1

LEMMA Quotient ==
    ASSUME NEW q \in Int, NEW b \in Nat \ {0}, NEW r \in 0 .. b - 1
    PROVE  (q * b + r) \div b = q /\ (q * b + r) % b = r
<1>1. (q * b + r) \div b = q
  OBVIOUS
<1>2. (q * b + r) % b = r
  OBVIOUS
<1> QED
  BY <1>1, <1>2

LEMMA Multiple ==
    ASSUME NEW q \in Int, NEW b \in Nat \ {0}
    PROVE  q * b \in Int /\ (q * b) % b = 0 /\ (q * b) \div b = q /\ (q >= 0 => q * b >= 0)
<1>1. (q * b) % b = 0
  OBVIOUS
<1>2. (q * b) \div b = q
  OBVIOUS
<1>3. q >= 0 => q * b >= 0
  OBVIOUS
<1> QED
  BY <1>1, <1>2, <1>3

\* Multiples keep their order, at least one multiplier apart.
LEMMA MultiplesInOrder ==
    ASSUME NEW x \in Int, NEW y \in Int, NEW b \in Nat
    PROVE  (x < y => x * b + b <= y * b) /\ (x <= y => x * b <= y * b)
<1>1. x < y => x * b + b <= y * b
  OBVIOUS
<1>2. x <= y => x * b <= y * b
  OBVIOUS
<1> QED
  BY <1>1, <1>2

\* The last multiple up to a number.
LEMMA MultipleBelow ==
    ASSUME NEW x \in Nat, NEW b \in Nat \ {0}
    PROVE  LET a == (x \div b) * b
           IN  a \in Nat /\ a % b = 0 /\ a <= x /\ x < a + b
<1> DEFINE q == x \div b
           r == x % b
<1>1. q \in Int /\ r \in 0 .. b - 1 /\ x = q * b + r
  BY Division
<1> HIDE DEF q, r
<1>2. (q * b) % b = 0 /\ q * b \in Int
  BY <1>1, Multiple
<1>3. q >= 0
  <2>1. q < 0 => q * b + b <= 0 * b
    BY <1>1, MultiplesInOrder
  <2>2. 0 * b = 0
    OBVIOUS
  <2> DEFINE a == q * b
  <2>3. a \in Int /\ x = a + r /\ (q < 0 => a + b <= 0)
    BY <1>1, <1>2, <2>1, <2>2
  <2> HIDE DEF a
  <2> QED
    BY <1>1, <2>3
<1>4. q * b >= 0
  BY <1>1, <1>3, Multiple
<1> DEFINE a == q * b
<1>5. a \in Nat /\ x = a + r /\ r \in 0 .. b - 1 /\ a % b = 0
  BY <1>1, <1>2, <1>4
<1> HIDE DEF a
<1>6. a \in Nat /\ a % b = 0 /\ a <= x /\ x < a + b
  BY <1>5
<1> QED
  BY <1>6 DEF a, q

-----------------------------------------------------------------------------
\* The least multiple of b that reaches a.
LEMMA RoundedUp ==
    ASSUME NEW a \in Nat, NEW b \in Nat \ {0}
    PROVE  LET q == (a + b - 1) \div b
           IN  q \in Nat /\ q * b \in Nat /\ a <= q * b /\ q * b < a + b
<1> DEFINE q == (a + b - 1) \div b
           s == (a + b - 1) % b
<1>1. q \in Int /\ s \in 0 .. b - 1 /\ a + b - 1 = q * b + s
  <2>1. a + b - 1 \in Int
    OBVIOUS
  <2> QED
    BY <2>1, Division
<1> HIDE DEF q, s
<1>2. q * b \in Int /\ a <= q * b /\ q * b < a + b
  BY <1>1
<1>3. q >= 0
  <2>1. q < 0 => q * b + b <= 0 * b
    BY <1>1, MultiplesInOrder
  <2> QED
    BY <1>1, <2>1
<1> QED
  BY <1>1, <1>2, <1>3 DEF q

\* One of finitely many numbers, listed or in a set, is the largest.
LEMMA LargestListed ==
    ASSUME NEW n \in Nat \ {0}, NEW list \in [1 .. n -> Int]
    PROVE  \E m \in 1 .. n : \A i \in 1 .. n : list[i] <= list[m]
<1> DEFINE T == {k \in Nat : k # 0 /\ k <= n => \E m \in 1 .. k : \A i \in 1 .. k : list[i] <= list[m]}
<1>1. 0 \in T
  OBVIOUS
<1>2. ASSUME NEW k \in Nat, k \in T PROVE k + 1 \in T
  <2> SUFFICES ASSUME k + 1 <= n
               PROVE  \E m \in 1 .. k + 1 : \A i \in 1 .. k + 1 : list[i] <= list[m]
    OBVIOUS
  <2>1. \A i \in 1 .. k + 1 : list[i] \in Int /\ (i = k + 1 \/ i \in 1 .. k)
    OBVIOUS
  <2>2. CASE k = 0
    BY <2>1, <2>2
  <2>3. CASE k # 0
    <3>1. PICK m \in 1 .. k : \A i \in 1 .. k : list[i] <= list[m]
      BY <1>2, <2>3
    <3>2. m \in 1 .. k + 1 /\ k + 1 \in 1 .. k + 1
      OBVIOUS
    <3>3. CASE list[k + 1] <= list[m]
      BY <2>1, <3>1, <3>2, <3>3
    <3>4. CASE list[m] <= list[k + 1]
      <4>1. \A i \in 1 .. k + 1 : list[i] <= list[k + 1]
        BY <2>1, <3>1, <3>2, <3>4
      <4> QED
        BY <3>2, <4>1
    <3> QED
      BY <2>1, <3>2, <3>3, <3>4
  <2> QED
    BY <2>2, <2>3
<1>3. Nat \subseteq T
  <2> HIDE DEF T
  <2> QED
    BY <1>1, <1>2, NatInSet
<1>4. n \in T
  BY <1>3
<1> QED
  BY <1>4

LEMMA LargestInSet ==
    ASSUME NEW S \in SUBSET Int, IsFiniteSet(S), S # {}
    PROVE  \E m \in S : \A x \in S : x <= m
<1>1. PICK n \in Nat : ExistsBijection(1 .. n, S)
  BY FS_NatBijection
<1>2. PICK list \in Bijection(1 .. n, S) : TRUE
  BY <1>1 DEF ExistsBijection
<1>3. list \in [1 .. n -> S] /\ \A x \in S : \E i \in 1 .. n : list[i] = x
  BY <1>2 DEF Bijection, Surjection
<1>4. n # 0
  <2>1. PICK x \in S : TRUE
    OBVIOUS
  <2>2. PICK i \in 1 .. n : list[i] = x
    BY <1>3
  <2> QED
    BY <2>2
<1>5. list \in [1 .. n -> Int]
  BY <1>3
<1>6. PICK m \in 1 .. n : \A i \in 1 .. n : list[i] <= list[m]
  BY <1>4, <1>5, LargestListed
<1> QED
  BY <1>3, <1>6

\* A list of numbers can be sorted.
LEMMA SortingOrder ==
    ASSUME NEW n \in Nat, NEW list \in [1 .. n -> Int]
    PROVE  \E p \in [1 .. n -> 1 .. n] :
             /\ \A j \in 1 .. n : \E i \in 1 .. n : p[i] = j
             /\ \A i, j \in 1 .. n : i # j => p[i] # p[j]
             /\ \A i, j \in 1 .. n : i < j => list[p[i]] <= list[p[j]]
<1> DEFINE IsOrder(l, k, p) ==
             /\ \A i, j \in 1 .. k : i # j => p[i] # p[j]
             /\ \A j \in 1 .. k : \E i \in 1 .. k : p[i] = j
             /\ \A i, j \in 1 .. k : i < j => l[p[i]] <= l[p[j]]
           Sorts(k) == \A l \in [1 .. k -> Int] : \E p \in [1 .. k -> 1 .. k] : IsOrder(l, k, p)
           T == {k \in Nat : Sorts(k)}
<1>1. 0 \in T
  OBVIOUS
<1>2. ASSUME NEW k \in Nat, k \in T PROVE k + 1 \in T
  <2> SUFFICES Sorts(k + 1)
    <3> HIDE DEF Sorts
    <3> QED
      OBVIOUS
  <2> TAKE l \in [1 .. k + 1 -> Int]
  <2>1. PICK m \in 1 .. k + 1 : \A i \in 1 .. k + 1 : l[i] <= l[m]
    <3>1. k + 1 \in Nat \ {0}
      OBVIOUS
    <3> HIDE DEF T
    <3> QED
      BY <3>1, LargestListed
  <2> DEFINE Up(i) == IF i < m THEN i ELSE i + 1
             rest == [i \in 1 .. k |-> l[Up(i)]]
  <2>2. \A i \in 1 .. k : Up(i) \in 1 .. k + 1 /\ Up(i) # m
    OBVIOUS
  <2>11. \A i, j \in 1 .. k : i # j => Up(i) # Up(j)
    OBVIOUS
  <2>3. rest \in [1 .. k -> Int]
    BY <2>2
  <2>4. PICK q \in [1 .. k -> 1 .. k] : IsOrder(rest, k, q)
    BY <1>2, <2>3
  <2> DEFINE p == [i \in 1 .. k + 1 |-> IF i = k + 1 THEN m ELSE Up(q[i])]
  <2>5. \A i \in 1 .. k : i \in 1 .. k + 1 /\ i # k + 1 /\ q[i] \in 1 .. k /\ p[i] = Up(q[i])
    OBVIOUS
  <2>6. p[k + 1] = m /\ \A i \in 1 .. k + 1 : i = k + 1 \/ i \in 1 .. k
    OBVIOUS
  <2>7. p \in [1 .. k + 1 -> 1 .. k + 1]
    BY <2>2, <2>5, <2>6
  <2> HIDE DEF p
  <2>10. ASSUME NEW i \in 1 .. k + 1, NEW j \in 1 .. k + 1, i # j PROVE p[i] # p[j]
    <3>1. \A h \in 1 .. k : p[h] # m
      BY <2>2, <2>5
    <3>2. CASE i = k + 1
      BY <2>6, <2>10, <3>1, <3>2
    <3>3. CASE j = k + 1
      BY <2>6, <2>10, <3>1, <3>3
    <3>4. CASE i # k + 1 /\ j # k + 1
      <4>1. i \in 1 .. k /\ j \in 1 .. k
        BY <3>4
      <4>2. q[i] # q[j] /\ q[i] \in 1 .. k /\ q[j] \in 1 .. k
        BY <2>4, <2>10, <4>1
      <4>3. Up(q[i]) # Up(q[j])
        BY <2>11, <4>2
      <4> QED
        BY <2>5, <4>1, <4>3
    <3> QED
      BY <3>2, <3>3, <3>4
  <2>8. ASSUME NEW j \in 1 .. k + 1 PROVE \E i \in 1 .. k + 1 : p[i] = j
    <3>1. CASE j = m
      BY <2>6, <3>1
    <3>2. CASE j < m
      <4>1. j \in 1 .. k
        BY <3>2
      <4>2. PICK i \in 1 .. k : q[i] = j
        BY <2>4, <4>1
      <4> QED
        BY <2>5, <3>2, <4>2
    <3>3. CASE j > m
      <4>1. j - 1 \in 1 .. k /\ ~ (j - 1 < m)
        BY <3>3
      <4>2. PICK i \in 1 .. k : q[i] = j - 1
        BY <2>4, <4>1
      <4>3. Up(q[i]) = j
        BY <4>1, <4>2
      <4> QED
        BY <2>5, <4>3
    <3> QED
      BY <3>1, <3>2, <3>3
  <2>9. ASSUME NEW i \in 1 .. k + 1, NEW j \in 1 .. k + 1, i < j PROVE l[p[i]] <= l[p[j]]
    <3>1. CASE j = k + 1
      BY <2>1, <2>6, <2>7, <3>1
    <3>2. CASE j # k + 1
      <4>1. i \in 1 .. k /\ j \in 1 .. k
        BY <2>9, <3>2
      <4>2. rest[q[i]] <= rest[q[j]]
        BY <2>4, <2>9, <4>1
      <4>3. rest[q[i]] = l[p[i]] /\ rest[q[j]] = l[p[j]]
        BY <2>5, <4>1
      <4> QED
        BY <4>2, <4>3
    <3> QED
      BY <3>1, <3>2
  <2> QED
    BY <2>7, <2>8, <2>9, <2>10
<1>3. Nat \subseteq T
  <2> HIDE DEF T
  <2> QED
    BY <1>1, <1>2, NatInSet
<1> QED
  BY <1>3

\* Sorted keeps the numbers of a list.
LEMMA SortedKeeps ==
    ASSUME NEW n \in Nat, NEW list \in [1 .. n -> Int]
    PROVE  /\ Sorted(list) \in [1 .. n -> Int]
           /\ Range(Sorted(list)) = Range(list)
<1> DEFINE IsOrder(p) ==
             /\ Range(p) = 1 .. n
             /\ \A i, j \in 1 .. n : i < j => list[p[i]] <= list[p[j]]
           order == CHOOSE p \in [1 .. n -> 1 .. n] : IsOrder(p)
<1>1. \E p \in [1 .. n -> 1 .. n] : IsOrder(p)
  <2>1. PICK p \in [1 .. n -> 1 .. n] :
             /\ \A j \in 1 .. n : \E i \in 1 .. n : p[i] = j
             /\ \A i, j \in 1 .. n : i < j => list[p[i]] <= list[p[j]]
    BY SortingOrder
  <2>2. Range(p) = 1 .. n
    BY <2>1 DEF Range
  <2> QED
    BY <2>1, <2>2
<1>2. order \in [1 .. n -> 1 .. n] /\ Range(order) = 1 .. n
  BY <1>1
<1>3. DOMAIN list = 1 .. n
  OBVIOUS
<1>4. Sorted(list) = [i \in 1 .. n |-> list[order[i]]]
  BY <1>3 DEF Sorted
<1> HIDE DEF order
<1>5. Sorted(list) \in [1 .. n -> Int]
  BY <1>2, <1>4
<1>6. \A j \in 1 .. n : \E i \in 1 .. n : order[i] = j
  BY <1>2 DEF Range
<1>7. \A i \in 1 .. n : Sorted(list)[i] = list[order[i]] /\ order[i] \in 1 .. n
  BY <1>2, <1>4
<1>8. Range(Sorted(list)) = {Sorted(list)[i] : i \in 1 .. n} /\ Range(list) = {list[i] : i \in 1 .. n}
  BY <1>3, <1>5 DEF Range
<1>9. ASSUME NEW j \in 1 .. n PROVE \E i \in 1 .. n : Sorted(list)[i] = list[j]
  <2>1. PICK i \in 1 .. n : order[i] = j
    BY <1>6
  <2> QED
    BY <1>7, <2>1
<1>10. {Sorted(list)[i] : i \in 1 .. n} = {list[i] : i \in 1 .. n}
  <2>1. {Sorted(list)[i] : i \in 1 .. n} \subseteq {list[i] : i \in 1 .. n}
    BY <1>7
  <2>2. {list[i] : i \in 1 .. n} \subseteq {Sorted(list)[i] : i \in 1 .. n}
    BY <1>9
  <2> QED
    BY <2>1, <2>2
<1> QED
  BY <1>5, <1>8, <1>10

\* Ascending names each number of a finite set once, the smaller ones first.
LEMMA AscendingNames ==
    ASSUME NEW S \in SUBSET Int, IsFiniteSet(S)
    PROVE  /\ Cardinality(S) \in Nat
           /\ Ascending(S) \in [1 .. Cardinality(S) -> S]
           /\ Range(Ascending(S)) = S
           /\ \A i, j \in 1 .. Cardinality(S) : i < j => Ascending(S)[i] < Ascending(S)[j]
<1> DEFINE n == Cardinality(S)
           IsRising(s) == Range(s) = S /\ \A i, j \in DOMAIN s : i < j => s[i] < s[j]
<1>1. n \in Nat
  BY FS_CardinalityType
<1>2. PICK k \in Nat : ExistsBijection(1 .. k, S)
  BY FS_NatBijection
<1>3. k = n
  BY <1>2, FS_CountingElements
<1>4. PICK list \in Bijection(1 .. n, S) : TRUE
  BY <1>2, <1>3 DEF ExistsBijection
<1> HIDE DEF n
<1>5. /\ list \in [1 .. n -> S] /\ \A x \in S : \E i \in 1 .. n : list[i] = x
      /\ \A i, j \in 1 .. n : list[i] = list[j] => i = j
  BY <1>4 DEF Bijection, Surjection, Injection, IsInjective
<1>6. PICK p \in [1 .. n -> 1 .. n] :
             /\ \A j \in 1 .. n : \E i \in 1 .. n : p[i] = j
             /\ \A i, j \in 1 .. n : i # j => p[i] # p[j]
             /\ \A i, j \in 1 .. n : i < j => list[p[i]] <= list[p[j]]
  <2>1. list \in [1 .. n -> Int]
    BY <1>5
  <2> QED
    BY <1>1, <2>1, SortingOrder
<1> DEFINE s == [i \in 1 .. n |-> list[p[i]]]
<1>7. s \in [1 .. n -> S] /\ DOMAIN s = 1 .. n
  BY <1>5, <1>6
<1>8. Range(s) = S
  <2>1. Range(s) = {s[i] : i \in 1 .. n}
    BY <1>7 DEF Range
  <2>2. ASSUME NEW x \in S PROVE \E i \in 1 .. n : s[i] = x
    <3>1. PICK j \in 1 .. n : list[j] = x
      BY <1>5
    <3>2. PICK i \in 1 .. n : p[i] = j
      BY <1>6
    <3> QED
      BY <3>1, <3>2
  <2>3. \A i \in 1 .. n : s[i] \in S
    BY <1>7
  <2> HIDE DEF s
  <2> QED
    BY <2>1, <2>2, <2>3
<1>9. ASSUME NEW i \in 1 .. n, NEW j \in 1 .. n, i < j PROVE s[i] < s[j]
  <2>1. i # j /\ p[i] \in 1 .. n /\ p[j] \in 1 .. n /\ s[i] = list[p[i]] /\ s[j] = list[p[j]]
    BY <1>1, <1>6, <1>9
  <2>2. s[i] # s[j]
    BY <1>5, <1>6, <2>1
  <2>3. s[i] \in Int /\ s[j] \in Int /\ s[i] <= s[j]
    BY <1>5, <1>6, <1>9, <2>1
  <2> QED
    BY <2>2, <2>3
<1>10. \E t \in [1 .. n -> S] : IsRising(t)
  <2> HIDE DEF s
  <2> QED
    BY <1>7, <1>8, <1>9
<1>11. Ascending(S) = CHOOSE t \in [1 .. n -> S] : IsRising(t)
  BY DEF Ascending, n
<1>12. Ascending(S) \in [1 .. n -> S] /\ IsRising(Ascending(S))
  BY <1>10, <1>11
<1> QED
  BY <1>1, <1>12 DEF n

\* Slices of equal size cut numbers up: each lies in one of them.
LEMMA InOneSlice ==
    ASSUME NEW size \in Nat \ {0}, NEW n \in Nat, NEW i \in Nat, i < n * size
    PROVE  /\ i \div size \in 0 .. n - 1
           /\ (i \div size) * size <= i /\ i < (i \div size) * size + size
           /\ \A k \in Int : k * size <= i /\ i < k * size + size => k = i \div size
<1> DEFINE q == i \div size
<1>1. q \in Int /\ i % size \in 0 .. size - 1 /\ i = q * size + (i % size)
  BY Division
<1> HIDE DEF q
<1>2. q * size \in Int /\ q * size <= i /\ i < q * size + size
  BY <1>1
<1>3. q >= 0
  <2>1. q < 0 => q * size + size <= 0 * size
    BY <1>1, MultiplesInOrder
  <2>2. 0 * size = 0
    OBVIOUS
  <2> QED
    BY <1>1, <1>2, <2>1, <2>2
<1>4. q < n
  <2>1. n <= q => n * size <= q * size
    BY <1>1, MultiplesInOrder
  <2>2. n * size \in Int
    OBVIOUS
  <2> QED
    BY <1>1, <1>2, <2>1, <2>2
<1>5. ASSUME NEW k \in Int, k * size <= i, i < k * size + size PROVE k = q
  <2>1. (k < q => k * size + size <= q * size) /\ (q < k => q * size + size <= k * size)
    BY <1>1, MultiplesInOrder
  <2>2. k * size \in Int
    OBVIOUS
  <2> QED
    BY <1>1, <1>2, <1>5, <2>1, <2>2
<1> QED
  BY <1>1, <1>2, <1>3, <1>4, <1>5 DEF q

-----------------------------------------------------------------------------
\* Sums of finitely many integers: the library takes them out of a set one by one, in an
\* order that it leaves open.
Some(S) == CHOOSE x \in S : TRUE

AddsUp(g, f, S) == \A s \in SUBSET S : g[s] = IF s = {} THEN 0 ELSE f[Some(s)] + g[s \ {Some(s)}]

LEMMA SomeOf ==
    ASSUME NEW S, NEW s \in SUBSET S, IsFiniteSet(S), s # {}
    PROVE  /\ Some(s) \in s /\ s \ {Some(s)} \in SUBSET S
           /\ Cardinality(s) \in Nat \ {0} /\ Cardinality(s \ {Some(s)}) = Cardinality(s) - 1
<1>1. Some(s) \in s
  BY DEF Some
<1>2. IsFiniteSet(s) /\ Cardinality(s) \in Nat /\ Cardinality(s) # 0
  BY FS_Subset, FS_CardinalityType, FS_EmptySet
<1> QED
  BY <1>1, <1>2, FS_RemoveElement

LEMMA SumsExist ==
    ASSUME NEW S, IsFiniteSet(S), NEW f, \A x \in S : f[x] \in Int
    PROVE  \E g \in [SUBSET S -> Int] : AddsUp(g, f, S)
<1> DEFINE Small(n) == {s \in SUBSET S : Cardinality(s) <= n}
           Next(g, s) == IF s = {} THEN 0 ELSE f[Some(s)] + g[s \ {Some(s)}]
           T == {n \in Nat : \E g \in [Small(n) -> Int] : \A s \in Small(n) : g[s] = Next(g, s)}
<1>1. \A s \in SUBSET S : Cardinality(s) \in Nat /\ (Cardinality(s) = 0 <=> s = {})
  BY FS_Subset, FS_CardinalityType, FS_EmptySet
<1>2. 0 \in T
  <2> DEFINE g == [s \in Small(0) |-> 0]
  <2>1. \A s \in Small(0) : s = {}
    BY <1>1
  <2>2. g \in [Small(0) -> Int] /\ \A s \in Small(0) : g[s] = Next(g, s)
    BY <2>1
  <2> QED
    BY <2>2
<1>3. ASSUME NEW n \in Nat, n \in T PROVE n + 1 \in T
  <2>1. PICK g \in [Small(n) -> Int] : \A s \in Small(n) : g[s] = Next(g, s)
    BY <1>3
  <2> DEFINE h == [s \in Small(n + 1) |-> Next(g, s)]
  <2>2. \A s \in Small(n + 1) : s # {} => Some(s) \in S /\ s \ {Some(s)} \in Small(n)
    BY <1>1, SomeOf
  <2>3. h \in [Small(n + 1) -> Int]
    <3>1. \A s \in Small(n + 1) : Next(g, s) \in Int
      <4> SUFFICES ASSUME NEW s \in Small(n + 1), s # {} PROVE f[Some(s)] + g[s \ {Some(s)}] \in Int
        OBVIOUS
      <4>1. f[Some(s)] \in Int /\ g[s \ {Some(s)}] \in Int
        BY <2>2
      <4> QED
        BY <4>1
    <3> QED
      BY <3>1
  <2>4. \A s \in Small(n) : s \in Small(n + 1)
    BY <1>1
  <2>5. \A s \in Small(n) : h[s] = g[s]
    BY <2>1, <2>4
  <2>6. \A s \in Small(n + 1) : h[s] = Next(h, s)
    BY <2>2, <2>5
  <2> HIDE DEF h, Next, Small
  <2> QED
    BY <2>3, <2>6
<1>4. Nat \subseteq T
  <2> HIDE DEF T
  <2> QED
    BY <1>2, <1>3, NatInSet
<1>5. Cardinality(S) \in T
  BY <1>4, FS_CardinalityType
<1>6. Small(Cardinality(S)) = SUBSET S
  BY FS_Subset
<1> QED
  BY <1>5, <1>6 DEF AddsUp

\* Two functions that add up the same agree.
LEMMA SumsAgree ==
    ASSUME NEW S, IsFiniteSet(S), NEW f, NEW g, NEW h, NEW U \in SUBSET S,
           AddsUp(g, f, S), AddsUp(h, f, U)
    PROVE  g[U] = h[U]
<1> DEFINE T == {n \in Nat : \A s \in SUBSET U : Cardinality(s) = n => g[s] = h[s]}
<1>1. \A s \in SUBSET U : s \in SUBSET S /\ Cardinality(s) \in Nat /\ (Cardinality(s) = 0 <=> s = {})
  BY FS_Subset, FS_CardinalityType, FS_EmptySet
<1>2. 0 \in T
  BY <1>1 DEF AddsUp
<1>3. ASSUME NEW n \in Nat, n \in T PROVE n + 1 \in T
  <2> SUFFICES ASSUME NEW s \in SUBSET U, Cardinality(s) = n + 1 PROVE g[s] = h[s]
    OBVIOUS
  <2>1. s # {} /\ s \in SUBSET S
    BY <1>1
  <2>2. s \ {Some(s)} \in SUBSET U /\ Cardinality(s \ {Some(s)}) = n
    BY <2>1, SomeOf
  <2>3. g[s \ {Some(s)}] = h[s \ {Some(s)}]
    BY <1>3, <2>2
  <2> QED
    BY <2>1, <2>3 DEF AddsUp
<1>4. Nat \subseteq T
  <2> HIDE DEF T
  <2> QED
    BY <1>2, <1>3, NatInSet
<1> QED
  BY <1>1, <1>4

\* Any element may be taken out first.
TakesOut(g, f, S) == \A s \in SUBSET S : \A x \in s : g[s] = f[x] + g[s \ {x}]

LEMMA AnyFirst ==
    ASSUME NEW S, IsFiniteSet(S), NEW f, \A x \in S : f[x] \in Int,
           NEW g \in [SUBSET S -> Int], AddsUp(g, f, S)
    PROVE  TakesOut(g, f, S)
<1> DEFINE T == {n \in Nat : \A s \in SUBSET S : Cardinality(s) = n => \A x \in s : g[s] = f[x] + g[s \ {x}]}
<1>1. \A s \in SUBSET S : IsFiniteSet(s) /\ Cardinality(s) \in Nat /\ (Cardinality(s) = 0 <=> s = {})
  BY FS_Subset, FS_CardinalityType, FS_EmptySet
<1>2. 0 \in T
  BY <1>1
<1>3. ASSUME NEW n \in Nat, n \in T PROVE n + 1 \in T
  <2> SUFFICES ASSUME NEW s \in SUBSET S, Cardinality(s) = n + 1, NEW x \in s
               PROVE  g[s] = f[x] + g[s \ {x}]
    OBVIOUS
  <2> DEFINE c == Some(s)
  <2>1. s # {} /\ c \in s /\ g[s] = f[c] + g[s \ {c}]
    BY <1>1, SomeOf DEF AddsUp
  <2>2. CASE c = x
    BY <2>1, <2>2
  <2>3. CASE c # x
    <3>1. /\ s \ {c} \in SUBSET S /\ Cardinality(s \ {c}) = n /\ x \in s \ {c}
          /\ s \ {x} \in SUBSET S /\ Cardinality(s \ {x}) = n /\ c \in s \ {x}
      <4>1. Cardinality(s \ {c}) = Cardinality(s) - 1 /\ Cardinality(s \ {x}) = Cardinality(s) - 1
        BY <1>1, <2>1, FS_RemoveElement
      <4> QED
        BY <2>1, <2>3, <4>1
    <3>2. g[s \ {c}] = f[x] + g[(s \ {c}) \ {x}] /\ g[s \ {x}] = f[c] + g[(s \ {x}) \ {c}]
      <4> HIDE DEF c
      <4> QED
        BY <1>3, <3>1
    <3>3. (s \ {c}) \ {x} = (s \ {x}) \ {c} /\ (s \ {c}) \ {x} \in SUBSET S
      OBVIOUS
    <3>4. f[c] \in Int /\ f[x] \in Int /\ g[(s \ {c}) \ {x}] \in Int
      BY <2>1, <3>3
    <3> DEFINE rest == g[(s \ {c}) \ {x}]
               other == g[(s \ {x}) \ {c}]
               one == g[s \ {x}]
               both == g[s]
               left == g[s \ {c}]
               a == f[c]
               b == f[x]
    <3>5. other = rest
      BY <3>3
    <3>6. both = a + left /\ left = b + rest /\ one = a + other /\ a \in Int /\ b \in Int /\ rest \in Int
      BY <2>1, <3>2, <3>4
    <3> HIDE DEF c, rest, other, one, both, left, a, b
    <3>7. both = b + one
      BY <3>5, <3>6
    <3> QED
      BY <3>7 DEF both, one, b
  <2> QED
    BY <2>2, <2>3
<1>4. Nat \subseteq T
  <2> HIDE DEF T
  <2> QED
    BY <1>2, <1>3, NatInSet
<1> QED
  BY <1>1, <1>4 DEF TakesOut

\* The library's sum is such a function's value.
LEMMA SumIsOne ==
    ASSUME NEW S, IsFiniteSet(S), NEW f, \A x \in S : f[x] \in Int
    PROVE  \E g \in [SUBSET S -> Int] : AddsUp(g, f, S) /\ SumFunctionOnSet(f, S) = g[S]
<1> DEFINE Eq(g) == g = [s \in SUBSET S |-> IF s = {} THEN 0 ELSE f[Some(s)] + g[s \ {Some(s)}]]
<1>1. PICK g \in [SUBSET S -> Int] : AddsUp(g, f, S)
  BY SumsExist
<1>2. Eq(g)
  BY <1>1 DEF AddsUp
<1> DEFINE h == CHOOSE h : Eq(h)
<1>3. Eq(h)
  <2> HIDE DEF Eq
  <2> QED
    BY <1>2
<1>4. SumFunctionOnSet(f, S) = h[S]
  BY DEF SumFunctionOnSet, FoldFunctionOnSet, MapThenFoldSet, Some
<1> HIDE DEF h
<1>5. AddsUp(h, f, S)
  BY <1>3 DEF AddsUp
<1>6. g[S] = h[S]
  BY <1>1, <1>5, SumsAgree
<1> QED
  BY <1>1, <1>4, <1>6

\* A sum of none is 0, and any term may be taken out of a sum.
LEMMA SumTakesOut ==
    ASSUME NEW S, IsFiniteSet(S), NEW f, \A x \in S : f[x] \in Int
    PROVE  /\ SumFunctionOnSet(f, S) \in Int
           /\ S = {} => SumFunctionOnSet(f, S) = 0
           /\ \A x \in S : SumFunctionOnSet(f, S) = f[x] + SumFunctionOnSet(f, S \ {x})
<1>1. PICK g \in [SUBSET S -> Int] : AddsUp(g, f, S) /\ SumFunctionOnSet(f, S) = g[S]
  BY SumIsOne
<1>2. SumFunctionOnSet(f, S) \in Int /\ (S = {} => SumFunctionOnSet(f, S) = 0)
  BY <1>1 DEF AddsUp
<1>3. ASSUME NEW x \in S PROVE SumFunctionOnSet(f, S) = f[x] + SumFunctionOnSet(f, S \ {x})
  <2> DEFINE U == S \ {x}
  <2>1. IsFiniteSet(U) /\ U \in SUBSET S /\ \A y \in U : f[y] \in Int
    BY FS_Subset
  <2> HIDE DEF U
  <2>2. PICK h \in [SUBSET U -> Int] : AddsUp(h, f, U) /\ SumFunctionOnSet(f, U) = h[U]
    BY <2>1, SumIsOne
  <2>3. g[U] = h[U]
    BY <1>1, <2>1, <2>2, SumsAgree
  <2>4. g[S] = f[x] + g[U]
    <3>1. TakesOut(g, f, S)
      BY <1>1, AnyFirst
    <3>2. S \in SUBSET S
      OBVIOUS
    <3> QED
      BY <3>1, <3>2 DEF TakesOut, U
  <2> QED
    BY <1>1, <2>2, <2>3, <2>4 DEF U
<1> QED
  BY <1>2, <1>3

\* Partial sums start from zero and follow each other.
LEMMA PartialSums ==
    ASSUME NEW a \in Int, NEW b \in Int, a <= b, NEW f, \A x \in a .. b - 1 : f[x] \in Nat
    PROVE  /\ SumFunctionOnSet(f, a .. a - 1) = 0
           /\ \A r \in a .. b : SumFunctionOnSet(f, a .. r - 1) \in Nat
           /\ \A r \in a .. b - 1 :
                SumFunctionOnSet(f, a .. (r + 1) - 1) = f[r] + SumFunctionOnSet(f, a .. r - 1)
           /\ \A r \in a .. b, g \in a .. b - 1 :
                g < r => SumFunctionOnSet(f, a .. g - 1) + f[g] <= SumFunctionOnSet(f, a .. r - 1)
<1> DEFINE sum(r) == SumFunctionOnSet(f, a .. r - 1)
           T == {h \in Nat : a + h <= b =>
                   /\ sum(a + h) \in Nat
                   /\ \A g \in a .. (a + h) - 1 : sum(g) + f[g] <= sum(a + h)}
<1>1. \A r \in a .. b : IsFiniteSet(a .. r - 1) /\ \A x \in a .. r - 1 : f[x] \in Int
  <2> SUFFICES ASSUME NEW r \in a .. b
               PROVE  IsFiniteSet(a .. r - 1) /\ \A x \in a .. r - 1 : f[x] \in Int
    OBVIOUS
  <2>1. r - 1 \in Int /\ \A x \in a .. r - 1 : x \in a .. b - 1
    OBVIOUS
  <2> QED
    BY <2>1, FS_Interval
<1>2. sum(a) = 0
  <2>1. a .. a - 1 = {} /\ a \in a .. b
    OBVIOUS
  <2>2. IsFiniteSet({}) /\ \A x \in {} : f[x] \in Int
    BY FS_EmptySet
  <2>3. SumFunctionOnSet(f, {}) = 0
    BY <2>2, SumTakesOut
  <2> QED
    BY <2>1, <2>3
<1>3. \A r \in a .. b - 1 : sum(r + 1) = f[r] + sum(r)
  <2> SUFFICES ASSUME NEW r \in a .. b - 1 PROVE sum(r + 1) = f[r] + sum(r)
    OBVIOUS
  <2> DEFINE S == a .. r
  <2>1. S = a .. (r + 1) - 1 /\ r \in S /\ S \ {r} = a .. r - 1 /\ r + 1 \in a .. b
    OBVIOUS
  <2>2. IsFiniteSet(S) /\ \A x \in S : f[x] \in Int
    BY <1>1, <2>1
  <2> HIDE DEF S
  <2>3. SumFunctionOnSet(f, S) = f[r] + SumFunctionOnSet(f, S \ {r})
    BY <2>1, <2>2, SumTakesOut
  <2> QED
    BY <2>1, <2>3
<1> HIDE DEF sum
<1>4. 0 \in T
  BY <1>2
<1>5. ASSUME NEW h \in Nat, h \in T PROVE h + 1 \in T
  <2> DEFINE r == a + h
  <2> SUFFICES ASSUME a + (h + 1) <= b
               PROVE  /\ sum(a + (h + 1)) \in Nat
                      /\ \A g \in a .. (a + (h + 1)) - 1 : sum(g) + f[g] <= sum(a + (h + 1))
    OBVIOUS
  <2>1. sum(r) \in Nat /\ \A g \in a .. r - 1 : sum(g) + f[g] <= sum(r)
    BY <1>5
  <2>2. a + (h + 1) = r + 1 /\ r \in a .. b - 1
    OBVIOUS
  <2> HIDE DEF r
  <2>3. sum(r + 1) = f[r] + sum(r) /\ f[r] \in Nat
    BY <1>3, <2>2
  <2>4. ASSUME NEW g \in a .. (r + 1) - 1 PROVE sum(g) + f[g] <= sum(r + 1)
    <3>1. CASE g = r
      <4>1. sum(r) + f[r] = sum(r + 1)
        BY <2>1, <2>3
      <4>2. sum(r + 1) \in Nat
        BY <2>1, <2>3
      <4> QED
        BY <3>1, <4>1, <4>2
    <3>2. CASE g # r
      <4>1. g \in a .. r - 1 /\ g \in a .. b - 1
        BY <2>2, <3>2
      <4>2. sum(g) + f[g] <= sum(r) /\ f[g] \in Nat
        BY <2>1, <4>1
      <4>3. sum(g) \in Int
        BY <1>1, <2>2, <4>1, SumTakesOut DEF sum
      <4> QED
        BY <2>1, <2>3, <4>2, <4>3
    <3> QED
      BY <3>1, <3>2
  <2> QED
    BY <2>1, <2>2, <2>3, <2>4
<1>6. Nat \subseteq T
  <2> HIDE DEF T
  <2> QED
    BY <1>4, <1>5, NatInSet
<1>7. \A r \in a .. b : sum(r) \in Nat /\ \A g \in a .. r - 1 : sum(g) + f[g] <= sum(r)
  <2> SUFFICES ASSUME NEW r \in a .. b
               PROVE  sum(r) \in Nat /\ \A g \in a .. r - 1 : sum(g) + f[g] <= sum(r)
    OBVIOUS
  <2>1. r - a \in T /\ a + (r - a) = r
    BY <1>6
  <2> QED
    BY <2>1
<1>8. \A r \in a .. b, g \in a .. b - 1 : g < r => g \in a .. r - 1
  OBVIOUS
<1> QED
  BY <1>2, <1>3, <1>7, <1>8 DEF sum


\* The sum of one term and of zeros.
LEMMA SumOfOne ==
    ASSUME NEW n \in Nat, NEW f, NEW x \in 0 .. n - 1, f[x] \in Nat,
           \A y \in 0 .. n - 1 : y # x => f[y] = 0
    PROVE  SumFunctionOnSet(f, 0 .. n - 1) = f[x]
<1> DEFINE sum(r) == SumFunctionOnSet(f, 0 .. r - 1)
           T == {h \in Nat : h <= n => sum(h) = IF x < h THEN f[x] ELSE 0}
           a == 0
<1>1. a \in Int /\ n \in Int /\ a <= n /\ \A y \in a .. n - 1 : f[y] \in Nat
  OBVIOUS
<1>2. sum(0) = 0 /\ \A r \in 0 .. n - 1 : sum(r + 1) = f[r] + sum(r)
  <2> HIDE DEF a, T
  <2>1. /\ SumFunctionOnSet(f, a .. a - 1) = 0
        /\ \A r \in a .. n - 1 :
             SumFunctionOnSet(f, a .. (r + 1) - 1) = f[r] + SumFunctionOnSet(f, a .. r - 1)
    BY <1>1, PartialSums
  <2> QED
    BY <2>1 DEF a
<1> HIDE DEF sum
<1>3. 0 \in T
  BY <1>2
<1>4. ASSUME NEW h \in Nat, h \in T PROVE h + 1 \in T
  <2> SUFFICES ASSUME h + 1 <= n PROVE sum(h + 1) = IF x < h + 1 THEN f[x] ELSE 0
    OBVIOUS
  <2>1. h \in 0 .. n - 1
    OBVIOUS
  <2>2. sum(h + 1) = f[h] + sum(h) /\ sum(h) = IF x < h THEN f[x] ELSE 0
    BY <1>2, <1>4, <2>1
  <2>3. h # x => f[h] = 0
    BY <2>1
  <2> QED
    BY <2>1, <2>2, <2>3
<1>5. n \in T
  <2> HIDE DEF T
  <2>1. Nat \subseteq T
    BY <1>3, <1>4, NatInSet
  <2> QED
    BY <2>1
<1> QED
  BY <1>5 DEF sum

-----------------------------------------------------------------------------
\* A function on 1 .. m is a list of m.
LEMMA ListIsSeq ==
    ASSUME NEW m \in Nat, NEW S, NEW list \in [1 .. m -> S]
    PROVE  list \in Seq(S) /\ Len(list) = m /\ DOMAIN list = 1 .. m
<1>1. list \in Seq(S)
  BY SeqDef
<1>2. DOMAIN list = 1 .. m
  OBVIOUS
<1>3. Len(list) \in Nat /\ DOMAIN list = 1 .. Len(list)
  BY <1>1, LenProperties
<1> QED
  BY <1>1, <1>2, <1>3

\* What is put before a list is its first element.
LEMMA PutBefore ==
    ASSUME NEW S, NEW x \in S, NEW s \in Seq(S)
    PROVE  /\ <<x>> \o s \in Seq(S) /\ Len(<<x>> \o s) = 1 + Len(s)
           /\ \A i \in 1 .. 1 + Len(s) : (<<x>> \o s)[i] = IF i <= 1 THEN x ELSE s[i - 1]
<1> DEFINE one == <<x>>
<1>1. one \in Seq(S) /\ Len(one) = 1 /\ one[1] = x
  OBVIOUS
<1> HIDE DEF one
<1>2. /\ one \o s \in Seq(S) /\ Len(one \o s) = Len(one) + Len(s)
      /\ \A i \in 1 .. Len(one) + Len(s) :
           (one \o s)[i] = IF i <= Len(one) THEN one[i] ELSE s[i - Len(one)]
  BY <1>1, ConcatProperties
<1>3. \A i \in 1 .. 1 + Len(s) : i <= 1 => i = 1
  BY LenProperties
<1> QED
  BY <1>1, <1>2, <1>3 DEF one

\* A list after another.
LEMMA Appended ==
    ASSUME NEW S, NEW s \in Seq(S), NEW t \in Seq(S)
    PROVE  /\ s \o t \in Seq(S) /\ Len(s \o t) = Len(s) + Len(t)
           /\ Len(s) \in Nat /\ Len(t) \in Nat
           /\ \A i \in 1 .. Len(s) : (s \o t)[i] = s[i]
           /\ \A j \in 1 .. Len(t) : (s \o t)[Len(s) + j] = t[j]
<1>1. Len(s) \in Nat /\ Len(t) \in Nat
  BY LenProperties
<1>2. /\ s \o t \in Seq(S) /\ Len(s \o t) = Len(s) + Len(t)
      /\ \A i \in 1 .. Len(s) + Len(t) :
           (s \o t)[i] = IF i <= Len(s) THEN s[i] ELSE t[i - Len(s)]
  BY ConcatProperties
<1> DEFINE m == Len(s)
           n == Len(t)
           st == s \o t
<1>3. /\ \A i \in 1 .. m : i \in 1 .. m + n /\ i <= m
      /\ \A j \in 1 .. n : m + j \in 1 .. m + n /\ ~(m + j <= m) /\ (m + j) - m = j
  <2> HIDE DEF m, n
  <2> QED
    BY <1>1 DEF m, n
<1> HIDE DEF m, n, st
<1>4. \A i \in 1 .. m + n : st[i] = IF i <= m THEN s[i] ELSE t[i - m]
  BY <1>2 DEF m, n, st
<1>5. /\ \A i \in 1 .. m : st[i] = s[i]
      /\ \A j \in 1 .. n : st[m + j] = t[j]
  BY <1>3, <1>4
<1> QED
  BY <1>1, <1>2, <1>5 DEF m, n, st
=============================================================================

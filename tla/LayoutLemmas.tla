---------------------------- MODULE LayoutLemmas ----------------------------
(***************************************************************************)
(* Facts that the proofs about the passes of the linker share: the least   *)
(* and the greatest number of a set, induction, and alignment, which is    *)
(* arithmetic with \div and %.                                             *)
(*                                                                         *)
(* The induction theorems of the library take a predicate; these take a    *)
(* set, from the theorem that < is well founded on Nat.                    *)
(***************************************************************************)
EXTENDS Integers, FiniteSetsExt, Selection, FiniteSetTheorems, WellFoundedInduction, TLAPS

\* A set of natural numbers has a least one.
LEMMA LeastNatural ==
    ASSUME NEW S \in SUBSET Nat, S # {}
    PROVE  \E n \in S : \A m \in S : n <= m
<1> DEFINE Less == OpToRel(<, Nat)
<1>1. IsWellFoundedOn(Less, Nat)
  BY NatLessThanWellFounded
<1>2. \A m, n \in Nat : m < n => <<m, n>> \in Less
  BY Zenon DEF OpToRel
<1> HIDE DEF Less
<1>3. PICK n \in S : \A m \in S : ~(<<m, n>> \in Less)
  BY <1>1, WFMin
<1>4. ASSUME NEW m \in S PROVE n <= m
  <2>1. ~(m < n)
    BY <1>2, <1>3
  <2>2. QED
    BY <2>1
<1>5. QED
  BY <1>4

\* Induction: a set that has 0, and with every number the next one, has them all.
LEMMA Induction ==
    ASSUME NEW S \in SUBSET Nat, 0 \in S, \A n \in S : n + 1 \in S
    PROVE  S = Nat
<1>1. SUFFICES ASSUME Nat \ S # {} PROVE FALSE
  OBVIOUS
<1>2. PICK n \in Nat \ S : \A m \in Nat \ S : n <= m
  BY <1>1, LeastNatural
<1>3. n - 1 \in Nat /\ n - 1 \notin Nat \ S
  BY <1>2
<1>4. QED
  BY <1>2, <1>3

\* A set of natural numbers below a bound has a greatest one.
LEMMA GreatestNatural ==
    ASSUME NEW S \in SUBSET Nat, S # {}, NEW bound \in Nat, \A n \in S : n <= bound
    PROVE  \E n \in S : \A m \in S : m <= n
<1> DEFINE Bounds == {b \in Nat : \A n \in S : n <= b}
<1>1. PICK b \in Bounds : \A c \in Bounds : b <= c
  BY LeastNatural
<1>2. b \in S
  <2>1. SUFFICES ASSUME b \notin S PROVE FALSE
    OBVIOUS
  <2>2. \A n \in S : n <= b - 1
    BY <2>1
  <2>3. b - 1 \in Bounds
    <3>1. PICK n \in S : TRUE
      OBVIOUS
    <3>2. n \in Nat /\ n <= b - 1 /\ b \in Nat
      BY <2>2
    <3>3. QED
      BY <2>2, <3>2
  <2>4. QED
    BY <1>1, <2>3
<1>3. QED
  BY <1>2

\* A finite set of natural numbers has a bound.
LEMMA FiniteBounded ==
    ASSUME NEW S \in SUBSET Nat, IsFiniteSet(S)
    PROVE  \E b \in Nat : \A n \in S : n <= b
<1>1. PICK n \in Nat : ExistsSurjection(1 .. n, S)
  BY FS_NatSurjection
<1>2. PICK f \in [1 .. n -> S] : \A s \in S : \E i \in 1 .. n : f[i] = s
  BY <1>1 DEF ExistsSurjection, Surjection
<1> DEFINE Done == {k \in Nat : k <= n => \E b \in Nat : \A i \in 1 .. k : f[i] <= b}
<1>3. 0 \in Done
  OBVIOUS
<1>4. ASSUME NEW k \in Done PROVE k + 1 \in Done
  <2> SUFFICES ASSUME k + 1 <= n
               PROVE  \E b \in Nat : \A i \in 1 .. k + 1 : f[i] <= b
    OBVIOUS
  <2>1. PICK b \in Nat : \A i \in 1 .. k : f[i] <= b
    OBVIOUS
  <2>2. \A i \in 1 .. n : f[i] \in Nat
    OBVIOUS
  <2>3. \A i \in 1 .. k + 1 : f[i] <= b + f[k + 1]
    <3> TAKE i \in 1 .. k + 1
    <3>1. k \in Nat /\ (i \in 1 .. k \/ i = k + 1)
      OBVIOUS
    <3>2. f[i] \in Nat /\ f[k + 1] \in Nat
      BY <2>2, <3>1
    <3>3. QED
      BY <2>1, <3>1, <3>2
  <2>4. b + f[k + 1] \in Nat
    BY <2>2
  <2>5. QED
    BY <2>3, <2>4
<1> HIDE DEF Done
<1>5. n \in Done
  <2>1. Done \in SUBSET Nat
    BY DEF Done
  <2>2. QED
    BY <1>3, <1>4, <2>1, Induction
<1>6. PICK b \in Nat : \A i \in 1 .. n : f[i] <= b
  BY <1>5 DEF Done
<1>7. QED
  BY <1>2, <1>6

\* The values of a function on a finite set are finitely many.
LEMMA ImageFinite ==
    ASSUME NEW S, IsFiniteSet(S), NEW f, DOMAIN f = S, NEW T, T = {f[x] : x \in S}
    PROVE  IsFiniteSet(T)
<1>1. PICK g : g = [x \in S |-> f[x]]
  OBVIOUS
<1>2. g \in [S -> T] /\ \A y \in T : \E x \in S : g[x] = y
  BY <1>1
<1>3. g \in Surjection(S, T)
  BY <1>2 DEF Surjection
<1>4. QED
  BY <1>3, FS_Surjection

\* Max of a finite set of natural numbers.
LEMMA MaxOfFinite ==
    ASSUME NEW S \in SUBSET Nat, S # {}, IsFiniteSet(S)
    PROVE  Max(S) \in S /\ \A n \in S : n <= Max(S)
<1>1. PICK b \in Nat : \A n \in S : n <= b
  BY FiniteBounded
<1>2. \E m \in S : \A n \in S : m >= n
  BY <1>1, GreatestNatural
<1>3. QED
  BY <1>2 DEF Max

\* Max of two numbers, as std::max.
LEMMA MaxOfTwo ==
    ASSUME NEW m \in Nat, NEW n \in Nat
    PROVE  Max({m, n}) \in {m, n} /\ m <= Max({m, n}) /\ n <= Max({m, n})
<1>1. \E k \in {m, n} : \A l \in {m, n} : k >= l
  OBVIOUS
<1>2. QED
  BY <1>1 DEF Max

-----------------------------------------------------------------------------
\* What % and \div mean.
LEMMA DivisionFacts ==
    ASSUME NEW x \in Int, NEW a \in Nat \ {0}
    PROVE  /\ x \div a \in Int
           /\ x % a \in 0 .. a - 1
           /\ x = (x \div a) * a + (x % a)
           /\ x \in Nat => x \div a \in Nat
OBVIOUS

\* The remainder is known by its range.
LEMMA RemainderUnique ==
    ASSUME NEW q \in Int, NEW a \in Nat \ {0}, NEW r \in 0 .. a - 1
    PROVE  (q * a + r) % a = r
OBVIOUS

LEMMA MultipleDivides ==
    ASSUME NEW q \in Int, NEW a \in Nat \ {0}
    PROVE  (q * a) % a = 0
OBVIOUS

\* A number aligned for b is aligned for every divisor of b.
LEMMA DividesTransitive ==
    ASSUME NEW x \in Int, NEW a \in Nat \ {0}, NEW b \in Nat \ {0}, x % b = 0, b % a = 0
    PROVE  x % a = 0
<1> DEFINE p == x \div b
           q == b \div a
<1>1. p \in Int /\ x = p * b
  BY DivisionFacts
<1>2. q \in Int /\ b = q * a
  BY DivisionFacts
<1> HIDE DEF p, q
<1>3. x = (p * q) * a /\ p * q \in Int
  BY <1>1, <1>2
<1>4. QED
  BY <1>3, MultipleDivides

\* align_to: the result is aligned, not before the value, and less than a behind.
LEMMA AlignedUp ==
    ASSUME NEW v \in Nat, NEW a \in Nat \ {0}, NEW n, n = ((v + a - 1) \div a) * a
    PROVE  n \in Nat /\ v <= n /\ n < v + a /\ n % a = 0
<1> DEFINE q == (v + a - 1) \div a
<1>1. q \in Nat
  BY DivisionFacts
<1>2. q * a <= v + a - 1 /\ v + a - 1 < q * a + a
  BY DivisionFacts
<1>3. n = q * a /\ n \in Nat
  BY <1>1
<1> HIDE DEF q
<1>4. n % a = 0
  BY <1>1, <1>3, MultipleDivides
<1>5. QED
  BY <1>2, <1>3, <1>4

-----------------------------------------------------------------------------
\* The elements of a finite set that is totally ordered can be counted off: the
\* number of those below an element is its place.
LEMMA Enumeration ==
    ASSUME NEW S, IsFiniteSet(S), NEW below \in [S -> SUBSET S],
           \A x \in S : x \notin below[x],
           \A x, y, z \in S : x \in below[y] /\ y \in below[z] => x \in below[z],
           \A x, y \in S : x # y => x \in below[y] \/ y \in below[x]
    PROVE  /\ Cardinality(S) \in Nat
           /\ \A x \in S : Cardinality(below[x]) \in 0 .. Cardinality(S) - 1
           /\ \A x, y \in S : Cardinality(below[x]) < Cardinality(below[y]) <=> x \in below[y]
           /\ \A x, y \in S : Cardinality(below[x]) = Cardinality(below[y]) => x = y
           /\ \A n \in 0 .. Cardinality(S) - 1 : \E x \in S : Cardinality(below[x]) = n
<1>0. Cardinality(S) \in Nat
  BY FS_CardinalityType
<1>1. \A x \in S : IsFiniteSet(below[x]) /\ Cardinality(below[x]) \in Nat
  BY FS_Subset, FS_CardinalityType
<1>2. ASSUME NEW x \in S, NEW y \in S, x \in below[y]
      PROVE  Cardinality(below[x]) < Cardinality(below[y])
  <2>1. below[x] \in SUBSET below[y]
    <3>1. \A z \in S : z \in below[x] => z \in below[y]
      BY <1>2
    <3>2. QED
      BY <3>1
  <2>2. x \in below[y] /\ x \notin below[x]
    BY <1>2
  <2>3. Cardinality(below[x]) <= Cardinality(below[y])
    BY <1>1, <2>1, FS_Subset
  <2>4. Cardinality(below[x]) # Cardinality(below[y])
    BY <1>1, <2>1, <2>2, FS_Subset
  <2>5. QED
    BY <1>1, <2>3, <2>4
<1>3. ASSUME NEW x \in S PROVE Cardinality(below[x]) < Cardinality(S)
  <2>1. below[x] \in SUBSET S /\ x \in S /\ x \notin below[x]
    OBVIOUS
  <2>2. Cardinality(below[x]) <= Cardinality(S) /\ Cardinality(below[x]) # Cardinality(S)
    BY <2>1, FS_Subset
  <2>3. QED
    BY <1>0, <1>1, <2>2
<1>4. PICK place : place = [x \in S |-> Cardinality(below[x])]
  OBVIOUS
<1>5. place \in [S -> 0 .. Cardinality(S) - 1] /\ \A x \in S : place[x] \in Nat
  BY <1>0, <1>1, <1>3, <1>4
<1>6. \A x, y \in S : x \in below[y] => place[x] < place[y]
  BY <1>2, <1>4
<1>7. \A x, y \in S : place[x] = place[y] => x = y
  <2>1. SUFFICES ASSUME NEW x \in S, NEW y \in S, x # y PROVE place[x] # place[y]
    OBVIOUS
  <2>2. place[x] < place[y] \/ place[y] < place[x]
    BY <1>6, <2>1
  <2>3. QED
    BY <1>5, <2>2
<1>8. \A x, y \in S : place[x] < place[y] => x \in below[y]
  <2>1. SUFFICES ASSUME NEW x \in S, NEW y \in S, place[x] < place[y], x \notin below[y]
                 PROVE  FALSE
    OBVIOUS
  <2>2. x = y \/ place[y] < place[x]
    BY <1>6, <2>1
  <2>3. QED
    BY <1>5, <2>1, <2>2
<1>9. \A n \in 0 .. Cardinality(S) - 1 : \E x \in S : place[x] = n
  <2> DEFINE T == 0 .. Cardinality(S) - 1
  <2>1. place \in Injection(S, T)
    BY <1>5, <1>7 DEF Injection, IsInjective
  <2>2. IsFiniteSet(T) /\ Cardinality(T) = Cardinality(S)
    <3>1. Cardinality(S) - 1 \in Int
      BY <1>0
    <3>2. IsFiniteSet(T) /\ Cardinality(T) = IF 0 > Cardinality(S) - 1 THEN 0 ELSE Cardinality(S) - 1 - 0 + 1
      BY <3>1, FS_Interval
    <3>3. QED
      BY <1>0, <3>2
  <2>3. place \in Surjection(S, T)
    BY <2>1, <2>2, FS_Injection
  <2>4. QED
    BY <2>3 DEF Surjection
<1>10. QED
  BY <1>0, <1>4, <1>5, <1>6, <1>7, <1>8, <1>9

\* Nth counts off a finite set of numbers.
LEMMA NthFacts ==
    ASSUME NEW S \in SUBSET Int, IsFiniteSet(S)
    PROVE  /\ Cardinality(S) \in Nat
           /\ \A n \in 1 .. Cardinality(S) : Nth(S, n) \in S
           /\ \A m, n \in 1 .. Cardinality(S) : m < n => Nth(S, m) < Nth(S, n)
           /\ \A i \in S : \E n \in 1 .. Cardinality(S) : Nth(S, n) = i
<1> DEFINE N == Cardinality(S)
<1>1. PICK below : below = [x \in S |-> {y \in S : y < x}]
  OBVIOUS
<1>2. below \in [S -> SUBSET S] /\ \A x, y \in S : x \in below[y] <=> x < y
  BY <1>1
<1>3. /\ \A x \in S : x \notin below[x]
      /\ \A x, y, z \in S : x \in below[y] /\ y \in below[z] => x \in below[z]
      /\ \A x, y \in S : x # y => x \in below[y] \/ y \in below[x]
  BY <1>2
<1>4. /\ N \in Nat
      /\ \A x \in S : Cardinality(below[x]) \in 0 .. N - 1
      /\ \A x, y \in S : Cardinality(below[x]) < Cardinality(below[y]) <=> x \in below[y]
      /\ \A x, y \in S : Cardinality(below[x]) = Cardinality(below[y]) => x = y
      /\ \A n \in 0 .. N - 1 : \E x \in S : Cardinality(below[x]) = n
  BY <1>2, <1>3, Enumeration
<1>5. \A n \in 1 .. N : Nth(S, n) \in S /\ Cardinality(below[Nth(S, n)]) = n - 1
  <2> TAKE n \in 1 .. N
  <2>1. \A x \in S : below[x] = {y \in S : y < x}
    BY <1>1
  <2>2. \E x \in S : Cardinality(below[x]) = n - 1
    <3>1. n - 1 \in 0 .. N - 1
      BY <1>4
    <3>2. QED
      BY <1>4, <3>1
  <2>3. \E x \in S : Cardinality({y \in S : y < x}) = n - 1
    BY <2>1, <2>2
  <2>4. Nth(S, n) \in S /\ Cardinality({y \in S : y < Nth(S, n)}) = n - 1
    BY <2>3 DEF Nth
  <2>5. QED
    BY <2>1, <2>4
<1>6. ASSUME NEW m \in 1 .. N, NEW n \in 1 .. N, m < n
      PROVE  Nth(S, m) < Nth(S, n)
  <2>1. Cardinality(below[Nth(S, m)]) < Cardinality(below[Nth(S, n)])
    BY <1>4, <1>5, <1>6
  <2>2. QED
    BY <1>2, <1>4, <1>5, <2>1
<1>7. ASSUME NEW i \in S PROVE \E n \in 1 .. N : Nth(S, n) = i
  <2>1. PICK n \in 1 .. N : n - 1 = Cardinality(below[i])
    <3>1. PICK k \in 0 .. N - 1 : k = Cardinality(below[i])
      BY <1>4
    <3>2. k + 1 \in 1 .. N /\ (k + 1) - 1 = k
      BY <1>4
    <3>3. QED
      BY <3>1, <3>2
  <2>2. Nth(S, n) \in S /\ Cardinality(below[Nth(S, n)]) = Cardinality(below[i])
    BY <1>5, <2>1
  <2>3. QED
    BY <1>4, <2>2
<1>8. QED
  BY <1>4, <1>5, <1>6, <1>7

\* Select: a subsequence, of the elements that are in T.
LEMMA SelectFacts ==
    ASSUME NEW A, NEW s \in Seq(A), NEW T
    PROVE  /\ Select(s, T) \in Seq(A \intersect T)
           /\ \E g \in [DOMAIN Select(s, T) -> DOMAIN s] :
                /\ \A n \in DOMAIN Select(s, T) : Select(s, T)[n] = s[g[n]]
                /\ \A m, n \in DOMAIN Select(s, T) : m < n => g[m] < g[n]
                /\ \A i \in DOMAIN s : s[i] \in T => \E n \in DOMAIN Select(s, T) : g[n] = i
<1> DEFINE kept == {i \in DOMAIN s : s[i] \in T}
           N == Cardinality(kept)
           r == [n \in 1 .. N |-> s[Nth(kept, n)]]
           g == [n \in 1 .. N |-> Nth(kept, n)]
<1>1. Len(s) \in Nat /\ DOMAIN s = 1 .. Len(s)
  OBVIOUS
<1>2. kept \in SUBSET Int /\ IsFiniteSet(kept)
  <2>1. IsFiniteSet(1 .. Len(s))
    BY <1>1, FS_Interval
  <2>2. kept \in SUBSET (1 .. Len(s))
    BY <1>1
  <2>3. QED
    BY <2>1, <2>2, FS_Subset
<1>3. Select(s, T) = r
  BY DEF Select
<1>4. \A i \in kept : i \in DOMAIN s /\ s[i] \in A \intersect T
  OBVIOUS
<1>5. \A i \in DOMAIN s : s[i] \in T => i \in kept
  OBVIOUS
<1> HIDE DEF kept
<1>6. /\ N \in Nat
      /\ \A n \in 1 .. N : Nth(kept, n) \in kept
      /\ \A m, n \in 1 .. N : m < n => Nth(kept, m) < Nth(kept, n)
      /\ \A i \in kept : \E n \in 1 .. N : Nth(kept, n) = i
  BY <1>2, NthFacts
<1> HIDE DEF N
<1>7. r \in [1 .. N -> A \intersect T] /\ DOMAIN r = 1 .. N
  BY <1>4, <1>6
<1>8. r \in Seq(A \intersect T)
  BY <1>6, <1>7
<1>9. /\ g \in [1 .. N -> DOMAIN s]
      /\ \A n \in 1 .. N : r[n] = s[g[n]]
      /\ \A m, n \in 1 .. N : m < n => g[m] < g[n]
      /\ \A i \in DOMAIN s : s[i] \in T => \E n \in 1 .. N : g[n] = i
  <2>1. g \in [1 .. N -> DOMAIN s]
    BY <1>4, <1>6
  <2>2. \A n \in 1 .. N : r[n] = s[g[n]]
    OBVIOUS
  <2>3. \A m, n \in 1 .. N : m < n => g[m] < g[n]
    BY <1>6
  <2>4. \A i \in DOMAIN s : s[i] \in T => \E n \in 1 .. N : g[n] = i
    BY <1>5, <1>6
  <2>5. QED
    BY <2>1, <2>2, <2>3, <2>4
<1> HIDE DEF r, g
<1>10. PICK h : h = g
  OBVIOUS
<1>11. /\ h \in [DOMAIN Select(s, T) -> DOMAIN s]
       /\ \A n \in DOMAIN Select(s, T) : Select(s, T)[n] = s[h[n]]
       /\ \A m, n \in DOMAIN Select(s, T) : m < n => h[m] < h[n]
       /\ \A i \in DOMAIN s : s[i] \in T => \E n \in DOMAIN Select(s, T) : h[n] = i
  BY <1>3, <1>7, <1>9, <1>10
<1>12. QED
  BY <1>3, <1>8, <1>11

-----------------------------------------------------------------------------
\* Pages: the quotients of two numbers are in the order of the numbers.
LEMMA ProductMonotonic ==
    ASSUME NEW m \in Int, NEW n \in Int, NEW p \in Nat, m <= n
    PROVE  m * p <= n * p
<1>1. PICK d \in Nat : d = n - m
  OBVIOUS
<1>2. n * p = m * p + d * p /\ d * p \in Nat /\ m * p \in Int
  BY <1>1
<1>3. QED
  BY <1>2

LEMMA QuotientBelow ==
    ASSUME NEW x \in Int, NEW p \in Nat \ {0}, NEW q \in Int, x < q * p
    PROVE  x \div p < q
<1>1. SUFFICES ASSUME q <= x \div p PROVE FALSE
  BY DivisionFacts
<1> DEFINE d == x \div p
<1>2. d \in Int /\ x >= d * p
  BY DivisionFacts
<1> HIDE DEF d
<1>3. q * p <= d * p /\ q * p \in Int /\ d * p \in Int
  BY <1>1, <1>2, ProductMonotonic DEF d
<1>4. QED
  BY <1>2, <1>3

LEMMA QuotientAbove ==
    ASSUME NEW x \in Int, NEW p \in Nat \ {0}, NEW q \in Int, q * p <= x
    PROVE  q <= x \div p
<1>1. SUFFICES ASSUME x \div p < q PROVE FALSE
  BY DivisionFacts
<1> DEFINE d == x \div p
<1>2. d \in Int /\ x < d * p + p
  BY DivisionFacts
<1>3. d + 1 <= q
  BY <1>1
<1> HIDE DEF d
<1>4. (d + 1) * p <= q * p /\ q * p \in Int /\ (d + 1) * p = d * p + p /\ d * p \in Int
  BY <1>2, <1>3, ProductMonotonic
<1>5. QED
  BY <1>2, <1>4

\* A page more than the end v, unless v is the end of a page: whatever is there is
\* in a page behind that of anything before v.
LEMMA NextPage ==
    ASSUME NEW v \in Nat, NEW p \in Nat \ {0}, NEW w \in Nat, NEW x \in Nat,
           (IF v % p # 0 THEN v + p ELSE v) <= w, x < v
    PROVE  x \div p < w \div p
<1> DEFINE q == v \div p
<1>1. q \in Int /\ v % p \in 0 .. p - 1 /\ v = q * p + (v % p)
  BY DivisionFacts
<1> HIDE DEF q
<1>2. q * p \in Int /\ (q + 1) * p = q * p + p
  BY <1>1
<1>3. x \div p \in Int /\ w \div p \in Int
  BY DivisionFacts
<1>4. CASE v % p = 0
  <2>1. x < q * p /\ q * p <= w
    BY <1>1, <1>2, <1>4
  <2>2. x \div p < q /\ q <= w \div p
    BY <1>1, <2>1, QuotientBelow, QuotientAbove
  <2>3. QED
    BY <1>1, <1>3, <2>2
<1>5. CASE v % p # 0
  <2>1. x < (q + 1) * p /\ (q + 1) * p <= w
    BY <1>1, <1>2, <1>5
  <2>2. PICK r \in Int : r = q + 1
    BY <1>1
  <2>3. x < r * p /\ r * p <= w
    BY <2>1, <2>2
  <2>4. x \div p < r
    BY <2>3, QuotientBelow
  <2>5. r <= w \div p
    BY <2>3, QuotientAbove
  <2>6. QED
    BY <1>3, <2>4, <2>5
<1>6. QED
  BY <1>4, <1>5

LEMMA QuotientTyped ==
    ASSUME NEW x \in Int, NEW a \in Nat \ {0}
    PROVE  x \div a \in Int
OBVIOUS

LEMMA QuotientMonotonic ==
    ASSUME NEW m \in Int, NEW n \in Int, NEW p \in Nat \ {0}, m <= n
    PROVE  m \div p <= n \div p
<1> DEFINE q == m \div p
<1>1. q \in Int /\ q * p <= m
  BY DivisionFacts
<1> HIDE DEF q
<1>2. q * p <= n
  BY <1>1
<1>3. q <= n \div p
  BY <1>1, <1>2, QuotientAbove
<1>4. QED
  BY <1>3 DEF q

\* Align_with_skew: what it returns is not before v, and has the remainder of skew.
LEMMA SkewFacts ==
    ASSUME NEW v \in Nat, NEW a \in Nat \ {0}, NEW skew \in Nat
    PROVE  \E x \in Nat : /\ x = (v \div a) * a + (skew % a)
                          /\ v < x + a
                          /\ x % a = skew % a /\ (x + a) % a = skew % a
<1>0. PICK x : x = (v \div a) * a + (skew % a)
  OBVIOUS
<1>1. PICK q \in Nat : q = v \div a
  BY DivisionFacts
<1>2. PICK r \in 0 .. a - 1 : r = skew % a
  BY DivisionFacts
<1>3. v % a \in 0 .. a - 1 /\ v = q * a + (v % a)
  BY <1>1, DivisionFacts
<1>4. q * a \in Nat
  BY <1>1
<1>5. PICK s \in Int : s = q + 1
  OBVIOUS
<1>6. s * a = q * a + a
  BY <1>5
<1>7. x = q * a + r
  BY <1>0, <1>1, <1>2
<1>8. x + a = s * a + r /\ x \in Nat /\ v < x + a
  <2>1. PICK m \in Nat : m = q * a
    BY <1>4
  <2>2. PICK t \in 0 .. a - 1 : t = v % a
    BY <1>3
  <2>3. x = m + r /\ v = m + t /\ s * a = m + a
    BY <1>3, <1>6, <1>7, <2>1, <2>2
  <2> HIDE <1>3, <1>6, <1>7, <2>1, <2>2
  <2>4. QED
    BY <2>3
<1>9. (q * a + r) % a = r /\ (s * a + r) % a = r
  BY RemainderUnique
<1>10. QED
  BY <1>0, <1>2, <1>7, <1>8, <1>9

LEMMA SubSeqFacts ==
    ASSUME NEW A, NEW s \in Seq(A), NEW a \in 1 .. Len(s), NEW b \in 1 .. Len(s), a <= b
    PROVE  /\ SubSeq(s, a, b) \in Seq(A)
           /\ Len(SubSeq(s, a, b)) = b - a + 1
           /\ DOMAIN SubSeq(s, a, b) = 1 .. b - a + 1
           /\ \A i \in 1 .. b - a + 1 : SubSeq(s, a, b)[i] = s[i + a - 1]
<1>1. DOMAIN SubSeq(s, a, b) = 1 .. b - a + 1
  OBVIOUS
<1>2. \A i \in 1 .. b - a + 1 : SubSeq(s, a, b)[i] = s[i + a - 1]
  OBVIOUS
<1>3. QED
  BY <1>1, <1>2

-----------------------------------------------------------------------------
\* Congruent numbers stay so, whatever is added to both.
LEMMA MultipleAdded ==
    ASSUME NEW d \in Int, NEW x \in Int, NEW a \in Nat \ {0}
    PROVE  (d * a + x) % a = x % a
<1>1. PICK q \in Int, r \in 0 .. a - 1 : x = q * a + r /\ r = x % a
  BY DivisionFacts
<1>2. PICK s \in Int : s = d + q
  OBVIOUS
<1>3. d * a + x = s * a + r
  BY <1>1, <1>2
<1>4. (s * a + r) % a = r
  BY RemainderUnique
<1>5. QED
  BY <1>1, <1>3, <1>4

LEMMA CongruentSum ==
    ASSUME NEW x \in Int, NEW y \in Int, NEW z \in Int, NEW a \in Nat \ {0}, x % a = y % a
    PROVE  (x + z) % a = (y + z) % a
<1>1. PICK r \in Int : r = x % a
  BY DivisionFacts
<1>2. PICK p \in Int : x = p * a + r
  BY <1>1, DivisionFacts
<1>3. PICK q \in Int : y = q * a + r
  <2>1. y = (y \div a) * a + (y % a) /\ y \div a \in Int /\ y % a = r
    BY <1>1, DivisionFacts
  <2>2. PICK q : q = y \div a
    OBVIOUS
  <2>3. y = q * a + r /\ q \in Int
    BY <2>1, <2>2
  <2>4. QED
    BY <2>3
<1>4. PICK d \in Int : d = p - q
  OBVIOUS
<1>5. PICK w \in Int : w = y + z
  OBVIOUS
<1>6. x + z = d * a + w
  <2>1. p * a = d * a + q * a /\ d * a \in Int /\ q * a \in Int
    BY <1>4
  <2>2. QED
    BY <1>2, <1>3, <1>5, <2>1
<1>7. (d * a + w) % a = w % a
  BY MultipleAdded
<1>8. QED
  BY <1>5, <1>6, <1>7

-----------------------------------------------------------------------------
\* f, on 1 .. n, is defined by its first value and by what follows on each value.
Recursion(f, n, A, first, step) ==
    /\ f \in [1 .. n -> A]
    /\ n > 0 => f[1] = first
    /\ \A i \in 2 .. n : f[i] = step[<<f[i-1], i>>]

\* There is such a function.
LEMMA IndexRecursion ==
    ASSUME NEW n \in Nat, NEW A, NEW first \in A, NEW step, step \in [A \X (2 .. n) -> A]
    PROVE  \E f : Recursion(f, n, A, first, step)
<1> DEFINE Good(f, k) == \A i \in 1 .. k : f[i] = IF i = 1 THEN first ELSE step[<<f[i-1], i>>]
           Done == {k \in Nat : k <= n => \E f \in [1 .. k -> A] : Good(f, k)}
<1>1. 0 \in Done
  <2>1. [i \in 1 .. 0 |-> first] \in [1 .. 0 -> A] /\ Good([i \in 1 .. 0 |-> first], 0)
    OBVIOUS
  <2>2. QED
    BY <2>1
<1>2. ASSUME NEW k \in Done PROVE k + 1 \in Done
  <2> SUFFICES ASSUME k + 1 <= n PROVE \E f \in [1 .. k + 1 -> A] : Good(f, k + 1)
    OBVIOUS
  <2>1. PICK f \in [1 .. k -> A] : Good(f, k)
    OBVIOUS
  <2>2. k \in Nat
    OBVIOUS
  <2> DEFINE next == IF k + 1 = 1 THEN first ELSE step[<<f[k], k + 1>>]
             g == [i \in 1 .. k + 1 |-> IF i = k + 1 THEN next ELSE f[i]]
  <2>3. next \in A
    <3>1. CASE k = 0
      BY <3>1
    <3>2. CASE k # 0
      <4>1. f[k] \in A /\ k + 1 \in 2 .. n /\ k + 1 # 1
        BY <2>2, <3>2
      <4>2. QED
        BY <4>1
    <3>3. QED
      BY <3>1, <3>2
  <2> HIDE DEF next
  <2>4. g \in [1 .. k + 1 -> A] /\ g[k + 1] = next /\ \A i \in 1 .. k : g[i] = f[i]
    BY <2>2, <2>3
  <2> HIDE DEF g
  <2>5. ASSUME NEW i \in 1 .. k + 1
        PROVE  g[i] = IF i = 1 THEN first ELSE step[<<g[i-1], i>>]
    <3>1. CASE i = k + 1
      <4>1. i # 1 => i - 1 = k /\ g[i-1] = f[k]
        BY <2>2, <2>4, <3>1
      <4>2. QED
        BY <2>4, <3>1, <4>1 DEF next
    <3>2. CASE i \in 1 .. k
      <4>1. i # 1 => g[i-1] = f[i-1]
        BY <2>2, <2>4, <3>2
      <4>2. QED
        BY <2>1, <2>4, <3>2, <4>1
    <3>3. QED
      BY <2>2, <3>1, <3>2
  <2>6. Good(g, k + 1)
    BY <2>5
  <2> HIDE DEF Good
  <2>7. QED
    BY <2>4, <2>6
<1>3. n \in Done
  <2>1. Done \in SUBSET Nat
    OBVIOUS
  <2> HIDE DEF Done
  <2>2. QED
    BY <1>1, <1>2, <2>1, Induction
<1>4. PICK f \in [1 .. n -> A] : Good(f, n)
  BY <1>3
<1>5. \A i \in 2 .. n : i \in 1 .. n /\ i # 1
  OBVIOUS
<1>6. \A i \in 2 .. n : f[i] = step[<<f[i-1], i>>]
  BY <1>4, <1>5
<1>7. ASSUME n > 0 PROVE f[1] = first
  <2>1. 1 \in 1 .. n
    BY <1>7
  <2>2. QED
    BY <1>4, <2>1
<1>8. QED
  BY <1>4, <1>6, <1>7 DEF Recursion

\* The number of an element is one more than there are elements before it.
LEMMA NthAt ==
    ASSUME NEW S \in SUBSET Int, IsFiniteSet(S), NEW i \in S,
           NEW n, n = Cardinality({j \in S : j < i}) + 1
    PROVE  n \in 1 .. Cardinality(S) /\ Nth(S, n) = i
<1> DEFINE N == Cardinality(S)
<1>1. PICK below : below = [x \in S |-> {y \in S : y < x}]
  OBVIOUS
<1>2. below \in [S -> SUBSET S] /\ \A x, y \in S : x \in below[y] <=> x < y
  BY <1>1
<1>3. /\ \A x \in S : x \notin below[x]
      /\ \A x, y, z \in S : x \in below[y] /\ y \in below[z] => x \in below[z]
      /\ \A x, y \in S : x # y => x \in below[y] \/ y \in below[x]
  BY <1>2
<1>4. /\ N \in Nat
      /\ \A x \in S : Cardinality(below[x]) \in 0 .. N - 1
      /\ \A x, y \in S : Cardinality(below[x]) = Cardinality(below[y]) => x = y
  BY <1>2, <1>3, Enumeration
<1>5. \A x \in S : below[x] = {y \in S : y < x}
  BY <1>1
<1>6. n = Cardinality(below[i]) + 1
  BY <1>5
<1>7. n \in 1 .. N /\ Cardinality(below[i]) = n - 1
  BY <1>4, <1>6
<1>8. \A x \in S : Cardinality({y \in S : y < x}) = n - 1 => x = i
  BY <1>4, <1>5, <1>7
<1>9. Cardinality({y \in S : y < i}) = n - 1
  BY <1>5, <1>7
<1>10. QED
  BY <1>7, <1>8, <1>9 DEF Nth

\* An element behind all others is the last, and leaves them their numbers.
LEMMA NthAdded ==
    ASSUME NEW S \in SUBSET Int, IsFiniteSet(S), NEW x \in Int, \A i \in S : i < x
    PROVE  /\ IsFiniteSet(S \union {x})
           /\ Cardinality(S \union {x}) = Cardinality(S) + 1
           /\ \A n \in 1 .. Cardinality(S) : Nth(S \union {x}, n) = Nth(S, n)
           /\ Nth(S \union {x}, Cardinality(S) + 1) = x
<1>1. PICK T : T = S \union {x}
  OBVIOUS
<1>2. x \notin S
  OBVIOUS
<1>3. IsFiniteSet(T) /\ Cardinality(T) = Cardinality(S) + 1 /\ Cardinality(S) \in Nat
  BY <1>1, <1>2, FS_AddElement, FS_CardinalityType
<1>4. T \in SUBSET Int
  BY <1>1
<1>5. Nth(T, Cardinality(S) + 1) = x
  <2>1. {j \in T : j < x} = S
    <3>1. ~(x < x) /\ \A j \in S : j < x
      OBVIOUS
    <3>2. \A j \in T : j < x <=> j \in S
      BY <1>1, <3>1
    <3>3. S \subseteq T
      BY <1>1
    <3>4. QED
      BY <3>2, <3>3
  <2>2. QED
    BY <1>1, <1>3, <1>4, <2>1, NthAt
<1>6. ASSUME NEW n \in 1 .. Cardinality(S) PROVE Nth(T, n) = Nth(S, n)
  <2>1. PICK i \in S : i = Nth(S, n)
    BY NthFacts
  <2>2. PICK m : m = Cardinality({j \in S : j < i}) + 1
    OBVIOUS
  <2>3. m \in 1 .. Cardinality(S) /\ Nth(S, m) = i
    BY <2>2, NthAt
  <2>4. m = n
    <3>1. m \in Int /\ n \in Int
      BY <2>3
    <3>2. ~(m < n) /\ ~(n < m)
      <4>1. \A k, l \in 1 .. Cardinality(S) : k < l => Nth(S, k) < Nth(S, l)
        BY NthFacts
      <4>2. i \in Int /\ ~(i < i)
        OBVIOUS
      <4>3. QED
        BY <2>1, <2>3, <4>1, <4>2
    <3>3. QED
      BY <3>1, <3>2
  <2>5. {j \in T : j < i} = {j \in S : j < i}
    <3>1. i < x /\ i \in Int
      BY <2>1
    <3>2. ~(x < i)
      BY <3>1
    <3>3. QED
      BY <1>1, <3>2
  <2>6. i \in T /\ m = Cardinality({j \in T : j < i}) + 1
    BY <1>1, <2>2, <2>5
  <2>7. Nth(T, m) = i
    BY <1>3, <1>4, <2>6, NthAt
  <2>8. QED
    BY <2>1, <2>4, <2>7
<1>7. QED
  BY <1>1, <1>3, <1>5, <1>6
=============================================================================

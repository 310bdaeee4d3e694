-------------------------- MODULE RelocationProofs --------------------------
(***************************************************************************)
(* Relocation for every set of members, symbols and addresses: the types,  *)
(* and the five properties of the result.                                  *)
(*                                                                         *)
(* First the numbers: powers of two, SumSet, remainders and bits.  Then    *)
(* what the encoders write and what is read of it, format by format.  Then *)
(* what every handler does to a member (Effect), and from there on the     *)
(* steps are no longer looked into: one invariant says that the bits       *)
(* outside the fields are those of the file (OtherInv), one that what has  *)
(* been relocated stays so (RelInv), one what a field has come to that two *)
(* relocations share (FieldInv), and three are about the order of the      *)
(* relocations, the end and the errors.                                    *)
(***************************************************************************)
EXTENDS Relocation, LayoutLemmas


-----------------------------------------------------------------------------
(***************************************************************************)
(* Powers of two.  The provers know no law of ^; that a set of n elements  *)
(* has 2 ^ n subsets gives them.                                           *)
(***************************************************************************)
\* A power of two is a positive number, and the next one is twice as large.
LEMMA PowerNext ==
    ASSUME NEW n \in Nat
    PROVE  2 ^ n \in Nat \ {0} /\ 2 ^ (n + 1) = 2 * 2 ^ n
<1> DEFINE S == 1 .. n
           T == 1 .. n + 1
           A == {s \union {n + 1} : s \in SUBSET S}
<1>1. IsFiniteSet(S) /\ Cardinality(S) = n /\ IsFiniteSet(T) /\ Cardinality(T) = n + 1
  BY FS_Interval
<1>2. /\ IsFiniteSet(SUBSET S) /\ Cardinality(SUBSET S) = 2 ^ n
      /\ IsFiniteSet(SUBSET T) /\ Cardinality(SUBSET T) = 2 ^ (n + 1)
  BY <1>1, FS_SUBSET
<1>3. SUBSET T = (SUBSET S) \union A
  <2>1. ASSUME NEW t \in SUBSET T PROVE t \in (SUBSET S) \union A
    <3>1. CASE n + 1 \in t
      <4>1. t \ {n + 1} \in SUBSET S /\ t = (t \ {n + 1}) \union {n + 1}
        BY <3>1
      <4>2. QED
        BY <4>1
    <3>2. CASE n + 1 \notin t
      BY <3>2
    <3>3. QED
      BY <3>1, <3>2
  <2>2. ASSUME NEW t \in (SUBSET S) \union A PROVE t \in SUBSET T
    OBVIOUS
  <2>3. QED
    BY <2>1, <2>2
<1>4. (SUBSET S) \intersect A = {}
  <2>1. n + 1 \notin S
    OBVIOUS
  <2>2. QED
    BY <2>1
<1>5. ExistsBijection(SUBSET S, A)
  <2>1. PICK P, f : P = SUBSET S /\ f = [s \in P |-> s \union {n + 1}]
    OBVIOUS
  <2>2. f \in [P -> A]
    BY <2>1
  <2>3. \A s, t \in P : f[s] = f[t] => s = t
    <3>1. n + 1 \notin S
      OBVIOUS
    <3>2. \A s \in P : s = f[s] \ {n + 1}
      BY <2>1, <3>1
    <3>3. QED
      BY <3>2
  <2>4. \A a \in A : \E s \in P : f[s] = a
    BY <2>1
  <2> HIDE DEF A, S
  <2>5. f \in Bijection(P, A)
    <3>1. f \in Injection(P, A)
      BY <2>2, <2>3 DEF Injection, IsInjective
    <3>2. f \in Surjection(P, A)
      BY <2>2, <2>4 DEF Surjection
    <3>3. QED
      BY <3>1, <3>2 DEF Bijection
  <2>6. QED
    BY <2>1, <2>5 DEF ExistsBijection
<1>6. IsFiniteSet(A) /\ Cardinality(A) = 2 ^ n
  BY <1>2, <1>5, FS_Bijection
<1> HIDE DEF A, S, T
<1>7. Cardinality(SUBSET T) = Cardinality(SUBSET S) + Cardinality(A)
  <2>1. PICK P, Q : P = SUBSET S /\ Q = SUBSET T
    OBVIOUS
  <2>2. Cardinality(P \intersect A) = 0
    BY <1>4, <2>1, FS_EmptySet
  <2>3. IsFiniteSet(P) /\ IsFiniteSet(A) /\ Q = P \union A
    BY <1>2, <1>3, <1>6, <2>1
  <2>4. Cardinality(P) \in Nat /\ Cardinality(A) \in Nat
    BY <2>3, FS_CardinalityType
  <2>5. Cardinality(P \union A) = Cardinality(P) + Cardinality(A) - Cardinality(P \intersect A)
    BY <2>3, FS_Union
  <2>6. PICK p, a \in Nat : p = Cardinality(P) /\ a = Cardinality(A)
    BY <2>4
  <2>7. Cardinality(P \union A) = p + a
    BY <2>2, <2>5, <2>6
  <2>8. Cardinality(SUBSET T) = Cardinality(P \union A) /\ Cardinality(SUBSET S) = p
    BY <2>1, <2>3, <2>6
  <2>9. QED
    BY <2>6, <2>7, <2>8
<1>8. Cardinality(SUBSET S) \in Nat /\ Cardinality(SUBSET S) # 0
  <2>1. SUBSET S # {}
    OBVIOUS
  <2>2. QED
    BY <1>2, <2>1, FS_CardinalityType, FS_EmptySet
<1>9. QED
  BY <1>2, <1>6, <1>7, <1>8

\* The powers grow, and the lesser divides the greater.
LEMMA PowerSum ==
    ASSUME NEW m \in Nat
    PROVE  \A d \in Nat : 2 ^ (m + d) = 2 ^ d * 2 ^ m
<1> DEFINE Done == {d \in Nat : 2 ^ (m + d) = 2 ^ d * 2 ^ m}
<1>1. 0 \in Done
  <2>1. 2 ^ m \in Nat /\ m + 0 = m /\ 2 ^ 0 = 1
    BY PowerNext
  <2>2. 1 * 2 ^ m = 2 ^ m
    BY <2>1
  <2>3. QED
    BY <2>1, <2>2
<1>2. ASSUME NEW d \in Done PROVE d + 1 \in Done
  <2>1. d \in Nat /\ m + d \in Nat /\ m + (d + 1) = (m + d) + 1
    OBVIOUS
  <2>2. PICK p, q \in Nat : p = 2 ^ m /\ q = 2 ^ d
    BY <2>1, PowerNext
  <2>3. 2 ^ (m + (d + 1)) = 2 * 2 ^ (m + d) /\ 2 ^ (d + 1) = 2 * q /\ 2 ^ (m + d) = q * p
    BY <2>1, <2>2, PowerNext
  <2>4. 2 * (q * p) = (2 * q) * p
    OBVIOUS
  <2>5. QED
    BY <2>1, <2>2, <2>3, <2>4
<1>3. Done = Nat
  <2>1. Done \in SUBSET Nat
    OBVIOUS
  <2> HIDE DEF Done
  <2>2. QED
    BY <1>1, <1>2, <2>1, Induction
<1>4. QED
  BY <1>3

\* Powers of two grow with the exponent.
LEMMA PowerOrder ==
    ASSUME NEW m \in Nat, NEW n \in Nat, m < n
    PROVE  2 ^ m < 2 ^ n
<1>1. PICK d \in Nat : n = m + (d + 1)
  <2>1. n - m - 1 \in Nat /\ n = m + ((n - m - 1) + 1)
    OBVIOUS
  <2>2. QED
    BY <2>1
<1>2. PICK p, q \in Nat \ {0} : p = 2 ^ m /\ q = 2 ^ d
  BY PowerNext
<1>3. 2 ^ n = (2 * q) * p
  <2>1. d + 1 \in Nat /\ 2 ^ (d + 1) = 2 * q
    BY <1>2, PowerNext
  <2>2. 2 ^ (m + (d + 1)) = 2 ^ (d + 1) * 2 ^ m
    BY <2>1, PowerSum
  <2>3. QED
    BY <1>1, <1>2, <2>1, <2>2
<1>4. (2 * q) * p > p
  OBVIOUS
<1>5. QED
  BY <1>2, <1>3, <1>4

-----------------------------------------------------------------------------
(***************************************************************************)
(* SumSet.  It is a recursive function on the subsets of the set; that     *)
(* there is one, and that the order of the elements does not matter, is    *)
(* proved by induction on their number.                                    *)
(***************************************************************************)
SumsUp(f, S) ==
    f = [s \in SUBSET S |-> IF s = {} THEN 0
                            ELSE (CHOOSE x \in s : TRUE) + f[s \ {CHOOSE x \in s : TRUE}]]

\* There is a function that sums up the subsets of a finite set of numbers.
LEMMA AddsExists ==
    ASSUME NEW S \in SUBSET Int, IsFiniteSet(S)
    PROVE  \E f : SumsUp(f, S) /\ \A s \in SUBSET S : f[s] \in Int
<1>1. PICK c : c = [s \in SUBSET S |-> CHOOSE x \in s : TRUE]
  OBVIOUS
<1>2. \A s \in SUBSET S : s # {} => c[s] \in s /\ c[s] \in Int /\ c[s] = CHOOSE x \in s : TRUE
  BY <1>1
<1>3. PICK size : size = [s \in SUBSET S |-> Cardinality(s)]
  OBVIOUS
<1>4. \A s \in SUBSET S :
        /\ size[s] \in Nat
        /\ size[s] = 0 => s = {}
        /\ s # {} => s \ {c[s]} \in SUBSET S /\ size[s \ {c[s]}] = size[s] - 1
  <2> SUFFICES ASSUME NEW s \in SUBSET S
               PROVE  /\ size[s] \in Nat
                      /\ size[s] = 0 => s = {}
                      /\ s # {} => s \ {c[s]} \in SUBSET S /\ size[s \ {c[s]}] = size[s] - 1
    OBVIOUS
  <2>1. IsFiniteSet(s) /\ size[s] = Cardinality(s)
    BY <1>3, FS_Subset
  <2>2. size[s] \in Nat /\ (size[s] = 0 => s = {})
    BY <2>1, FS_CardinalityType, FS_EmptySet
  <2>3. ASSUME s # {} PROVE s \ {c[s]} \in SUBSET S /\ size[s \ {c[s]}] = size[s] - 1
    <3>1. PICK x \in s : x = c[s]
      BY <1>2, <2>3
    <3>2. Cardinality(s \ {x}) = Cardinality(s) - 1
      BY <2>1, FS_RemoveElement
    <3>3. QED
      BY <1>3, <2>1, <3>1, <3>2
  <2>4. QED
    BY <2>2, <2>3
<1> DEFINE Rule(f, s) == IF s = {} THEN 0 ELSE c[s] + f[s \ {c[s]}]
           Small(n) == {s \in SUBSET S : size[s] <= n}
           Done == {n \in Nat : \E f \in [Small(n) -> Int] : \A s \in Small(n) : f[s] = Rule(f, s)}
<1>5. 0 \in Done
  <2>1. PICK f : f = [s \in Small(0) |-> 0]
    OBVIOUS
  <2>2. ASSUME NEW s \in Small(0) PROVE s = {}
    <3>1. s \in SUBSET S /\ size[s] <= 0
      OBVIOUS
    <3>2. size[s] \in Nat /\ (size[s] = 0 => s = {})
      BY <1>4, <3>1
    <3>3. QED
      BY <3>1, <3>2
  <2>3. f \in [Small(0) -> Int] /\ \A s \in Small(0) : f[s] = Rule(f, s)
    BY <2>1, <2>2
  <2>4. QED
    BY <2>3
<1>6. ASSUME NEW n \in Done PROVE n + 1 \in Done
  <2>1. n \in Nat
    OBVIOUS
  <2>2. PICK f \in [Small(n) -> Int] : \A s \in Small(n) : f[s] = Rule(f, s)
    OBVIOUS
  <2>3. PICK g : g = [s \in Small(n + 1) |-> IF size[s] <= n THEN f[s] ELSE c[s] + f[s \ {c[s]}]]
    OBVIOUS
  <2>4. ASSUME NEW s \in Small(n + 1), s # {} PROVE s \ {c[s]} \in Small(n)
    <3>1. s \in SUBSET S /\ size[s] <= n + 1
      OBVIOUS
    <3>2. size[s] \in Nat /\ s \ {c[s]} \in SUBSET S /\ size[s \ {c[s]}] = size[s] - 1
      BY <1>4, <2>4, <3>1
    <3>3. size[s \ {c[s]}] <= n
      BY <2>1, <3>1, <3>2
    <3>4. QED
      BY <3>2, <3>3
  <2>5. ASSUME NEW s \in Small(n)
        PROVE  s \in Small(n + 1) /\ g[s] = f[s] /\ f[s] \in Int
    <3>1. s \in SUBSET S /\ size[s] <= n
      OBVIOUS
    <3>2. size[s] \in Nat
      BY <1>4, <3>1
    <3>3. size[s] <= n + 1
      BY <2>1, <3>1, <3>2
    <3>4. s \in Small(n + 1)
      BY <3>1, <3>3
    <3>5. QED
      BY <2>3, <3>1, <3>4
  <2>6. ASSUME NEW s \in Small(n + 1), s \notin Small(n)
        PROVE  s # {} /\ g[s] = c[s] + f[s \ {c[s]}]
    <3>1. s \in SUBSET S /\ ~(size[s] <= n)
      BY <2>6
    <3>2. Cardinality({}) = 0 /\ {} \in SUBSET S
      BY FS_EmptySet
    <3>3. size[{}] = 0 /\ 0 <= n
      BY <1>3, <2>1, <3>2
    <3>4. QED
      BY <2>3, <3>1, <3>3
  <2>7. ASSUME NEW s \in Small(n + 1) PROVE g[s] \in Int
    <3>1. CASE s \in Small(n)
      BY <2>5, <3>1
    <3>2. CASE s \notin Small(n)
      <4>1. s # {} /\ g[s] = c[s] + f[s \ {c[s]}]
        BY <2>6, <3>2
      <4>2. c[s] \in Int /\ f[s \ {c[s]}] \in Int
        BY <1>2, <2>4, <2>5, <4>1
      <4>3. QED
        BY <4>1, <4>2
    <3>3. QED
      BY <3>1, <3>2
  <2>8. \A s \in Small(n + 1) : g[s] = Rule(g, s)
    <3> SUFFICES ASSUME NEW s \in Small(n + 1) PROVE g[s] = Rule(g, s)
      OBVIOUS
    <3>1. CASE s \in Small(n)
      BY <2>2, <2>4, <2>5, <3>1
    <3>2. CASE s \notin Small(n)
      BY <2>4, <2>5, <2>6, <3>2
    <3>3. QED
      BY <3>1, <3>2
  <2>9. g \in [Small(n + 1) -> Int]
    BY <2>3, <2>7
  <2>10. n + 1 \in Nat
    BY <2>1
  <2>11. QED
    BY <2>8, <2>9, <2>10
<1>7. Done = Nat
  <2>1. Done \in SUBSET Nat
    OBVIOUS
  <2> HIDE DEF Done
  <2>2. QED
    BY <1>5, <1>6, <2>1, Induction
<1>8. PICK n \in Nat : n = size[S]
  BY <1>4
<1>9. Small(n) = SUBSET S
  <2>1. \A s \in SUBSET S : Cardinality(s) <= Cardinality(S)
    BY FS_Subset
  <2>2. QED
    BY <1>3, <1>8, <2>1
<1>10. PICK f \in [SUBSET S -> Int] : \A s \in SUBSET S : f[s] = Rule(f, s)
  BY <1>7, <1>9
<1>11. \A s \in SUBSET S : f[s] = IF s = {} THEN 0
                                  ELSE (CHOOSE x \in s : TRUE) + f[s \ {CHOOSE x \in s : TRUE}]
  BY <1>2, <1>10
<1>12. SumsUp(f, S)
  BY <1>11 DEF SumsUp
<1>13. QED
  BY <1>10, <1>12

\* Two of them agree.
LEMMA AddsUnique ==
    ASSUME NEW S, IsFiniteSet(S), NEW T, T \subseteq S,
           NEW f, SumsUp(f, S), NEW g, SumsUp(g, T)
    PROVE  f[T] = g[T]
<1> DEFINE Done == {n \in Nat : \A s \in SUBSET T : Cardinality(s) = n => f[s] = g[s]}
<1>1. \A s \in SUBSET T : IsFiniteSet(s) /\ Cardinality(s) \in Nat
  BY FS_Subset, FS_CardinalityType
<1>2. 0 \in Done
  <2>1. \A s \in SUBSET T : Cardinality(s) = 0 => s = {}
    BY <1>1, FS_EmptySet
  <2>2. QED
    BY <2>1 DEF SumsUp
<1>3. ASSUME NEW n \in Done PROVE n + 1 \in Done
  <2> SUFFICES ASSUME NEW s \in SUBSET T, Cardinality(s) = n + 1 PROVE f[s] = g[s]
    OBVIOUS
  <2>1. s # {}
    BY FS_EmptySet
  <2>2. PICK x \in s : x = CHOOSE y \in s : TRUE
    BY <2>1
  <2>3. f[s] = x + f[s \ {x}] /\ g[s] = x + g[s \ {x}]
    <3>1. s \in SUBSET S
      OBVIOUS
    <3>2. f[s] = x + f[s \ {x}]
      <4>1. \A r \in SUBSET S : r # {} => f[r] = (CHOOSE y \in r : TRUE)
                                                + f[r \ {CHOOSE y \in r : TRUE}]
        BY DEF SumsUp
      <4>2. QED
        BY <2>1, <2>2, <3>1, <4>1
    <3>3. g[s] = x + g[s \ {x}]
      <4>1. \A r \in SUBSET T : r # {} => g[r] = (CHOOSE y \in r : TRUE)
                                                + g[r \ {CHOOSE y \in r : TRUE}]
        BY DEF SumsUp
      <4>2. s \in SUBSET T
        OBVIOUS
      <4>3. QED
        BY <2>1, <2>2, <4>1, <4>2
    <3>4. QED
      BY <3>2, <3>3
  <2>4. Cardinality(s \ {x}) = n /\ s \ {x} \in SUBSET T
    BY <1>1, FS_RemoveElement
  <2>5. f[s \ {x}] = g[s \ {x}]
    BY <2>4
  <2>6. QED
    BY <2>3, <2>5
<1>4. Done = Nat
  <2>1. Done \in SUBSET Nat
    OBVIOUS
  <2> HIDE DEF Done
  <2>2. QED
    BY <1>2, <1>3, <2>1, Induction
<1>5. QED
  BY <1>1, <1>4

\* SumSet is what such a function says of the whole set.
LEMMA SumIsAdds ==
    ASSUME NEW S, NEW f, SumsUp(f, S)
    PROVE  \E g : SumsUp(g, S) /\ SumSet(S) = g[S]
<1>1. \E g : g = [s \in SUBSET S |-> IF s = {} THEN 0
                  ELSE (CHOOSE x \in s : TRUE) + g[s \ {CHOOSE x \in s : TRUE}]]
  BY DEF SumsUp
<1> DEFINE G == CHOOSE g : g = [s \in SUBSET S |-> IF s = {} THEN 0
                  ELSE (CHOOSE x \in s : TRUE) + g[s \ {CHOOSE x \in s : TRUE}]]
<1>2. SumsUp(G, S)
  BY <1>1 DEF SumsUp
<1>3. SumSet(S) = G[S]
  BY DEF SumSet, FoldSet, MapThenFoldSet
<1>4. QED
  BY <1>2, <1>3

\* It is what the function says of a subset, too.
LEMMA SumValue ==
    ASSUME NEW S \in SUBSET Int, IsFiniteSet(S), NEW T, T \subseteq S, NEW f, SumsUp(f, S)
    PROVE  f[T] = SumSet(T)
<1>1. IsFiniteSet(T) /\ T \in SUBSET Int
  BY FS_Subset
<1>2. PICK h : SumsUp(h, T)
  BY <1>1, AddsExists
<1>3. PICK g : SumsUp(g, T) /\ SumSet(T) = g[T]
  BY <1>2, SumIsAdds
<1>4. QED
  BY <1>3, AddsUnique

\* The sum of none is 0, and one by one it is the sum of the rest and one more.
LEMMA SumEmpty == SumSet({}) = 0
<1>1. PICK f : SumsUp(f, {})
  BY AddsExists, FS_EmptySet
<1>2. f[{}] = 0
  BY <1>1 DEF SumsUp
<1>3. QED
  BY <1>1, <1>2, SumValue, FS_EmptySet

\* A sum is a number; some element may be taken out of it.
LEMMA SumChosen ==
    ASSUME NEW S \in SUBSET Int, IsFiniteSet(S)
    PROVE  /\ SumSet(S) \in Int
           /\ S # {} => \E x \in S : SumSet(S) = x + SumSet(S \ {x})
<1>1. PICK f : SumsUp(f, S) /\ \A s \in SUBSET S : f[s] \in Int
  BY AddsExists
<1>2. f[S] = SumSet(S)
  BY <1>1, SumValue
<1>3. ASSUME S # {} PROVE \E x \in S : SumSet(S) = x + SumSet(S \ {x})
  <2>1. PICK x \in S : x = CHOOSE y \in S : TRUE
    BY <1>3
  <2>2. f[S] = x + f[S \ {x}]
    BY <1>1, <1>3, <2>1 DEF SumsUp
  <2>3. f[S \ {x}] = SumSet(S \ {x})
    BY <1>1, SumValue
  <2>4. QED
    BY <1>2, <2>2, <2>3
<1>4. QED
  BY <1>1, <1>2, <1>3

\* Any element may be taken out of a sum.
LEMMA SumRemoved ==
    ASSUME NEW U \in SUBSET Int, IsFiniteSet(U), NEW y \in U
    PROVE  SumSet(U) = y + SumSet(U \ {y})
<1> DEFINE Good(S) == \A x \in S : SumSet(S) = x + SumSet(S \ {x})
           Done == {n \in Nat : \A S \in SUBSET U : Cardinality(S) = n => Good(S)}
<1>1. \A S \in SUBSET U : IsFiniteSet(S) /\ Cardinality(S) \in Nat /\ S \in SUBSET Int
  BY FS_Subset, FS_CardinalityType
<1>2. 0 \in Done
  <2>1. \A S \in SUBSET U : Cardinality(S) = 0 => S = {}
    BY <1>1, FS_EmptySet
  <2>2. QED
    BY <2>1
<1>3. ASSUME NEW n \in Done PROVE n + 1 \in Done
  <2> SUFFICES ASSUME NEW S \in SUBSET U, Cardinality(S) = n + 1, NEW x \in S
               PROVE  SumSet(S) = x + SumSet(S \ {x})
    OBVIOUS
  <2>1. PICK c \in S : SumSet(S) = c + SumSet(S \ {c})
    BY <1>1, SumChosen
  <2>2. ASSUME x # c PROVE SumSet(S) = x + SumSet(S \ {x})
    <3>1. PICK C, X : C = S \ {c} /\ X = S \ {x}
      OBVIOUS
    <3>2. n \in Nat /\ C \in SUBSET U /\ X \in SUBSET U /\ x \in C /\ c \in X /\ C \ {x} = X \ {c}
      BY <2>2, <3>1
    <3>3. Cardinality(C) = n /\ Cardinality(X) = n
      <4>1. IsFiniteSet(S)
        BY <1>1
      <4>2. Cardinality(S \ {c}) = Cardinality(S) - 1 /\ Cardinality(S \ {x}) = Cardinality(S) - 1
        BY <4>1, FS_RemoveElement
      <4>3. QED
        BY <3>1, <3>2, <4>2
    <3>4. SumSet(C) = x + SumSet(C \ {x}) /\ SumSet(X) = c + SumSet(X \ {c})
      BY <3>2, <3>3
    <3>5. PICK s \in Int : s = SumSet(C \ {x})
      <4>1. C \ {x} \in SUBSET U
        BY <3>2
      <4>2. QED
        BY <1>1, <4>1, SumChosen
    <3>6. SumSet(S) = c + (x + s) /\ SumSet(X) = c + s
      BY <2>1, <3>1, <3>2, <3>4, <3>5
    <3>7. c + (x + s) = x + (c + s)
      <4>1. c \in Int /\ x \in Int
        BY <1>1
      <4>2. QED
        BY <3>5, <4>1
    <3>8. QED
      BY <3>1, <3>6, <3>7
  <2>3. QED
    BY <2>1, <2>2
<1>4. Done = Nat
  <2>1. Done \in SUBSET Nat
    OBVIOUS
  <2> HIDE DEF Done
  <2>2. QED
    BY <1>2, <1>3, <2>1, Induction
<1>5. Good(U)
  BY <1>1, <1>4
<1>6. QED
  BY <1>5

\* A new element is added to the sum.
LEMMA SumAdded ==
    ASSUME NEW S \in SUBSET Int, IsFiniteSet(S), NEW x \in Int, x \notin S
    PROVE  SumSet(S \union {x}) = x + SumSet(S) /\ SumSet(S) \in Int
<1>1. PICK T : T = S \union {x}
  OBVIOUS
<1>2. T \in SUBSET Int /\ IsFiniteSet(T) /\ x \in T /\ T \ {x} = S
  BY <1>1, FS_AddElement
<1>3. SumSet(T) = x + SumSet(T \ {x})
  BY <1>2, SumRemoved
<1>4. QED
  BY <1>1, <1>2, <1>3, SumChosen

-----------------------------------------------------------------------------
(***************************************************************************)
(* The bits of a number.                                                   *)
(***************************************************************************)
\* One bit more of a number.
LEMMA RemainderNext ==
    ASSUME NEW v \in Int, NEW n \in Nat
    PROVE  /\ v % 2 ^ n \in Nat /\ v % 2 ^ n < 2 ^ n
           /\ v % 2 ^ (n + 1) = (v % 2 ^ n) + (IF bit(v, n) THEN 2 ^ n ELSE 0)
<1>1. PICK p \in Nat \ {0} : p = 2 ^ n /\ 2 ^ (n + 1) = 2 * p
  BY PowerNext
<1>2. PICK q \in Int, r \in 0 .. p - 1 : q = v \div p /\ r = v % p /\ v = q * p + r
  <2>1. v \div p \in Int /\ v % p \in 0 .. p - 1 /\ v = (v \div p) * p + (v % p)
    BY DivisionFacts
  <2>2. QED
    BY <2>1
<1>3. PICK h \in Int, b \in 0 .. 1 : b = q % 2 /\ q = h * 2 + b
  <2>1. q \div 2 \in Int /\ q % 2 \in 0 .. 1 /\ q = (q \div 2) * 2 + (q % 2)
    BY DivisionFacts
  <2>2. QED
    BY <2>1
<1>4. PICK s : s = b * p + r
  OBVIOUS
<1>5. s \in 0 .. 2 * p - 1 /\ s = r + (IF b = 1 THEN p ELSE 0)
  <2>1. CASE b = 0
    BY <1>4, <2>1
  <2>2. CASE b = 1
    BY <1>4, <2>2
  <2>3. QED
    BY <2>1, <2>2
<1>6. v = h * (2 * p) + s
  <2>1. (h * 2 + b) * p = h * (2 * p) + b * p
    OBVIOUS
  <2>2. QED
    <3>1. PICK x, y \in Int : x = h * (2 * p) /\ y = b * p
      OBVIOUS
    <3>2. v = (h * 2 + b) * p + r
      BY <1>2, <1>3
    <3>3. v = (x + y) + r /\ s = y + r
      BY <1>4, <2>1, <3>1, <3>2
    <3>4. QED
      BY <1>4, <3>1, <3>3
<1>7. v % (2 * p) = s
  <2>1. 2 * p \in Nat \ {0}
    OBVIOUS
  <2>2. QED
    BY <1>5, <1>6, <2>1, RemainderUnique
<1>8. bit(v, n) <=> b = 1
  BY <1>1, <1>2, <1>3 DEF bit
<1>9. v % 2 ^ n = r /\ v % 2 ^ (n + 1) = s /\ r \in Nat /\ r < p
  BY <1>1, <1>2, <1>7
<1>10. QED
  BY <1>1, <1>5, <1>8, <1>9

\* The lower bits of two numbers are the same if their remainders are.
LEMMA RemainderLower ==
    ASSUME NEW v \in Int, NEW w \in Int, NEW n \in Nat, NEW m \in Nat, m <= n,
           v % 2 ^ n = w % 2 ^ n
    PROVE  v % 2 ^ m = w % 2 ^ m
<1>1. PICK d \in Nat : n = m + d
  <2>1. n - m \in Nat /\ n = m + (n - m)
    OBVIOUS
  <2>2. QED
    BY <2>1
<1>2. PICK p, q \in Nat \ {0} : p = 2 ^ m /\ q = 2 ^ d /\ 2 ^ n = q * p
  BY <1>1, PowerNext, PowerSum
<1>3. PICK N : N = q * p
  OBVIOUS
<1>4. N \in Nat \ {0}
  BY <1>3
<1>5. v % N = w % N
  BY <1>2, <1>3
<1>6. PICK a, b, r \in Int : v = a * N + r /\ w = b * N + r
  <2>1. v \div N \in Int /\ v % N \in Int /\ v = (v \div N) * N + (v % N)
    BY <1>4, DivisionFacts
  <2>2. w \div N \in Int /\ w = (w \div N) * N + (w % N)
    BY <1>4, DivisionFacts
  <2>3. QED
    BY <1>5, <2>1, <2>2
<1>7. v = (a * q) * p + r /\ w = (b * q) * p + r
  <2>1. a * (q * p) = (a * q) * p /\ b * (q * p) = (b * q) * p
    OBVIOUS
  <2>2. QED
    BY <1>3, <1>6, <2>1
<1>8. PICK e \in Int, s \in 0 .. p - 1 : r = e * p + s
  <2>1. r \div p \in Int /\ r % p \in 0 .. p - 1 /\ r = (r \div p) * p + (r % p)
    BY DivisionFacts
  <2>2. QED
    BY <2>1
<1>9. v = (a * q + e) * p + s /\ w = (b * q + e) * p + s
  <2>1. /\ (a * q) * p + (e * p + s) = (a * q + e) * p + s
        /\ (b * q) * p + (e * p + s) = (b * q + e) * p + s
    OBVIOUS
  <2>2. QED
    BY <1>7, <1>8, <2>1
<1>10. v % p = s /\ w % p = s
  <2>1. a * q + e \in Int /\ b * q + e \in Int
    OBVIOUS
  <2>2. QED
    BY <1>9, <2>1, RemainderUnique
<1>11. QED
  BY <1>2, <1>10

\* Numbers with the same remainder by 2 ^ n have the same lower n bits.
LEMMA BitsOfRemainder ==
    ASSUME NEW v \in Int, NEW w \in Int, NEW n \in Nat, v % 2 ^ n = w % 2 ^ n,
           NEW k \in 0 .. n - 1
    PROVE  bit(v, k) <=> bit(w, k)
<1>1. k \in Nat /\ k <= n /\ k + 1 \in Nat /\ k + 1 <= n
  OBVIOUS
<1>2. v % 2 ^ k = w % 2 ^ k /\ v % 2 ^ (k + 1) = w % 2 ^ (k + 1)
  BY <1>1, RemainderLower
<1>3. PICK r, p \in Int : r = v % 2 ^ k /\ p = 2 ^ k /\ p > 0
  <2>1. v % 2 ^ k \in Nat /\ 2 ^ k \in Nat \ {0}
    BY <1>1, RemainderNext, PowerNext
  <2>2. QED
    BY <2>1
<1>4. /\ v % 2 ^ (k + 1) = r + (IF bit(v, k) THEN p ELSE 0)
      /\ w % 2 ^ (k + 1) = r + (IF bit(w, k) THEN p ELSE 0)
  <2>1. v % 2 ^ (k + 1) = (v % 2 ^ k) + (IF bit(v, k) THEN 2 ^ k ELSE 0)
    BY <1>1, RemainderNext
  <2>2. w % 2 ^ (k + 1) = (w % 2 ^ k) + (IF bit(w, k) THEN 2 ^ k ELSE 0)
    BY <1>1, RemainderNext
  <2>3. QED
    BY <1>2, <1>3, <2>1, <2>2
<1>5. QED
  BY <1>2, <1>3, <1>4

\* What is a power of two each for some bits of a number adds up to what these
\* bits mean.
OneBits(v, lo, hi) == {k \in lo .. hi : bit(v, k)}
Powers(K) == {2 ^ k : k \in K}

\* Finitely many bits have finitely many powers, each a number.
LEMMA PowersFinite ==
    ASSUME NEW K \in SUBSET Nat, IsFiniteSet(K)
    PROVE  Powers(K) \in SUBSET Int /\ IsFiniteSet(Powers(K))
<1>1. PICK f : f = [k \in K |-> 2 ^ k]
  OBVIOUS
<1>2. Powers(K) = {f[k] : k \in K} /\ DOMAIN f = K
  BY <1>1 DEF Powers
<1>3. IsFiniteSet(Powers(K))
  <2>1. PICK T : T = {f[k] : k \in K}
    OBVIOUS
  <2>2. IsFiniteSet(T)
    BY <1>2, <2>1, ImageFinite
  <2>3. QED
    BY <1>2, <2>1, <2>2
<1>4. Powers(K) \in SUBSET Int
  BY PowerNext DEF Powers
<1>5. QED
  BY <1>3, <1>4

\* The powers of the bits from lo on add up to the part of the number they stand for.
LEMMA BitSum ==
    ASSUME NEW v \in Int, NEW lo \in Nat, NEW n \in Nat
    PROVE  SumSet(Powers(OneBits(v, lo, lo + n - 1))) = (v % 2 ^ (lo + n)) - (v % 2 ^ lo)
<1> DEFINE B(d) == OneBits(v, lo, lo + d - 1)
           Done == {d \in Nat : SumSet(Powers(B(d))) = (v % 2 ^ (lo + d)) - (v % 2 ^ lo)}
<1>1. 0 \in Done
  <2>1. B(0) = {}
    BY DEF OneBits
  <2>2. Powers(B(0)) = {}
    BY <2>1 DEF Powers
  <2>3. v % 2 ^ lo \in Int /\ lo + 0 = lo
    BY RemainderNext
  <2>4. QED
    BY <2>2, <2>3, SumEmpty
<1>2. ASSUME NEW d \in Done PROVE d + 1 \in Done
  <2>1. d \in Nat /\ lo + d \in Nat /\ lo + (d + 1) = (lo + d) + 1
    OBVIOUS
  <2>2. PICK k \in Nat : k = lo + d
    BY <2>1
  <2>3. B(d) \in SUBSET Nat /\ \A j \in B(d) : j < k
    BY <2>2 DEF OneBits
  <2>4. IsFiniteSet(B(d))
    <3>1. B(d) \subseteq lo .. lo + d - 1
      BY DEF OneBits
    <3>2. lo \in Int /\ lo + d - 1 \in Int
      BY <2>1
    <3>3. QED
      BY <3>1, <3>2, FS_Interval, FS_Subset
  <2>5. /\ bit(v, k) => B(d + 1) = B(d) \union {k}
        /\ ~bit(v, k) => B(d + 1) = B(d)
    <3>1. lo .. lo + (d + 1) - 1 = (lo .. lo + d - 1) \union {k}
      BY <2>1, <2>2
    <3>2. QED
      BY <3>1 DEF OneBits
  <2>6. PICK a, b, p \in Int : a = v % 2 ^ k /\ b = v % 2 ^ lo /\ p = 2 ^ k
    <3>1. v % 2 ^ k \in Nat /\ v % 2 ^ lo \in Nat /\ 2 ^ k \in Nat
      BY RemainderNext, PowerNext
    <3>2. QED
      BY <3>1
  <2>7. v % 2 ^ (k + 1) = a + (IF bit(v, k) THEN p ELSE 0)
    BY <2>6, RemainderNext
  <2>8. SumSet(Powers(B(d))) = a - b
    BY <2>2, <2>6
  <2>9. CASE bit(v, k)
    <3>1. PICK S : S = Powers(B(d))
      OBVIOUS
    <3>2. Powers(B(d + 1)) = S \union {p}
      <4>1. B(d + 1) = B(d) \union {k}
        BY <2>5, <2>9
      <4>2. QED
        BY <2>6, <3>1, <4>1 DEF Powers
    <3>3. p \notin S
      <4>1. \A j \in B(d) : 2 ^ j < 2 ^ k /\ 2 ^ j \in Int
        BY <2>3, PowerOrder, PowerNext
      <4>2. \A j \in B(d) : 2 ^ j # p
        BY <2>6, <4>1
      <4>3. QED
        BY <3>1, <4>2 DEF Powers
    <3>4. S \in SUBSET Int /\ IsFiniteSet(S)
      BY <2>3, <2>4, <3>1, PowersFinite
    <3>5. SumSet(S \union {p}) = p + (a - b)
      BY <2>8, <3>1, <3>3, <3>4, SumAdded
    <3>6. SumSet(Powers(B(d + 1))) = (a + p) - b
      BY <3>2, <3>5
    <3>7. QED
      BY <2>1, <2>2, <2>6, <2>7, <2>9, <3>6
  <2>10. CASE ~bit(v, k)
    <3>1. SumSet(Powers(B(d + 1))) = a - b
      BY <2>5, <2>8, <2>10
    <3>2. QED
      BY <2>1, <2>2, <2>6, <2>7, <2>10, <3>1
  <2>11. QED
    BY <2>9, <2>10
<1>3. Done = Nat
  <2>1. Done \in SUBSET Nat
    OBVIOUS
  <2> HIDE DEF Done
  <2>2. QED
    BY <1>1, <1>2, <2>1, Induction
<1>4. QED
  BY <1>3

-----------------------------------------------------------------------------
(***************************************************************************)
(* Numbers with a sign.                                                    *)
(***************************************************************************)
\* What a number of top + 1 bits means if the first of them is the sign.
WithSign(x, top) == IF x < 2 ^ top THEN x ELSE x - 2 ^ (top + 1)

\* The lower bits of a number in the range of a field, read with their sign, are
\* the number.
LEMMA SignRead ==
    ASSUME NEW s \in Int, NEW top \in Nat, -(2 ^ top) <= s, s < 2 ^ top
    PROVE  WithSign(s % 2 ^ (top + 1), top) = s
<1>1. PICK p \in Nat \ {0} : p = 2 ^ top /\ 2 ^ (top + 1) = 2 * p
  BY PowerNext
<1>2. 2 * p \in Nat \ {0}
  OBVIOUS
<1>3. CASE s >= 0
  <2>1. s \in 0 .. 2 * p - 1 /\ s = 0 * (2 * p) + s
    BY <1>1, <1>3
  <2>2. s % (2 * p) = s
    BY <1>2, <2>1, RemainderUnique
  <2>3. QED
    BY <1>1, <2>2 DEF WithSign
<1>4. CASE s < 0
  <2>1. PICK r : r = s + 2 * p
    OBVIOUS
  <2>2. r \in 0 .. 2 * p - 1 /\ s = (-1) * (2 * p) + r /\ ~(r < p)
    BY <1>1, <1>4, <2>1
  <2>3. s % (2 * p) = r
    <3>1. ((-1) * (2 * p) + r) % (2 * p) = r
      BY <1>2, <2>2, RemainderUnique
    <3>2. QED
      BY <2>2, <3>1
  <2>4. QED
    BY <1>1, <2>1, <2>2, <2>3 DEF WithSign
<1>5. QED
  BY <1>3, <1>4

\* An int64_t has the lower bits of the number and is in its range.
LEMMA SignedFacts ==
    ASSUME NEW v \in Int
    PROVE  /\ Signed(v) \in Int
           /\ \A n \in 0 .. AddrBits : Signed(v) % 2 ^ n = v % 2 ^ n
           /\ -(2 ^ (AddrBits - 1)) <= Signed(v) /\ Signed(v) < 2 ^ (AddrBits - 1)
<1>1. AddrBits \in Nat /\ AddrBits - 1 \in Nat /\ (AddrBits - 1) + 1 = AddrBits
  BY WidthAssumption
<1>2. PICK p \in Nat \ {0} : p = 2 ^ (AddrBits - 1) /\ 2 ^ AddrBits = 2 * p
  BY <1>1, PowerNext
<1>3. 2 * p \in Nat \ {0}
  OBVIOUS
<1>4. PICK u \in 0 .. 2 * p - 1 : u = v % 2 ^ AddrBits
  BY <1>2, <1>3, DivisionFacts
<1>5. PICK s : s = Signed(v)
  OBVIOUS
<1>6. s = IF u < p THEN u ELSE u - 2 * p
  BY <1>2, <1>4, <1>5 DEF Signed
<1>7. s \in Int /\ -p <= s /\ s < p
  BY <1>6
<1>8. s % (2 * p) = u
  <2>1. CASE u < p
    <3>1. s = 0 * (2 * p) + u
      BY <1>6, <2>1
    <3>2. (0 * (2 * p) + u) % (2 * p) = u
      BY <1>3, RemainderUnique
    <3>3. QED
      BY <3>1, <3>2
  <2>2. CASE ~(u < p)
    <3>1. s = (-1) * (2 * p) + u
      BY <1>6, <2>2
    <3>2. ((-1) * (2 * p) + u) % (2 * p) = u
      BY <1>3, RemainderUnique
    <3>3. QED
      BY <3>1, <3>2
  <2>3. QED
    BY <2>1, <2>2
<1>9. ASSUME NEW n \in 0 .. AddrBits PROVE s % 2 ^ n = v % 2 ^ n
  <2>1. n \in Nat /\ n <= AddrBits
    BY <1>1
  <2>2. s % 2 ^ AddrBits = v % 2 ^ AddrBits
    BY <1>2, <1>4, <1>8
  <2>3. QED
    BY <1>1, <1>7, <2>1, <2>2, RemainderLower
<1>10. QED
  BY <1>2, <1>5, <1>7, <1>9

-----------------------------------------------------------------------------
(***************************************************************************)
(* Fields.  A format says of every bit of an instruction which bit of the  *)
(* immediate it is; what an encoder puts there is what is read.            *)
(***************************************************************************)
Holds(bytes, loc, f, v) == \A b \in DOMAIN f : 8 * loc + b \in bytes <=> bit(v, f[b])
Keeps(new, bytes, own) == new \ own = bytes \ own

\* The bits of the immediate that a format has, and the bits lo to top of a number.
Covers(f, bits) == {f[b] : b \in DOMAIN f} = bits
Part(v, lo, top) == (v % 2 ^ (top + 1)) - (v % 2 ^ lo)

\* What is read of a field that holds the bits lo to top of a number.
LEMMA Decoded ==
    ASSUME NEW bytes, NEW loc, NEW f, NEW v \in Int, NEW lo \in Nat, NEW top \in Nat, lo <= top,
           Covers(f, lo .. top), Holds(bytes, loc, f, v)
    PROVE  Immediate(bytes, loc, f) = WithSign(Part(v, lo, top), top)
<1>0. {f[b] : b \in DOMAIN f} = lo .. top
  BY DEF Covers
<1>1. {2 ^ f[b] : b \in {c \in DOMAIN f : 8 * loc + c \in bytes}} = Powers(OneBits(v, lo, top))
  <2>1. ASSUME NEW b \in {c \in DOMAIN f : 8 * loc + c \in bytes}
        PROVE  2 ^ f[b] \in Powers(OneBits(v, lo, top))
    <3>1. f[b] \in lo .. top /\ bit(v, f[b])
      BY <1>0 DEF Holds
    <3>2. QED
      BY <3>1 DEF Powers, OneBits
  <2>2. ASSUME NEW k \in lo .. top, bit(v, k)
        PROVE  \E b \in {c \in DOMAIN f : 8 * loc + c \in bytes} : 2 ^ k = 2 ^ f[b]
    <3>1. PICK b \in DOMAIN f : f[b] = k
      BY <1>0
    <3>2. QED
      BY <2>2, <3>1 DEF Holds
  <2>3. QED
    BY <2>1, <2>2 DEF Powers, OneBits
<1>2. Max({f[b] : b \in DOMAIN f}) = top
  <2>1. \A m \in lo .. top : (\A k \in lo .. top : m >= k) <=> m = top
    OBVIOUS
  <2>2. top \in lo .. top
    OBVIOUS
  <2>3. QED
    BY <1>0, <2>1, <2>2 DEF Max
<1>3. SumSet(Powers(OneBits(v, lo, top))) = (v % 2 ^ (top + 1)) - (v % 2 ^ lo)
  <2>1. PICK n \in Nat : n = top - lo + 1
    OBVIOUS
  <2>2. lo + n = top + 1 /\ lo + n - 1 = top
    BY <2>1
  <2>3. QED
    BY <2>2, BitSum
<1>4. QED
  BY <1>1, <1>2, <1>3 DEF Immediate, WithSign, Part

\* A number that fits the field is what is read.
LEMMA DecodedNumber ==
    ASSUME NEW bytes, NEW loc, NEW f, NEW v \in Int, NEW lo \in Nat, NEW top \in Nat, lo <= top,
           {f[b] : b \in DOMAIN f} = lo .. top, Holds(bytes, loc, f, v),
           v % 2 ^ lo = 0,
           NEW s \in Int, s % 2 ^ (top + 1) = v % 2 ^ (top + 1),
           -(2 ^ top) <= s, s < 2 ^ top
    PROVE  Immediate(bytes, loc, f) = s
<1>1. v % 2 ^ (top + 1) \in Nat
  <2>1. top + 1 \in Nat
    OBVIOUS
  <2>2. QED
    BY <2>1, RemainderNext
<1>2. (v % 2 ^ (top + 1)) - (v % 2 ^ lo) = s % 2 ^ (top + 1)
  BY <1>1
<1>3. Immediate(bytes, loc, f) = WithSign(s % 2 ^ (top + 1), top)
  <2>1. Part(v, lo, top) = s % 2 ^ (top + 1)
    BY <1>2 DEF Part
  <2>2. Covers(f, lo .. top)
    BY DEF Covers
  <2>3. Immediate(bytes, loc, f) = WithSign(Part(v, lo, top), top)
    BY <2>2, Decoded
  <2>4. QED
    BY <2>1, <2>3
<1>4. QED
  BY <1>3, SignRead

\* Which bits there are at an offset.
LEMMA InAt ==
    ASSUME NEW loc \in Int, NEW B \in SUBSET Int, NEW b \in Int
    PROVE  8 * loc + b \in At(loc, B) <=> b \in B
BY DEF At

\* EPOI: bit b of the field is bit b - to + lo of the number.
LEMMA InField ==
    ASSUME NEW v, NEW lo \in Nat, NEW hi \in Nat, NEW to \in Int, NEW b \in Int
    PROVE  b \in EPOI(v, hi, lo, to) <=> b \in to .. to + hi - lo /\ bit(v, b - to + lo)
<1>1. ASSUME b \in EPOI(v, hi, lo, to)
      PROVE  b \in to .. to + hi - lo /\ bit(v, b - to + lo)
  <2>1. PICK n \in lo .. hi : bit(v, n) /\ b = n - lo + to
    BY <1>1 DEF EPOI
  <2>2. b - to + lo = n
    BY <2>1
  <2>3. QED
    BY <2>1, <2>2
<1>2. ASSUME b \in to .. to + hi - lo, bit(v, b - to + lo)
      PROVE  b \in EPOI(v, hi, lo, to)
  <2>1. PICK n \in lo .. hi : n = b - to + lo
    BY <1>2
  <2>2. b = n - lo + to
    BY <2>1
  <2>3. QED
    BY <1>2, <2>1, <2>2 DEF EPOI
<1>3. QED
  BY <1>1, <1>2

\* Replacing the bits of a field.
LEMMA ReplaceHolds ==
    ASSUME NEW bytes, NEW loc \in Int, NEW f, DOMAIN f \in SUBSET Int, NEW v,
           NEW bits \in SUBSET Int, \A b \in Int : b \in bits <=> b \in DOMAIN f /\ bit(v, f[b])
    PROVE  /\ Holds(Replace(bytes, loc, DOMAIN f, bits), loc, f, v)
           /\ Keeps(Replace(bytes, loc, DOMAIN f, bits), bytes, At(loc, DOMAIN f))
<1>1. \A b \in DOMAIN f : 8 * loc + b \in At(loc, DOMAIN f)
  BY InAt
<1>2. \A b \in DOMAIN f : 8 * loc + b \in At(loc, bits) <=> bit(v, f[b])
  BY InAt
<1>3. Holds(Replace(bytes, loc, DOMAIN f, bits), loc, f, v)
  BY <1>1, <1>2 DEF Holds, Replace
<1>4. At(loc, bits) \subseteq At(loc, DOMAIN f)
  BY DEF At
<1>5. QED
  BY <1>3, <1>4 DEF Keeps, Replace

-----------------------------------------------------------------------------
(***************************************************************************)
(* The formats, one by one.                                                *)
(***************************************************************************)
FormatB == Format("BRANCH")
FormatJ == Format("JAL")
FormatCB == Format("RVC_BRANCH")
FormatCJ == Format("RVC_JUMP")

\* The upper immediate, of LUI and AUIPC.
LEMMA TypeUFacts ==
    /\ DOMAIN TypeU = 12 .. WordBits - 1 /\ \A b \in 12 .. WordBits - 1 : TypeU[b] = b
    /\ {TypeU[b] : b \in DOMAIN TypeU} = 12 .. WordBits - 1
BY WidthAssumption DEF TypeU

\* The immediate of a load, of ADDI and JALR.
LEMMA TypeIFacts ==
    /\ DOMAIN TypeI = 20 .. 31 /\ \A b \in 20 .. 31 : TypeI[b] = b - 20
    /\ {TypeI[b] : b \in DOMAIN TypeI} = 0 .. 11
<1>1. DOMAIN TypeI = 20 .. 31
  BY DEF TypeI, From
<1>2. /\ TypeI[20] = 0 /\ TypeI[21] = 1 /\ TypeI[22] = 2 /\ TypeI[23] = 3
      /\ TypeI[24] = 4 /\ TypeI[25] = 5 /\ TypeI[26] = 6 /\ TypeI[27] = 7
      /\ TypeI[28] = 8 /\ TypeI[29] = 9 /\ TypeI[30] = 10 /\ TypeI[31] = 11
  BY DEF TypeI, From
<1>3. \A b \in 20 .. 31 : TypeI[b] = b - 20
  <2>1. \A b \in 20 .. 31 : \/ b = 20 \/ b = 21 \/ b = 22 \/ b = 23 \/ b = 24 \/ b = 25 \/ b = 26
                            \/ b = 27 \/ b = 28 \/ b = 29 \/ b = 30 \/ b = 31
    OBVIOUS
  <2>2. QED
    BY <1>2, <2>1
<1>4. ASSUME NEW k \in 0 .. 11 PROVE \E b \in 20 .. 31 : TypeI[b] = k
  <2>1. k + 20 \in 20 .. 31 /\ TypeI[k + 20] = k
    BY <1>3
  <2>2. QED
    BY <2>1
<1>5. QED
  BY <1>1, <1>3, <1>4

\* The immediate of a store, in two parts.
LEMMA TypeSFacts ==
    /\ DOMAIN TypeS = (7 .. 11) \union (25 .. 31)
    /\ \A b \in 25 .. 31 : TypeS[b] = b - 20
    /\ \A b \in 7 .. 11 : TypeS[b] = b - 7
    /\ {TypeS[b] : b \in DOMAIN TypeS} = 0 .. 11
<1>1. DOMAIN TypeS = (7 .. 11) \union (25 .. 31)
  BY DEF TypeS, From, And
<1>2. /\ TypeS[7] = 0 /\ TypeS[8] = 1 /\ TypeS[9] = 2 /\ TypeS[10] = 3 /\ TypeS[11] = 4
      /\ TypeS[25] = 5 /\ TypeS[26] = 6 /\ TypeS[27] = 7
      /\ TypeS[28] = 8 /\ TypeS[29] = 9 /\ TypeS[30] = 10 /\ TypeS[31] = 11
  BY DEF TypeS, From, And
<1>3. /\ \A b \in 25 .. 31 : TypeS[b] = b - 20
      /\ \A b \in 7 .. 11 : TypeS[b] = b - 7
  <2>1. /\ \A b \in 25 .. 31 : b = 25 \/ b = 26 \/ b = 27 \/ b = 28 \/ b = 29 \/ b = 30 \/ b = 31
        /\ \A b \in 7 .. 11 : b = 7 \/ b = 8 \/ b = 9 \/ b = 10 \/ b = 11
    OBVIOUS
  <2>2. QED
    BY <1>2, <2>1
<1>4. ASSUME NEW k \in 0 .. 11 PROVE \E b \in (7 .. 11) \union (25 .. 31) : TypeS[b] = k
  <2>1. CASE k < 5
    <3>1. k + 7 \in 7 .. 11 /\ TypeS[k + 7] = k
      BY <1>3, <2>1
    <3>2. QED
      BY <3>1
  <2>2. CASE ~(k < 5)
    <3>1. k + 20 \in 25 .. 31 /\ TypeS[k + 20] = k
      BY <1>3, <2>2
    <3>2. QED
      BY <3>1
  <2>3. QED
    BY <2>1, <2>2
<1>5. QED
  BY <1>1, <1>3, <1>4

\* The distance of a conditional branch.
LEMMA FormatBFacts ==
    /\ DOMAIN FormatB = (7 .. 11) \union (25 .. 31)
    /\ FormatB[31] = 12 /\ FormatB[7] = 11
    /\ \A b \in 25 .. 30 : FormatB[b] = b - 20
    /\ \A b \in 8 .. 11 : FormatB[b] = b - 7
    /\ {FormatB[b] : b \in DOMAIN FormatB} = 1 .. 12
<1>1. DOMAIN FormatB = (7 .. 11) \union (25 .. 31)
  BY DEF FormatB, Format, From, And
<1>2. /\ FormatB[7] = 11 /\ FormatB[8] = 1 /\ FormatB[9] = 2 /\ FormatB[10] = 3 /\ FormatB[11] = 4
      /\ FormatB[25] = 5 /\ FormatB[26] = 6 /\ FormatB[27] = 7
      /\ FormatB[28] = 8 /\ FormatB[29] = 9 /\ FormatB[30] = 10 /\ FormatB[31] = 12
  BY DEF FormatB, Format, From, And
<1>3. /\ \A b \in 25 .. 30 : FormatB[b] = b - 20
      /\ \A b \in 8 .. 11 : FormatB[b] = b - 7
  <2>1. /\ \A b \in 25 .. 30 : b = 25 \/ b = 26 \/ b = 27 \/ b = 28 \/ b = 29 \/ b = 30
        /\ \A b \in 8 .. 11 : b = 8 \/ b = 9 \/ b = 10 \/ b = 11
    OBVIOUS
  <2>2. QED
    BY <1>2, <2>1
<1>4. \A b \in (7 .. 11) \union (25 .. 31) : FormatB[b] \in 1 .. 12
  <2>1. \A b \in (7 .. 11) \union (25 .. 31) : b = 7 \/ b = 31 \/ b \in 8 .. 11 \/ b \in 25 .. 30
    OBVIOUS
  <2>2. QED
    BY <1>2, <1>3, <2>1
<1>5. ASSUME NEW k \in 1 .. 12 PROVE \E b \in (7 .. 11) \union (25 .. 31) : FormatB[b] = k
  <2>1. CASE k \in 1 .. 4
    <3>1. k + 7 \in 8 .. 11 /\ FormatB[k + 7] = k
      BY <1>3, <2>1
    <3>2. QED
      BY <3>1
  <2>2. CASE k \in 5 .. 10
    <3>1. k + 20 \in 25 .. 30 /\ FormatB[k + 20] = k
      BY <1>3, <2>2
    <3>2. QED
      BY <3>1
  <2>3. CASE k \in {11, 12}
    BY <1>2, <2>3
  <2>4. QED
    BY <2>1, <2>2, <2>3
<1>6. QED
  BY <1>1, <1>2, <1>3, <1>4, <1>5

\* The distance of a jump.
LEMMA FormatJFacts ==
    /\ DOMAIN FormatJ = 12 .. 31
    /\ FormatJ[31] = 20 /\ FormatJ[20] = 11
    /\ \A b \in 21 .. 30 : FormatJ[b] = b - 20
    /\ \A b \in 12 .. 19 : FormatJ[b] = b
    /\ {FormatJ[b] : b \in DOMAIN FormatJ} = 1 .. 20
<1>1. DOMAIN FormatJ = 12 .. 31
  BY DEF FormatJ, Format, From
<1>2. /\ FormatJ[12] = 12 /\ FormatJ[13] = 13 /\ FormatJ[14] = 14 /\ FormatJ[15] = 15
      /\ FormatJ[16] = 16 /\ FormatJ[17] = 17 /\ FormatJ[18] = 18 /\ FormatJ[19] = 19
      /\ FormatJ[20] = 11 /\ FormatJ[21] = 1 /\ FormatJ[22] = 2 /\ FormatJ[23] = 3
      /\ FormatJ[24] = 4 /\ FormatJ[25] = 5 /\ FormatJ[26] = 6 /\ FormatJ[27] = 7
      /\ FormatJ[28] = 8 /\ FormatJ[29] = 9 /\ FormatJ[30] = 10 /\ FormatJ[31] = 20
  BY DEF FormatJ, Format, From
<1>3. /\ \A b \in 21 .. 30 : FormatJ[b] = b - 20
      /\ \A b \in 12 .. 19 : FormatJ[b] = b
  <2>1. /\ \A b \in 21 .. 30 : \/ b = 21 \/ b = 22 \/ b = 23 \/ b = 24 \/ b = 25
                               \/ b = 26 \/ b = 27 \/ b = 28 \/ b = 29 \/ b = 30
        /\ \A b \in 12 .. 19 : b = 12 \/ b = 13 \/ b = 14 \/ b = 15 \/ b = 16 \/ b = 17 \/ b = 18 \/ b = 19
    OBVIOUS
  <2>2. QED
    BY <1>2, <2>1
<1>4. \A b \in 12 .. 31 : FormatJ[b] \in 1 .. 20
  <2>1. \A b \in 12 .. 31 : b = 20 \/ b = 31 \/ b \in 12 .. 19 \/ b \in 21 .. 30
    OBVIOUS
  <2>2. QED
    BY <1>2, <1>3, <2>1
<1>5. ASSUME NEW k \in 1 .. 20 PROVE \E b \in 12 .. 31 : FormatJ[b] = k
  <2>1. CASE k \in 1 .. 10
    <3>1. k + 20 \in 21 .. 30 /\ FormatJ[k + 20] = k
      BY <1>3, <2>1
    <3>2. QED
      BY <3>1
  <2>2. CASE k \in 12 .. 19
    BY <1>3, <2>2
  <2>3. CASE k \in {11, 20}
    BY <1>2, <2>3
  <2>4. QED
    BY <2>1, <2>2, <2>3
<1>6. QED
  BY <1>1, <1>2, <1>3, <1>4, <1>5

\* The distance of a compressed branch.
LEMMA FormatCBFacts ==
    /\ DOMAIN FormatCB = (2 .. 6) \union (10 .. 12)
    /\ FormatCB[2] = 5 /\ FormatCB[3] = 1 /\ FormatCB[4] = 2 /\ FormatCB[5] = 6 /\ FormatCB[6] = 7
    /\ FormatCB[10] = 3 /\ FormatCB[11] = 4 /\ FormatCB[12] = 8
    /\ {FormatCB[b] : b \in DOMAIN FormatCB} = 1 .. 8
<1>1. DOMAIN FormatCB = (2 .. 6) \union (10 .. 12)
  BY DEF FormatCB, Format, From, And
<1>2. /\ FormatCB[2] = 5 /\ FormatCB[3] = 1 /\ FormatCB[4] = 2 /\ FormatCB[5] = 6 /\ FormatCB[6] = 7
      /\ FormatCB[10] = 3 /\ FormatCB[11] = 4 /\ FormatCB[12] = 8
  BY DEF FormatCB, Format, From, And
<1>3. \A b \in (2 .. 6) \union (10 .. 12) :
        b = 2 \/ b = 3 \/ b = 4 \/ b = 5 \/ b = 6 \/ b = 10 \/ b = 11 \/ b = 12
  OBVIOUS
<1>4. \A k \in 1 .. 8 : k = 1 \/ k = 2 \/ k = 3 \/ k = 4 \/ k = 5 \/ k = 6 \/ k = 7 \/ k = 8
  OBVIOUS
<1>5. \A b \in (2 .. 6) \union (10 .. 12) : FormatCB[b] \in 1 .. 8
  BY <1>2, <1>3
<1>6. \A k \in 1 .. 8 : \E b \in (2 .. 6) \union (10 .. 12) : FormatCB[b] = k
  BY <1>2, <1>4
<1>7. QED
  BY <1>1, <1>2, <1>5, <1>6

\* The distance of a compressed jump.
LEMMA FormatCJFacts ==
    /\ DOMAIN FormatCJ = 2 .. 12
    /\ FormatCJ[2] = 5 /\ FormatCJ[3] = 1 /\ FormatCJ[4] = 2 /\ FormatCJ[5] = 3 /\ FormatCJ[6] = 7
    /\ FormatCJ[7] = 6 /\ FormatCJ[8] = 10 /\ FormatCJ[9] = 8 /\ FormatCJ[10] = 9
    /\ FormatCJ[11] = 4 /\ FormatCJ[12] = 11
    /\ {FormatCJ[b] : b \in DOMAIN FormatCJ} = 1 .. 11
<1>1. DOMAIN FormatCJ = 2 .. 12
  BY DEF FormatCJ, Format, From
<1>2. /\ FormatCJ[2] = 5 /\ FormatCJ[3] = 1 /\ FormatCJ[4] = 2 /\ FormatCJ[5] = 3 /\ FormatCJ[6] = 7
      /\ FormatCJ[7] = 6 /\ FormatCJ[8] = 10 /\ FormatCJ[9] = 8 /\ FormatCJ[10] = 9
      /\ FormatCJ[11] = 4 /\ FormatCJ[12] = 11
  BY DEF FormatCJ, Format, From
<1>3. \A b \in 2 .. 12 : \/ b = 2 \/ b = 3 \/ b = 4 \/ b = 5 \/ b = 6 \/ b = 7
                         \/ b = 8 \/ b = 9 \/ b = 10 \/ b = 11 \/ b = 12
  OBVIOUS
<1>4. \A k \in 1 .. 11 : \/ k = 1 \/ k = 2 \/ k = 3 \/ k = 4 \/ k = 5 \/ k = 6
                         \/ k = 7 \/ k = 8 \/ k = 9 \/ k = 10 \/ k = 11
  OBVIOUS
<1>5. \A b \in 2 .. 12 : FormatCJ[b] \in 1 .. 11
  BY <1>2, <1>3
<1>6. \A k \in 1 .. 11 : \E b \in 2 .. 12 : FormatCJ[b] = k
  BY <1>2, <1>4
<1>7. QED
  BY <1>1, <1>2, <1>5, <1>6

-----------------------------------------------------------------------------
(***************************************************************************)
(* The encoders: each puts the immediate where its format has it, and      *)
(* leaves the rest.                                                        *)
(***************************************************************************)
Encodes(new, bytes, loc, f, v) ==
    Holds(new, loc, f, v) /\ Keeps(new, bytes, At(loc, DOMAIN f))

\* The bits that are put into a field are numbers.
LEMMA FieldTyped ==
    ASSUME NEW v, NEW lo \in Nat, NEW hi \in Nat, NEW to \in Int
    PROVE  EPOI(v, hi, lo, to) \in SUBSET Int
BY DEF EPOI

\* write_utype puts the upper bits of the number, rounded, at their places and
\* keeps the rest.
LEMMA EncodesU ==
    ASSUME NEW bytes, NEW loc \in Int, NEW v \in Int
    PROVE  Encodes(write_utype(bytes, loc, v), bytes, loc, TypeU, v + 2 ^ 11)
<1>1. PICK w : w = v + 2 ^ 11
  OBVIOUS
<1> DEFINE bits == EPOI(w, WordBits - 1, 12, 12)
<1>2. WordBits - 1 \in Nat
  BY WidthAssumption
<1>3. bits \in SUBSET Int
  BY <1>2, FieldTyped
<1>4. \A b \in Int : b \in bits <=> b \in DOMAIN TypeU /\ bit(w, TypeU[b])
  <2> TAKE b \in Int
  <2>1. b \in bits <=> b \in 12 .. 12 + (WordBits - 1) - 12 /\ bit(w, b - 12 + 12)
    BY <1>2, InField
  <2>2. 12 + (WordBits - 1) - 12 = WordBits - 1 /\ b - 12 + 12 = b
    BY <1>2
  <2>3. QED
    BY <2>1, <2>2, TypeUFacts
<1>5. write_utype(bytes, loc, v) = Replace(bytes, loc, DOMAIN TypeU, bits)
  BY <1>1, TypeUFacts DEF write_utype
<1>6. DOMAIN TypeU \in SUBSET Int
  BY <1>2, TypeUFacts
<1> HIDE DEF bits
<1>7. QED
  BY <1>1, <1>3, <1>4, <1>5, <1>6, ReplaceHolds DEF Encodes

\* write_itype puts the lower twelve bits at their places and keeps the rest.
LEMMA EncodesI ==
    ASSUME NEW bytes, NEW loc \in Int, NEW v \in Int
    PROVE  Encodes(write_itype(bytes, loc, v), bytes, loc, TypeI, v)
<1> DEFINE bits == EPOI(v, 11, 0, 20)
<1>1. bits \in SUBSET Int
  BY FieldTyped
<1>2. \A b \in Int : b \in bits <=> b \in DOMAIN TypeI /\ bit(v, TypeI[b])
  <2> TAKE b \in Int
  <2>1. b \in bits <=> b \in 20 .. 20 + 11 - 0 /\ bit(v, b - 20 + 0)
    BY InField
  <2>2. 20 + 11 - 0 = 31 /\ b - 20 + 0 = b - 20
    OBVIOUS
  <2>3. QED
    BY <2>1, <2>2, TypeIFacts
<1>3. write_itype(bytes, loc, v) = Replace(bytes, loc, DOMAIN TypeI, bits)
  BY TypeIFacts DEF write_itype
<1>4. DOMAIN TypeI \in SUBSET Int
  BY TypeIFacts
<1> HIDE DEF bits
<1>5. QED
  BY <1>1, <1>2, <1>3, <1>4, ReplaceHolds DEF Encodes

\* write_stype puts the lower twelve bits at their places and keeps the rest.
LEMMA EncodesS ==
    ASSUME NEW bytes, NEW loc \in Int, NEW v \in Int
    PROVE  Encodes(write_stype(bytes, loc, v), bytes, loc, TypeS, v)
<1> DEFINE bits == EPOI(v, 11, 5, 25) \union EPOI(v, 4, 0, 7)
<1>1. bits \in SUBSET Int
  BY FieldTyped
<1>2. \A b \in Int : b \in bits <=> b \in DOMAIN TypeS /\ bit(v, TypeS[b])
  <2> TAKE b \in Int
  <2>1. /\ b \in EPOI(v, 11, 5, 25) <=> b \in 25 .. 31 /\ bit(v, b - 20)
        /\ b \in EPOI(v, 4, 0, 7) <=> b \in 7 .. 11 /\ bit(v, b - 7)
    <3>1. b \in EPOI(v, 11, 5, 25) <=> b \in 25 .. 25 + 11 - 5 /\ bit(v, b - 25 + 5)
      BY InField
    <3>2. b \in EPOI(v, 4, 0, 7) <=> b \in 7 .. 7 + 4 - 0 /\ bit(v, b - 7 + 0)
      BY InField
    <3>3. 25 + 11 - 5 = 31 /\ b - 25 + 5 = b - 20 /\ 7 + 4 - 0 = 11 /\ b - 7 + 0 = b - 7
      OBVIOUS
    <3>4. QED
      BY <3>1, <3>2, <3>3
  <2>2. b \in bits <=> b \in EPOI(v, 11, 5, 25) \/ b \in EPOI(v, 4, 0, 7)
    OBVIOUS
  <2>3. QED
    BY <2>1, <2>2, TypeSFacts
<1>3. write_stype(bytes, loc, v) = Replace(bytes, loc, DOMAIN TypeS, bits)
  BY TypeSFacts DEF write_stype
<1>4. DOMAIN TypeS \in SUBSET Int
  BY TypeSFacts
<1> HIDE DEF bits
<1>5. QED
  BY <1>1, <1>2, <1>3, <1>4, ReplaceHolds DEF Encodes

\* write_btype puts the bits of the distance at their places and keeps the rest.
LEMMA EncodesB ==
    ASSUME NEW bytes, NEW loc \in Int, NEW v \in Int
    PROVE  Encodes(write_btype(bytes, loc, v), bytes, loc, FormatB, v)
<1> DEFINE bits == EPOI(v, 12, 12, 31) \union EPOI(v, 10, 5, 25) \union EPOI(v, 4, 1, 8)
                   \union EPOI(v, 11, 11, 7)
<1>1. bits \in SUBSET Int
  BY FieldTyped
<1>2. \A b \in Int : b \in bits <=> b \in DOMAIN FormatB /\ bit(v, FormatB[b])
  <2> TAKE b \in Int
  <2>1. /\ b \in EPOI(v, 12, 12, 31) <=> b = 31 /\ bit(v, 12)
        /\ b \in EPOI(v, 10, 5, 25) <=> b \in 25 .. 30 /\ bit(v, b - 20)
        /\ b \in EPOI(v, 4, 1, 8) <=> b \in 8 .. 11 /\ bit(v, b - 7)
        /\ b \in EPOI(v, 11, 11, 7) <=> b = 7 /\ bit(v, 11)
    <3>1. b \in EPOI(v, 12, 12, 31) <=> b \in 31 .. 31 + 12 - 12 /\ bit(v, b - 31 + 12)
      BY InField
    <3>2. b \in EPOI(v, 10, 5, 25) <=> b \in 25 .. 25 + 10 - 5 /\ bit(v, b - 25 + 5)
      BY InField
    <3>3. b \in EPOI(v, 4, 1, 8) <=> b \in 8 .. 8 + 4 - 1 /\ bit(v, b - 8 + 1)
      BY InField
    <3>4. b \in EPOI(v, 11, 11, 7) <=> b \in 7 .. 7 + 11 - 11 /\ bit(v, b - 7 + 11)
      BY InField
    <3>5. /\ 25 + 10 - 5 = 30 /\ b - 25 + 5 = b - 20 /\ 8 + 4 - 1 = 11 /\ b - 8 + 1 = b - 7
          /\ b \in 31 .. 31 + 12 - 12 <=> b = 31
          /\ b \in 7 .. 7 + 11 - 11 <=> b = 7
          /\ b = 31 => b - 31 + 12 = 12
          /\ b = 7 => b - 7 + 11 = 11
      OBVIOUS
    <3>6. QED
      BY <3>1, <3>2, <3>3, <3>4, <3>5
  <2>2. b \in bits <=> \/ b \in EPOI(v, 12, 12, 31) \/ b \in EPOI(v, 10, 5, 25)
                       \/ b \in EPOI(v, 4, 1, 8) \/ b \in EPOI(v, 11, 11, 7)
    OBVIOUS
  <2>3. b \in DOMAIN FormatB <=> b = 31 \/ b \in 25 .. 30 \/ b \in 8 .. 11 \/ b = 7
    BY FormatBFacts
  <2>4. QED
    BY <2>1, <2>2, <2>3, FormatBFacts
<1>3. write_btype(bytes, loc, v) = Replace(bytes, loc, DOMAIN FormatB, bits)
  BY FormatBFacts DEF write_btype
<1>4. DOMAIN FormatB \in SUBSET Int
  BY FormatBFacts
<1> HIDE DEF bits
<1>5. QED
  BY <1>1, <1>2, <1>3, <1>4, ReplaceHolds DEF Encodes

\* write_jtype puts the bits of the distance at their places and keeps the rest.
LEMMA EncodesJ ==
    ASSUME NEW bytes, NEW loc \in Int, NEW v \in Int
    PROVE  Encodes(write_jtype(bytes, loc, v), bytes, loc, FormatJ, v)
<1> DEFINE bits == EPOI(v, 20, 20, 31) \union EPOI(v, 10, 1, 21)
                   \union EPOI(v, 11, 11, 20) \union EPOI(v, 19, 12, 12)
<1>1. bits \in SUBSET Int
  BY FieldTyped
<1>2. \A b \in Int : b \in bits <=> b \in DOMAIN FormatJ /\ bit(v, FormatJ[b])
  <2> TAKE b \in Int
  <2>1. /\ b \in EPOI(v, 20, 20, 31) <=> b = 31 /\ bit(v, 20)
        /\ b \in EPOI(v, 10, 1, 21) <=> b \in 21 .. 30 /\ bit(v, b - 20)
        /\ b \in EPOI(v, 11, 11, 20) <=> b = 20 /\ bit(v, 11)
        /\ b \in EPOI(v, 19, 12, 12) <=> b \in 12 .. 19 /\ bit(v, b)
    <3>1. b \in EPOI(v, 20, 20, 31) <=> b \in 31 .. 31 + 20 - 20 /\ bit(v, b - 31 + 20)
      BY InField
    <3>2. b \in EPOI(v, 10, 1, 21) <=> b \in 21 .. 21 + 10 - 1 /\ bit(v, b - 21 + 1)
      BY InField
    <3>3. b \in EPOI(v, 11, 11, 20) <=> b \in 20 .. 20 + 11 - 11 /\ bit(v, b - 20 + 11)
      BY InField
    <3>4. b \in EPOI(v, 19, 12, 12) <=> b \in 12 .. 12 + 19 - 12 /\ bit(v, b - 12 + 12)
      BY InField
    <3>5. /\ 21 + 10 - 1 = 30 /\ b - 21 + 1 = b - 20 /\ 12 + 19 - 12 = 19 /\ b - 12 + 12 = b
          /\ b \in 31 .. 31 + 20 - 20 <=> b = 31
          /\ b \in 20 .. 20 + 11 - 11 <=> b = 20
          /\ b = 31 => b - 31 + 20 = 20
          /\ b = 20 => b - 20 + 11 = 11
      OBVIOUS
    <3>6. QED
      BY <3>1, <3>2, <3>3, <3>4, <3>5
  <2>2. b \in bits <=> \/ b \in EPOI(v, 20, 20, 31) \/ b \in EPOI(v, 10, 1, 21)
                       \/ b \in EPOI(v, 11, 11, 20) \/ b \in EPOI(v, 19, 12, 12)
    OBVIOUS
  <2>3. b \in DOMAIN FormatJ <=> b = 31 \/ b \in 21 .. 30 \/ b = 20 \/ b \in 12 .. 19
    BY FormatJFacts
  <2>4. QED
    BY <2>1, <2>2, <2>3, FormatJFacts
<1>3. write_jtype(bytes, loc, v) = Replace(bytes, loc, DOMAIN FormatJ, bits)
  BY FormatJFacts DEF write_jtype
<1>4. DOMAIN FormatJ \in SUBSET Int
  BY FormatJFacts
<1> HIDE DEF bits
<1>5. QED
  BY <1>1, <1>2, <1>3, <1>4, ReplaceHolds DEF Encodes

\* write_cbtype puts the bits of the distance at their places and keeps the rest.
LEMMA EncodesCB ==
    ASSUME NEW bytes, NEW loc \in Int, NEW v \in Int
    PROVE  Encodes(write_cbtype(bytes, loc, v), bytes, loc, FormatCB, v)
<1> DEFINE bits == EPOI(v, 8, 8, 12) \union EPOI(v, 4, 3, 10) \union EPOI(v, 7, 6, 5)
                   \union EPOI(v, 2, 1, 3) \union EPOI(v, 5, 5, 2)
<1>1. bits \in SUBSET Int
  BY FieldTyped
<1>2. \A b \in Int : b \in bits <=> b \in DOMAIN FormatCB /\ bit(v, FormatCB[b])
  <2> TAKE b \in Int
  <2>1. /\ b \in EPOI(v, 8, 8, 12) <=> b = 12 /\ bit(v, 8)
        /\ b \in EPOI(v, 4, 3, 10) <=> (b = 10 /\ bit(v, 3)) \/ (b = 11 /\ bit(v, 4))
        /\ b \in EPOI(v, 7, 6, 5) <=> (b = 5 /\ bit(v, 6)) \/ (b = 6 /\ bit(v, 7))
        /\ b \in EPOI(v, 2, 1, 3) <=> (b = 3 /\ bit(v, 1)) \/ (b = 4 /\ bit(v, 2))
        /\ b \in EPOI(v, 5, 5, 2) <=> b = 2 /\ bit(v, 5)
    <3>1. b \in EPOI(v, 8, 8, 12) <=> b \in 12 .. 12 + 8 - 8 /\ bit(v, b - 12 + 8)
      BY InField
    <3>2. b \in EPOI(v, 4, 3, 10) <=> b \in 10 .. 10 + 4 - 3 /\ bit(v, b - 10 + 3)
      BY InField
    <3>3. b \in EPOI(v, 7, 6, 5) <=> b \in 5 .. 5 + 7 - 6 /\ bit(v, b - 5 + 6)
      BY InField
    <3>4. b \in EPOI(v, 2, 1, 3) <=> b \in 3 .. 3 + 2 - 1 /\ bit(v, b - 3 + 1)
      BY InField
    <3>5. b \in EPOI(v, 5, 5, 2) <=> b \in 2 .. 2 + 5 - 5 /\ bit(v, b - 2 + 5)
      BY InField
    <3>6. /\ b \in 12 .. 12 + 8 - 8 <=> b = 12
          /\ b = 12 => b - 12 + 8 = 8
          /\ b \in 10 .. 10 + 4 - 3 <=> b = 10 \/ b = 11
          /\ b = 10 => b - 10 + 3 = 3
          /\ b = 11 => b - 10 + 3 = 4
          /\ b \in 5 .. 5 + 7 - 6 <=> b = 5 \/ b = 6
          /\ b = 5 => b - 5 + 6 = 6
          /\ b = 6 => b - 5 + 6 = 7
          /\ b \in 3 .. 3 + 2 - 1 <=> b = 3 \/ b = 4
          /\ b = 3 => b - 3 + 1 = 1
          /\ b = 4 => b - 3 + 1 = 2
          /\ b \in 2 .. 2 + 5 - 5 <=> b = 2
          /\ b = 2 => b - 2 + 5 = 5
      OBVIOUS
    <3>7. QED
      BY <3>1, <3>2, <3>3, <3>4, <3>5, <3>6
  <2>2. b \in bits <=> \/ b \in EPOI(v, 8, 8, 12) \/ b \in EPOI(v, 4, 3, 10) \/ b \in EPOI(v, 7, 6, 5)
                       \/ b \in EPOI(v, 2, 1, 3) \/ b \in EPOI(v, 5, 5, 2)
    OBVIOUS
  <2>3. b \in DOMAIN FormatCB <=> \/ b = 2 \/ b = 3 \/ b = 4 \/ b = 5 \/ b = 6
                                  \/ b = 10 \/ b = 11 \/ b = 12
    BY FormatCBFacts
  <2>4. QED
    BY <2>1, <2>2, <2>3, FormatCBFacts
<1>3. write_cbtype(bytes, loc, v) = Replace(bytes, loc, DOMAIN FormatCB, bits)
  BY FormatCBFacts DEF write_cbtype
<1>4. DOMAIN FormatCB \in SUBSET Int
  BY FormatCBFacts
<1> HIDE DEF bits
<1>5. QED
  BY <1>1, <1>2, <1>3, <1>4, ReplaceHolds DEF Encodes

\* write_cjtype puts the bits of the distance at their places and keeps the rest.
LEMMA EncodesCJ ==
    ASSUME NEW bytes, NEW loc \in Int, NEW v \in Int
    PROVE  Encodes(write_cjtype(bytes, loc, v), bytes, loc, FormatCJ, v)
<1> DEFINE bits == EPOI(v, 11, 11, 12) \union EPOI(v, 4, 4, 11) \union EPOI(v, 9, 8, 9)
                   \union EPOI(v, 10, 10, 8) \union EPOI(v, 6, 6, 7) \union EPOI(v, 7, 7, 6)
                   \union EPOI(v, 3, 1, 3) \union EPOI(v, 5, 5, 2)
<1>1. bits \in SUBSET Int
  BY FieldTyped
<1>2. \A b \in Int : b \in bits <=> b \in DOMAIN FormatCJ /\ bit(v, FormatCJ[b])
  <2> TAKE b \in Int
  <2>1. ASSUME NEW k \in Nat, NEW to \in Nat
        PROVE  b \in EPOI(v, k, k, to) <=> b = to /\ bit(v, k)
    <3>1. b \in EPOI(v, k, k, to) <=> b \in to .. to + k - k /\ bit(v, b - to + k)
      BY InField
    <3>2. b \in to .. to + k - k <=> b = to
      OBVIOUS
    <3>3. b = to => b - to + k = k
      OBVIOUS
    <3>4. QED
      BY <3>1, <3>2, <3>3
  <2>2. /\ b \in EPOI(v, 11, 11, 12) <=> b = 12 /\ bit(v, 11)
        /\ b \in EPOI(v, 4, 4, 11) <=> b = 11 /\ bit(v, 4)
        /\ b \in EPOI(v, 10, 10, 8) <=> b = 8 /\ bit(v, 10)
        /\ b \in EPOI(v, 6, 6, 7) <=> b = 7 /\ bit(v, 6)
        /\ b \in EPOI(v, 7, 7, 6) <=> b = 6 /\ bit(v, 7)
        /\ b \in EPOI(v, 5, 5, 2) <=> b = 2 /\ bit(v, 5)
    BY <2>1
  <2>3. b \in EPOI(v, 9, 8, 9) <=> (b = 9 /\ bit(v, 8)) \/ (b = 10 /\ bit(v, 9))
    <3>1. b \in EPOI(v, 9, 8, 9) <=> b \in 9 .. 9 + 9 - 8 /\ bit(v, b - 9 + 8)
      BY InField
    <3>2. /\ b \in 9 .. 9 + 9 - 8 <=> b = 9 \/ b = 10
          /\ b = 9 => b - 9 + 8 = 8
          /\ b = 10 => b - 9 + 8 = 9
      OBVIOUS
    <3>3. QED
      BY <3>1, <3>2
  <2>4. b \in EPOI(v, 3, 1, 3) <=> (b = 3 /\ bit(v, 1)) \/ (b = 4 /\ bit(v, 2)) \/ (b = 5 /\ bit(v, 3))
    <3>1. b \in EPOI(v, 3, 1, 3) <=> b \in 3 .. 3 + 3 - 1 /\ bit(v, b - 3 + 1)
      BY InField
    <3>2. /\ b \in 3 .. 3 + 3 - 1 <=> b = 3 \/ b = 4 \/ b = 5
          /\ b = 3 => b - 3 + 1 = 1
          /\ b = 4 => b - 3 + 1 = 2
          /\ b = 5 => b - 3 + 1 = 3
      OBVIOUS
    <3>3. QED
      BY <3>1, <3>2
  <2>5. b \in bits <=> \/ b \in EPOI(v, 11, 11, 12) \/ b \in EPOI(v, 4, 4, 11) \/ b \in EPOI(v, 9, 8, 9)
                       \/ b \in EPOI(v, 10, 10, 8) \/ b \in EPOI(v, 6, 6, 7) \/ b \in EPOI(v, 7, 7, 6)
                       \/ b \in EPOI(v, 3, 1, 3) \/ b \in EPOI(v, 5, 5, 2)
    OBVIOUS
  <2>6. b \in DOMAIN FormatCJ <=> \/ b = 2 \/ b = 3 \/ b = 4 \/ b = 5 \/ b = 6 \/ b = 7
                                  \/ b = 8 \/ b = 9 \/ b = 10 \/ b = 11 \/ b = 12
    BY FormatCJFacts
  <2>7. QED
    BY <2>2, <2>3, <2>4, <2>5, <2>6, FormatCJFacts
<1>3. write_cjtype(bytes, loc, v) = Replace(bytes, loc, DOMAIN FormatCJ, bits)
  BY FormatCJFacts DEF write_cjtype
<1>4. DOMAIN FormatCJ \in SUBSET Int
  BY FormatCJFacts
<1> HIDE DEF bits
<1>5. QED
  BY <1>1, <1>2, <1>3, <1>4, ReplaceHolds DEF Encodes

-----------------------------------------------------------------------------
(***************************************************************************)
(* Words and LEB128.                                                       *)
(***************************************************************************)
Word(width) == [b \in 0 .. width - 1 |-> b]
Leb(n) == [b \in {8 * (k \div 7) + (k % 7) : k \in 0 .. 7 * n - 1} |-> 7 * (b \div 8) + (b % 8)]

\* A store puts the lower bits of the number at their places and keeps the rest.
LEMMA EncodesWord ==
    ASSUME NEW bytes, NEW loc \in Int, NEW width \in Nat, NEW v \in Int
    PROVE  Encodes(Store(bytes, loc, width, v), bytes, loc, Word(width), v)
<1>1. /\ Bits(v, width) \in SUBSET Int
      /\ \A b \in Int : b \in Bits(v, width) <=> b \in DOMAIN Word(width) /\ bit(v, Word(width)[b])
  BY DEF Bits, Word
<1>2. Store(bytes, loc, width, v) = Replace(bytes, loc, DOMAIN Word(width), Bits(v, width))
  BY DEF Store, Word
<1>3. DOMAIN Word(width) \in SUBSET Int
  BY DEF Word
<1>4. QED
  BY <1>1, <1>2, <1>3, ReplaceHolds DEF Encodes

\* A word is read as the number whose bits it has.
LEMMA WordRead ==
    ASSUME NEW bytes, NEW loc \in Int, NEW width \in Nat, NEW v \in Int,
           Holds(bytes, loc, Word(width), v)
    PROVE  Load(bytes, loc, width) = v % 2 ^ width
<1>1. {n \in 0 .. width - 1 : 8 * loc + n \in bytes} = OneBits(v, 0, width - 1)
  BY DEF Holds, Word, OneBits
<1>2. SumSet(Powers(OneBits(v, 0, 0 + width - 1))) = (v % 2 ^ (0 + width)) - (v % 2 ^ 0)
  BY BitSum
<1>3. v % 2 ^ 0 = 0 /\ v % 2 ^ width \in Int /\ 0 + width - 1 = width - 1 /\ 0 + width = width
  <2>1. 2 ^ 0 = 1 /\ v % 1 = 0
    OBVIOUS
  <2>2. v % 2 ^ width \in Nat
    BY RemainderNext
  <2>3. QED
    BY <2>1, <2>2
<1>4. Load(bytes, loc, width) = SumSet(Powers(OneBits(v, 0, width - 1)))
  BY <1>1 DEF Load, Powers
<1>5. QED
  BY <1>2, <1>3, <1>4

\* There is always one.
LEMMA WordNumber ==
    ASSUME NEW bytes, NEW loc \in Int, NEW width \in Nat
    PROVE  \E v \in Int : Holds(bytes, loc, Word(width), v)
<1> DEFINE Has(v, n) == \A b \in 0 .. n - 1 : 8 * loc + b \in bytes <=> bit(v, b)
           Done == {n \in Nat : \E v \in Nat : v < 2 ^ n /\ Has(v, n)}
<1>1. 0 \in Done
  <2>1. 0 < 2 ^ 0 /\ Has(0, 0)
    OBVIOUS
  <2>2. QED
    BY <2>1
<1>2. ASSUME NEW n \in Done PROVE n + 1 \in Done
  <2>1. n \in Nat
    OBVIOUS
  <2>2. PICK v \in Nat : v < 2 ^ n /\ Has(v, n)
    OBVIOUS
  <2>3. PICK p \in Nat \ {0} : p = 2 ^ n /\ 2 ^ (n + 1) = 2 * p
    BY <2>1, PowerNext
  <2>4. PICK w \in Nat : w = IF 8 * loc + n \in bytes THEN v + p ELSE v
    OBVIOUS
  <2>5. v < p /\ w < 2 * p
    BY <2>2, <2>3, <2>4
  <2>6. w % (2 * p) = w /\ w % p = v /\ v % p = v
    <3>1. p \in Nat \ {0} /\ 2 * p \in Nat \ {0} /\ v \in 0 .. p - 1 /\ w \in 0 .. 2 * p - 1
      BY <2>5
    <3>2. w % (2 * p) = w
      <4>1. w = 0 * (2 * p) + w
        OBVIOUS
      <4>2. (0 * (2 * p) + w) % (2 * p) = w
        BY <3>1, RemainderUnique
      <4>3. QED
        BY <4>1, <4>2
    <3>3. (0 * p + v) % p = v /\ (1 * p + v) % p = v
      BY <3>1, RemainderUnique
    <3>4. v = 0 * p + v /\ (w = v \/ w = 1 * p + v)
      BY <2>4
    <3>5. QED
      BY <3>2, <3>3, <3>4
  <2>7. bit(w, n) <=> 8 * loc + n \in bytes
    <3>1. w % 2 ^ (n + 1) = (w % 2 ^ n) + (IF bit(w, n) THEN 2 ^ n ELSE 0)
      BY <2>1, RemainderNext
    <3>2. w = v + (IF bit(w, n) THEN p ELSE 0)
      BY <2>3, <2>6, <3>1
    <3>3. QED
      BY <2>4, <3>2
  <2>8. \A b \in 0 .. n - 1 : bit(w, b) <=> bit(v, b)
    <3>1. w \in Int /\ v \in Int /\ w % 2 ^ n = v % 2 ^ n
      BY <2>3, <2>6
    <3>2. QED
      BY <2>1, <3>1, BitsOfRemainder
  <2>9. Has(w, n + 1)
    <3>1. \A b \in 0 .. (n + 1) - 1 : b = n \/ b \in 0 .. n - 1
      BY <2>1
    <3>2. QED
      BY <2>2, <2>7, <2>8, <3>1
  <2> HIDE DEF Has
  <2>10. QED
    BY <2>1, <2>3, <2>5, <2>9
<1>3. Done = Nat
  <2>1. Done \in SUBSET Nat
    OBVIOUS
  <2> HIDE DEF Done
  <2>2. QED
    BY <1>1, <1>2, <2>1, Induction
<1>4. PICK v \in Nat : Has(v, width)
  <2>1. width \in Done
    BY <1>3
  <2>2. QED
    BY <2>1
<1>5. QED
  BY <1>4 DEF Holds, Word

\* A number is loaded.
LEMMA LoadTyped ==
    ASSUME NEW bytes, NEW loc \in Int, NEW width \in Nat
    PROVE  Load(bytes, loc, width) \in Nat
<1>1. PICK v \in Int : Holds(bytes, loc, Word(width), v)
  BY WordNumber
<1>2. Load(bytes, loc, width) = v % 2 ^ width
  BY <1>1, WordRead
<1>3. v % 2 ^ width \in Nat
  BY RemainderNext
<1>4. QED
  BY <1>2, <1>3

\* The lower bits of a word are the word of fewer bits.
LEMMA LoadLower ==
    ASSUME NEW bytes, NEW loc \in Int, NEW m \in Nat, NEW n \in Nat, m <= n
    PROVE  Load(bytes, loc, n) % 2 ^ m = Load(bytes, loc, m)
<1>1. PICK v \in Int : Holds(bytes, loc, Word(n), v)
  BY WordNumber
<1>2. Holds(bytes, loc, Word(m), v)
  BY <1>1 DEF Holds, Word
<1>3. Load(bytes, loc, n) = v % 2 ^ n /\ Load(bytes, loc, m) = v % 2 ^ m
  BY <1>1, <1>2, WordRead
<1>4. PICK u \in Nat : u = v % 2 ^ n /\ u < 2 ^ n
  BY RemainderNext
<1>5. u % 2 ^ n = v % 2 ^ n
  <2>1. PICK p \in Nat \ {0} : p = 2 ^ n
    BY PowerNext
  <2>2. u \in 0 .. p - 1 /\ u = 0 * p + u
    BY <1>4, <2>1
  <2>3. (0 * p + u) % p = u
    BY <2>1, <2>2, RemainderUnique
  <2>4. QED
    BY <1>4, <2>1, <2>2, <2>3
<1>6. u % 2 ^ m = v % 2 ^ m
  <2>1. u \in Int
    OBVIOUS
  <2>2. QED
    BY <1>5, <2>1, RemainderLower
<1>7. QED
  BY <1>3, <1>4, <1>6

\* The word depends on its own bits only.
LEMMA LoadSame ==
    ASSUME NEW bytes, NEW new, NEW loc, NEW width,
           \A n \in 0 .. width - 1 : 8 * loc + n \in new <=> 8 * loc + n \in bytes
    PROVE  Load(new, loc, width) = Load(bytes, loc, width)
<1>1. {n \in 0 .. width - 1 : 8 * loc + n \in new} = {n \in 0 .. width - 1 : 8 * loc + n \in bytes}
  OBVIOUS
<1>2. QED
  BY <1>1 DEF Load

\* LEB128: seven bits of each byte.
LEMMA LebIndex ==
    ASSUME NEW k \in Int
    PROVE  LET b == 8 * (k \div 7) + (k % 7)
           IN  /\ b \in Int /\ 7 * (b \div 8) + (b % 8) = k
               /\ b \div 8 = k \div 7 /\ b % 8 = k % 7 /\ k % 7 \in 0 .. 6
OBVIOUS

\* Bit j of byte n of LEB128 is bit 7 * n + j of the number.
LEMMA LebIndexBack ==
    ASSUME NEW n \in Int, NEW j \in 0 .. 6
    PROVE  (7 * n + j) \div 7 = n /\ (7 * n + j) % 7 = j
OBVIOUS

\* A number that is less than a power of two has no bit there, and is its own remainder.
LEMMA LesserRemainder ==
    ASSUME NEW u \in Nat, NEW n \in Nat, u < 2 ^ n
    PROVE  u % 2 ^ n = u
<1>1. PICK p \in Nat \ {0} : p = 2 ^ n
  BY PowerNext
<1>2. u \in 0 .. p - 1 /\ u = 0 * p + u
  BY <1>1
<1>3. (0 * p + u) % p = u
  BY <1>1, <1>2, RemainderUnique
<1>4. QED
  BY <1>1, <1>2, <1>3

\* A number has no bits above its highest.
LEMMA NoHighBit ==
    ASSUME NEW u \in Nat, NEW k \in Nat, u < 2 ^ k
    PROVE  ~bit(u, k)
<1>1. PICK p \in Nat \ {0} : p = 2 ^ k
  BY PowerNext
<1>2. u \div p = 0
  <2>1. u \in Int /\ p \in Nat \ {0}
    OBVIOUS
  <2>2. u = (u \div p) * p + (u % p) /\ u % p \in 0 .. p - 1 /\ u \div p \in Int
    BY <2>1, DivisionFacts
  <2>3. PICK d, e \in Int : d = u \div p /\ e = u % p
    BY <2>2
  <2>4. u = d * p + e /\ 0 <= e /\ e < p /\ u < p
    BY <1>1, <2>2, <2>3
  <2>5. CASE d >= 1
    <3>1. d * p >= p
      BY <2>5
    <3>2. QED
      BY <2>4, <3>1
  <2>6. CASE d <= -1
    <3>1. d * p <= -p
      BY <2>6
    <3>2. QED
      BY <2>4, <3>1
  <2>7. QED
    BY <2>3, <2>5, <2>6
<1>3. QED
  BY <1>1, <1>2 DEF bit

\* The last bit of a number that goes into byte n of LEB128.
LebTop(n) == Min({7 * n + 6, AddrBits - 1})

\* The lesser of two numbers.
LEMMA MinOfTwo ==
    ASSUME NEW a \in Int, NEW c \in Int
    PROVE  Min({a, c}) = IF a < c THEN a ELSE c
<1>1. PICK x \in Int : x = (IF a < c THEN a ELSE c) /\ x \in {a, c} /\ (\A y \in {a, c} : x <= y)
  OBVIOUS
<1>2. \A z \in {a, c} : (\A y \in {a, c} : z <= y) => z = x
  BY <1>1
<1>3. QED
  BY <1>1, <1>2 DEF Min

\* The last bit of a number that goes into a byte of LEB128.
LEMMA LebTopFacts ==
    ASSUME NEW n \in Nat
    PROVE  /\ LebTop(n) \in Int /\ LebTop(n) <= 7 * n + 6 /\ LebTop(n) < AddrBits
           /\ \A k \in Int : k <= 7 * n + 6 /\ k < AddrBits => k <= LebTop(n)
<1>1. PICK a, c \in Int : a = 7 * n + 6 /\ c = AddrBits - 1 /\ AddrBits \in Nat
  BY WidthAssumption
<1>2. LebTop(n) = IF a < c THEN a ELSE c
  BY <1>1, MinOfTwo DEF LebTop
<1>3. QED
  BY <1>1, <1>2

\* overwrite_uleb puts seven bits of the number in every byte, zeros above those
\* of a uint64_t, and keeps the length.
LEMMA EncodesLeb ==
    ASSUME NEW bytes, NEW loc \in Int, NEW v, NEW u, NEW n \in Nat, UlebLength(bytes, loc) = n,
           \A k \in 0 .. 7 * n - 1 : bit(u, k) <=> k < AddrBits /\ bit(v, k)
    PROVE  Encodes(Overwrite_uleb(bytes, loc, v), bytes, loc, Leb(n), u)
<1> DEFINE cleared == UNION {At(loc + i, 0 .. 6) : i \in 0 .. n - 1}
           set == UNION {At(loc + i, EPOI(v, LebTop(i), 7 * i, 0)) : i \in 0 .. n - 1}
           new == Overwrite_uleb(bytes, loc, v)
<1>1. new = (bytes \ cleared) \union set
  BY DEF Overwrite_uleb, LebTop
<1>2. DOMAIN Leb(n) \in SUBSET Int
  BY LebIndex DEF Leb
<1>3. cleared = At(loc, DOMAIN Leb(n))
  <2>1. ASSUME NEW x \in cleared PROVE x \in At(loc, DOMAIN Leb(n))
    <3>1. PICK i \in 0 .. n - 1 : x \in At(loc + i, 0 .. 6)
      OBVIOUS
    <3>2. PICK j \in 0 .. 6 : x = 8 * (loc + i) + j
      BY <3>1 DEF At
    <3>3. PICK k : k = 7 * i + j
      OBVIOUS
    <3>4. k \in 0 .. 7 * n - 1 /\ k \div 7 = i /\ k % 7 = j
      BY <3>3, LebIndexBack
    <3>5. 8 * i + j \in DOMAIN Leb(n) /\ x = 8 * loc + (8 * i + j)
      BY <3>2, <3>4 DEF Leb
    <3>6. QED
      BY <3>5 DEF At
  <2>2. ASSUME NEW x \in At(loc, DOMAIN Leb(n)) PROVE x \in cleared
    <3>1. PICK k \in 0 .. 7 * n - 1 : x = 8 * loc + (8 * (k \div 7) + (k % 7))
      BY DEF At, Leb
    <3>2. k \div 7 \in 0 .. n - 1 /\ k % 7 \in 0 .. 6 /\ x = 8 * (loc + (k \div 7)) + (k % 7)
      BY <3>1
    <3>3. QED
      BY <3>2 DEF At
  <2>3. QED
    BY <2>1, <2>2
<1>4. set \subseteq cleared
  <2>1. ASSUME NEW i \in 0 .. n - 1, NEW x \in At(loc + i, EPOI(v, LebTop(i), 7 * i, 0))
        PROVE  x \in At(loc + i, 0 .. 6)
    <3>1. PICK b \in EPOI(v, LebTop(i), 7 * i, 0) : x = 8 * (loc + i) + b
      BY DEF At
    <3>2. b \in 0 .. 6
      <4>1. i \in Nat /\ LebTop(i) \in Int /\ LebTop(i) <= 7 * i + 6
        BY LebTopFacts
      <4>2. QED
        BY <4>1 DEF EPOI
    <3>3. QED
      BY <3>1, <3>2 DEF At
  <2>2. QED
    BY <2>1
<1>5. ASSUME NEW b \in DOMAIN Leb(n) PROVE 8 * loc + b \in set <=> bit(u, Leb(n)[b])
  <2>1. PICK k \in 0 .. 7 * n - 1 : b = 8 * (k \div 7) + (k % 7)
    BY DEF Leb
  <2>2. b \in Int /\ Leb(n)[b] = k
    BY <2>1, LebIndex DEF Leb
  <2>3. PICK i \in 0 .. n - 1, j \in 0 .. 6 : i = k \div 7 /\ j = k % 7 /\ k = 7 * i + j /\ b = 8 * i + j
    <3>1. k \div 7 \in 0 .. n - 1 /\ k % 7 \in 0 .. 6 /\ k = 7 * (k \div 7) + (k % 7)
      OBVIOUS
    <3>2. QED
      BY <2>1, <3>1
  <2>0. bit(u, k) <=> k < AddrBits /\ bit(v, k)
    OBVIOUS
  <2>4. ASSUME 8 * loc + b \in set PROVE bit(u, k)
    <3>1. PICK h \in 0 .. n - 1 : 8 * loc + b \in At(loc + h, EPOI(v, LebTop(h), 7 * h, 0))
      BY <2>4
    <3>2. PICK c \in EPOI(v, LebTop(h), 7 * h, 0) : 8 * loc + b = 8 * (loc + h) + c
      BY <3>1 DEF At
    <3>3. PICK l \in 7 * h .. LebTop(h) : bit(v, l) /\ c = l - 7 * h + 0
      BY <3>2 DEF EPOI
    <3>7. l \in 7 * h .. 7 * h + 6 /\ l < AddrBits
      <4>1. h \in Nat /\ LebTop(h) \in Int /\ LebTop(h) <= 7 * h + 6 /\ LebTop(h) < AddrBits
        BY LebTopFacts
      <4>2. AddrBits \in Nat
        BY WidthAssumption
      <4>3. QED
        BY <4>1, <4>2
    <3>4. 8 * i + j = 8 * h + (l - 7 * h) /\ l - 7 * h \in 0 .. 6
      BY <2>3, <3>2, <3>3, <3>7
    <3>5. h = i /\ l = k
      BY <2>3, <3>4
    <3>6. QED
      BY <2>0, <3>3, <3>5, <3>7
  <2>5. ASSUME bit(u, k) PROVE 8 * loc + b \in set
    <3>1. k \in 7 * i .. LebTop(i) /\ j = k - 7 * i + 0 /\ bit(v, k)
      <4>1. k \in 7 * i .. 7 * i + 6 /\ k < AddrBits /\ j = k - 7 * i + 0
        BY <2>0, <2>3, <2>5
      <4>2. QED
        <5>1. i \in Nat /\ k \in Int
          OBVIOUS
        <5>2. LebTop(i) \in Int /\ k <= LebTop(i)
          BY <4>1, <5>1, LebTopFacts
        <5>3. QED
          BY <2>0, <2>5, <4>1, <5>1, <5>2
    <3>2. j \in EPOI(v, LebTop(i), 7 * i, 0)
      BY <3>1 DEF EPOI
    <3>3. 8 * loc + b = 8 * (loc + i) + j
      BY <2>3
    <3>4. 8 * loc + b \in At(loc + i, EPOI(v, LebTop(i), 7 * i, 0))
      BY <3>2, <3>3 DEF At
    <3>5. QED
      BY <3>4
  <2>6. QED
    BY <2>2, <2>4, <2>5
<1>6. \A b \in DOMAIN Leb(n) : 8 * loc + b \in cleared
  BY <1>3 DEF At
<1> HIDE DEF cleared, set, new
<1>7. Holds(new, loc, Leb(n), u)
  BY <1>1, <1>5, <1>6 DEF Holds
<1>8. Keeps(new, bytes, At(loc, DOMAIN Leb(n)))
  BY <1>1, <1>3, <1>4 DEF Keeps
<1>9. QED
  BY <1>7, <1>8 DEF Encodes, new

\* The number as a uint64_t: its bits below AddrBits.
LEMMA Narrowed ==
    ASSUME NEW v \in Int
    PROVE  \E u \in Nat : /\ u % 2 ^ AddrBits = v % 2 ^ AddrBits /\ u < 2 ^ AddrBits
                         /\ \A k \in Nat : bit(u, k) <=> k < AddrBits /\ bit(v, k)
<1>1. PICK q \in Nat \ {0} : q = 2 ^ AddrBits /\ AddrBits \in Nat
  BY WidthAssumption, PowerNext
<1>2. PICK u \in Nat : u = v % 2 ^ AddrBits /\ u < 2 ^ AddrBits
  BY <1>1, RemainderNext
<1>3. u % 2 ^ AddrBits = v % 2 ^ AddrBits
  BY <1>1, <1>2, LesserRemainder
<1>4. ASSUME NEW k \in Nat PROVE bit(u, k) <=> k < AddrBits /\ bit(v, k)
  <2>1. CASE k < AddrBits
    <3>1. k \in 0 .. AddrBits - 1 /\ u \in Int
      BY <1>1, <2>1
    <3>2. QED
      BY <1>1, <1>3, <2>1, <3>1, BitsOfRemainder
  <2>2. CASE AddrBits <= k
    <3>1. u < 2 ^ k
      <4>1. PICK p \in Nat \ {0} : p = 2 ^ k
        BY PowerNext
      <4>2. AddrBits = k \/ q < p
        BY <1>1, <2>2, <4>1, PowerOrder
      <4>3. QED
        BY <1>1, <1>2, <4>1, <4>2
    <3>2. ~bit(u, k)
      BY <3>1, NoHighBit
    <3>3. QED
      BY <1>1, <2>2, <3>2
  <2>3. QED
    BY <1>1, <2>1, <2>2
<1>5. QED
  BY <1>2, <1>3, <1>4

\* The number that n bytes of LEB128 stand for.
LebValue(bytes, loc, n) ==
    SumSet({2 ^ b : b \in {k \in 0 .. 7 * n - 1 : 8 * (loc + (k \div 7)) + (k % 7) \in bytes}})

\* What is read of LEB128 are the lower bits of the number that has been put
\* there, of a uint64_t.
LEMMA LebRead ==
    ASSUME NEW bytes, NEW loc \in Int, NEW v \in Int, NEW n \in Nat, Holds(bytes, loc, Leb(n), v)
    PROVE  LebValue(bytes, loc, n) = v % 2 ^ (7 * n)
<1>0. 7 * n \in Nat
  OBVIOUS
<1>1. {k \in 0 .. 7 * n - 1 : 8 * (loc + (k \div 7)) + (k % 7) \in bytes} = OneBits(v, 0, 7 * n - 1)
  <2>1. ASSUME NEW k \in 0 .. 7 * n - 1
        PROVE  8 * (loc + (k \div 7)) + (k % 7) \in bytes <=> bit(v, k)
    <3>1. PICK b : b = 8 * (k \div 7) + (k % 7)
      OBVIOUS
    <3>2. b \in DOMAIN Leb(n) /\ Leb(n)[b] = k
      BY <3>1, LebIndex DEF Leb
    <3>3. 8 * loc + b = 8 * (loc + (k \div 7)) + (k % 7)
      BY <3>1
    <3>4. QED
      BY <3>2, <3>3 DEF Holds
  <2>2. QED
    BY <2>1 DEF OneBits
<1>2. SumSet(Powers(OneBits(v, 0, 0 + 7 * n - 1))) = (v % 2 ^ (0 + 7 * n)) - (v % 2 ^ 0)
  BY <1>0, BitSum
<1>3. v % 2 ^ 0 = 0 /\ v % 2 ^ (7 * n) \in Int /\ 0 + 7 * n - 1 = 7 * n - 1 /\ 0 + 7 * n = 7 * n
  <2>1. 2 ^ 0 = 1 /\ v % 1 = 0
    OBVIOUS
  <2>2. v % 2 ^ (7 * n) \in Nat
    BY <1>0, RemainderNext
  <2>3. QED
    BY <2>1, <2>2
<1>4. LebValue(bytes, loc, n) = SumSet(Powers(OneBits(v, 0, 7 * n - 1)))
  BY <1>1 DEF LebValue, Powers
<1>5. QED
  BY <1>2, <1>3, <1>4

\* What overwrite_uleb puts there is a uint64_t.
LEMMA LebPut ==
    ASSUME NEW bytes, NEW loc \in Int, NEW v \in Int, NEW u \in Nat, NEW n \in Nat,
           u % 2 ^ AddrBits = v % 2 ^ AddrBits, u < 2 ^ AddrBits, Holds(bytes, loc, Leb(n), u)
    PROVE  LebValue(bytes, loc, n) = v % 2 ^ (IF 7 * n <= AddrBits THEN 7 * n ELSE AddrBits)
<1>1. PICK a, w \in Nat : a = AddrBits /\ w = 7 * n
  BY WidthAssumption
<1>0. u \in Int /\ u % 2 ^ a = v % 2 ^ a /\ u < 2 ^ a
  BY <1>1
<1>2. LebValue(bytes, loc, n) = u % 2 ^ w
  BY <1>1, LebRead
<1>3. CASE w <= a
  <2>2. u % 2 ^ w = v % 2 ^ w
    BY <1>0, <1>3, RemainderLower
  <2>3. QED
    BY <1>1, <1>2, <1>3, <2>2
<1>4. CASE a < w
  <2>1. PICK p, q \in Nat : p = 2 ^ a /\ q = 2 ^ w
    BY PowerNext
  <2>2. p < q
    BY <1>4, <2>1, PowerOrder
  <2>3. u < 2 ^ w
    BY <1>0, <2>1, <2>2
  <2>4. u % 2 ^ w = u
    BY <2>3, LesserRemainder
  <2>5. (IF 7 * n <= AddrBits THEN 7 * n ELSE AddrBits) = a
    BY <1>1, <1>4
  <2>6. v % 2 ^ a = u
    BY <1>0, LesserRemainder
  <2>7. QED
    BY <1>1, <1>2, <2>4, <2>5, <2>6
<1>5. QED
  BY <1>3, <1>4

\* There is always one in LEB128, too.
LEMMA LebNumber ==
    ASSUME NEW bytes, NEW loc \in Int, NEW n \in Nat
    PROVE  \E v \in Int : Holds(bytes, loc, Leb(n), v)
<1>1. PICK K : K = {k \in 0 .. 7 * n - 1 : 8 * (loc + (k \div 7)) + (k % 7) \in bytes}
  OBVIOUS
<1>2. PICK w \in Nat, l \in Int : w = 7 * n /\ l = 0
  OBVIOUS
<1>3. PICK v \in Int : Holds(K, l, Word(w), v)
  BY WordNumber
<1>4. ASSUME NEW k \in 0 .. 7 * n - 1
      PROVE  8 * (loc + (k \div 7)) + (k % 7) \in bytes <=> bit(v, k)
  <2>1. k \in DOMAIN Word(w) /\ Word(w)[k] = k
    BY <1>2 DEF Word
  <2>2. 8 * l + k \in K <=> bit(v, k)
    BY <1>3, <2>1 DEF Holds
  <2>3. 8 * l + k = k
    BY <1>2
  <2>4. QED
    BY <1>1, <2>2, <2>3
<1>5. ASSUME NEW b \in DOMAIN Leb(n) PROVE 8 * loc + b \in bytes <=> bit(v, Leb(n)[b])
  <2>1. PICK k \in 0 .. 7 * n - 1 : b = 8 * (k \div 7) + (k % 7)
    BY DEF Leb
  <2>2. b \in Int /\ Leb(n)[b] = k
    BY <2>1, LebIndex DEF Leb
  <2>3. 8 * loc + b = 8 * (loc + (k \div 7)) + (k % 7)
    BY <2>1
  <2>4. QED
    BY <1>4, <2>2, <2>3
<1>6. QED
  BY <1>5 DEF Holds

\* Its bits are those that are found there.
LEMMA LebBit ==
    ASSUME NEW bytes, NEW loc \in Int, NEW n \in Nat
    PROVE  /\ LebValue(bytes, loc, n) \in Nat
           /\ \A k \in 0 .. 7 * n - 1 :
                8 * (loc + (k \div 7)) + (k % 7) \in bytes <=> bit(LebValue(bytes, loc, n), k)
<1>1. PICK v \in Int : Holds(bytes, loc, Leb(n), v)
  BY LebNumber
<1>2. PICK w \in Nat : w = 7 * n
  OBVIOUS
<1>3. LebValue(bytes, loc, n) = v % 2 ^ w
  BY <1>1, <1>2, LebRead
<1>4. PICK u \in Nat : u = v % 2 ^ w /\ u < 2 ^ w
  BY RemainderNext
<1>5. u % 2 ^ w = v % 2 ^ w
  BY <1>4, LesserRemainder
<1>6. ASSUME NEW k \in 0 .. 7 * n - 1
      PROVE  8 * (loc + (k \div 7)) + (k % 7) \in bytes <=> bit(u, k)
  <2>1. u \in Int /\ k \in 0 .. w - 1
    BY <1>2
  <2>2. bit(u, k) <=> bit(v, k)
    BY <1>5, <2>1, BitsOfRemainder
  <2>3. PICK b : b = 8 * (k \div 7) + (k % 7)
    OBVIOUS
  <2>4. b \in DOMAIN Leb(n) /\ Leb(n)[b] = k
    BY <2>3, LebIndex DEF Leb
  <2>5. 8 * loc + b = 8 * (loc + (k \div 7)) + (k % 7)
    BY <2>3
  <2>6. QED
    BY <1>1, <2>2, <2>4, <2>5 DEF Holds
<1>7. QED
  BY <1>3, <1>4, <1>6

\* What read_uleb sums up are bits of a uint64_t.
ReadBits(bytes, loc, wraps) ==
    UNION {shifted(Sevens(bytes, loc, i), 7 * i, wraps) : i \in 0 .. UlebLength(bytes, loc) - 1}

\* What read_uleb sums up are bits of a uint64_t, finitely many.
LEMMA ReadTyped ==
    ASSUME NEW bytes, NEW loc, NEW wraps
    PROVE  read_uleb(bytes, loc, wraps) \in Int
<1>1. PICK K : K = ReadBits(bytes, loc, wraps)
  OBVIOUS
<1>2. PICK w, a \in Nat : w = WordBits /\ a = AddrBits /\ w < a
  BY WidthAssumption
<1>3. ASSUME NEW bits, NEW shift PROVE shifted(bits, shift, wraps) \subseteq 0 .. a - 1
  BY <1>2 DEF shifted
<1>4. K \subseteq 0 .. a - 1
  BY <1>1, <1>3 DEF ReadBits
<1>5. IsFiniteSet(0 .. a - 1) /\ 0 .. a - 1 \subseteq Nat
  <2>1. a - 1 \in Int
    OBVIOUS
  <2>2. QED
    BY <2>1, FS_Interval
<1>6. K \in SUBSET Nat /\ IsFiniteSet(K)
  BY <1>4, <1>5, FS_Subset
<1>7. Powers(K) \in SUBSET Int /\ IsFiniteSet(Powers(K))
  BY <1>6, PowersFinite
<1>8. read_uleb(bytes, loc, wraps) = SumSet(Powers(K))
  BY <1>1 DEF read_uleb, Powers, ReadBits
<1>9. QED
  BY <1>7, <1>8, SumChosen

\* An int holds what has no bit from its sign on: nothing is lost or extended.
LEMMA ReadExactly ==
    ASSUME NEW bytes, NEW loc \in Int, NEW n \in Nat, UlebLength(bytes, loc) = n, NEW wraps,
           7 * n < WordBits \/ LebValue(bytes, loc, n) < 2 ^ (WordBits - 1)
    PROVE  read_uleb(bytes, loc, wraps) = LebValue(bytes, loc, n)
<1> DEFINE Is(k) == 8 * (loc + (k \div 7)) + (k % 7) \in bytes
<1>1. PICK w \in Nat \ {0} : w = WordBits
  BY WidthAssumption
<1>2. ASSUME NEW k \in 0 .. 7 * n - 1, Is(k) PROVE k < w - 1
  <2>1. CASE 7 * n < w
    BY <2>1
  <2>2. CASE LebValue(bytes, loc, n) < 2 ^ (w - 1)
    <3>1. PICK u \in Nat : u = LebValue(bytes, loc, n) /\ bit(u, k)
      BY <1>2, LebBit
    <3>2. k \in Nat /\ w - 1 \in Nat
      OBVIOUS
    <3>3. PICK p, q \in Nat : p = 2 ^ (w - 1) /\ q = 2 ^ k
      BY <3>2, PowerNext
    <3>4. ~(u < q)
      BY <3>1, <3>2, <3>3, NoHighBit
    <3>5. u < p
      BY <2>2, <3>1, <3>3
    <3>6. w - 1 < k => p < q
      BY <3>2, <3>3, PowerOrder
    <3>7. w - 1 = k => p = q
      BY <3>3
    <3>8. QED
      BY <3>2, <3>4, <3>5, <3>6, <3>7
  <2>3. QED
    BY <1>1, <2>1, <2>2
<1>3. ASSUME NEW i \in 0 .. n - 1
      PROVE  shifted(Sevens(bytes, loc, i), 7 * i, wraps) = {7 * i + b : b \in Sevens(bytes, loc, i)}
  <2>1. ASSUME NEW b \in Sevens(bytes, loc, i) PROVE b \in 0 .. 6 /\ 7 * i + b < w - 1
    <3>1. b \in 0 .. 6 /\ 8 * (loc + i) + b \in bytes
      BY DEF Sevens
    <3>2. PICK k \in Int : k = 7 * i + b
      BY <3>1
    <3>3. k \in 0 .. 7 * n - 1 /\ k \div 7 = i /\ k % 7 = b
      BY <3>1, <3>2, LebIndexBack
    <3>4. Is(k)
      BY <3>1, <3>3
    <3>5. k < w - 1
      BY <1>2, <3>3, <3>4
    <3>6. QED
      BY <3>1, <3>2, <3>5
  <2>0. PICK B : B = Sevens(bytes, loc, i)
    OBVIOUS
  <2>7. PICK s \in Nat : s = 7 * i
    OBVIOUS
  <2>2. B = Sevens(bytes, loc, i) /\ s = 7 * i
    BY <2>0, <2>7
  <2>3. \A b \in B : b \in 0 .. 6 /\ s + b < w - 1
    BY <2>1, <2>2
  <2>4. CASE s >= w
    <3>1. B = {}
      BY <2>3, <2>4
    <3>2. shifted(B, s, wraps) = {}
      BY <1>1, <3>1 DEF shifted
    <3>3. QED
      BY <2>2, <3>1, <3>2
  <2>5. CASE s < w
    <3>1. s % w = s
      BY <2>5
    <3>2. PICK I : I = {b + (s % w) : b \in B} \intersect 0 .. w - 1
      OBVIOUS
    <3>3. I = {s + b : b \in B} /\ w - 1 \notin I
      BY <2>3, <3>1, <3>2
    <3>4. shifted(B, s, wraps) = I
      BY <1>1, <2>5, <3>2, <3>3 DEF shifted
    <3>5. QED
      BY <2>2, <3>3, <3>4
  <2>6. QED
    BY <2>2, <2>4, <2>5
<1>4. ReadBits(bytes, loc, wraps) = {k \in 0 .. 7 * n - 1 : Is(k)}
  <2>1. ASSUME NEW k \in ReadBits(bytes, loc, wraps) PROVE k \in 0 .. 7 * n - 1 /\ Is(k)
    <3>1. PICK i \in 0 .. n - 1 : k \in shifted(Sevens(bytes, loc, i), 7 * i, wraps)
      BY DEF ReadBits
    <3>2. PICK b \in Sevens(bytes, loc, i) : k = 7 * i + b
      BY <1>3, <3>1
    <3>3. b \in 0 .. 6 /\ 8 * (loc + i) + b \in bytes
      BY DEF Sevens
    <3>4. k \in 0 .. 7 * n - 1 /\ k \div 7 = i /\ k % 7 = b
      BY <3>2, <3>3, LebIndexBack
    <3>5. QED
      BY <3>3, <3>4
  <2>2. ASSUME NEW k \in 0 .. 7 * n - 1, Is(k) PROVE k \in ReadBits(bytes, loc, wraps)
    <3>1. PICK i \in 0 .. n - 1, b \in 0 .. 6 : i = k \div 7 /\ b = k % 7 /\ k = 7 * i + b
      <4>1. k \div 7 \in 0 .. n - 1 /\ k % 7 \in 0 .. 6 /\ k = 7 * (k \div 7) + (k % 7)
        OBVIOUS
      <4>2. QED
        BY <4>1
    <3>2. b \in Sevens(bytes, loc, i)
      BY <2>2, <3>1 DEF Sevens
    <3>3. k \in shifted(Sevens(bytes, loc, i), 7 * i, wraps)
      BY <1>3, <3>1, <3>2
    <3>4. QED
      BY <3>3 DEF ReadBits
  <2>3. QED
    BY <2>1, <2>2
<1>5. LebValue(bytes, loc, n) = SumSet(Powers({k \in 0 .. 7 * n - 1 : Is(k)}))
  BY DEF LebValue, Powers
<1>6. read_uleb(bytes, loc, wraps) = SumSet(Powers(ReadBits(bytes, loc, wraps)))
  BY DEF read_uleb, Powers, ReadBits
<1>7. QED
  BY <1>4, <1>5, <1>6

-----------------------------------------------------------------------------
(***************************************************************************)
(* The types of the state.                                                 *)
(***************************************************************************)
TypeInv ==
    /\ shapes \in [Members -> MemberShapes]
    /\ addr \in [Places -> Addresses]
    /\ rels \in [Members -> Seq(Rel)]
    /\ image \in [Members -> SUBSET Int]
    /\ phase \in {"sort", "copy", "relocate", "done"} \union Failures
    /\ member \in 1 .. NumMembers + 1 /\ relIdx \in Nat \ {0}
    /\ phase \in {"sort", "relocate"} \union Failures => member \in Members
    /\ phase \in Failures => relIdx \in DOMAIN rels[member]

\* The relocations, the size and the bits of a member.
LEMMA ShapeTyped ==
    ASSUME TypeInv, NEW m \in Members
    PROVE  /\ shapes[m].rels \in Seq(Rel) /\ shapes[m].size \in Nat /\ shapes[m].data \in SUBSET Nat
           /\ \A b \in shapes[m].data : b < 8 * shapes[m].size
<1>1. shapes[m] \in MemberShapes
  BY DEF TypeInv
<1>2. QED
  BY <1>1, MembersAssumption

\* Where a symbol has no address that could be computed.
Nowhere == {DeadPiece, Unplaced, Unbound}

\* Addresses are numbers.
LEMMA AddressTyped ==
    ASSUME TypeInv, NEW s \in DOMAIN Symbols, NEW m \in Members
    PROVE  /\ isec_addr(m) \in Int /\ get_sym_addr(s, m) \in Int /\ GlobalAddr(Symbols[s], m) \in Int
           /\ Symbols[s].val \in Nat
<1>1. PICK sym \in Symbol : sym = Symbols[s]
  BY SymbolsAssumption
<1>2. sym.val \in Nat /\ sym.where \in Places \union {Here, Absolute} \union Nowhere
  BY DEF Symbol, Nowhere
<1>3. isec_addr(m) \in Int
  <2>1. m \in Int /\ m - 1 \in Int /\ Base \in Int /\ Stride \in Int
    BY AddressAssumption, MembersAssumption DEF Members
  <2>2. Stride * (m - 1) \in Int
    BY <2>1
  <2>3. QED
    BY <2>1, <2>2 DEF isec_addr
<1>4. GlobalAddr(sym, m) \in Int
  <2>1. CASE sym.where \in Nowhere
    <3>1. GlobalAddr(sym, m) = 0
      BY <2>1 DEF GlobalAddr, Here, Absolute, DeadPiece, Unplaced, Unbound, Nowhere
    <3>2. QED
      BY <3>1
  <2>2. CASE sym.where \notin Nowhere /\ sym.where = Absolute
    <3>1. GlobalAddr(sym, m) = sym.val
      BY <2>2 DEF GlobalAddr, Here, Absolute, DeadPiece, Unplaced, Unbound, Nowhere
    <3>2. QED
      BY <1>2, <3>1
  <2>3. CASE sym.where \notin Nowhere /\ sym.where # Absolute /\ sym.where = Here
    <3>1. GlobalAddr(sym, m) = isec_addr(m) + sym.val
      BY <2>3 DEF GlobalAddr, Here, Absolute, DeadPiece, Unplaced, Unbound, Nowhere
    <3>2. QED
      BY <1>2, <1>3, <3>1
  <2>4. CASE sym.where \notin Nowhere /\ sym.where # Absolute /\ sym.where # Here
    <3>1. GlobalAddr(sym, m) = addr[sym.where] + sym.val
      BY <2>4 DEF GlobalAddr, Nowhere
    <3>2. addr[sym.where] \in Nat
      <4>1. sym.where \in Places
        BY <1>2, <2>4
      <4>2. QED
        BY <4>1, AddressAssumption DEF TypeInv
    <3>3. QED
      BY <1>2, <3>1, <3>2
  <2>5. QED
    BY <2>1, <2>2, <2>3, <2>4
<1>5. get_sym_addr(s, m) \in Int
  BY <1>1, <1>2, <1>3, <1>4 DEF get_sym_addr
<1>6. QED
  BY <1>1, <1>2, <1>3, <1>4, <1>5

\* What a relocation of a member is made of.
LEMMA RelTyped ==
    ASSUME TypeInv, NEW m \in Members, NEW i \in DOMAIN rels[m]
    PROVE  LET r == rels[m][i]
           IN  /\ r \in Rel /\ r.offset \in Nat /\ r.addend \in Int /\ r.sym \in DOMAIN Symbols
               /\ Absolutely(r, m) \in Int /\ Relatively(r, m) \in Int /\ Target(r, m) \in Int
               /\ i \in Nat \ {0}
<1>1. rels[m] \in Seq(Rel)
  BY DEF TypeInv
<1>2. PICK r \in Rel : r = rels[m][i]
  BY <1>1
<1>3. r.offset \in Nat /\ r.addend \in Int /\ r.sym \in DOMAIN Symbols
  BY DEF Rel
<1>4. isec_addr(m) \in Int /\ get_sym_addr(r.sym, m) \in Int /\ GlobalAddr(Symbols[r.sym], m) \in Int
  BY <1>3, AddressTyped
<1>5. Absolutely(r, m) \in Int /\ Relatively(r, m) \in Int /\ Target(r, m) \in Int
  BY <1>3, <1>4 DEF Absolutely, Relatively, Target
<1>6. i \in Nat \ {0}
  BY <1>1
<1>7. QED
  BY <1>2, <1>3, <1>5, <1>6

\* What the relocation at hand is made of.
LEMMA ThisTyped ==
    ASSUME TypeInv, NowRelocating
    PROVE  /\ member \in Members /\ relIdx \in Nat \ {0} /\ image[member] \in SUBSET Int
           /\ This \in Rel /\ This.offset \in Nat /\ This.addend \in Int /\ This.sym \in DOMAIN Symbols
           /\ S_A \in Int /\ S_A_P \in Int
<1>1. member \in Members
  BY DEF TypeInv, NowRelocating
<1>2. QED
  BY <1>1, RelTyped DEF TypeInv, NowRelocating, This, S_A, S_A_P

\* What the sort may do.
LEMMA SortedFacts ==
    ASSUME NEW A, NEW rs \in Seq(A), NEW t \in Sorted(rs)
    PROVE  t \in Seq(A) /\ InOrder(t) /\ (InOrder(rs) => t = rs)
<1>1. CASE InOrder(rs)
  BY <1>1 DEF Sorted
<1>2. CASE ~InOrder(rs)
  <2>1. PICK p \in [DOMAIN rs -> DOMAIN rs] : t = [n \in DOMAIN rs |-> rs[p[n]]] /\ InOrder(t)
    BY <1>2 DEF Sorted
  <2>2. PICK n \in Nat : DOMAIN rs = 1 .. n
    OBVIOUS
  <2>3. t \in [1 .. n -> A]
    BY <2>1, <2>2
  <2>4. QED
    BY <1>2, <2>1, <2>3
<1>3. QED
  BY <1>1, <1>2

\* In a sequence that is in order every relocation is at or behind those before it.
LEMMA OrderTransitive ==
    ASSUME NEW rs \in Seq(Rel), InOrder(rs), NEW i \in DOMAIN rs
    PROVE  \A j \in DOMAIN rs : i <= j => rs[i].offset <= rs[j].offset
<1>0. i \in Nat \ {0} /\ Len(rs) \in Nat /\ DOMAIN rs = 1 .. Len(rs)
  OBVIOUS
<1>1. \A n \in DOMAIN rs : rs[n].offset \in Nat
  <2> TAKE n \in DOMAIN rs
  <2>1. rs[n] \in Rel
    OBVIOUS
  <2>2. QED
    BY <2>1 DEF Rel
<1> DEFINE Done == {d \in Nat : i + d \in DOMAIN rs => rs[i].offset <= rs[i + d].offset}
<1>2. 0 \in Done
  <2>1. i + 0 = i
    BY <1>0
  <2>2. QED
    BY <1>1, <2>1
<1>3. ASSUME NEW d \in Done PROVE d + 1 \in Done
  <2>1. d \in Nat
    OBVIOUS
  <2>2. ASSUME i + (d + 1) \in DOMAIN rs PROVE rs[i].offset <= rs[i + (d + 1)].offset
    <3>1. PICK n \in Nat : n = i + d
      BY <1>0, <2>1
    <3>2. n \in 1 .. Len(rs) - 1 /\ n + 1 = i + (d + 1) /\ n \in DOMAIN rs /\ n + 1 \in DOMAIN rs
      BY <1>0, <2>1, <2>2, <3>1
    <3>3. rs[n].offset <= rs[n + 1].offset
      BY <3>2 DEF InOrder
    <3>4. rs[i].offset <= rs[n].offset
      BY <3>1, <3>2
    <3>5. rs[i].offset \in Nat /\ rs[n].offset \in Nat /\ rs[n + 1].offset \in Nat
      BY <1>1, <3>2
    <3>6. QED
      BY <3>2, <3>3, <3>4, <3>5
  <2>3. QED
    BY <2>1, <2>2
<1>4. Done = Nat
  <2>1. Done \in SUBSET Nat
    OBVIOUS
  <2> HIDE DEF Done
  <2>2. QED
    BY <1>2, <1>3, <2>1, Induction
<1>5. ASSUME NEW j \in DOMAIN rs, i <= j PROVE rs[i].offset <= rs[j].offset
  <2>1. PICK d \in Nat : d = j - i /\ i + d = j
    BY <1>0, <1>5
  <2>2. d \in Done
    BY <1>4
  <2>3. QED
    BY <2>1, <2>2
<1>6. QED
  BY <1>5

-----------------------------------------------------------------------------
(***************************************************************************)
(* What a relocation does to the member.                                   *)
(***************************************************************************)
Calls == {"CALL", "CALL_PLT"}
Highs == {"PCREL_HI20", "HI20"}
Adds == {"ADD16", "ADD32", "ADD64"}
Subs == {"SUB16", "SUB32", "SUB64", "SUB6", "SUB_ULEB128"}
Sets == {"SET6", "SET8", "SET16", "SET32", "SET_ULEB128"}

\* The bits of the field that relocations of one place share, and its value.
Extent(r, m) ==
    IF r.type = "SUB6" THEN 6
    ELSE IF IsUleb(r) /\ Width(r, m) > AddrBits THEN AddrBits ELSE Width(r, m)
FieldValue(r, m, bytes) ==
    IF IsUleb(r) THEN LebValue(bytes, r.offset, UlebLength(shapes[m].data, r.offset))
                 ELSE Load(bytes, r.offset, Extent(r, m))

\* LEB128 has in bytes the length it has in the file.
LebSame(r, m, bytes) ==
    IsUleb(r) => /\ UlebLength(shapes[m].data, r.offset) \in Nat
                 /\ UlebLength(bytes, r.offset) = UlebLength(shapes[m].data, r.offset)

\* What is found in the bits of a relocation after it.
BranchDone(r, m, bytes) ==
    r.type \in Branches => /\ check(Relatively(r, m), r.type)
                           /\ Holds(bytes, r.offset, Format(r.type), Relatively(r, m))
CallDone(r, m, bytes) ==
    r.type \in Calls => /\ Holds(bytes, r.offset, TypeU, Relatively(r, m) + 2 ^ 11)
                        /\ Holds(bytes, r.offset + 4, TypeI, Relatively(r, m))
HighDone(r, m, bytes) ==
    /\ r.type = "PCREL_HI20" => Holds(bytes, r.offset, TypeU, Relatively(r, m) + 2 ^ 11)
    /\ r.type = "HI20" => Holds(bytes, r.offset, TypeU, Absolutely(r, m) + 2 ^ 11)
PairedDone(r, m, bytes) ==
    r.type \in PairedLow =>
        \E n \in DOMAIN rels[m] :
            /\ rels[m][n].type = "PCREL_HI20" /\ rels[m][n].offset = Symbols[r.sym].val
            /\ Holds(bytes, r.offset, Format(r.type), Relatively(rels[m][n], m))
LowDone(r, m, bytes) ==
    r.type \in AbsoluteLow =>
        \A b \in DOMAIN Format(r.type) \union 15 .. 19 :
            8 * r.offset + b \in bytes <=>
                IF b \in 15 .. 19
                THEN ~near_zero(Absolutely(r, m)) /\ 8 * r.offset + b \in shapes[m].data
                ELSE /\ bit(Absolutely(r, m), Format(r.type)[b])
                     /\ near_zero(Absolutely(r, m)) => b # 31
StoreDone(r, m, bytes) ==
    r.type \in Stores =>
        Load(bytes, r.offset, WidthOf(r.type))
        = (IF r.type \in {"PLT32", "32_PCREL"} THEN Relatively(r, m) ELSE Absolutely(r, m))
          % 2 ^ WidthOf(r.type)
Settled(r, m, bytes) ==
    /\ BranchDone(r, m, bytes) /\ CallDone(r, m, bytes) /\ HighDone(r, m, bytes)
    /\ PairedDone(r, m, bytes) /\ LowDone(r, m, bytes) /\ StoreDone(r, m, bytes)

\* read_uleb reads what is in the field.
Readable(r, m, bytes) ==
    IsUleb(r) => Width(r, m) < WordBits \/ FieldValue(r, m, bytes) < 2 ^ (WordBits - 1)

\* What happens to the value of a field.
SumDone(r, m, old, new) ==
    LebSame(r, m, old) =>
        /\ r.type \in Adds => FieldValue(r, m, new)
                              = (FieldValue(r, m, old) + Absolutely(r, m)) % 2 ^ Extent(r, m)
        /\ r.type \in Subs /\ Readable(r, m, old) =>
             FieldValue(r, m, new)
             = (FieldValue(r, m, old) - Absolutely(r, m)) % 2 ^ Extent(r, m)
        /\ r.type \in Sets => FieldValue(r, m, new) = Absolutely(r, m) % 2 ^ Extent(r, m)

\* The field is as it is in the file.
Fresh(r, m, bytes) == bytes \intersect Own(r, m) = shapes[m].data \intersect Own(r, m)

\* What a handler promises: it keeps to the bits of the relocation, and they hold what
\* they should.
Effect(r, m, old, new) ==
    /\ new \in SUBSET Int
    /\ LebSame(r, m, old) => Keeps(new, old, Own(r, m))
    /\ Fresh(r, m, old) => Settled(r, m, new)
    /\ SumDone(r, m, old, new)

\* The types of relocations are told apart.
LEMMA NotData ==
    ASSUME NEW r, NEW m, NEW new, NEW old,
           r.type \in Branches \union Calls \union Highs \union PairedLow \union AbsoluteLow
    PROVE  /\ StoreDone(r, m, new) /\ SumDone(r, m, old, new)
           /\ ~IsUleb(r) /\ r.type # "ALIGN"
BY DEF Branches, Calls, Highs, PairedLow, AbsoluteLow, StoreDone, SumDone, Stores, Adds, Subs, Sets, IsUleb

\* Nothing is to be found of an instruction at the relocation of data.
LEMMA NotInstruction ==
    ASSUME NEW r, NEW m, NEW new,
           r.type \notin Branches \union Calls \union Highs \union PairedLow \union AbsoluteLow
    PROVE  /\ BranchDone(r, m, new) /\ CallDone(r, m, new) /\ HighDone(r, m, new)
           /\ PairedDone(r, m, new) /\ LowDone(r, m, new)
BY DEF Branches, Calls, Highs, PairedLow, AbsoluteLow,
       BranchDone, CallDone, HighDone, PairedDone, LowDone

\* Bits at an offset are numbers.
LEMMA AtTyped ==
    ASSUME NEW loc \in Int, NEW B \in SUBSET Int
    PROVE  At(loc, B) \in SUBSET Int
<1>1. ASSUME NEW x \in At(loc, B) PROVE x \in Int
  <2>1. PICK b \in B : x = 8 * loc + b
    BY DEF At
  <2>2. b \in Int
    OBVIOUS
  <2>3. QED
    BY <2>1, <2>2
<1>2. QED
  BY <1>1

\* What keeps to its own bits leaves numbers.
LEMMA KeepsTyped ==
    ASSUME NEW new, NEW old \in SUBSET Int, NEW own \in SUBSET Int, Keeps(new, old, own)
    PROVE  new \in SUBSET Int
<1>1. ASSUME NEW x \in new PROVE x \in Int
  <2>1. CASE x \in own
    BY <2>1
  <2>2. CASE x \notin own
    <3>1. x \in old
      BY <2>2 DEF Keeps
    <3>2. QED
      BY <3>1
  <2>3. QED
    BY <2>1, <2>2
<1>2. QED
  BY <1>1

\* The bits of the formats are numbers; the formats of the types.
LEMMA FormatTyped ==
    /\ DOMAIN TypeU \in SUBSET Int /\ DOMAIN TypeI \in SUBSET Int /\ DOMAIN TypeS \in SUBSET Int
    /\ \A type \in Branches : DOMAIN Format(type) \in SUBSET Int
    /\ \A type \in {"PCREL_LO12_I", "LO12_I"} : Format(type) = TypeI
    /\ \A type \in {"PCREL_LO12_S", "LO12_S"} : Format(type) = TypeS
    /\ \A type \in Calls \union Highs : Format(type) = TypeU
<1>1. DOMAIN TypeU \in SUBSET Int
  BY TypeUFacts, WidthAssumption
<1>2. DOMAIN TypeI \in SUBSET Int /\ DOMAIN TypeS \in SUBSET Int
  BY TypeIFacts, TypeSFacts
<1>3. \A type \in Branches : DOMAIN Format(type) \in SUBSET Int
  <2>1. DOMAIN FormatB \in SUBSET Int /\ DOMAIN FormatJ \in SUBSET Int
    BY FormatBFacts, FormatJFacts
  <2>2. DOMAIN FormatCB \in SUBSET Int /\ DOMAIN FormatCJ \in SUBSET Int
    BY FormatCBFacts, FormatCJFacts
  <2>3. QED
    BY <2>1, <2>2 DEF Branches, FormatB, FormatJ, FormatCB, FormatCJ
<1>4. \A type \in {"PCREL_LO12_I", "LO12_I"} : Format(type) = TypeI
  BY DEF Format
<1>5. \A type \in {"PCREL_LO12_S", "LO12_S"} : Format(type) = TypeS
  BY DEF Format
<1>6. \A type \in Calls \union Highs : Format(type) = TypeU
  BY DEF Format, Calls, Highs
<1>7. QED
  BY <1>1, <1>2, <1>3, <1>4, <1>5, <1>6

\* The bits that are a relocation's own, by its type.
LEMMA OwnFacts ==
    ASSUME NEW r, NEW m
    PROVE  /\ r.type \in Branches \union PairedLow \union Highs =>
                Own(r, m) = At(r.offset, DOMAIN Format(r.type))
           /\ r.type \in Calls =>
                Own(r, m) = At(r.offset, DOMAIN TypeU) \union At(r.offset + 4, DOMAIN TypeI)
           /\ r.type \in AbsoluteLow =>
                Own(r, m) = At(r.offset, DOMAIN Format(r.type)) \union At(r.offset, 15 .. 19)
           /\ IsUleb(r) =>
                Own(r, m) = {8 * (r.offset + (n \div 7)) + (n % 7) : n \in 0 .. Width(r, m) - 1}
           /\ r.type \in {"SET6", "SUB6"} => Own(r, m) = At(r.offset, 0 .. 5)
           /\ r.type = "ALIGN" => Own(r, m) = At(r.offset, 0 .. 8 * r.addend - 1)
           /\ r.type \in Stores \union Sums => Own(r, m) = At(r.offset, 0 .. WidthOf(r.type) - 1)
           /\ r.type \in {"NONE", "RELAX", "ADD8", "SUB8"} => Own(r, m) = {}
BY DEF Own, Branches, PairedLow, Highs, Calls, AbsoluteLow, IsUleb, Stores, Sums

\* Relocating a branch or a jump has the effect it should have.
LEMMA BranchEffect ==
    ASSUME TypeInv, NowRelocating, This.type \in Branches, check(Checked, This.type)
    PROVE  Effect(This, member, image[member], written(image[member]))
<1>1. PICK r, m, old, v : r = This /\ m = member /\ old = image[member] /\ v = S_A_P
  OBVIOUS
<1>2. r.offset \in Int /\ v \in Int /\ old \in SUBSET Int /\ v = Relatively(r, m)
  BY <1>1, ThisTyped DEF S_A_P
<1>3. check(v, r.type)
  BY <1>1 DEF Checked, Branches
<1>4. PICK new : new = written(old)
  OBVIOUS
<1>5. Encodes(new, old, r.offset, Format(r.type), v)
  <2>1. CASE r.type = "BRANCH"
    <3>1. new = write_btype(old, r.offset, v) /\ Format(r.type) = FormatB
      BY <1>1, <1>4, <2>1 DEF written, FormatB
    <3>2. QED
      BY <1>2, <3>1, EncodesB
  <2>2. CASE r.type = "JAL"
    <3>1. new = write_jtype(old, r.offset, v) /\ Format(r.type) = FormatJ
      BY <1>1, <1>4, <2>2 DEF written, FormatJ
    <3>2. QED
      BY <1>2, <3>1, EncodesJ
  <2>3. CASE r.type = "RVC_BRANCH"
    <3>1. new = write_cbtype(old, r.offset, v) /\ Format(r.type) = FormatCB
      BY <1>1, <1>4, <2>3 DEF written, FormatCB
    <3>2. QED
      BY <1>2, <3>1, EncodesCB
  <2>4. CASE r.type = "RVC_JUMP"
    <3>1. new = write_cjtype(old, r.offset, v) /\ Format(r.type) = FormatCJ
      BY <1>1, <1>4, <2>4 DEF written, FormatCJ
    <3>2. QED
      BY <1>2, <3>1, EncodesCJ
  <2>5. QED
    BY <1>1, <2>1, <2>2, <2>3, <2>4 DEF Branches
<1>6. Own(r, m) = At(r.offset, DOMAIN Format(r.type))
  BY <1>1, OwnFacts
<1>7. Keeps(new, old, Own(r, m)) /\ new \in SUBSET Int
  BY <1>1, <1>2, <1>5, <1>6, AtTyped, KeepsTyped, FormatTyped DEF Encodes
<1>8. BranchDone(r, m, new)
  BY <1>2, <1>3, <1>5 DEF BranchDone, Encodes
<1>9. CallDone(r, m, new) /\ HighDone(r, m, new) /\ PairedDone(r, m, new) /\ LowDone(r, m, new)
  BY <1>1 DEF CallDone, HighDone, PairedDone, LowDone, Branches, Calls, PairedLow, AbsoluteLow
<1>10. StoreDone(r, m, new) /\ SumDone(r, m, old, new)
  BY <1>1, NotData
<1>11. QED
  BY <1>1, <1>4, <1>7, <1>8, <1>9, <1>10 DEF Effect, Settled

\* An encoder keeps to the bits of its format.
LEMMA EncodesTyped ==
    ASSUME NEW old \in SUBSET Int, NEW new, NEW loc \in Int, NEW f, DOMAIN f \in SUBSET Int, NEW v,
           Encodes(new, old, loc, f, v)
    PROVE  /\ new \in SUBSET Int /\ Holds(new, loc, f, v) /\ Keeps(new, old, At(loc, DOMAIN f))
           /\ At(loc, DOMAIN f) \in SUBSET Int
<1>1. At(loc, DOMAIN f) \in SUBSET Int
  BY AtTyped
<1>2. QED
  BY <1>1, KeepsTyped DEF Encodes

\* Bits at places outside those that may change are the same.
LEMMA KeepsBit ==
    ASSUME NEW new, NEW old, NEW own, Keeps(new, old, own), NEW x, x \notin own
    PROVE  x \in new <=> x \in old
BY DEF Keeps

\* Relocating a call has the effect it should have, on both instructions.
LEMMA CallEffect ==
    ASSUME TypeInv, NowRelocating, This.type \in Calls
    PROVE  Effect(This, member, image[member],
                  write_itype(write_utype(image[member], This.offset, S_A_P), This.offset + 4, S_A_P))
<1>1. PICK r, m, old, v : r = This /\ m = member /\ old = image[member] /\ v = S_A_P
  OBVIOUS
<1>2. r.offset \in Int /\ r.offset + 4 \in Int /\ v \in Int /\ old \in SUBSET Int /\ v = Relatively(r, m)
  BY <1>1, ThisTyped DEF S_A_P
<1>3. PICK mid, new : mid = write_utype(old, r.offset, v) /\ new = write_itype(mid, r.offset + 4, v)
  OBVIOUS
<1>4. DOMAIN TypeU = 12 .. WordBits - 1 /\ DOMAIN TypeI = 20 .. 31
  BY TypeUFacts, TypeIFacts
<1>5. /\ mid \in SUBSET Int /\ Holds(mid, r.offset, TypeU, v + 2 ^ 11)
      /\ Keeps(mid, old, At(r.offset, DOMAIN TypeU))
  <2>1. Encodes(mid, old, r.offset, TypeU, v + 2 ^ 11)
    BY <1>2, <1>3, EncodesU
  <2>2. DOMAIN TypeU \in SUBSET Int
    BY FormatTyped
  <2>3. PICK f, w, l : f = TypeU /\ w = v + 2 ^ 11 /\ l = r.offset
    OBVIOUS
  <2>4. Encodes(mid, old, l, f, w) /\ DOMAIN f \in SUBSET Int /\ l \in Int
    BY <1>2, <2>1, <2>2, <2>3
  <2>5. mid \in SUBSET Int /\ Holds(mid, l, f, w) /\ Keeps(mid, old, At(l, DOMAIN f))
    BY <1>2, <2>4, EncodesTyped
  <2>6. QED
    BY <2>3, <2>5
<1>6. /\ new \in SUBSET Int /\ Holds(new, r.offset + 4, TypeI, v)
      /\ Keeps(new, mid, At(r.offset + 4, DOMAIN TypeI))
  <2>1. Encodes(new, mid, r.offset + 4, TypeI, v)
    BY <1>2, <1>3, EncodesI
  <2>2. DOMAIN TypeI \in SUBSET Int
    BY FormatTyped
  <2>3. PICK f, l : f = TypeI /\ l = r.offset + 4
    OBVIOUS
  <2>4. Encodes(new, mid, l, f, v) /\ DOMAIN f \in SUBSET Int /\ l \in Int
    BY <1>2, <2>1, <2>2, <2>3
  <2>5. new \in SUBSET Int /\ Holds(new, l, f, v) /\ Keeps(new, mid, At(l, DOMAIN f))
    BY <1>5, <2>4, EncodesTyped
  <2>6. QED
    BY <2>3, <2>5
<1>7. Holds(new, r.offset, TypeU, v + 2 ^ 11)
  <2>1. ASSUME NEW b \in 12 .. WordBits - 1 PROVE 8 * r.offset + b \notin At(r.offset + 4, DOMAIN TypeI)
    <3>1. SUFFICES ASSUME NEW c \in 20 .. 31, 8 * r.offset + b = 8 * (r.offset + 4) + c PROVE FALSE
      BY <1>4, <2>1 DEF At
    <3>2. b <= 31 /\ b \in Int /\ c \in Int
      BY WidthAssumption
    <3>3. QED
      BY <1>2, <3>1, <3>2
  <2>2. \A b \in 12 .. WordBits - 1 : 8 * r.offset + b \in new <=> 8 * r.offset + b \in mid
    BY <1>6, <2>1, KeepsBit
  <2>3. QED
    BY <1>4, <1>5, <2>2 DEF Holds
<1>8. Keeps(new, old, Own(r, m))
  <2>1. Own(r, m) = At(r.offset, DOMAIN TypeU) \union At(r.offset + 4, DOMAIN TypeI)
    BY <1>1, OwnFacts
  <2>2. QED
    BY <1>5, <1>6, <2>1 DEF Keeps
<1>9. CallDone(r, m, new)
  BY <1>2, <1>6, <1>7 DEF CallDone
<1>10. BranchDone(r, m, new) /\ HighDone(r, m, new) /\ PairedDone(r, m, new) /\ LowDone(r, m, new)
  BY <1>1 DEF BranchDone, HighDone, PairedDone, LowDone, Branches, Calls, PairedLow, AbsoluteLow
<1>11. StoreDone(r, m, new) /\ SumDone(r, m, old, new)
  BY <1>1, NotData
<1>12. QED
  BY <1>1, <1>3, <1>6, <1>8, <1>9, <1>10, <1>11 DEF Effect, Settled

\* Relocating the high part of an address has the effect it should have.
LEMMA HighEffect ==
    ASSUME TypeInv, NowRelocating, This.type \in Highs, NEW v \in Int,
           v = IF This.type = "HI20" THEN S_A ELSE S_A_P
    PROVE  Effect(This, member, image[member], write_utype(image[member], This.offset, v))
<1>1. PICK r, m, old : r = This /\ m = member /\ old = image[member]
  OBVIOUS
<1>2. r.offset \in Int /\ old \in SUBSET Int /\ v = IF r.type = "HI20" THEN Absolutely(r, m) ELSE Relatively(r, m)
  BY <1>1, ThisTyped DEF S_A, S_A_P
<1>3. PICK new : new = write_utype(old, r.offset, v)
  OBVIOUS
<1>4. /\ new \in SUBSET Int /\ Holds(new, r.offset, TypeU, v + 2 ^ 11)
      /\ Keeps(new, old, At(r.offset, DOMAIN TypeU))
  <2>1. Encodes(new, old, r.offset, TypeU, v + 2 ^ 11)
    BY <1>2, <1>3, EncodesU
  <2>2. DOMAIN TypeU \in SUBSET Int
    BY FormatTyped
  <2>3. QED
    BY <1>2, <2>1, <2>2, EncodesTyped
<1>5. Own(r, m) = At(r.offset, DOMAIN TypeU)
  BY <1>1, OwnFacts, FormatTyped
<1>6. HighDone(r, m, new)
  BY <1>2, <1>4 DEF HighDone
<1>7. BranchDone(r, m, new) /\ CallDone(r, m, new) /\ PairedDone(r, m, new) /\ LowDone(r, m, new)
  BY <1>1 DEF BranchDone, CallDone, PairedDone, LowDone, Branches, Calls, Highs, PairedLow, AbsoluteLow
<1>8. StoreDone(r, m, new) /\ SumDone(r, m, old, new)
  BY <1>1, NotData
<1>9. QED
  BY <1>1, <1>3, <1>4, <1>5, <1>6, <1>7, <1>8 DEF Effect, Settled

\* The pair that find_paired_reloc finds.
LEMMA PairFound ==
    ASSUME TypeInv, NowRelocating, find_paired_reloc # 0
    PROVE  find_paired_reloc \in DOMAIN rels[member] /\ is_paired(find_paired_reloc)
<1>1. rels[member] \in Seq(Rel) /\ relIdx \in DOMAIN rels[member]
  BY ThisTyped DEF TypeInv, NowRelocating
<1>2. PICK len \in Nat : len = Len(rels[member]) /\ DOMAIN rels[member] = 1 .. len
  BY <1>1
<1>3. relIdx \in 1 .. len
  BY <1>1, <1>2
<1>4. CASE Symbols[This.sym].val <= This.offset
  <2> DEFINE Found == {n \in 1 .. relIdx - 1 : is_paired(n)}
  <2>1. Found \subseteq 1 .. relIdx - 1
    OBVIOUS
  <2>2. find_paired_reloc = Max({0} \union Found)
    BY <1>4 DEF find_paired_reloc
  <2> HIDE DEF Found
  <2>3. PICK all : all = {0} \union Found
    OBVIOUS
  <2>4. all \in SUBSET Nat /\ all # {} /\ all \subseteq 0 .. relIdx
    BY <1>3, <2>1, <2>3
  <2>5. IsFiniteSet(all)
    <3>1. IsFiniteSet(0 .. relIdx)
      BY <1>3, FS_Interval
    <3>2. QED
      BY <2>4, <3>1, FS_Subset
  <2>6. Max(all) \in all
    BY <2>4, <2>5, MaxOfFinite
  <2>7. find_paired_reloc \in Found
    BY <2>2, <2>3, <2>6
  <2>8. QED
    BY <1>2, <1>3, <2>7 DEF Found
<1>5. CASE ~(Symbols[This.sym].val <= This.offset)
  <2> DEFINE Found == {n \in relIdx + 1 .. Len(rels[member]) : is_paired(n)}
  <2>1. find_paired_reloc = Min(Found) /\ Found # {}
    BY <1>5 DEF find_paired_reloc
  <2>2. Found \in SUBSET Nat
    BY <1>2, <1>3
  <2> HIDE DEF Found
  <2>3. Min(Found) \in Found
    <3>1. \E x \in Found : \A y \in Found : x <= y
      BY <2>1, <2>2, LeastNatural
    <3>2. QED
      BY <3>1 DEF Min
  <2>4. find_paired_reloc \in Found
    BY <2>1, <2>3
  <2>5. QED
    BY <1>2, <1>3, <2>4 DEF Found
<1>6. QED
  BY <1>4, <1>5

\* Relocating a low part has the effect it should have, with the distance of the
\* high part that find_paired_reloc has found.
LEMMA PairedEffect ==
    ASSUME TypeInv, NowRelocating, This.type \in PairedLow, find_paired_reloc # 0,
           Paired.type = "PCREL_HI20", NEW v, v = Relatively(Paired, member)
    PROVE  Effect(This, member, image[member],
                  IF This.type = "PCREL_LO12_I" THEN write_itype(image[member], This.offset, v)
                                                ELSE write_stype(image[member], This.offset, v))
<1>1. PICK r, m, old, n : r = This /\ m = member /\ old = image[member] /\ n = find_paired_reloc
  OBVIOUS
<1>2. r.offset \in Int /\ old \in SUBSET Int
  BY <1>1, ThisTyped
<1>3. n \in DOMAIN rels[m] /\ is_paired(n) /\ Paired = rels[m][n]
  BY <1>1, PairFound DEF Paired
<1>4. v \in Int /\ v = Relatively(rels[m][n], m)
  BY <1>1, <1>3, RelTyped, ThisTyped
<1>5. PICK new : new = IF r.type = "PCREL_LO12_I" THEN write_itype(old, r.offset, v)
                                                  ELSE write_stype(old, r.offset, v)
  OBVIOUS
<1>6. Encodes(new, old, r.offset, Format(r.type), v) /\ DOMAIN Format(r.type) \in SUBSET Int
  <2>1. CASE r.type = "PCREL_LO12_I"
    BY <1>2, <1>4, <1>5, <2>1, EncodesI, FormatTyped
  <2>2. CASE r.type # "PCREL_LO12_I"
    <3>1. r.type = "PCREL_LO12_S"
      BY <1>1, <2>2 DEF PairedLow
    <3>2. QED
      BY <1>2, <1>4, <1>5, <3>1, EncodesS, FormatTyped
  <2>3. QED
    BY <2>1, <2>2
<1>7. /\ new \in SUBSET Int /\ Holds(new, r.offset, Format(r.type), v)
      /\ Keeps(new, old, At(r.offset, DOMAIN Format(r.type)))
  BY <1>2, <1>6, EncodesTyped
<1>8. Own(r, m) = At(r.offset, DOMAIN Format(r.type))
  BY <1>1, OwnFacts
<1>9. PairedDone(r, m, new)
  <2>1. rels[m][n].type = "PCREL_HI20" /\ rels[m][n].offset = Symbols[r.sym].val
    BY <1>1, <1>3 DEF is_paired
  <2>2. Holds(new, r.offset, Format(r.type), Relatively(rels[m][n], m))
    BY <1>4, <1>7
  <2>3. QED
    BY <1>3, <2>1, <2>2 DEF PairedDone
<1>10. BranchDone(r, m, new) /\ CallDone(r, m, new) /\ HighDone(r, m, new) /\ LowDone(r, m, new)
  BY <1>1 DEF BranchDone, CallDone, HighDone, LowDone, Branches, Calls, Highs, PairedLow, AbsoluteLow
<1>11. StoreDone(r, m, new) /\ SumDone(r, m, old, new)
  BY <1>1, NotData
<1>12. QED
  BY <1>1, <1>5, <1>7, <1>8, <1>9, <1>10, <1>11 DEF Effect, Settled

\* Relocating the low part of an absolute address has the effect it should have;
\* set_rs1 clears the register, and bit 31.
LEMMA LowEffect ==
    ASSUME TypeInv, NowRelocating, This.type \in AbsoluteLow,
           NEW mid, mid = IF This.type = "LO12_I" THEN write_itype(image[member], This.offset, S_A)
                                                  ELSE write_stype(image[member], This.offset, S_A)
    PROVE  Effect(This, member, image[member],
                  IF near_zero(S_A) THEN clear_rs1(mid, This.offset) ELSE mid)
<1>1. PICK r, m, old, v : r = This /\ m = member /\ old = image[member] /\ v = S_A
  OBVIOUS
<1>2. r.offset \in Int /\ v \in Int /\ old \in SUBSET Int /\ v = Absolutely(r, m)
  BY <1>1, ThisTyped DEF S_A
<1>0. PICK loc \in Int : loc = r.offset
  BY <1>2
<1>3. PICK new : new = IF near_zero(v) THEN clear_rs1(mid, r.offset) ELSE mid
  OBVIOUS
<1>4. PICK f : f = Format(r.type)
  OBVIOUS
<1>5. Encodes(mid, old, loc, f, v) /\ DOMAIN f \in SUBSET Int
  <2>1. CASE r.type = "LO12_I"
    BY <1>0, <1>1, <1>2, <1>4, <2>1, EncodesI, FormatTyped
  <2>2. CASE r.type # "LO12_I"
    <3>1. r.type = "LO12_S"
      BY <1>1, <2>2 DEF AbsoluteLow
    <3>2. QED
      BY <1>0, <1>1, <1>2, <1>4, <3>1, EncodesS, FormatTyped
  <2>3. QED
    BY <2>1, <2>2
<1>6. 31 \in DOMAIN f /\ \A b \in DOMAIN f : b \notin 15 .. 19
  <2>1. f = TypeI \/ f = TypeS
    BY <1>1, <1>4, FormatTyped DEF AbsoluteLow
  <2>2. QED
    BY <2>1, TypeIFacts, TypeSFacts
<1>7. /\ mid \in SUBSET Int /\ Holds(mid, loc, f, v) /\ Keeps(mid, old, At(loc, DOMAIN f))
      /\ At(loc, DOMAIN f) \in SUBSET Int
  BY <1>2, <1>5, EncodesTyped
<1>8. ASSUME NEW b \in Int
      PROVE  8 * loc + b \in new <=>
               8 * loc + b \in mid /\ (near_zero(v) => b \notin (15 .. 19) \union {31})
  <2>1. 8 * loc + b \in At(loc, (15 .. 19) \union {31}) <=> b \in (15 .. 19) \union {31}
    <3>1. PICK B : B = (15 .. 19) \union {31}
      OBVIOUS
    <3>2. B \in SUBSET Int
      BY <3>1
    <3>3. 8 * loc + b \in At(loc, B) <=> b \in B
      BY <3>2, InAt
    <3>4. QED
      BY <3>1, <3>3
  <2>2. At(loc, {}) = {}
    BY DEF At
  <2>3. QED
    BY <1>0, <1>3, <2>1, <2>2 DEF clear_rs1, Replace
<1>9. Own(r, m) = At(loc, DOMAIN f) \union At(loc, 15 .. 19)
  BY <1>0, <1>1, <1>4, OwnFacts
<1>10. Keeps(new, old, Own(r, m)) /\ new \in SUBSET Int
  <2>1. At(loc, (15 .. 19) \union {31}) \subseteq Own(r, m)
    <3>1. ASSUME NEW c \in (15 .. 19) \union {31} PROVE 8 * loc + c \in Own(r, m)
      <4>1. c \in 15 .. 19 \/ c \in DOMAIN f
        BY <1>6
      <4>2. QED
        BY <1>9, <4>1 DEF At
    <3>2. QED
      BY <3>1 DEF At
  <2>2. At(loc, {}) = {}
    BY DEF At
  <2>3. new = mid \/ new = mid \ At(loc, (15 .. 19) \union {31})
    BY <1>0, <1>3, <2>2 DEF clear_rs1, Replace
  <2>4. At(loc, DOMAIN f) \subseteq Own(r, m)
    BY <1>9
  <2>5. Keeps(new, old, Own(r, m))
    BY <1>7, <2>1, <2>3, <2>4 DEF Keeps
  <2>6. QED
    BY <1>7, <2>3, <2>5
<1>11. ASSUME Fresh(r, m, old) PROVE LowDone(r, m, new)
  <2>1. ASSUME NEW b \in 15 .. 19
        PROVE  8 * loc + b \in new <=> ~near_zero(v) /\ 8 * loc + b \in shapes[m].data
    <3>1. 8 * loc + b \in Own(r, m)
      BY <1>9 DEF At
    <3>2. 8 * loc + b \in old <=> 8 * loc + b \in shapes[m].data
      BY <1>11, <3>1 DEF Fresh
    <3>3. 8 * loc + b \notin At(loc, DOMAIN f)
      <4>1. b \in Int /\ b \notin DOMAIN f
        BY <1>6
      <4>2. QED
        BY <1>5, <4>1, InAt
    <3>4. 8 * loc + b \in mid <=> 8 * loc + b \in old
      BY <1>7, <3>3, KeepsBit
    <3>5. QED
      BY <1>8, <3>2, <3>4
  <2>2. ASSUME NEW b \in DOMAIN f
        PROVE  8 * loc + b \in new <=> bit(v, f[b]) /\ (near_zero(v) => b # 31)
    <3>1. b \in Int /\ b \notin 15 .. 19
      BY <1>5, <1>6
    <3>2. 8 * loc + b \in mid <=> bit(v, f[b])
      BY <1>7 DEF Holds
    <3>3. QED
      BY <1>8, <3>1, <3>2
  <2>3. ASSUME NEW b \in DOMAIN f \union 15 .. 19
        PROVE  8 * loc + b \in new <=>
                 IF b \in 15 .. 19 THEN ~near_zero(v) /\ 8 * loc + b \in shapes[m].data
                                   ELSE bit(v, f[b]) /\ (near_zero(v) => b # 31)
    BY <1>6, <2>1, <2>2
  <2>4. QED
    BY <1>0, <1>2, <1>4, <2>3 DEF LowDone
<1>12. BranchDone(r, m, new) /\ CallDone(r, m, new) /\ HighDone(r, m, new) /\ PairedDone(r, m, new)
  BY <1>1 DEF BranchDone, CallDone, HighDone, PairedDone, Branches, Calls, Highs, PairedLow, AbsoluteLow
<1>13. StoreDone(r, m, new) /\ SumDone(r, m, old, new)
  BY <1>1, NotData
<1>14. Fresh(r, m, old) => Settled(r, m, new)
  BY <1>11, <1>12, <1>13 DEF Settled
<1>15. QED
  BY <1>1, <1>3, <1>10, <1>13, <1>14 DEF Effect

\* A word that is stored.
LEMMA StoreFacts ==
    ASSUME NEW old \in SUBSET Int, NEW loc \in Int, NEW width \in Nat, NEW v \in Int,
           NEW new, new = Store(old, loc, width, v)
    PROVE  /\ new \in SUBSET Int /\ Keeps(new, old, At(loc, 0 .. width - 1))
           /\ Load(new, loc, width) = v % 2 ^ width
<1>1. PICK f : f = Word(width)
  OBVIOUS
<1>0. DOMAIN f = 0 .. width - 1 /\ DOMAIN f \in SUBSET Int
  BY <1>1 DEF Word
<1>2. Encodes(new, old, loc, f, v)
  BY <1>1, EncodesWord
<1>3. new \in SUBSET Int /\ Holds(new, loc, f, v) /\ Keeps(new, old, At(loc, DOMAIN f))
  BY <1>0, <1>2, EncodesTyped
<1>4. Load(new, loc, width) = v % 2 ^ width
  BY <1>1, <1>3, WordRead
<1>5. QED
  BY <1>0, <1>3, <1>4

\* A store has at least one bit.
LEMMA WidthTyped ==
    ASSUME NEW type \in Stores \union Sums
    PROVE  WidthOf(type) \in Nat \ {0}
<1>1. WordBits \in Nat \ {0} /\ AddrBits \in Nat \ {0}
  BY WidthAssumption
<1>2. QED
  BY <1>1 DEF WidthOf, Stores, Sums

\* The field of what is not LEB128.
LEMMA FieldFacts ==
    ASSUME NEW r, NEW m, r.type \in Stores \union Sums
    PROVE  /\ ~IsUleb(r) /\ r.type # "ALIGN" /\ Extent(r, m) = WidthOf(r.type) /\ WidthOf(r.type) \in Nat \ {0}
           /\ Own(r, m) = At(r.offset, 0 .. WidthOf(r.type) - 1)
           /\ \A bytes : FieldValue(r, m, bytes) = Load(bytes, r.offset, WidthOf(r.type))
<1>1. ~IsUleb(r) /\ r.type # "ALIGN" /\ r.type # "SUB6" /\ r.type # "SET6"
  BY DEF IsUleb, Stores, Sums
<1>2. Width(r, m) = WidthOf(r.type)
  BY <1>1 DEF Width
<1>3. Own(r, m) = At(r.offset, 0 .. WidthOf(r.type) - 1)
  BY OwnFacts
<1>4. WidthOf(r.type) \in Nat \ {0}
  BY WidthTyped
<1>5. Extent(r, m) = WidthOf(r.type)
  BY <1>1, <1>2 DEF Extent
<1>6. \A bytes : FieldValue(r, m, bytes) = Load(bytes, r.offset, WidthOf(r.type))
  BY <1>1, <1>5 DEF FieldValue
<1>7. QED
  BY <1>1, <1>3, <1>4, <1>5, <1>6

\* Storing an address or a distance has the effect it should have.
LEMMA StoreEffect ==
    ASSUME TypeInv, NowRelocating, This.type \in Stores
    PROVE  Effect(This, member, image[member],
                  Store(image[member], This.offset, WidthOf(This.type),
                        IF This.type \in {"PLT32", "32_PCREL"} THEN S_A_P ELSE S_A))
<1>1. PICK r, m, old : r = This /\ m = member /\ old = image[member]
  OBVIOUS
<1>2. PICK v \in Int : v = IF This.type \in {"PLT32", "32_PCREL"} THEN S_A_P ELSE S_A
  BY ThisTyped
<1>3. r.offset \in Int /\ old \in SUBSET Int
  BY <1>1, ThisTyped
<1>4. v = IF r.type \in {"PLT32", "32_PCREL"} THEN Relatively(r, m) ELSE Absolutely(r, m)
  BY <1>1, <1>2 DEF S_A, S_A_P
<1>5. PICK w \in Nat \ {0} : w = WidthOf(r.type)
  BY <1>1, FieldFacts
<1>6. PICK new : new = Store(old, r.offset, w, v)
  OBVIOUS
<1>7. new \in SUBSET Int /\ Keeps(new, old, Own(r, m)) /\ Load(new, r.offset, w) = v % 2 ^ w
  <2>1. Own(r, m) = At(r.offset, 0 .. w - 1)
    BY <1>1, <1>5, FieldFacts
  <2>2. PICK loc \in Int : loc = r.offset
    BY <1>3
  <2>3. new = Store(old, loc, w, v) /\ w \in Nat
    BY <1>6, <2>2
  <2>4. new \in SUBSET Int /\ Keeps(new, old, At(loc, 0 .. w - 1)) /\ Load(new, loc, w) = v % 2 ^ w
    <3>1. PICK n \in Nat : n = w
      OBVIOUS
    <3>2. old \in SUBSET Int /\ v \in Int /\ new = Store(old, loc, n, v)
      BY <1>3, <2>3, <3>1
    <3>3. new \in SUBSET Int /\ Keeps(new, old, At(loc, 0 .. n - 1)) /\ Load(new, loc, n) = v % 2 ^ n
      BY <3>2, StoreFacts
    <3>4. QED
      BY <3>1, <3>3
  <2>5. QED
    BY <2>1, <2>2, <2>4
<1>8. StoreDone(r, m, new)
  BY <1>4, <1>5, <1>7 DEF StoreDone
<1>9. SumDone(r, m, old, new)
  <2>1. r.type \notin Adds /\ r.type \notin Subs
    BY <1>1 DEF Stores, Adds, Subs
  <2>2. r.type \in Sets => v = Absolutely(r, m)
    BY <1>4 DEF Sets
  <2>3. FieldValue(r, m, new) = v % 2 ^ Extent(r, m)
    BY <1>1, <1>5, <1>7, FieldFacts
  <2>4. QED
    BY <2>1, <2>2, <2>3 DEF SumDone
<1>10. /\ BranchDone(r, m, new) /\ CallDone(r, m, new) /\ HighDone(r, m, new)
       /\ PairedDone(r, m, new) /\ LowDone(r, m, new)
  BY <1>1, NotInstruction DEF Stores, Branches, Calls, Highs, PairedLow, AbsoluteLow
<1>11. QED
  BY <1>1, <1>2, <1>5, <1>6, <1>7, <1>8, <1>9, <1>10 DEF Effect, Settled

\* R_RISCV_ADD and R_RISCV_SUB have the effect they should have on a word.
LEMMA SumEffect ==
    ASSUME TypeInv, NowRelocating, This.type \in Sums, NEW v,
           v = IF This.type \in Adds THEN Stored + S_A ELSE Stored - S_A
    PROVE  Effect(This, member, image[member],
                  Store(image[member], This.offset, WidthOf(This.type), v))
<1>1. PICK r, m, old : r = This /\ m = member /\ old = image[member]
  OBVIOUS
<1>2. r.offset \in Int /\ old \in SUBSET Int /\ Absolutely(r, m) \in Int /\ S_A = Absolutely(r, m)
  BY <1>1, ThisTyped DEF S_A
<1>3. PICK w \in Nat \ {0} : w = WidthOf(r.type)
  BY <1>1, FieldFacts
<1>4. FieldValue(r, m, old) = Stored /\ Stored \in Int
  <2>1. Load(old, r.offset, w) \in Nat
    BY <1>2, <1>3, LoadTyped
  <2>2. QED
    <3>1. FieldValue(r, m, old) = Load(old, r.offset, w)
      BY <1>1, <1>3, FieldFacts
    <3>2. Stored = Load(old, r.offset, w)
      BY <1>1, <1>3 DEF Stored
    <3>3. QED
      BY <2>1, <3>1, <3>2
<1>5. v = (IF r.type \in Adds THEN FieldValue(r, m, old) + Absolutely(r, m)
                              ELSE FieldValue(r, m, old) - Absolutely(r, m)) /\ v \in Int
  BY <1>1, <1>2, <1>4
<1>6. PICK new : new = Store(old, r.offset, w, v)
  OBVIOUS
<1>7. new \in SUBSET Int /\ Keeps(new, old, Own(r, m)) /\ Load(new, r.offset, w) = v % 2 ^ w
  <2>1. Own(r, m) = At(r.offset, 0 .. w - 1)
    BY <1>1, <1>3, FieldFacts
  <2>2. PICK loc \in Int : loc = r.offset
    BY <1>2
  <2>3. new = Store(old, loc, w, v) /\ w \in Nat
    BY <1>6, <2>2
  <2>4. new \in SUBSET Int /\ Keeps(new, old, At(loc, 0 .. w - 1)) /\ Load(new, loc, w) = v % 2 ^ w
    <3>1. PICK n \in Nat : n = w
      OBVIOUS
    <3>2. old \in SUBSET Int /\ v \in Int /\ new = Store(old, loc, n, v)
      BY <1>2, <1>5, <2>3, <3>1
    <3>3. new \in SUBSET Int /\ Keeps(new, old, At(loc, 0 .. n - 1)) /\ Load(new, loc, n) = v % 2 ^ n
      BY <3>2, StoreFacts
    <3>4. QED
      BY <3>1, <3>3
  <2>5. QED
    BY <2>1, <2>2, <2>4
<1>8. SumDone(r, m, old, new)
  <2>1. r.type \notin Sets /\ (r.type \in Subs => r.type \notin Adds)
    BY <1>1 DEF Sums, Sets, Adds, Subs
  <2>2. FieldValue(r, m, new) = v % 2 ^ Extent(r, m)
    BY <1>1, <1>3, <1>7, FieldFacts
  <2>3. QED
    BY <1>5, <2>1, <2>2 DEF SumDone
<1>9. /\ BranchDone(r, m, new) /\ CallDone(r, m, new) /\ HighDone(r, m, new)
      /\ PairedDone(r, m, new) /\ LowDone(r, m, new)
  BY <1>1, NotInstruction DEF Sums, Branches, Calls, Highs, PairedLow, AbsoluteLow
<1>10. StoreDone(r, m, new)
  BY <1>1 DEF StoreDone, Stores, Sums
<1>11. QED
  BY <1>1, <1>3, <1>6, <1>7, <1>8, <1>9, <1>10 DEF Effect, Settled

\* What has no value of its own.
Plain == Ignored \union {"ADD8", "SUB8", "ALIGN"}

\* Nothing is relocated where the relocation is ignored, or only moves a pointer.
LEMMA PlainFacts ==
    ASSUME NEW r, NEW m, NEW old, NEW new, r.type \in Plain
    PROVE  Settled(r, m, new) /\ SumDone(r, m, old, new)
<1>1. /\ BranchDone(r, m, new) /\ CallDone(r, m, new) /\ HighDone(r, m, new)
      /\ PairedDone(r, m, new) /\ LowDone(r, m, new)
  BY NotInstruction DEF Plain, Ignored, Branches, Calls, Highs, PairedLow, AbsoluteLow
<1>2. StoreDone(r, m, new) /\ SumDone(r, m, old, new)
  BY DEF Plain, Ignored, StoreDone, SumDone, Stores, Adds, Subs, Sets
<1>3. QED
  BY <1>1, <1>2 DEF Settled

\* Skipping a relocation has the effect it should have, none.
LEMMA SkipEffect ==
    ASSUME TypeInv, NowRelocating, This.type \in Plain
    PROVE  Effect(This, member, image[member], image[member])
BY PlainFacts, ThisTyped DEF Effect, Keeps

\* The nops of a padding.
Padding(loc, size) ==
    LET nops == {loc + 4 * n : n \in 0 .. (size \div 4) - 1}
        rest == loc + 4 * (size \div 4)
        short == IF size > 0 /\ size % 4 # 0 THEN {rest} ELSE {}
    IN  (UNION {At(l, Nop) : l \in nops}) \union (UNION {At(l, CNop) : l \in short})

\* They are in the padding.
LEMMA PaddingFacts ==
    ASSUME NEW loc \in Nat, NEW size \in Int
    PROVE  /\ Padding(loc, size) \in SUBSET Int
           /\ Padding(loc, size) \subseteq At(loc, 0 .. 8 * size - 1)
<1>1. PICK q \in Int, e \in Int : q = size \div 4 /\ e = size % 4 /\ size = 4 * q + e /\ 0 <= e /\ e <= 3
  <2>1. size = (size \div 4) * 4 + (size % 4) /\ size % 4 \in 0 .. 3 /\ size \div 4 \in Int
    OBVIOUS
  <2>2. QED
    BY <2>1
<1>2. ASSUME NEW x \in Padding(loc, size)
      PROVE  x \in Int /\ x \in At(loc, 0 .. 8 * size - 1)
  <2>1. \/ \E n \in 0 .. q - 1, c \in Nop : x = 8 * (loc + 4 * n) + c
        \/ size > 0 /\ e # 0 /\ \E c \in CNop : x = 8 * (loc + 4 * q) + c
    BY <1>1 DEF Padding, At
  <2>2. PICK b \in Int : x = 8 * loc + b /\ b \in 0 .. 8 * size - 1
    <3>1. CASE \E n \in 0 .. q - 1, c \in Nop : x = 8 * (loc + 4 * n) + c
      <4>1. PICK n \in 0 .. q - 1, c \in Nop : x = 8 * (loc + 4 * n) + c
        BY <3>1
      <4>2. c \in Int /\ 0 <= c /\ c <= 4 /\ n \in Int /\ 0 <= n /\ n <= q - 1
        BY DEF Nop
      <4>3. PICK b \in Int : b = 32 * n + c
        BY <4>2
      <4>4. QED
        BY <1>1, <4>1, <4>2, <4>3
    <3>2. CASE size > 0 /\ e # 0 /\ \E c \in CNop : x = 8 * (loc + 4 * q) + c
      <4>1. x = 8 * (loc + 4 * q)
        BY <3>2 DEF CNop
      <4>2. PICK b \in Int : b = 32 * q
        OBVIOUS
      <4>3. QED
        BY <1>1, <3>2, <4>1, <4>2
    <3>3. QED
      BY <2>1, <3>1, <3>2
  <2>3. QED
    BY <2>2 DEF At
<1>3. QED
  BY <1>2

\* Filling the padding changes nothing but the padding.
LEMMA PaddingEffect ==
    ASSUME TypeInv, NowRelocating, This.type = "ALIGN", NEW new,
           new = (image[member] \ At(This.offset, 0 .. 8 * This.addend - 1))
                 \union Padding(This.offset, This.addend)
    PROVE  Effect(This, member, image[member], new)
<1>1. PICK r, m, old : r = This /\ m = member /\ old = image[member]
  OBVIOUS
<1>2. PICK loc \in Nat, a \in Int : loc = r.offset /\ a = r.addend
  BY <1>1, ThisTyped
<1>3. old \in SUBSET Int
  BY <1>1, ThisTyped
<1>4. PICK bits : bits = Padding(loc, a)
  OBVIOUS
<1>5. bits \in SUBSET Int /\ bits \subseteq At(loc, 0 .. 8 * a - 1)
  BY <1>4, PaddingFacts
<1>6. new = (old \ At(loc, 0 .. 8 * a - 1)) \union bits
  BY <1>1, <1>2, <1>4
<1>7. new \in SUBSET Int
  BY <1>3, <1>5, <1>6
<1>8. Own(r, m) = At(loc, 0 .. 8 * a - 1)
  BY <1>1, <1>2, OwnFacts
<1>9. Keeps(new, old, Own(r, m))
  BY <1>5, <1>6, <1>8 DEF Keeps
<1>10. Settled(r, m, new) /\ SumDone(r, m, old, new)
  BY <1>1, PlainFacts DEF Plain
<1>11. QED
  BY <1>1, <1>7, <1>9, <1>10 DEF Effect

\* R_RISCV_SET6 and R_RISCV_SUB6 have the effect they should have on six bits.
LEMMA SixEffect ==
    ASSUME TypeInv, NowRelocating, This.type \in {"SET6", "SUB6"}, NEW v \in Int,
           v = IF This.type = "SET6" THEN S_A ELSE Load(image[member], This.offset, 8) - S_A
    PROVE  Effect(This, member, image[member], Store(image[member], This.offset, 6, v))
<1>1. PICK r, m, old : r = This /\ m = member /\ old = image[member]
  OBVIOUS
<1>2. PICK loc \in Int, s \in Int : loc = r.offset /\ s = Absolutely(r, m) /\ s = S_A
  BY <1>1, ThisTyped DEF S_A
<1>3. PICK x \in Int : x = Load(old, loc, 8)
  BY LoadTyped
<1>4. old \in SUBSET Int /\ v \in Int /\ v = IF r.type = "SET6" THEN s ELSE x - s
  BY <1>1, <1>2, <1>3, ThisTyped
<1>5. PICK new : new = Store(old, loc, 6, v)
  OBVIOUS
<1>6. new \in SUBSET Int /\ Keeps(new, old, At(loc, 0 .. 5)) /\ Load(new, loc, 6) = v % 2 ^ 6
  <2>1. PICK n \in Nat, w \in Int : n = 6 /\ w = v
    OBVIOUS
  <2>2. new = Store(old, loc, n, w) /\ old \in SUBSET Int
    BY <1>4, <1>5, <2>1
  <2>3. new \in SUBSET Int /\ Keeps(new, old, At(loc, 0 .. n - 1)) /\ Load(new, loc, n) = w % 2 ^ n
    BY <2>2, StoreFacts
  <2>4. n - 1 = 5
    BY <2>1
  <2>5. QED
    BY <2>1, <2>3, <2>4
<1>7. Keeps(new, old, Own(r, m))
  BY <1>1, <1>2, <1>6, OwnFacts
<1>8. Extent(r, m) = 6 /\ \A bytes : FieldValue(r, m, bytes) = Load(bytes, loc, 6)
  <2>1. ~IsUleb(r)
    BY <1>1 DEF IsUleb
  <2>2. Extent(r, m) = 6
    BY <1>1, <2>1 DEF Extent, Width
  <2>3. QED
    BY <1>2, <2>1, <2>2 DEF FieldValue
<1>9. SumDone(r, m, old, new)
  <2>1. CASE r.type = "SET6"
    <3>1. v = s
      BY <1>4, <2>1
    <3>2. QED
      BY <1>2, <1>6, <1>8, <2>1, <3>1 DEF SumDone, Adds, Subs
  <2>2. CASE r.type = "SUB6"
    <3>1. v = x - s
      BY <1>4, <2>2
    <3>2. PICK y \in Int : y = Load(old, loc, 6)
      BY LoadTyped
    <3>3. x % 2 ^ 6 = y /\ y % 2 ^ 6 = y
      <4>1. PICK n \in Nat, w \in Nat : n = 6 /\ w = 8
        OBVIOUS
      <4>2. n <= w /\ n <= n
        BY <4>1
      <4>3. Load(old, loc, w) % 2 ^ n = Load(old, loc, n)
        BY <4>2, LoadLower
      <4>4. Load(old, loc, n) % 2 ^ n = Load(old, loc, n)
        BY <4>2, LoadLower
      <4>5. QED
        BY <1>3, <3>2, <4>1, <4>3, <4>4
    <3>5. (x - s) % 2 ^ 6 = (y - s) % 2 ^ 6
      <4>1. 2 ^ 6 = 64
        OBVIOUS
      <4>2. x % 64 = y % 64
        BY <3>3, <4>1
      <4>3. (x - s) % 64 = (y - s) % 64
        BY <4>2
      <4>4. QED
        BY <4>1, <4>3
    <3>6. FieldValue(r, m, new) = (FieldValue(r, m, old) - Absolutely(r, m)) % 2 ^ Extent(r, m)
      BY <1>2, <1>6, <1>8, <3>1, <3>2, <3>5
    <3>7. QED
      BY <2>2, <3>6 DEF SumDone, Adds, Sets
  <2>3. QED
    BY <1>1, <2>1, <2>2
<1>10. /\ BranchDone(r, m, new) /\ CallDone(r, m, new) /\ HighDone(r, m, new)
       /\ PairedDone(r, m, new) /\ LowDone(r, m, new)
  BY <1>1, NotInstruction DEF Branches, Calls, Highs, PairedLow, AbsoluteLow
<1>11. StoreDone(r, m, new)
  BY <1>1 DEF StoreDone, Stores
<1>12. QED
  BY <1>1, <1>2, <1>5, <1>6, <1>7, <1>9, <1>10, <1>11 DEF Effect, Settled

\* The length of LEB128 is in the continuation bits.
LEMMA LengthSame ==
    ASSUME NEW loc \in Int, NEW new, NEW old,
           \A k \in 0 .. 9 : 8 * (loc + k) + 7 \in new <=> 8 * (loc + k) + 7 \in old
    PROVE  UlebLength(new, loc) = UlebLength(old, loc)
<1>1. {n \in 0 .. 9 : 8 * (loc + n) + 7 \notin new} = {n \in 0 .. 9 : 8 * (loc + n) + 7 \notin old}
  OBVIOUS
<1>2. QED
  BY <1>1 DEF UlebLength

\* The bits of LEB128 are not continuation bits.
LebBits(loc, n) == {8 * (loc + (k \div 7)) + (k % 7) : k \in 0 .. 7 * n - 1}

\* The bits of the number in LEB128; the bits that say whether it goes on are not
\* among them.
LEMMA LebBitsFacts ==
    ASSUME NEW loc \in Int, NEW n \in Int
    PROVE  /\ DOMAIN Leb(n) \in SUBSET Int /\ At(loc, DOMAIN Leb(n)) = LebBits(loc, n)
           /\ \A k \in Int : 8 * (loc + k) + 7 \notin LebBits(loc, n)
<1>1. ASSUME NEW k \in 0 .. 7 * n - 1
      PROVE  k \div 7 \in Int /\ k % 7 \in 0 .. 6
  OBVIOUS
<1>2. DOMAIN Leb(n) = {8 * (k \div 7) + (k % 7) : k \in 0 .. 7 * n - 1}
  BY DEF Leb
<1>3. DOMAIN Leb(n) \in SUBSET Int
  BY <1>1, <1>2
<1>4. ASSUME NEW k \in 0 .. 7 * n - 1
      PROVE  8 * loc + (8 * (k \div 7) + (k % 7)) = 8 * (loc + (k \div 7)) + (k % 7)
  BY <1>1
<1>5. ASSUME NEW x \in At(loc, DOMAIN Leb(n)) PROVE x \in LebBits(loc, n)
  <2>1. PICK k \in 0 .. 7 * n - 1 : x = 8 * loc + (8 * (k \div 7) + (k % 7))
    BY <1>2 DEF At
  <2>2. QED
    BY <1>4, <2>1 DEF LebBits
<1>6. ASSUME NEW x \in LebBits(loc, n) PROVE x \in At(loc, DOMAIN Leb(n))
  <2>1. PICK k \in 0 .. 7 * n - 1 : x = 8 * (loc + (k \div 7)) + (k % 7)
    BY DEF LebBits
  <2>2. x = 8 * loc + (8 * (k \div 7) + (k % 7))
    BY <1>4, <2>1
  <2>3. QED
    BY <1>2, <2>2 DEF At
<1>7. ASSUME NEW k \in Int, 8 * (loc + k) + 7 \in LebBits(loc, n) PROVE FALSE
  <2>1. PICK j \in 0 .. 7 * n - 1 : 8 * (loc + k) + 7 = 8 * (loc + (j \div 7)) + (j % 7)
    BY <1>7 DEF LebBits
  <2>2. PICK d \in Int, e \in 0 .. 6 : d = j \div 7 /\ e = j % 7
    BY <1>1
  <2>3. 8 * (loc + k) + 7 = 8 * (loc + d) + e
    BY <2>1, <2>2
  <2>4. QED
    BY <2>3
<1>8. QED
  BY <1>3, <1>5, <1>6, <1>7

\* R_RISCV_SET_ULEB128 and R_RISCV_SUB_ULEB128 have the effect they should have.
LEMMA LebEffect ==
    ASSUME TypeInv, NowRelocating, This.type \in {"SET_ULEB128", "SUB_ULEB128"}, NEW wraps, NEW v,
           v = IF This.type = "SET_ULEB128" THEN S_A
               ELSE read_uleb(image[member], This.offset, wraps) - S_A
    PROVE  Effect(This, member, image[member], Overwrite_uleb(image[member], This.offset, v))
<1>1. PICK r, m, old : r = This /\ m = member /\ old = image[member]
  OBVIOUS
<1>2. PICK loc \in Int, s \in Int : loc = r.offset /\ s = Absolutely(r, m) /\ s = S_A
  BY <1>1, ThisTyped DEF S_A
<1>3. old \in SUBSET Int
  BY <1>1, ThisTyped
<1>4. PICK new : new = Overwrite_uleb(old, loc, v)
  OBVIOUS
<1>5. new \in SUBSET Int
  <2>1. ASSUME NEW n \in Int PROVE At(loc + n, EPOI(v, LebTop(n), 7 * n, 0)) \subseteq Int
    BY DEF At, EPOI
  <2>2. PICK bytesOf : bytesOf = 0 .. UlebLength(old, loc) - 1
    OBVIOUS
  <2>3. bytesOf \subseteq Int
    BY <2>2
  <2>4. new = (old \ UNION {At(loc + n, 0 .. 6) : n \in bytesOf})
              \union UNION {At(loc + n, EPOI(v, LebTop(n), 7 * n, 0)) : n \in bytesOf}
    BY <1>4, <2>2 DEF Overwrite_uleb, LebTop
  <2>5. ASSUME NEW x \in new PROVE x \in Int
    <3>1. x \in old \/ \E n \in bytesOf : x \in At(loc + n, EPOI(v, LebTop(n), 7 * n, 0))
      BY <2>4
    <3>2. QED
      BY <1>3, <2>1, <2>3, <3>1
  <2>6. QED
    BY <2>5
<1>6. IsUleb(r) /\ r.type # "SET6" /\ r.type # "SUB6"
  BY <1>1 DEF IsUleb
<1>13. PICK x \in Int : x = read_uleb(old, loc, wraps)
  BY ReadTyped
<1>14. v \in Int /\ v = IF r.type = "SET_ULEB128" THEN s ELSE x - s
  BY <1>1, <1>2, <1>13
<1>15. PICK u \in Nat : /\ u % 2 ^ AddrBits = v % 2 ^ AddrBits /\ u < 2 ^ AddrBits
                        /\ \A k \in Nat : bit(u, k) <=> k < AddrBits /\ bit(v, k)
  BY <1>14, Narrowed
<1>7. ASSUME NEW n \in Nat, UlebLength(shapes[m].data, loc) = n, UlebLength(old, loc) = n
      PROVE  /\ Keeps(new, old, Own(r, m))
             /\ FieldValue(r, m, new) = v % 2 ^ Extent(r, m)
             /\ Readable(r, m, old) => x = FieldValue(r, m, old)
  <2>1. /\ Width(r, m) = 7 * n
        /\ Extent(r, m) = IF 7 * n <= AddrBits THEN 7 * n ELSE AddrBits
    <3>1. Width(r, m) = 7 * n
      <4>1. Width(r, m) = 7 * UlebLength(shapes[m].data, r.offset)
        BY <1>6 DEF Width
      <4>2. QED
        BY <1>2, <1>7, <4>1
    <3>2. AddrBits \in Nat
      BY WidthAssumption
    <3>3. QED
      BY <1>6, <3>1, <3>2 DEF Extent
  <2>2. Own(r, m) = LebBits(loc, n)
    <3>1. Own(r, m) = {8 * (r.offset + (k \div 7)) + (k % 7) : k \in 0 .. Width(r, m) - 1}
      BY <1>6, OwnFacts
    <3>2. Own(r, m) = {8 * (loc + (k \div 7)) + (k % 7) : k \in 0 .. 7 * n - 1}
      BY <1>2, <2>1, <3>1
    <3>3. QED
      BY <3>2 DEF LebBits
  <2>3. \A bytes : FieldValue(r, m, bytes) = LebValue(bytes, loc, n)
    BY <1>2, <1>6, <1>7 DEF FieldValue
  <2>4. Readable(r, m, old) => x = LebValue(old, loc, n)
    <3>1. ASSUME Readable(r, m, old)
          PROVE  7 * n < WordBits \/ LebValue(old, loc, n) < 2 ^ (WordBits - 1)
      BY <1>6, <2>1, <2>3, <3>1 DEF Readable
    <3>2. QED
      BY <1>7, <1>13, <3>1, ReadExactly
  <2>5. Encodes(new, old, loc, Leb(n), u)
    <3>1. \A k \in 0 .. 7 * n - 1 : bit(u, k) <=> k < AddrBits /\ bit(v, k)
      BY <1>15
    <3>2. QED
      BY <1>4, <1>7, <3>1, EncodesLeb
  <2>6. Holds(new, loc, Leb(n), u) /\ Keeps(new, old, LebBits(loc, n))
    BY <2>5, LebBitsFacts DEF Encodes
  <2>7. LebValue(new, loc, n) = v % 2 ^ Extent(r, m)
    <3>1. LebValue(new, loc, n) = v % 2 ^ (IF 7 * n <= AddrBits THEN 7 * n ELSE AddrBits)
      BY <1>14, <1>15, <2>6, LebPut
    <3>2. QED
      BY <2>1, <3>1
  <2>8. QED
    BY <2>2, <2>3, <2>4, <2>6, <2>7
<1>8. ASSUME LebSame(r, m, old)
      PROVE  /\ Keeps(new, old, Own(r, m))
             /\ FieldValue(r, m, new) = v % 2 ^ Extent(r, m)
             /\ Readable(r, m, old) => x = FieldValue(r, m, old)
  <2>1. PICK n \in Nat : UlebLength(shapes[m].data, loc) = n /\ UlebLength(old, loc) = n
    BY <1>2, <1>6, <1>8 DEF LebSame
  <2>2. QED
    BY <1>7, <2>1
<1>9. SumDone(r, m, old, new)
  <2>1. CASE r.type = "SET_ULEB128"
    BY <1>2, <1>8, <1>14, <2>1 DEF SumDone, Adds, Subs
  <2>2. CASE r.type = "SUB_ULEB128"
    BY <1>2, <1>8, <1>14, <2>2 DEF SumDone, Adds, Sets
  <2>3. QED
    BY <1>1, <2>1, <2>2
<1>10. /\ BranchDone(r, m, new) /\ CallDone(r, m, new) /\ HighDone(r, m, new)
       /\ PairedDone(r, m, new) /\ LowDone(r, m, new)
  BY <1>1, NotInstruction DEF Branches, Calls, Highs, PairedLow, AbsoluteLow
<1>11. StoreDone(r, m, new)
  BY <1>1 DEF StoreDone, Stores
<1>12. QED
  BY <1>1, <1>2, <1>4, <1>5, <1>8, <1>9, <1>10, <1>11 DEF Effect, Settled

-----------------------------------------------------------------------------
(***************************************************************************)
(* The steps.                                                              *)
(***************************************************************************)
\* A relocation is handled, or the linker gives up at it.
Handles(bytes) ==
    /\ NowRelocating /\ Linkable(This)
    /\ Effect(This, member, image[member], bytes)
    /\ Write(bytes)
GivesUp ==
    OutOfRange \/ NoAddress \/ PairMissing \/ PairNotSupported \/ OddPadding \/ NotSupported

\* What an action says of the relocation at hand.
LEMMA OfType ==
    ASSUME TypeInv, NEW types, Relocating(types)
    PROVE  NowRelocating /\ This.type \in types /\ HasAddress(This.sym)
BY DEF Relocating

\* What is handled can be: it has an address, and a padding is even.
LEMMA HandledLinkable ==
    ASSUME \/ SkipRelocation \/ RelocateBranch \/ RelocateCall \/ RelocateHigh
           \/ RelocatePairedLow \/ RelocateLow \/ StoreValue \/ AddValue \/ SubValue
           \/ MovePointer \/ StoreSix \/ StoreUleb \/ FillPadding
    PROVE  Linkable(This)
<1>1. CASE SkipRelocation
  BY <1>1 DEF SkipRelocation, Linkable, Supported, Ignored
<1>2. ASSUME NEW types \in SUBSET (Supported \ {"ALIGN"}), Relocating(types) PROVE Linkable(This)
  BY <1>2 DEF Relocating, Linkable
<1>3. CASE RelocateBranch
  <2>1. Relocating(Branches) /\ Branches \in SUBSET (Supported \ {"ALIGN"})
    BY <1>3 DEF RelocateBranch, Supported, Branches
  <2>2. QED
    BY <1>2, <2>1
<1>4. CASE RelocateCall \/ RelocateHigh
  <2>1. PICK types \in SUBSET {"CALL", "CALL_PLT", "PCREL_HI20", "HI20"} : Relocating(types)
    BY <1>4 DEF RelocateCall, RelocateHigh
  <2>2. types \in SUBSET (Supported \ {"ALIGN"})
    BY DEF Supported
  <2>3. QED
    BY <1>2, <2>1, <2>2
<1>5. CASE RelocatePairedLow \/ RelocateLow
  <2>1. PICK types \in {PairedLow, AbsoluteLow} : Relocating(types)
    BY <1>5 DEF RelocatePairedLow, RelocateLow
  <2>2. types \in SUBSET (Supported \ {"ALIGN"})
    BY DEF Supported, PairedLow, AbsoluteLow
  <2>3. QED
    BY <1>2, <2>1, <2>2
<1>6. CASE StoreValue \/ AddValue \/ SubValue
  <2>1. PICK types \in {Stores, {"ADD16", "ADD32", "ADD64"}, {"SUB16", "SUB32", "SUB64"}} :
          Relocating(types)
    BY <1>6 DEF StoreValue, AddValue, SubValue
  <2>2. types \in SUBSET (Supported \ {"ALIGN"})
    BY DEF Supported, Stores, Sums
  <2>3. QED
    BY <1>2, <2>1, <2>2
<1>7. CASE MovePointer \/ StoreSix \/ StoreUleb
  <2>1. PICK types \in SUBSET {"ADD8", "SUB8", "SET6", "SUB6", "SET_ULEB128", "SUB_ULEB128"} :
          Relocating(types)
    BY <1>7 DEF MovePointer, StoreSix, StoreUleb
  <2>2. types \in SUBSET (Supported \ {"ALIGN"})
    BY DEF Supported
  <2>3. QED
    BY <1>2, <2>1, <2>2
<1>8. CASE FillPadding
  BY <1>8 DEF FillPadding, Relocating, Linkable, Supported
<1>9. QED
  BY <1>1, <1>3, <1>4, <1>5, <1>6, <1>7, <1>8

\* Every action of Reloc_alloc that goes on handles the relocation at hand.
LEMMA WriteCases ==
    ASSUME TypeInv,
           \/ SkipRelocation \/ RelocateBranch \/ RelocateCall \/ RelocateHigh
           \/ RelocatePairedLow \/ RelocateLow \/ StoreValue \/ AddValue \/ SubValue
           \/ MovePointer \/ StoreSix \/ StoreUleb \/ FillPadding
    PROVE  \E bytes : Handles(bytes)
<1>0. Linkable(This)
  BY HandledLinkable
<1>1. CASE SkipRelocation
  <2>1. NowRelocating /\ This.type \in Ignored
    BY <1>1, OfType DEF SkipRelocation
  <2>2. Effect(This, member, image[member], image[member])
    BY <2>1, SkipEffect DEF Plain
  <2>3. Write(image[member])
    <3>1. image \in [Members -> SUBSET Int] /\ member \in Members
      BY <2>1, ThisTyped DEF TypeInv
    <3>2. [image EXCEPT ![member] = image[member]] = image
      BY <3>1
    <3>3. QED
      BY <1>1, <3>2 DEF SkipRelocation, Write
  <2>5. QED
    BY <1>0, <2>1, <2>2, <2>3 DEF Handles
<1>2. CASE RelocateBranch
  <2>1. NowRelocating /\ This.type \in Branches
    BY <1>2, OfType DEF RelocateBranch
  <2>2. check(Checked, This.type) /\ Write(written(image[member]))
    BY <1>2 DEF RelocateBranch
  <2>3. Effect(This, member, image[member], written(image[member]))
    BY <2>1, <2>2, BranchEffect
  <2>5. QED
    BY <1>0, <2>1, <2>2, <2>3 DEF Handles
<1>3. CASE RelocateCall
  <2>1. NowRelocating /\ This.type \in Calls
    <3>1. Relocating({"CALL", "CALL_PLT"})
      BY <1>3 DEF RelocateCall
    <3>2. QED
      BY <3>1, OfType DEF Calls
  <2> DEFINE bytes == write_itype(write_utype(image[member], This.offset, S_A_P), This.offset + 4, S_A_P)
  <2>2. Write(bytes)
    BY <1>3 DEF RelocateCall
  <2>3. Effect(This, member, image[member], bytes)
    BY <2>1, CallEffect
  <2>5. QED
    BY <1>0, <2>1, <2>2, <2>3 DEF Handles
<1>4. CASE RelocateHigh
  <2>1. NowRelocating /\ This.type \in Highs
    <3>1. Relocating({"PCREL_HI20"}) \/ Relocating({"HI20"})
      BY <1>4 DEF RelocateHigh
    <3>2. QED
      BY <3>1, OfType DEF Highs
  <2>2. PICK v \in Int : v = IF This.type = "HI20" THEN S_A ELSE S_A_P
    BY <2>1, ThisTyped
  <2>3. Write(write_utype(image[member], This.offset, v))
    BY <1>4, <2>2 DEF RelocateHigh, Relocating, This
  <2>4. Effect(This, member, image[member], write_utype(image[member], This.offset, v))
    BY <2>1, <2>2, HighEffect
  <2>6. QED
    BY <1>0, <2>1, <2>3, <2>4 DEF Handles
<1>5. CASE RelocatePairedLow
  <2>1. NowRelocating /\ This.type \in PairedLow
    BY <1>5, OfType DEF RelocatePairedLow
  <2>2. PICK v : v = Relatively(Paired, member)
    OBVIOUS
  <2> DEFINE bytes == IF This.type = "PCREL_LO12_I" THEN write_itype(image[member], This.offset, v)
                                                    ELSE write_stype(image[member], This.offset, v)
  <2>3. Write(bytes) /\ find_paired_reloc # 0 /\ Paired.type = "PCREL_HI20"
    BY <1>5, <2>2 DEF RelocatePairedLow
  <2>4. Effect(This, member, image[member], bytes)
    BY <2>1, <2>2, <2>3, PairedEffect
  <2>6. QED
    BY <1>0, <2>1, <2>3, <2>4 DEF Handles
<1>6. CASE RelocateLow
  <2>1. NowRelocating /\ This.type \in AbsoluteLow
    BY <1>6, OfType DEF RelocateLow
  <2>2. PICK mid : mid = IF This.type = "LO12_I" THEN write_itype(image[member], This.offset, S_A)
                                                 ELSE write_stype(image[member], This.offset, S_A)
    OBVIOUS
  <2> DEFINE bytes == IF near_zero(S_A) THEN clear_rs1(mid, This.offset) ELSE mid
  <2>3. Write(bytes)
    BY <1>6, <2>2 DEF RelocateLow
  <2>4. Effect(This, member, image[member], bytes)
    BY <2>1, <2>2, LowEffect
  <2>6. QED
    BY <1>0, <2>1, <2>3, <2>4 DEF Handles
<1>7. CASE StoreValue
  <2>1. NowRelocating /\ This.type \in Stores
    BY <1>7, OfType DEF StoreValue
  <2> DEFINE bytes == Store(image[member], This.offset, WidthOf(This.type),
                            IF This.type \in {"PLT32", "32_PCREL"} THEN S_A_P ELSE S_A)
  <2>2. Write(bytes)
    BY <1>7 DEF StoreValue
  <2>3. Effect(This, member, image[member], bytes)
    BY <2>1, StoreEffect
  <2>5. QED
    BY <1>0, <2>1, <2>2, <2>3 DEF Handles
<1>8. CASE AddValue \/ SubValue
  <2>1. NowRelocating /\ This.type \in Sums
    <3>1. Relocating({"ADD16", "ADD32", "ADD64"}) \/ Relocating({"SUB16", "SUB32", "SUB64"})
      BY <1>8 DEF AddValue, SubValue
    <3>2. QED
      BY <3>1, OfType DEF Sums
  <2>2. PICK v : v = IF This.type \in Adds THEN Stored + S_A ELSE Stored - S_A
    OBVIOUS
  <2>3. Write(Store(image[member], This.offset, WidthOf(This.type), v))
    <3>1. CASE AddValue
      <4>1. This.type \in Adds
        BY <3>1, OfType DEF AddValue, Adds
      <4>2. v = Stored + S_A
        BY <2>2, <4>1
      <4>3. QED
        BY <3>1, <4>2 DEF AddValue
    <3>2. CASE SubValue
      <4>1. This.type \notin Adds
        BY <3>2, OfType DEF SubValue, Adds
      <4>2. v = Stored - S_A
        BY <2>2, <4>1
      <4>3. QED
        BY <3>2, <4>2 DEF SubValue
    <3>3. QED
      BY <1>8, <3>1, <3>2
  <2>4. Effect(This, member, image[member], Store(image[member], This.offset, WidthOf(This.type), v))
    BY <2>1, <2>2, SumEffect
  <2>6. QED
    BY <1>0, <2>1, <2>3, <2>4 DEF Handles
<1>9. CASE MovePointer
  <2>1. NowRelocating /\ This.type \in {"ADD8", "SUB8"} /\ Write(image[member])
    BY <1>9, OfType DEF MovePointer
  <2>2. Effect(This, member, image[member], image[member])
    BY <2>1, SkipEffect DEF Plain
  <2>4. QED
    BY <1>0, <2>1, <2>2 DEF Handles
<1>10. CASE StoreSix
  <2>1. NowRelocating /\ This.type \in {"SET6", "SUB6"}
    <3>1. Relocating({"SET6"}) \/ Relocating({"SUB6"})
      BY <1>10 DEF StoreSix
    <3>2. QED
      BY <3>1, OfType
  <2>2. PICK v \in Int : v = IF This.type = "SET6" THEN S_A ELSE Load(image[member], This.offset, 8) - S_A
    <3>1. Load(image[member], This.offset, 8) \in Int /\ S_A \in Int
      BY <2>1, ThisTyped, LoadTyped
    <3>2. QED
      BY <3>1
  <2>3. Write(Store(image[member], This.offset, 6, v))
    BY <1>10, <2>2 DEF StoreSix, Relocating, This
  <2>4. Effect(This, member, image[member], Store(image[member], This.offset, 6, v))
    BY <2>1, <2>2, SixEffect
  <2>6. QED
    BY <1>0, <2>1, <2>3, <2>4 DEF Handles
<1>11. CASE StoreUleb
  <2>1. NowRelocating /\ This.type \in {"SET_ULEB128", "SUB_ULEB128"}
    <3>1. Relocating({"SET_ULEB128"}) \/ Relocating({"SUB_ULEB128"})
      BY <1>11 DEF StoreUleb
    <3>2. QED
      BY <3>1, OfType
  <2>2. PICK wraps, v :
          /\ v = IF This.type = "SET_ULEB128" THEN S_A
                 ELSE read_uleb(image[member], This.offset, wraps) - S_A
          /\ Write(Overwrite_uleb(image[member], This.offset, v))
    <3>1. CASE Relocating({"SET_ULEB128"}) /\ Write(Overwrite_uleb(image[member], This.offset, S_A))
      BY <3>1 DEF Relocating
    <3>2. CASE /\ Relocating({"SUB_ULEB128"})
               /\ \E wraps \in BOOLEAN :
                    Write(Overwrite_uleb(image[member], This.offset,
                                         read_uleb(image[member], This.offset, wraps) - S_A))
      <4>1. PICK wraps, v :
              /\ v = read_uleb(image[member], This.offset, wraps) - S_A
              /\ Write(Overwrite_uleb(image[member], This.offset, v))
        BY <3>2
      <4>2. This.type # "SET_ULEB128"
        BY <3>2 DEF Relocating
      <4>3. QED
        BY <4>1, <4>2
    <3>3. QED
      BY <1>11, <3>1, <3>2 DEF StoreUleb
  <2>3. Effect(This, member, image[member], Overwrite_uleb(image[member], This.offset, v))
    BY <2>1, <2>2, LebEffect
  <2>4. QED
    BY <1>0, <2>1, <2>2, <2>3 DEF Handles
<1>12. CASE FillPadding
  <2>1. NowRelocating /\ This.type = "ALIGN"
    <3>1. Relocating({"ALIGN"})
      BY <1>12 DEF FillPadding
    <3>2. QED
      BY <3>1, OfType
  <2>2. PICK bytes : bytes = (image[member] \ At(This.offset, 0 .. 8 * This.addend - 1))
                             \union Padding(This.offset, This.addend)
    OBVIOUS
  <2>3. Write(bytes)
    <3> DEFINE nops == {This.offset + 4 * n : n \in 0 .. (This.addend \div 4) - 1}
               rest == This.offset + 4 * (This.addend \div 4)
               short == IF This.addend > 0 /\ This.addend % 4 # 0 THEN {rest} ELSE {}
    <3>1. bytes = (image[member] \ At(This.offset, 0 .. 8 * This.addend - 1))
                  \union (UNION {At(l, Nop) : l \in nops})
                  \union (UNION {At(l, CNop) : l \in short})
      BY <2>2 DEF Padding
    <3>2. QED
      BY <1>12, <3>1 DEF FillPadding
  <2>4. Effect(This, member, image[member], bytes)
    BY <2>1, <2>2, PaddingEffect
  <2>6. QED
    BY <1>0, <2>1, <2>3, <2>4 DEF Handles
<1>13. QED
  BY <1>1, <1>2, <1>3, <1>4, <1>5, <1>6, <1>7, <1>8, <1>9, <1>10, <1>11, <1>12

\* A step sorts, copies, goes on to the next member, ends, handles a relocation
\* or gives up.
LEMMA NextCases ==
    ASSUME TypeInv, [Next]_vars
    PROVE  \/ Sort_relocation \/ CopyMember \/ NextMember \/ RelocateDone
           \/ \E bytes : Handles(bytes)
           \/ GivesUp
           \/ UNCHANGED vars
BY WriteCases DEF Next, GivesUp, Terminated

\* The linker gives up at a relocation, as the phase says.
LEMMA GivesUpFacts ==
    ASSUME TypeInv, GivesUp
    PROVE  NowRelocating /\ \E reason \in Failures : Fail(reason)
<1>1. NowRelocating
  BY OfType DEF GivesUp, OutOfRange, NoAddress, PairMissing, PairNotSupported, OddPadding, NotSupported
<1>2. \E reason \in Failures : Fail(reason)
  BY DEF GivesUp, OutOfRange, NoAddress, PairMissing, PairNotSupported, OddPadding, NotSupported,
         Failures
<1>3. QED
  BY <1>1, <1>2

\* The steps keep the types.
LEMMA TypeInit == Init => TypeInv
<1> SUFFICES ASSUME Init PROVE TypeInv
  OBVIOUS
<1>1. shapes \in [Members -> MemberShapes] /\ addr \in [Places -> Addresses]
  BY DEF Init
<1>2. rels \in [Members -> Seq(Rel)]
  <2>1. \A m \in Members : shapes[m].rels \in Seq(Rel)
    BY <1>1, MembersAssumption
  <2>2. QED
    BY <2>1 DEF Init
<1>3. image \in [Members -> SUBSET Int]
  BY DEF Init
<1>4. phase = "sort" /\ member = 1 /\ relIdx = 1 /\ 1 \in Members /\ member \in 1 .. NumMembers + 1
  BY MembersAssumption DEF Init, Members
<1>5. QED
  BY <1>1, <1>2, <1>3, <1>4 DEF TypeInv, Failures

\* Every step keeps the types.
LEMMA TypeNext == TypeInv /\ [Next]_vars => TypeInv'
<1> SUFFICES ASSUME TypeInv, [Next]_vars PROVE TypeInv'
  OBVIOUS
<1>0. NumMembers \in Nat \ {0} /\ Members = 1 .. NumMembers
  BY MembersAssumption DEF Members
<1>1. CASE Sort_relocation
  <2>1. member \in Members /\ phase = "sort"
    BY <1>1 DEF Sort_relocation, TypeInv
  <2>2. PICK t \in Sorted(rels[member]) : rels' = [rels EXCEPT ![member] = t]
    BY <1>1 DEF Sort_relocation
  <2>3. rels[member] \in Seq(Rel)
    BY <2>1 DEF TypeInv
  <2>4. t \in Seq(Rel)
    BY <2>3, SortedFacts
  <2>5. rels' \in [Members -> Seq(Rel)]
    BY <2>1, <2>2, <2>4 DEF TypeInv
  <2>6. /\ member' \in 1 .. NumMembers + 1 /\ phase' \in {"sort", "copy"}
        /\ phase' = "sort" => member' \in Members
    BY <1>0, <1>1, <2>1 DEF Sort_relocation
  <2>7. shapes' = shapes /\ addr' = addr /\ image' = image /\ relIdx' = relIdx
    BY <1>1 DEF Sort_relocation, inputVars
  <2>8. QED
    BY <2>5, <2>6, <2>7 DEF TypeInv, Failures
<1>2. CASE CopyMember
  <2>1. member \in Members
    BY <1>0, <1>2 DEF CopyMember, TypeInv
  <2>2. shapes[member].data \in SUBSET Int
    BY <2>1, ShapeTyped
  <2>3. image' \in [Members -> SUBSET Int]
    BY <1>2, <2>1, <2>2 DEF CopyMember, TypeInv
  <2>4. /\ phase' = "relocate" /\ relIdx' = 1 /\ member' = member
        /\ shapes' = shapes /\ addr' = addr /\ rels' = rels
    BY <1>2 DEF CopyMember, inputVars
  <2>5. QED
    BY <2>1, <2>3, <2>4 DEF TypeInv, Failures
<1>3. CASE NextMember
  <2>1. member \in Members /\ member + 1 \in 1 .. NumMembers + 1
    BY <1>0, <1>3 DEF NextMember, TypeInv
  <2>2. /\ phase' = "copy" /\ relIdx' = relIdx /\ member' = member + 1
        /\ shapes' = shapes /\ addr' = addr /\ rels' = rels /\ image' = image
    BY <1>3 DEF NextMember, inputVars
  <2>3. QED
    BY <2>1, <2>2 DEF TypeInv, Failures
<1>4. CASE RelocateDone
  <2>1. /\ phase' = "done" /\ relIdx' = relIdx /\ member' = member
        /\ shapes' = shapes /\ addr' = addr /\ rels' = rels /\ image' = image
    BY <1>4 DEF RelocateDone, inputVars
  <2>2. QED
    BY <2>1 DEF TypeInv, Failures
<1>5. CASE \E bytes : Handles(bytes)
  <2>1. PICK bytes : Handles(bytes)
    BY <1>5
  <2>2. NowRelocating /\ bytes \in SUBSET Int
    BY <2>1 DEF Handles, Effect
  <2>3. member \in Members /\ phase = "relocate"
    BY <2>2, ThisTyped DEF NowRelocating
  <2>4. /\ phase' = phase /\ relIdx' = relIdx + 1 /\ member' = member
        /\ shapes' = shapes /\ addr' = addr /\ rels' = rels
        /\ image' = [image EXCEPT ![member] = bytes]
    BY <2>1 DEF Handles, Write, inputVars
  <2>5. image' \in [Members -> SUBSET Int]
    BY <2>2, <2>3, <2>4 DEF TypeInv
  <2>6. QED
    BY <2>3, <2>4, <2>5 DEF TypeInv, Failures
<1>6. CASE GivesUp
  <2>1. NowRelocating
    BY <1>6, GivesUpFacts
  <2>2. PICK reason \in Failures : Fail(reason)
    BY <1>6, GivesUpFacts
  <2>3. /\ phase' = reason /\ relIdx' = relIdx /\ member' = member
        /\ shapes' = shapes /\ addr' = addr /\ rels' = rels /\ image' = image
    BY <2>2 DEF Fail, inputVars
  <2>4. member \in Members /\ relIdx \in DOMAIN rels[member]
    BY <2>1, ThisTyped DEF NowRelocating
  <2>5. QED
    BY <2>3, <2>4 DEF TypeInv
<1>7. CASE UNCHANGED vars
  BY <1>7 DEF TypeInv, vars, inputVars
<1>8. QED
  BY <1>1, <1>2, <1>3, <1>4, <1>5, <1>6, <1>7, NextCases

\* The variables have their types: members and bits are numbers, and the relocation
\* at which the linker gives up is one of the member.
THEOREM TypeCorrect == Spec => []TypeInv
BY TypeInit, TypeNext, PTL DEF Spec

-----------------------------------------------------------------------------
(***************************************************************************)
(* What an assembler leaves in a member, and OtherBitsKept.                *)
(***************************************************************************)
OwnAll(m) == UNION {Own(r, m) : r \in RelsOf(m)}

\* LEB128 ends within ten bytes, and nothing is relocated where it says that it
\* goes on.
EndsAt(bytes, loc, n) ==
    /\ 8 * (loc + n) + 7 \notin bytes
    /\ \A k \in 0 .. n - 1 : 8 * (loc + k) + 7 \in bytes
WellFormed(m) ==
    \A r \in RelsOf(m) : IsUleb(r) =>
        \E n \in 0 .. 9 : /\ EndsAt(shapes[m].data, r.offset, n)
                          /\ \A k \in 0 .. n : 8 * (r.offset + k) + 7 \notin OwnAll(m)

\* No field reaches beyond its member.
FieldsFit(m) == OwnAll(m) \subseteq 0 .. 8 * shapes[m].size - 1

\* The member is in the buffer.
Copied(m) == phase # "sort" /\ (m < member \/ (m = member /\ phase \notin {"copy", "done"}))

\* A member is in the buffer as it is in its file, but for the fields.
OtherInv ==
    \A m \in Members :
        /\ ~Copied(m) => image[m] = {}
        /\ Copied(m) /\ WellFormed(m) => Keeps(image[m], shapes[m].data, OwnAll(m))

\* LEB128 that ends at byte n has n + 1 bytes.
LEMMA EndsFacts ==
    ASSUME NEW loc \in Int, NEW bytes, NEW n \in 0 .. 9, EndsAt(bytes, loc, n)
    PROVE  UlebLength(bytes, loc) = n + 1
<1> DEFINE Ends == {k \in 0 .. 9 : 8 * (loc + k) + 7 \notin bytes}
<1>1. n \in Ends
  BY DEF EndsAt
<1>2. \A k \in Ends : n <= k
  <2> TAKE k \in Ends
  <2>1. k \in Nat /\ 8 * (loc + k) + 7 \notin bytes
    OBVIOUS
  <2>2. k \notin 0 .. n - 1
    BY <2>1 DEF EndsAt
  <2>3. QED
    BY <2>1, <2>2
<1>3. Ends \subseteq Int
  OBVIOUS
<1>4. UlebLength(bytes, loc) = 1 + Min(Ends)
  BY DEF UlebLength
<1> HIDE DEF Ends
<1>5. Min(Ends) = n
  <2>1. \A k \in Ends : (\A j \in Ends : k <= j) => k = n
    BY <1>1, <1>2, <1>3
  <2>2. QED
    BY <1>1, <1>2, <2>1 DEF Min
<1>6. QED
  BY <1>4, <1>5

\* The length is what it is in the file, as long as what is in no field is.
LEMMA LebStays ==
    ASSUME TypeInv, NEW m \in Members, NEW r \in RelsOf(m), WellFormed(m),
           NEW bytes, Keeps(bytes, shapes[m].data, OwnAll(m))
    PROVE  LebSame(r, m, bytes)
<1>1. SUFFICES ASSUME IsUleb(r)
               PROVE  /\ UlebLength(shapes[m].data, r.offset) \in Nat
                      /\ UlebLength(bytes, r.offset) = UlebLength(shapes[m].data, r.offset)
  BY DEF LebSame
<1>2. PICK loc \in Int : loc = r.offset
  BY RelTyped DEF RelsOf
<1>3. PICK n \in 0 .. 9 : /\ EndsAt(shapes[m].data, loc, n)
                          /\ \A k \in 0 .. n : 8 * (loc + k) + 7 \notin OwnAll(m)
  BY <1>1, <1>2 DEF WellFormed
<1>4. ASSUME NEW k \in 0 .. n
      PROVE  8 * (loc + k) + 7 \in bytes <=> 8 * (loc + k) + 7 \in shapes[m].data
  BY <1>3, KeepsBit
<1>5. EndsAt(bytes, loc, n)
  <2>1. 8 * (loc + n) + 7 \notin bytes
    <3>1. n \in 0 .. n
      OBVIOUS
    <3>2. QED
      BY <1>3, <1>4, <3>1 DEF EndsAt
  <2>2. ASSUME NEW k \in 0 .. n - 1 PROVE 8 * (loc + k) + 7 \in bytes
    <3>1. k \in 0 .. n
      OBVIOUS
    <3>2. QED
      BY <1>3, <1>4, <3>1 DEF EndsAt
  <2>3. QED
    BY <2>1, <2>2 DEF EndsAt
<1>6. UlebLength(bytes, loc) = n + 1 /\ UlebLength(shapes[m].data, loc) = n + 1 /\ n + 1 \in Nat
  BY <1>3, <1>5, EndsFacts
<1>7. QED
  BY <1>2, <1>6

\* The inputs do not change.
LEMMA InputsStay ==
    ASSUME UNCHANGED <<shapes, addr, rels>>, NEW m
    PROVE  /\ WellFormed(m)' <=> WellFormed(m)
           /\ OwnAll(m)' = OwnAll(m)
           /\ \A r : (Own(r, m))' = Own(r, m)
           /\ RelsOf(m)' = RelsOf(m)
<1>1. RelsOf(m)' = RelsOf(m)
  BY DEF RelsOf
<1>2. \A r : (Width(r, m))' = Width(r, m)
  BY DEF Width
<1>3. \A r : (Own(r, m))' = Own(r, m)
  BY <1>2 DEF Own
<1>4. OwnAll(m)' = OwnAll(m)
  BY <1>1, <1>3 DEF OwnAll
<1>5. WellFormed(m)' <=> WellFormed(m)
  BY <1>1, <1>4 DEF WellFormed
<1>6. QED
  BY <1>1, <1>3, <1>4, <1>5

\* What a step does to the state of a member.
MemberStays(m) ==
    /\ UNCHANGED <<shapes, addr, rels>> /\ image'[m] = image[m]
    /\ Copied(m)' <=> Copied(m)

\* A step leaves a member as it is, copies it, or handles a relocation of one.
LEMMA MemberCases ==
    ASSUME TypeInv, [Next]_vars, NEW m \in Members
    PROVE  \/ ~Copied(m)' /\ image'[m] = image[m] /\ phase = "sort"
           \/ MemberStays(m) /\ \A bytes : ~Handles(bytes)
           \/ /\ CopyMember /\ m = member /\ UNCHANGED <<shapes, addr, rels>>
              /\ image'[m] = shapes[m].data /\ Copied(m)'
           \/ \E bytes : /\ Handles(bytes) /\ UNCHANGED <<shapes, addr, rels>>
                         /\ Copied(m)' <=> Copied(m)
                         /\ image'[m] = IF m = member THEN bytes ELSE image[m]
<1>1. m \in Int /\ member \in Int /\ 1 <= m
  BY MembersAssumption DEF Members, TypeInv
<1>2. CASE Sort_relocation
  <2>1. phase = "sort" /\ image' = image
    BY <1>2 DEF Sort_relocation
  <2>2. phase' = "sort" \/ (phase' = "copy" /\ member' = 1)
    BY <1>2, <2>1 DEF Sort_relocation
  <2>3. QED
    BY <1>1, <2>1, <2>2 DEF Copied
<1>3. CASE CopyMember
  <2>1. /\ member' = member /\ phase = "copy" /\ phase' = "relocate" /\ UNCHANGED <<shapes, addr, rels>>
        /\ image' = [image EXCEPT ![member] = shapes[member].data]
    BY <1>3 DEF CopyMember, inputVars
  <2>2. image'[m] = IF m = member THEN shapes[m].data ELSE image[m]
    BY <2>1 DEF TypeInv
  <2>3. \A bytes : ~Handles(bytes)
    BY <2>1 DEF Handles, NowRelocating
  <2>4. QED
    BY <1>1, <1>3, <2>1, <2>2, <2>3 DEF Copied, MemberStays
<1>4. CASE NextMember
  <2>1. /\ member' = member + 1 /\ phase = "relocate" /\ phase' = "copy" /\ image' = image
        /\ UNCHANGED <<shapes, addr, rels>>
    BY <1>4 DEF NextMember, inputVars
  <2>2. \A bytes : ~Handles(bytes)
    <3>1. Len(rels[member]) \in Nat /\ DOMAIN rels[member] = 1 .. Len(rels[member])
      <4>1. member \in Members
        BY <2>1 DEF TypeInv
      <4>2. rels[member] \in Seq(Rel)
        BY <4>1 DEF TypeInv
      <4>3. QED
        BY <4>2
    <3>2. relIdx > Len(rels[member])
      BY <1>4 DEF NextMember
    <3>3. relIdx \notin DOMAIN rels[member]
      BY <3>1, <3>2 DEF TypeInv
    <3>4. QED
      BY <3>3 DEF Handles, NowRelocating
  <2>3. QED
    BY <1>1, <2>1, <2>2 DEF Copied, MemberStays
<1>5. CASE RelocateDone
  <2>1. /\ member' = member /\ phase = "copy" /\ phase' = "done" /\ image' = image
        /\ UNCHANGED <<shapes, addr, rels>>
    BY <1>5 DEF RelocateDone, inputVars
  <2>2. \A bytes : ~Handles(bytes)
    BY <2>1 DEF Handles, NowRelocating
  <2>3. QED
    BY <1>1, <2>1, <2>2 DEF Copied, MemberStays
<1>6. CASE \E bytes : Handles(bytes)
  <2>1. PICK bytes : Handles(bytes)
    BY <1>6
  <2>2. /\ member' = member /\ phase' = phase /\ UNCHANGED <<shapes, addr, rels>>
        /\ image' = [image EXCEPT ![member] = bytes]
    BY <2>1 DEF Handles, Write, inputVars
  <2>3. image'[m] = IF m = member THEN bytes ELSE image[m]
    BY <2>2 DEF TypeInv
  <2>4. QED
    BY <2>1, <2>2, <2>3 DEF Copied
<1>7. CASE GivesUp /\ ~\E bytes : Handles(bytes)
  <2>1. PICK reason \in Failures : Fail(reason)
    BY <1>7, GivesUpFacts
  <2>2. /\ member' = member /\ phase = "relocate" /\ phase' = reason /\ image' = image
        /\ UNCHANGED <<shapes, addr, rels>>
    BY <1>7, <2>1, GivesUpFacts DEF Fail, inputVars, NowRelocating
  <2>3. phase' \notin {"copy", "done", "sort"}
    BY <2>2 DEF Failures
  <2>4. QED
    BY <1>7, <2>2, <2>3 DEF Copied, MemberStays
<1>8. CASE UNCHANGED vars /\ ~\E bytes : Handles(bytes)
  BY <1>8 DEF Copied, MemberStays, vars, inputVars
<1>9. QED
  BY <1>2, <1>3, <1>4, <1>5, <1>6, <1>7, <1>8, NextCases

\* Handling a relocation changes nothing outside its own bits.
LEMMA HandledKeeps ==
    ASSUME TypeInv, OtherInv, NEW bytes, Handles(bytes), WellFormed(member)
    PROVE  /\ member \in Members /\ This \in RelsOf(member) /\ Copied(member)
           /\ Keeps(image[member], shapes[member].data, OwnAll(member))
           /\ LebSame(This, member, image[member])
           /\ Keeps(bytes, image[member], Own(This, member))
<1>1. NowRelocating /\ Effect(This, member, image[member], bytes)
  BY DEF Handles
<1>2. member \in Members /\ This \in RelsOf(member)
  BY <1>1, ThisTyped DEF NowRelocating, RelsOf, This
<1>3. Copied(member)
  BY <1>1 DEF Copied, NowRelocating
<1>4. Keeps(image[member], shapes[member].data, OwnAll(member))
  BY <1>2, <1>3 DEF OtherInv
<1>5. LebSame(This, member, image[member])
  BY <1>2, <1>4, LebStays
<1>6. Keeps(bytes, image[member], Own(This, member))
  BY <1>1, <1>5 DEF Effect
<1>7. QED
  BY <1>2, <1>3, <1>4, <1>5, <1>6

\* Every step keeps the bits outside the fields.
LEMMA OtherNext == TypeInv /\ OtherInv /\ [Next]_vars => OtherInv'
<1> SUFFICES ASSUME TypeInv, OtherInv, [Next]_vars, NEW m \in Members
             PROVE  /\ ~Copied(m)' => image'[m] = {}
                    /\ Copied(m)' /\ WellFormed(m)' => Keeps(image'[m], shapes'[m].data, OwnAll(m)')
  BY DEF OtherInv
<1>0. /\ ~Copied(m) => image[m] = {}
      /\ Copied(m) /\ WellFormed(m) => Keeps(image[m], shapes[m].data, OwnAll(m))
  BY DEF OtherInv
<1>1. CASE ~Copied(m)' /\ image'[m] = image[m] /\ phase = "sort"
  BY <1>0, <1>1 DEF Copied
<1>2. CASE MemberStays(m)
  <2>1. UNCHANGED <<shapes, addr, rels>> /\ image'[m] = image[m] /\ (Copied(m)' <=> Copied(m))
    BY <1>2 DEF MemberStays
  <2>2. (WellFormed(m)' <=> WellFormed(m)) /\ OwnAll(m)' = OwnAll(m)
    BY <2>1, InputsStay
  <2>3. QED
    BY <1>0, <2>1, <2>2
<1>3. CASE image'[m] = shapes[m].data /\ UNCHANGED <<shapes, addr, rels>> /\ Copied(m)'
  BY <1>3 DEF Keeps
<1>4. CASE \E bytes : /\ Handles(bytes) /\ UNCHANGED <<shapes, addr, rels>>
                      /\ Copied(m)' <=> Copied(m)
                      /\ image'[m] = IF m = member THEN bytes ELSE image[m]
  <2>1. PICK bytes : /\ Handles(bytes) /\ UNCHANGED <<shapes, addr, rels>>
                     /\ Copied(m)' <=> Copied(m)
                     /\ image'[m] = IF m = member THEN bytes ELSE image[m]
    BY <1>4
  <2>2. (WellFormed(m)' <=> WellFormed(m)) /\ OwnAll(m)' = OwnAll(m)
    BY <2>1, InputsStay
  <2>3. CASE m # member
    BY <1>0, <2>1, <2>2, <2>3
  <2>4. CASE m = member
    <3>1. Copied(m)
      BY <2>1, <2>4 DEF Handles, NowRelocating, Copied
    <3>2. ASSUME WellFormed(m) PROVE Keeps(bytes, shapes[m].data, OwnAll(m))
      <4>1. /\ This \in RelsOf(m) /\ Keeps(image[m], shapes[m].data, OwnAll(m))
            /\ Keeps(bytes, image[m], Own(This, m))
        BY <2>1, <2>4, <3>2, HandledKeeps
      <4>2. Own(This, m) \subseteq OwnAll(m)
        BY <4>1 DEF OwnAll
      <4>3. QED
        BY <4>1, <4>2 DEF Keeps
    <3>3. QED
      BY <2>1, <2>2, <2>4, <3>1, <3>2
  <2>5. QED
    BY <2>3, <2>4
<1>5. QED
  BY <1>1, <1>2, <1>3, <1>4, MemberCases

\* At first nothing is in the buffer.
LEMMA OtherInit == Init => OtherInv
<1> SUFFICES ASSUME Init, NEW m \in Members PROVE ~Copied(m) /\ image[m] = {}
  BY DEF OtherInv
<1>1. QED
  BY DEF Init, Copied

\* The bits outside the fields are those of the file, at any time.
THEOREM OtherInvariant == Spec => []OtherInv
<1>1. Init => OtherInv
  BY OtherInit
<1>2. TypeInv /\ OtherInv /\ [Next]_vars => OtherInv'
  BY OtherNext
<1>3. QED
  BY <1>1, <1>2, TypeCorrect, PTL DEF Spec

\* A member that is linked has been copied, and the loop is past it.
LEMMA LinkedCopied ==
    ASSUME NEW m \in Members, Linked(m), member \in Int,
           phase = "done" => member = NumMembers + 1
    PROVE  Copied(m) /\ m < member
BY MembersAssumption DEF Linked, Copied, Members

\* When everything is done the last member has been.
DoneInv == phase = "done" => member = NumMembers + 1

\* Every step keeps the end of the loop of Relocate_symbols.
LEMMA DoneNext == TypeInv /\ DoneInv /\ [Next]_vars => DoneInv'
<1> SUFFICES ASSUME TypeInv, DoneInv, [Next]_vars, phase' = "done" PROVE member' = NumMembers + 1
  BY DEF DoneInv
<1>1. CASE RelocateDone
  BY <1>1, MembersAssumption DEF RelocateDone, TypeInv
<1>2. CASE UNCHANGED vars
  BY <1>2 DEF DoneInv, vars
<1>3. CASE GivesUp
  BY <1>3, GivesUpFacts DEF Fail, Failures
<1>4. CASE \E bytes : Handles(bytes)
  BY <1>4 DEF Handles, Write, NowRelocating
<1>5. ~Sort_relocation /\ ~CopyMember /\ ~NextMember
  BY DEF Sort_relocation, CopyMember, NextMember
<1>6. QED
  BY <1>1, <1>2, <1>3, <1>4, <1>5, NextCases

\* The loop of Relocate_symbols ends behind the last member.
THEOREM DoneInvariant == Spec => []DoneInv
<1>1. Init => DoneInv
  BY DEF Init, DoneInv
<1>2. TypeInv /\ DoneInv /\ [Next]_vars => DoneInv'
  BY DoneNext
<1>3. QED
  BY <1>1, <1>2, TypeCorrect, PTL DEF Spec

\* Everything but the fields is as it is in the file.
THEOREM OtherBitsCorrect ==
    Spec => []((\A m \in Members : WellFormed(m) /\ FieldsFit(m)) => OtherBitsKept)
<1>1. ASSUME TypeInv, OtherInv, DoneInv, \A m \in Members : WellFormed(m) /\ FieldsFit(m)
      PROVE  OtherBitsKept
  <2>1. ASSUME NEW m \in Members PROVE image[m] \subseteq 0 .. 8 * shapes[m].size - 1
    <3>1. shapes[m].data \subseteq 0 .. 8 * shapes[m].size - 1
      <4>1. PICK size \in Nat, data \in SUBSET Nat : size = shapes[m].size /\ data = shapes[m].data
        BY <1>1, ShapeTyped
      <4>2. \A b \in data : b < 8 * size
        BY <1>1, <4>1, ShapeTyped
      <4>3. QED
        BY <4>1, <4>2
    <3>2. CASE ~Copied(m)
      BY <1>1, <3>2 DEF OtherInv
    <3>3. CASE Copied(m)
      BY <1>1, <3>1, <3>3 DEF OtherInv, Keeps, FieldsFit
    <3>4. QED
      BY <3>2, <3>3
  <2>2. ASSUME NEW m \in Members, Linked(m)
        PROVE  image[m] \ OwnAll(m) = shapes[m].data \ OwnAll(m)
    <3>1. Copied(m)
      BY <1>1, <2>2, LinkedCopied DEF TypeInv, DoneInv
    <3>2. QED
      BY <1>1, <3>1 DEF OtherInv, Keeps
  <2>3. QED
    BY <2>1, <2>2 DEF OtherBitsKept, OwnAll
<1>2. QED
  BY <1>1, TypeCorrect, OtherInvariant, DoneInvariant, PTL

-----------------------------------------------------------------------------
(***************************************************************************)
(* The order of the relocations, and ErrorsAreReal.                        *)
(***************************************************************************)
\* What has been sorted is in order, and what was in order is as it was.
OrderInv ==
    \A m \in Members :
        /\ phase = "sort" /\ ~(m < member) => rels[m] = shapes[m].rels
        /\ phase # "sort" \/ m < member =>
             InOrder(rels[m]) /\ (InOrder(shapes[m].rels) => rels[m] = shapes[m].rels)

\* Every step keeps the order of the relocations.
LEMMA OrderNext == TypeInv /\ OrderInv /\ [Next]_vars => OrderInv'
<1> SUFFICES ASSUME TypeInv, OrderInv, [Next]_vars, NEW m \in Members
             PROVE  /\ phase' = "sort" /\ ~(m < member') => rels'[m] = shapes'[m].rels
                    /\ phase' # "sort" \/ m < member' =>
                         InOrder(rels'[m]) /\ (InOrder(shapes'[m].rels) => rels'[m] = shapes'[m].rels)
  <2>1. \A m \in Members : InOrder(rels[m])' <=> InOrder(rels'[m])
    BY DEF InOrder
  <2>2. \A m \in Members : InOrder(shapes[m].rels)' <=> InOrder(shapes'[m].rels)
    BY DEF InOrder
  <2>3. QED
    BY <2>1, <2>2 DEF OrderInv
<1>0. /\ phase = "sort" /\ ~(m < member) => rels[m] = shapes[m].rels
      /\ phase # "sort" \/ m < member =>
           InOrder(rels[m]) /\ (InOrder(shapes[m].rels) => rels[m] = shapes[m].rels)
  BY DEF OrderInv
<1>1. m \in Int /\ member \in Int /\ 1 <= m /\ m <= NumMembers /\ NumMembers \in Int
  BY MembersAssumption DEF Members, TypeInv
<1>2. CASE Sort_relocation
  <2>1. PICK t \in Sorted(rels[member]) : rels' = [rels EXCEPT ![member] = t]
    BY <1>2 DEF Sort_relocation
  <2>2. phase = "sort" /\ member \in Members /\ shapes' = shapes
    BY <1>2 DEF Sort_relocation, TypeInv, inputVars
  <2>3. rels[member] \in Seq(Rel) /\ rels'[m] = IF m = member THEN t ELSE rels[m]
    BY <2>1, <2>2 DEF TypeInv
  <2>4. InOrder(t) /\ (InOrder(rels[member]) => t = rels[member])
    BY <2>3, SortedFacts
  <2>5. \/ member = NumMembers /\ phase' = "copy"
        \/ phase' = "sort" /\ member' = member + 1
    BY <1>2, <2>2 DEF Sort_relocation
  <2>6. CASE m = member
    <3>1. rels'[m] = t /\ rels[m] = shapes[m].rels
      BY <1>0, <2>2, <2>3, <2>6, <1>1
    <3>2. ~(phase' = "sort" /\ ~(m < member'))
      BY <1>1, <2>5, <2>6
    <3>3. QED
      BY <2>2, <2>4, <2>6, <3>1, <3>2
  <2>7. CASE m # member
    <3>1. rels'[m] = rels[m]
      BY <2>3, <2>7
    <3>2. phase' # "sort" \/ m < member' => m < member
      BY <1>1, <2>5, <2>7
    <3>3. phase' = "sort" /\ ~(m < member') => ~(m < member)
      BY <1>1, <2>5
    <3>4. QED
      BY <1>0, <2>2, <3>1, <3>2, <3>3
  <2>8. QED
    BY <2>6, <2>7
<1>3. CASE phase # "sort" /\ phase' # "sort" /\ rels' = rels /\ shapes' = shapes
  BY <1>0, <1>3
<1>4. CASE UNCHANGED vars
  BY <1>0, <1>4 DEF vars, inputVars
<1>5. CASE CopyMember \/ NextMember \/ RelocateDone
  BY <1>3, <1>5 DEF CopyMember, NextMember, RelocateDone, inputVars
<1>6. CASE \E bytes : Handles(bytes)
  BY <1>3, <1>6 DEF Handles, NowRelocating, Write, inputVars
<1>7. CASE GivesUp
  BY <1>3, <1>7, GivesUpFacts DEF NowRelocating, Fail, Failures, inputVars
<1>8. QED
  BY <1>2, <1>4, <1>5, <1>6, <1>7, NextCases

\* Relocations are in order from Sort_relocation on.
THEOREM OrderInvariant == Spec => []OrderInv
<1>1. Init => OrderInv
  BY DEF Init, OrderInv, Members
<1>2. TypeInv /\ OrderInv /\ [Next]_vars => OrderInv'
  BY OrderNext
<1>3. QED
  BY <1>1, <1>2, TypeCorrect, PTL DEF Spec

\* Some relocation is by a symbol that is at a certain place, or is gone.
LostBy(where) == \E r \in RelsOf(member) : r.type \notin Ignored /\ Symbols[r.sym].where = where
GoneBy == \E r \in RelsOf(member) : r.type \notin Ignored /\ Symbols[r.sym].gone

\* Why the linker has given up.
GaveUpInv ==
    /\ phase = "out_of_range" =>
         This.type \in Branches \union Calls \union {"HI20"} /\ ~check(Checked, This.type)
    /\ phase = "pair_missing" => This.type \in PairedLow /\ find_paired_reloc = 0
    /\ phase = "not_supported" => \E r \in RelsOf(member) : r.type \notin Supported
    /\ phase = "odd_padding" => \E r \in RelsOf(member) : r.type = "ALIGN" /\ r.addend % 2 = 1
    /\ phase = "not_bound" => LostBy(Unbound)
    /\ phase = "unreachable" => LostBy(Unplaced)
    /\ phase = "not_found" => GoneBy
    /\ phase = "crashed" => LostBy(Unplaced) \/ GoneBy

\* The relocation at hand and what is found for it, in a step that changes only
\* the phase.
LEMMA GaveUpStays ==
    ASSUME UNCHANGED <<shapes, addr, rels, member, relIdx>>
    PROVE  /\ This' = This /\ Checked' = Checked /\ find_paired_reloc' = find_paired_reloc
           /\ RelsOf(member)' = RelsOf(member)
           /\ \A where : LostBy(where)' <=> LostBy(where)
           /\ GoneBy' <=> GoneBy
<1>1. This' = This
  BY DEF This
<1>2. Checked' = Checked
  <2>1. S_A' = S_A /\ S_A_P' = S_A_P
    BY <1>1 DEF S_A, S_A_P, Relatively, Absolutely, get_sym_addr, GlobalAddr, isec_addr
  <2>2. QED
    BY <1>1, <2>1 DEF Checked
<1>3. \A n : is_paired(n)' <=> is_paired(n)
  BY <1>1 DEF is_paired
<1>4. find_paired_reloc' = find_paired_reloc
  BY <1>1, <1>3 DEF find_paired_reloc
<1>5. RelsOf(member)' = RelsOf(member)
  BY DEF RelsOf
<1>6. QED
  BY <1>1, <1>2, <1>4, <1>5 DEF LostBy, GoneBy

\* The symbols whose addresses are asked for are of relocations of the member.
LEMMA AskedOfMember ==
    ASSUME TypeInv, NowRelocating, This.type \notin Ignored, NEW s \in Asked
    PROVE  \E r \in RelsOf(member) : r.type \notin Ignored /\ r.sym = s
<1>1. This \in RelsOf(member)
  BY DEF NowRelocating, This, RelsOf
<1>2. CASE s = This.sym
  BY <1>1, <1>2
<1>3. CASE Relocating(PairedLow) /\ find_paired_reloc # 0 /\ s = Paired.sym
  <2>1. find_paired_reloc \in DOMAIN rels[member] /\ is_paired(find_paired_reloc)
    BY <1>3, PairFound
  <2>2. Paired \in RelsOf(member) /\ Paired.type \in High20
    BY <2>1 DEF is_paired, Paired, RelsOf
  <2>3. Paired.type \notin Ignored
    BY <2>2 DEF High20, Ignored
  <2>4. QED
    BY <1>3, <2>2, <2>3
<1>4. QED
  BY <1>2, <1>3 DEF Asked

\* The linker gives up as the handlers say.
LEMMA GaveUpNext == TypeInv /\ GaveUpInv /\ [Next]_vars => GaveUpInv'
<1> SUFFICES ASSUME TypeInv, GaveUpInv, [Next]_vars PROVE GaveUpInv'
  OBVIOUS
<1>1. CASE GivesUp
  <2>1. NowRelocating /\ \E reason \in Failures : Fail(reason)
    BY <1>1, GivesUpFacts
  <2>2. UNCHANGED <<shapes, addr, rels, member, relIdx>>
    BY <2>1 DEF Fail, inputVars
  <2>3. /\ This' = This /\ Checked' = Checked /\ find_paired_reloc' = find_paired_reloc
        /\ RelsOf(member)' = RelsOf(member)
        /\ (\A where : LostBy(where)' <=> LostBy(where)) /\ (GoneBy' <=> GoneBy)
    BY <2>2, GaveUpStays
  <2>4. This \in RelsOf(member)
    BY <2>1 DEF NowRelocating, This, RelsOf
  <2>5. CASE OutOfRange
    <3>1. /\ phase' = "out_of_range" /\ ~check(Checked, This.type)
          /\ This.type \in Branches \union Calls \union {"HI20"}
      BY <2>5, OfType DEF OutOfRange, Fail, Calls
    <3>2. (~check(Checked, This.type))'
      BY <2>3, <3>1 DEF check, limit, Signed
    <3>3. QED
      BY <2>3, <3>1, <3>2 DEF GaveUpInv
  <2>6. CASE PairMissing
    <3>1. phase' = "pair_missing" /\ This.type \in PairedLow /\ find_paired_reloc = 0
      BY <2>6, OfType DEF PairMissing, Fail
    <3>2. QED
      BY <2>3, <3>1 DEF GaveUpInv
  <2>7. CASE PairNotSupported
    <3>1. phase' = "not_supported" /\ find_paired_reloc # 0 /\ Paired.type # "PCREL_HI20"
      BY <2>7 DEF PairNotSupported, Fail
    <3>2. find_paired_reloc \in DOMAIN rels[member] /\ is_paired(find_paired_reloc)
      BY <2>1, <3>1, PairFound
    <3>3. Paired.type \in High20 /\ Paired \in RelsOf(member)
      BY <3>2 DEF is_paired, Paired, RelsOf
    <3>4. Paired.type \notin Supported
      BY <3>1, <3>3 DEF High20, Supported, Branches, PairedLow, AbsoluteLow, Stores, Sums, Ignored
    <3>5. QED
      BY <2>3, <3>1, <3>3, <3>4 DEF GaveUpInv
  <2>8. CASE NotSupported
    <3>1. phase' = "not_supported" /\ This.type \notin Supported
      BY <2>8 DEF NotSupported, Fail
    <3>2. QED
      BY <2>3, <2>4, <3>1 DEF GaveUpInv
  <2>9. CASE OddPadding
    <3>1. phase' = "odd_padding" /\ This.type = "ALIGN" /\ This.addend % 2 = 1
      BY <2>9, OfType DEF OddPadding, Fail
    <3>2. QED
      BY <2>3, <2>4, <3>1 DEF GaveUpInv
  <2>10. CASE NoAddress
    <3>1. This.type \notin Ignored
      BY <2>10 DEF NoAddress
    <3>2. PICK s \in Asked :
            \/ Symbols[s].where = Unbound /\ phase' = "not_bound"
            \/ Symbols[s].where = Unplaced /\ phase' \in {"unreachable", "crashed"}
            \/ Symbols[s].gone /\ phase' \in {"not_found", "crashed"}
      BY <2>10 DEF NoAddress, Fail
    <3>3. PICK r \in RelsOf(member) : r.type \notin Ignored /\ r.sym = s
      BY <2>1, <3>1, AskedOfMember
    <3>4. CASE Symbols[s].where = Unbound /\ phase' = "not_bound"
      <4>1. LostBy(Unbound)
        BY <3>3, <3>4 DEF LostBy
      <4>2. QED
        BY <2>3, <3>4, <4>1 DEF GaveUpInv
    <3>5. CASE Symbols[s].where = Unplaced /\ phase' \in {"unreachable", "crashed"}
      <4>1. LostBy(Unplaced)
        BY <3>3, <3>5 DEF LostBy
      <4>2. QED
        BY <2>3, <3>5, <4>1 DEF GaveUpInv
    <3>6. CASE Symbols[s].gone /\ phase' \in {"not_found", "crashed"}
      <4>1. GoneBy
        BY <3>3, <3>6 DEF GoneBy
      <4>2. QED
        BY <2>3, <3>6, <4>1 DEF GaveUpInv
    <3>7. QED
      BY <3>2, <3>4, <3>5, <3>6
  <2>11. QED
    BY <1>1, <2>5, <2>6, <2>7, <2>8, <2>9, <2>10 DEF GivesUp
<1>2. CASE UNCHANGED vars
  <2>1. UNCHANGED <<shapes, addr, rels, member, relIdx>> /\ phase' = phase
    BY <1>2 DEF vars, inputVars
  <2>2. /\ This' = This /\ Checked' = Checked /\ find_paired_reloc' = find_paired_reloc
        /\ RelsOf(member)' = RelsOf(member)
        /\ (\A where : LostBy(where)' <=> LostBy(where)) /\ (GoneBy' <=> GoneBy)
    BY <2>1, GaveUpStays
  <2>3. check(Checked, This.type)' <=> check(Checked, This.type)
    BY <2>2 DEF check, limit, Signed
  <2>4. QED
    BY <2>1, <2>2, <2>3 DEF GaveUpInv
<1>3. CASE \E bytes : Handles(bytes)
  BY <1>3 DEF Handles, Write, NowRelocating, GaveUpInv
<1>4. CASE Sort_relocation \/ CopyMember \/ NextMember \/ RelocateDone
  BY <1>4 DEF Sort_relocation, CopyMember, NextMember, RelocateDone, GaveUpInv
<1>5. QED
  BY <1>1, <1>2, <1>3, <1>4, NextCases

\* Once the linker has given up, the reason is still there.
THEOREM GaveUpInvariant == Spec => []GaveUpInv
<1>1. Init => GaveUpInv
  BY DEF Init, GaveUpInv
<1>2. TypeInv /\ GaveUpInv /\ [Next]_vars => GaveUpInv'
  BY GaveUpNext
<1>3. QED
  BY <1>1, <1>2, TypeCorrect, PTL DEF Spec

\* The target of a relocation that is not of a misplaced symbol.
LEMMA NotMisplaced ==
    ASSUME NEW r, NEW m, r.sym \in DOMAIN Symbols, ~Misplaced(r)
    PROVE  /\ Absolutely(r, m) = Target(r, m)
           /\ Signed(Relatively(r, m)) = Distance(r, m)
<1>1. get_sym_addr(r.sym, m) = GlobalAddr(Symbols[r.sym], m)
  BY DEF get_sym_addr, Misplaced, GlobalAddr, HasAddress, Here, Absolute, DeadPiece, Unplaced, Unbound
<1>2. Absolutely(r, m) = Target(r, m)
  BY <1>1 DEF Absolutely, Target
<1>3. QED
  BY <1>2 DEF Relatively, Distance

\* The range of a branch or a jump.
LEMMA BranchTop ==
    ASSUME NEW type \in Branches
    PROVE  \E top \in 1 .. 20 :
             /\ {Format(type)[b] : b \in DOMAIN Format(type)} = 1 .. top
             /\ limit(type) = 2 ^ top
             /\ Max({Format(type)[b] : b \in DOMAIN Format(type)}) = top
<1>1. ASSUME NEW top \in 1 .. 20 PROVE Max(1 .. top) = top
  <2>1. \A m \in 1 .. top : (\A k \in 1 .. top : m >= k) <=> m = top
    OBVIOUS
  <2>2. top \in 1 .. top
    OBVIOUS
  <2>3. QED
    BY <2>1, <2>2 DEF Max
<1>2. CASE type = "BRANCH"
  <2>1. {Format(type)[b] : b \in DOMAIN Format(type)} = 1 .. 12 /\ limit(type) = 2 ^ 12
    BY <1>2, FormatBFacts DEF FormatB, limit
  <2>2. Max(1 .. 12) = 12
    BY <1>1
  <2>3. QED
    BY <2>1, <2>2
<1>3. CASE type = "JAL"
  <2>1. {Format(type)[b] : b \in DOMAIN Format(type)} = 1 .. 20 /\ limit(type) = 2 ^ 20
    BY <1>3, FormatJFacts DEF FormatJ, limit
  <2>2. Max(1 .. 20) = 20
    BY <1>1
  <2>3. QED
    BY <2>1, <2>2
<1>4. CASE type = "RVC_BRANCH"
  <2>1. {Format(type)[b] : b \in DOMAIN Format(type)} = 1 .. 8 /\ limit(type) = 2 ^ 8
    BY <1>4, FormatCBFacts DEF FormatCB, limit
  <2>2. Max(1 .. 8) = 8
    BY <1>1
  <2>3. QED
    BY <2>1, <2>2
<1>5. CASE type = "RVC_JUMP"
  <2>1. {Format(type)[b] : b \in DOMAIN Format(type)} = 1 .. 11 /\ limit(type) = 2 ^ 11
    BY <1>5, FormatCJFacts DEF FormatCJ, limit
  <2>2. Max(1 .. 11) = 11
    BY <1>1
  <2>3. QED
    BY <2>1, <2>2
<1>6. QED
  BY <1>2, <1>3, <1>4, <1>5 DEF Branches

\* No instruction has both halves of an address.
HalvesApart(m) ==
    \A low, high \in RelsOf(m) :
        low.type \in PairedLow /\ high.type \in High20 => low.offset # high.offset

\* If find_paired_reloc finds no high part before or behind, there is none in the
\* member.
LEMMA NoPair ==
    ASSUME TypeInv, relIdx \in DOMAIN rels[member], member \in Members, InOrder(rels[member]),
           HalvesApart(member), This.type \in PairedLow, find_paired_reloc = 0,
           NEW r \in RelsOf(member), r.type \in High20, r.offset = Symbols[This.sym].val
    PROVE  FALSE
<1>1. PICK rs \in Seq(Rel) : rs = rels[member]
  BY DEF TypeInv
<1>2. PICK len \in Nat : len = Len(rs) /\ DOMAIN rs = 1 .. len
  OBVIOUS
<1>3. relIdx \in 1 .. len /\ This = rs[relIdx] /\ InOrder(rs)
  BY <1>1, <1>2 DEF This
<1>4. PICK n \in 1 .. len : r = rs[n]
  BY <1>1, <1>2 DEF RelsOf
<1>5. is_paired(n)
  BY <1>1, <1>4 DEF is_paired
<1>6. n # relIdx
  BY <1>3, <1>4 DEF PairedLow, High20
<1>7. This.offset \in Nat /\ r.offset \in Nat
  <2>1. This \in Rel /\ r \in Rel
    BY <1>2, <1>3, <1>4
  <2>2. QED
    BY <2>1 DEF Rel
<1>8. r.offset # This.offset
  <2>1. This \in RelsOf(member)
    BY DEF RelsOf, This
  <2>2. QED
    BY <2>1 DEF HalvesApart
<1>9. relIdx <= n => This.offset <= r.offset
  BY <1>2, <1>3, <1>4, OrderTransitive
<1>10. n <= relIdx => r.offset <= This.offset
  BY <1>2, <1>3, <1>4, OrderTransitive
<1>11. CASE r.offset <= This.offset
  <2>1. n \in 1 .. relIdx - 1
    BY <1>3, <1>6, <1>7, <1>8, <1>9, <1>11
  <2> DEFINE Found == {k \in 1 .. relIdx - 1 : is_paired(k)}
  <2>2. n \in Found
    BY <1>5, <2>1
  <2>3. find_paired_reloc = Max({0} \union Found)
    BY <1>11 DEF find_paired_reloc
  <2>4. Found \subseteq 0 .. relIdx
    BY <1>3
  <2> HIDE DEF Found
  <2>5. PICK all : all = {0} \union Found
    OBVIOUS
  <2>6. all \in SUBSET Nat /\ all # {} /\ all \subseteq 0 .. relIdx
    BY <1>3, <2>4, <2>5
  <2>7. IsFiniteSet(all)
    <3>1. IsFiniteSet(0 .. relIdx)
      BY <1>3, FS_Interval
    <3>2. QED
      BY <2>6, <3>1, FS_Subset
  <2>8. n <= Max(all)
    BY <2>2, <2>5, <2>6, <2>7, MaxOfFinite
  <2>9. QED
    BY <2>1, <2>3, <2>5, <2>8
<1>12. CASE ~(r.offset <= This.offset)
  <2>1. n \in relIdx + 1 .. Len(rels[member])
    BY <1>1, <1>2, <1>3, <1>6, <1>7, <1>10, <1>12
  <2> DEFINE Found == {k \in relIdx + 1 .. Len(rels[member]) : is_paired(k)}
  <2>2. n \in Found
    BY <1>5, <2>1
  <2>3. find_paired_reloc = Min(Found)
    BY <1>12, <2>2 DEF find_paired_reloc
  <2>4. Found \in SUBSET Nat /\ 0 \notin Found
    BY <1>1, <1>2, <1>3
  <2> HIDE DEF Found
  <2>5. Min(Found) \in Found
    <3>1. \E x \in Found : \A y \in Found : x <= y
      BY <2>2, <2>4, LeastNatural
    <3>2. QED
      BY <3>1 DEF Min
  <2>6. QED
    BY <2>3, <2>4, <2>5
<1>13. QED
  BY <1>11, <1>12

-----------------------------------------------------------------------------
(***************************************************************************)
(* What has been relocated stays so.                                       *)
(***************************************************************************)
\* The relocation has been applied.
Past(m, i) ==
    /\ phase # "sort"
    /\ m < member \/ (m = member /\ phase \notin {"copy", "done"} /\ i < relIdx)

\* Nothing else is relocated in its field.
Alone(m, i) ==
    \A j \in DOMAIN rels[m] : j # i => Own(rels[m][i], m) \intersect Own(rels[m][j], m) = {}

\* Which relocations have been applied after a step.
LEMMA PastCases ==
    ASSUME TypeInv, [Next]_vars, NEW m \in Members, NEW i \in DOMAIN rels[m]
    PROVE  /\ Past(m, i) => Copied(m)
           /\ ~Copied(m)' => ~Past(m, i)'
           /\ CopyMember /\ m = member => ~Past(m, i)'
           /\ MemberStays(m) /\ (\A bytes : ~Handles(bytes)) => (Past(m, i)' <=> Past(m, i))
           /\ (\E bytes : Handles(bytes)) =>
                (Past(m, i)' <=> Past(m, i) \/ (m = member /\ i = relIdx))
<1>1. m \in Int /\ member \in Int /\ 1 <= m /\ relIdx \in Int /\ i \in Int /\ 1 <= i
  BY RelTyped, MembersAssumption DEF Members, TypeInv
<1>2. Past(m, i) => Copied(m)
  BY DEF Past, Copied
<1>3. ~Copied(m)' => ~Past(m, i)'
  BY DEF Past, Copied
<1>4. ASSUME CopyMember, m = member PROVE ~Past(m, i)' /\ ~MemberStays(m)
  BY <1>1, <1>4 DEF CopyMember, Past, Copied, MemberStays
<1>5. ASSUME NEW bytes, Handles(bytes)
      PROVE  Past(m, i)' <=> Past(m, i) \/ (m = member /\ i = relIdx)
  <2>1. phase = "relocate" /\ phase' = phase /\ member' = member /\ relIdx' = relIdx + 1
    BY <1>5 DEF Handles, NowRelocating, Write
  <2>2. i < relIdx + 1 <=> i < relIdx \/ i = relIdx
    BY <1>1
  <2>3. QED
    BY <1>1, <2>1, <2>2 DEF Past
<1>6. ASSUME MemberStays(m), \A bytes : ~Handles(bytes)
      PROVE  Past(m, i)' <=> Past(m, i)
  <2>1. CASE Sort_relocation
    <3>1. phase = "sort" /\ (phase' = "sort" \/ member' = 1)
      BY <2>1 DEF Sort_relocation
    <3>2. phase' = "sort" \/ phase' = "copy"
      BY <2>1, <3>1 DEF Sort_relocation
    <3>3. QED
      BY <1>1, <3>1, <3>2 DEF Past
  <2>2. CASE CopyMember
    <3>1. m # member
      BY <1>4, <1>6, <2>2
    <3>2. QED
      BY <1>1, <2>2, <3>1 DEF CopyMember, Past
  <2>3. CASE NextMember
    <3>1. phase = "relocate" /\ phase' = "copy" /\ member' = member + 1 /\ relIdx > Len(rels[member])
      BY <2>3 DEF NextMember
    <3>2. m = member => i < relIdx
      <4>1. rels[m] \in Seq(Rel)
        BY DEF TypeInv
      <4>2. i <= Len(rels[m]) /\ Len(rels[m]) \in Nat
        BY <4>1
      <4>3. QED
        BY <1>1, <3>1, <4>2
    <3>3. QED
      BY <1>1, <3>1, <3>2 DEF Past
  <2>4. CASE RelocateDone
    BY <1>1, <2>4 DEF RelocateDone, Past
  <2>5. CASE GivesUp
    <3>1. NowRelocating /\ \E reason \in Failures : Fail(reason)
      BY <2>5, GivesUpFacts
    <3>2. phase = "relocate" /\ phase' \in Failures /\ member' = member /\ relIdx' = relIdx
      BY <3>1 DEF NowRelocating, Fail
    <3>3. QED
      BY <1>1, <3>2 DEF Past, Failures
  <2>6. CASE UNCHANGED vars
    BY <2>6 DEF Past, vars
  <2>7. QED
    BY <1>6, <2>1, <2>2, <2>3, <2>4, <2>5, <2>6, NextCases
<1>7. QED
  BY <1>2, <1>3, <1>4, <1>5, <1>6

\* What is found in the bits of a relocation depends on nothing else.
LEMMA HoldsLocal ==
    ASSUME NEW old, NEW new, NEW own, old \intersect own = new \intersect own,
           NEW loc, NEW f, NEW v, \A b \in DOMAIN f : 8 * loc + b \in own, Holds(old, loc, f, v)
    PROVE  Holds(new, loc, f, v)
<1>1. \A b \in DOMAIN f : 8 * loc + b \in new <=> 8 * loc + b \in old
  OBVIOUS
<1>2. QED
  BY <1>1 DEF Holds

\* A bit at an offset.
LEMMA AtMember ==
    ASSUME NEW loc, NEW B, NEW b \in B
    PROVE  8 * loc + b \in At(loc, B)
BY DEF At

\* What is found of a relocation depends on nothing but its own bits.
LEMMA SettledLocal ==
    ASSUME NEW r, NEW m, NEW old, NEW new, old \intersect Own(r, m) = new \intersect Own(r, m),
           Settled(r, m, old)
    PROVE  Settled(r, m, new)
<1>1. PICK own : own = Own(r, m) /\ old \intersect own = new \intersect own
  OBVIOUS
<1>2. BranchDone(r, m, new)
  <2>1. SUFFICES ASSUME r.type \in Branches
                 PROVE  /\ check(Relatively(r, m), r.type)
                        /\ Holds(new, r.offset, Format(r.type), Relatively(r, m))
    BY DEF BranchDone
  <2>2. check(Relatively(r, m), r.type) /\ Holds(old, r.offset, Format(r.type), Relatively(r, m))
    BY <2>1 DEF Settled, BranchDone
  <2>3. \A b \in DOMAIN Format(r.type) : 8 * r.offset + b \in own
    BY <1>1, <2>1, OwnFacts, AtMember
  <2>4. QED
    BY <1>1, <2>2, <2>3, HoldsLocal
<1>3. CallDone(r, m, new)
  <2>1. SUFFICES ASSUME r.type \in Calls
                 PROVE  /\ Holds(new, r.offset, TypeU, Relatively(r, m) + 2 ^ 11)
                        /\ Holds(new, r.offset + 4, TypeI, Relatively(r, m))
    BY DEF CallDone
  <2>2. /\ Holds(old, r.offset, TypeU, Relatively(r, m) + 2 ^ 11)
        /\ Holds(old, r.offset + 4, TypeI, Relatively(r, m))
    BY <2>1 DEF Settled, CallDone
  <2>3. own = At(r.offset, DOMAIN TypeU) \union At(r.offset + 4, DOMAIN TypeI)
    BY <1>1, <2>1, OwnFacts
  <2>4. \A b \in DOMAIN TypeU : 8 * r.offset + b \in own
    BY <2>3, AtMember
  <2>5. \A b \in DOMAIN TypeI : 8 * (r.offset + 4) + b \in own
    BY <2>3, AtMember
  <2>6. Holds(new, r.offset, TypeU, Relatively(r, m) + 2 ^ 11)
    BY <1>1, <2>2, <2>4, HoldsLocal
  <2>7. Holds(new, r.offset + 4, TypeI, Relatively(r, m))
    BY <1>1, <2>2, <2>5, HoldsLocal
  <2>8. QED
    BY <2>6, <2>7
<1>4. HighDone(r, m, new)
  <2>1. SUFFICES ASSUME r.type \in Highs, NEW v, Holds(old, r.offset, TypeU, v)
                 PROVE  Holds(new, r.offset, TypeU, v)
    BY DEF HighDone, Settled, Highs
  <2>2. \A b \in DOMAIN TypeU : 8 * r.offset + b \in own
    BY <1>1, <2>1, OwnFacts, AtMember, FormatTyped
  <2>3. QED
    BY <1>1, <2>1, <2>2, HoldsLocal
<1>5. PairedDone(r, m, new)
  <2>1. SUFFICES ASSUME r.type \in PairedLow
                 PROVE  \E n \in DOMAIN rels[m] :
                          /\ rels[m][n].type = "PCREL_HI20" /\ rels[m][n].offset = Symbols[r.sym].val
                          /\ Holds(new, r.offset, Format(r.type), Relatively(rels[m][n], m))
    BY DEF PairedDone
  <2>2. PICK n \in DOMAIN rels[m] :
          /\ rels[m][n].type = "PCREL_HI20" /\ rels[m][n].offset = Symbols[r.sym].val
          /\ Holds(old, r.offset, Format(r.type), Relatively(rels[m][n], m))
    BY <2>1 DEF Settled, PairedDone
  <2>3. \A b \in DOMAIN Format(r.type) : 8 * r.offset + b \in own
    BY <1>1, <2>1, OwnFacts, AtMember
  <2>4. Holds(new, r.offset, Format(r.type), Relatively(rels[m][n], m))
    BY <1>1, <2>2, <2>3, HoldsLocal
  <2>5. QED
    BY <2>2, <2>4
<1>6. LowDone(r, m, new)
  <2>1. CASE r.type \in AbsoluteLow
    <3>1. own = At(r.offset, DOMAIN Format(r.type)) \union At(r.offset, 15 .. 19)
      BY <1>1, <2>1, OwnFacts
    <3>2. \A b \in DOMAIN Format(r.type) \union 15 .. 19 : 8 * r.offset + b \in own
      BY <3>1, AtMember
    <3>3. \A b \in DOMAIN Format(r.type) \union 15 .. 19 :
            8 * r.offset + b \in new <=> 8 * r.offset + b \in old
      BY <1>1, <3>2
    <3>4. LowDone(r, m, old)
      BY DEF Settled
    <3>5. QED
      BY <3>3, <3>4 DEF LowDone
  <2>2. CASE r.type \notin AbsoluteLow
    BY <2>2 DEF LowDone
  <2>3. QED
    BY <2>1, <2>2
<1>7. StoreDone(r, m, new)
  <2>1. CASE r.type \in Stores
    <3>1. own = At(r.offset, 0 .. WidthOf(r.type) - 1)
      BY <1>1, <2>1, OwnFacts
    <3>2. \A b \in 0 .. WidthOf(r.type) - 1 : 8 * r.offset + b \in own
      BY <3>1, AtMember
    <3>3. \A b \in 0 .. WidthOf(r.type) - 1 : 8 * r.offset + b \in new <=> 8 * r.offset + b \in old
      BY <1>1, <3>2
    <3>4. Load(new, r.offset, WidthOf(r.type)) = Load(old, r.offset, WidthOf(r.type))
      BY <3>3, LoadSame
    <3>5. StoreDone(r, m, old)
      BY DEF Settled
    <3>6. QED
      BY <3>4, <3>5 DEF StoreDone
  <2>2. CASE r.type \notin Stores
    BY <2>2 DEF StoreDone
  <2>3. QED
    BY <2>1, <2>2
<1>8. QED
  BY <1>2, <1>3, <1>4, <1>5, <1>6, <1>7 DEF Settled

\* It does not change by itself.
LEMMA SettledStays ==
    ASSUME UNCHANGED <<shapes, addr, rels>>, NEW r, NEW m, NEW bytes
    PROVE  /\ Settled(r, m, bytes)' <=> Settled(r, m, bytes)
           /\ Fresh(r, m, bytes)' <=> Fresh(r, m, bytes)
           /\ \A i : Alone(m, i)' <=> Alone(m, i)
<1>1. \A s : (Absolutely(s, m))' = Absolutely(s, m) /\ (Relatively(s, m))' = Relatively(s, m)
  BY DEF Absolutely, Relatively, get_sym_addr, GlobalAddr, isec_addr
<1>2. \A s : (Own(s, m))' = Own(s, m)
  BY InputsStay
<1>3. Fresh(r, m, bytes)' <=> Fresh(r, m, bytes)
  BY <1>2 DEF Fresh
<1>4. \A i : Alone(m, i)' <=> Alone(m, i)
  BY <1>2 DEF Alone
<1>5. Settled(r, m, bytes)' <=> Settled(r, m, bytes)
  <2>1. BranchDone(r, m, bytes)' <=> BranchDone(r, m, bytes)
    BY <1>1 DEF BranchDone
  <2>2. CallDone(r, m, bytes)' <=> CallDone(r, m, bytes)
    BY <1>1 DEF CallDone
  <2>3. HighDone(r, m, bytes)' <=> HighDone(r, m, bytes)
    BY <1>1 DEF HighDone
  <2>4. PairedDone(r, m, bytes)' <=> PairedDone(r, m, bytes)
    BY <1>1 DEF PairedDone
  <2>5. LowDone(r, m, bytes)' <=> LowDone(r, m, bytes)
    BY <1>1 DEF LowDone
  <2>6. StoreDone(r, m, bytes)' <=> StoreDone(r, m, bytes)
    BY <1>1 DEF StoreDone
  <2>7. QED
    BY <2>1, <2>2, <2>3, <2>4, <2>5, <2>6 DEF Settled
<1>6. QED
  BY <1>3, <1>4, <1>5

\* What has been applied is found, if its field is its own; the field of what
\* has not is as it is in the file.
RelInv ==
    \A m \in Members : \A i \in DOMAIN rels[m] :
        /\ Past(m, i) => Linkable(rels[m][i])
        /\ WellFormed(m) /\ Alone(m, i) =>
             /\ Past(m, i) => Settled(rels[m][i], m, image[m])
             /\ Copied(m) /\ ~Past(m, i) => Fresh(rels[m][i], m, image[m])

\* Every step keeps what has been relocated.
LEMMA RelNext == TypeInv /\ OtherInv /\ RelInv /\ [Next]_vars => RelInv'
<1> SUFFICES ASSUME TypeInv, OtherInv, RelInv, [Next]_vars,
                    NEW m \in Members, NEW i \in DOMAIN rels'[m]
             PROVE  /\ Past(m, i)' => Linkable(rels'[m][i])
                    /\ WellFormed(m)' /\ Alone(m, i)' =>
                         /\ Past(m, i)' => Settled(rels[m][i], m, image[m])'
                         /\ Copied(m)' /\ ~Past(m, i)' => Fresh(rels[m][i], m, image[m])'
  BY DEF RelInv
<1>1. CASE ~Copied(m)'
  BY <1>1 DEF Past, Copied
<1>2. SUFFICES ASSUME UNCHANGED <<shapes, addr, rels>>, Copied(m)',
                      \/ MemberStays(m) /\ \A bytes : ~Handles(bytes)
                      \/ CopyMember /\ m = member /\ image'[m] = shapes[m].data
                      \/ \E bytes : /\ Handles(bytes) /\ (Copied(m)' <=> Copied(m))
                                    /\ image'[m] = IF m = member THEN bytes ELSE image[m]
               PROVE  /\ Past(m, i)' => Linkable(rels'[m][i])
                      /\ WellFormed(m)' /\ Alone(m, i)' =>
                           /\ Past(m, i)' => Settled(rels[m][i], m, image[m])'
                           /\ Copied(m)' /\ ~Past(m, i)' => Fresh(rels[m][i], m, image[m])'
  BY <1>1, MemberCases DEF MemberStays
<1>3. PICK r : r = rels[m][i] /\ r = rels'[m][i] /\ i \in DOMAIN rels[m]
  BY <1>2
<1>4. PICK old, new : old = image[m] /\ new = image'[m]
  OBVIOUS
<1>5. /\ WellFormed(m)' <=> WellFormed(m)
      /\ Alone(m, i)' <=> Alone(m, i)
      /\ Settled(rels[m][i], m, image[m])' <=> Settled(r, m, new)
      /\ Fresh(rels[m][i], m, image[m])' <=> Fresh(r, m, new)
  <2>1. (WellFormed(m)' <=> WellFormed(m)) /\ (Alone(m, i)' <=> Alone(m, i))
    BY <1>2, InputsStay, SettledStays
  <2>2. Settled(rels[m][i], m, image[m])' <=> Settled(r, m, new)'
    BY <1>3, <1>4
  <2>3. Fresh(rels[m][i], m, image[m])' <=> Fresh(r, m, new)'
    BY <1>3, <1>4
  <2>4. (Settled(r, m, new)' <=> Settled(r, m, new)) /\ (Fresh(r, m, new)' <=> Fresh(r, m, new))
    BY <1>2, SettledStays
  <2>5. QED
    BY <2>1, <2>2, <2>3, <2>4
<1>6. SUFFICES /\ Past(m, i)' => Linkable(r)
               /\ WellFormed(m) /\ Alone(m, i) =>
                    /\ Past(m, i)' => Settled(r, m, new)
                    /\ ~Past(m, i)' => Fresh(r, m, new)
  BY <1>3, <1>5
<1>7. /\ Past(m, i) => Linkable(r)
      /\ WellFormed(m) /\ Alone(m, i) =>
           /\ Past(m, i) => Settled(r, m, old)
           /\ Copied(m) /\ ~Past(m, i) => Fresh(r, m, old)
  BY <1>3, <1>4 DEF RelInv
<1>8. CASE MemberStays(m) /\ \A bytes : ~Handles(bytes)
  <2>1. (Past(m, i)' <=> Past(m, i)) /\ new = old /\ Copied(m)
    BY <1>2, <1>3, <1>4, <1>8, PastCases DEF MemberStays
  <2>2. QED
    BY <1>7, <2>1
<1>9. CASE CopyMember /\ m = member /\ image'[m] = shapes[m].data
  <2>1. ~Past(m, i)'
    BY <1>3, <1>9, PastCases
  <2>2. Fresh(r, m, new)
    BY <1>4, <1>9 DEF Fresh
  <2>3. QED
    BY <2>1, <2>2
<1>10. CASE \E bytes : /\ Handles(bytes) /\ (Copied(m)' <=> Copied(m))
                       /\ image'[m] = IF m = member THEN bytes ELSE image[m]
  <2>1. PICK bytes : /\ Handles(bytes) /\ (Copied(m)' <=> Copied(m))
                     /\ image'[m] = IF m = member THEN bytes ELSE image[m]
    BY <1>10
  <2>2. Copied(m) /\ (Past(m, i)' <=> Past(m, i) \/ (m = member /\ i = relIdx))
    BY <1>2, <1>3, <2>1, PastCases
  <2>3. CASE m # member
    BY <1>4, <1>7, <2>1, <2>2, <2>3
  <2>4. CASE m = member /\ i = relIdx
    <3>1. r = This /\ new = bytes /\ Linkable(r) /\ Effect(r, m, old, new)
      BY <1>3, <1>4, <2>1, <2>4 DEF This, Handles
    <3>2. ~Past(m, i)
      <4>1. phase = "relocate" /\ i \in Int /\ m \in Int
        BY <1>3, <2>1, RelTyped, MembersAssumption DEF Handles, NowRelocating, Members
      <4>2. QED
        BY <2>4, <4>1 DEF Past
    <3>3. WellFormed(m) /\ Alone(m, i) => Settled(r, m, new)
      BY <1>7, <2>2, <3>1, <3>2 DEF Effect
    <3>4. QED
      BY <2>2, <2>4, <3>1, <3>3
  <2>5. CASE m = member /\ i # relIdx
    <3>1. new = bytes /\ (Past(m, i)' <=> Past(m, i))
      BY <1>4, <2>1, <2>2, <2>5
    <3>2. ASSUME WellFormed(m), Alone(m, i) PROVE old \intersect Own(r, m) = new \intersect Own(r, m)
      <4>1. Keeps(new, old, Own(This, m))
        BY <1>4, <2>1, <2>5, <3>1, <3>2, HandledKeeps
      <4>2. Own(r, m) \intersect Own(This, m) = {}
        <5>1. relIdx \in DOMAIN rels[m] /\ This = rels[m][relIdx]
          BY <2>1, <2>5 DEF Handles, NowRelocating, This
        <5>2. QED
          BY <1>3, <2>5, <3>2, <5>1 DEF Alone
      <4>3. QED
        BY <4>1, <4>2 DEF Keeps
    <3>3. ASSUME WellFormed(m), Alone(m, i), Past(m, i) PROVE Settled(r, m, new)
      <4>1. Settled(r, m, old) /\ old \intersect Own(r, m) = new \intersect Own(r, m)
        BY <1>7, <3>2, <3>3
      <4>2. QED
        BY <4>1, SettledLocal
    <3>4. ASSUME WellFormed(m), Alone(m, i), ~Past(m, i) PROVE Fresh(r, m, new)
      BY <1>7, <2>2, <3>2, <3>4 DEF Fresh
    <3>5. QED
      BY <1>7, <3>1, <3>3, <3>4
  <2>6. QED
    BY <2>3, <2>4, <2>5
<1>11. QED
  BY <1>2, <1>8, <1>9, <1>10

\* What has been relocated is found in the buffer, from then on.
THEOREM RelInvariant == Spec => []RelInv
<1>1. Init => RelInv
  BY DEF Init, RelInv, Past, Copied
<1>2. TypeInv /\ OtherInv /\ RelInv /\ [Next]_vars => RelInv'
  BY RelNext
<1>3. QED
  BY <1>1, <1>2, TypeCorrect, OtherInvariant, PTL DEF Spec

-----------------------------------------------------------------------------
(***************************************************************************)
(* JumpsReach and HighAndLowMeet.                                          *)
(***************************************************************************)
\* Relocations of one place: to one an address is added that the other subtracts.
Partners(r, s) ==
    /\ s.offset = r.offset
    /\ \/ r.type \in DOMAIN Minus /\ s.type = Minus[r.type]
       \/ s.type \in DOMAIN Minus /\ r.type = Minus[s.type]

\* No other relocations share a field, and these not with a third.
FieldsApart(m) ==
    \A i, j \in DOMAIN rels[m] : i # j =>
        \/ Own(rels[m][i], m) \intersect Own(rels[m][j], m) = {}
        \/ /\ Partners(rels[m][i], rels[m][j])
           /\ \A k \in DOMAIN rels[m] :
                Partners(rels[m][i], rels[m][k]) => k = j

\* The types that share no field.
Lonely == Branches \union Calls \union Highs \union PairedLow \union AbsoluteLow
          \union {"32", "64", "PLT32", "32_PCREL"}

\* Types whose relocations share no field.
LEMMA LonelyAlone ==
    ASSUME NEW m, FieldsApart(m), NEW i \in DOMAIN rels[m], rels[m][i].type \in Lonely
    PROVE  Alone(m, i)
<1>1. ASSUME NEW j \in DOMAIN rels[m], Partners(rels[m][i], rels[m][j]) PROVE FALSE
  <2>1. rels[m][i].type \notin DOMAIN Minus
    BY DEF Lonely, Minus, Branches, Calls, Highs, PairedLow, AbsoluteLow
  <2>2. \A type \in DOMAIN Minus : Minus[type] # rels[m][i].type
    BY DEF Lonely, Minus, Branches, Calls, Highs, PairedLow, AbsoluteLow
  <2>3. QED
    BY <1>1, <2>1, <2>2 DEF Partners
<1>2. QED
  BY <1>1 DEF FieldsApart, Alone

\* A number has no bits below bit 0.
LEMMA ZeroPower == \A v \in Int : v % 2 ^ 0 = 0
<1>1. 2 ^ 0 = 1
  OBVIOUS
<1>2. \A v \in Int : v % 1 = 0
  OBVIOUS
<1>3. QED
  BY <1>1, <1>2

\* The upper and the lower immediate of a number in reach.
LEMMA UpperRead ==
    ASSUME NEW bytes, NEW loc, NEW v \in Int, Holds(bytes, loc, TypeU, v + 2 ^ 11),
           InReach(Signed(v))
    PROVE  LET t == Signed(v) + 2 ^ 11
           IN  Immediate(bytes, loc, TypeU) = t - (t % 2 ^ 12)
<1>1. PICK s \in Int : s = Signed(v)
  BY SignedFacts
<1>2. 2 ^ 11 = 2048 /\ 2 ^ 12 = 4096
  OBVIOUS
<1>3. PICK w \in Int, t \in Int : w = v + 2048 /\ t = s + 2048
  OBVIOUS
<1>4. PICK p \in Nat \ {0} : p = 2 ^ (WordBits - 1) /\ 2 ^ ((WordBits - 1) + 1) = 2 * p
  <2>1. WordBits - 1 \in Nat
    BY WidthAssumption
  <2>2. QED
    BY <2>1, PowerNext
<1>5. (WordBits - 1) + 1 = WordBits /\ 2 ^ WordBits = 2 * p
  <2>1. (WordBits - 1) + 1 = WordBits
    BY WidthAssumption
  <2>2. QED
    BY <1>4, <2>1
<1>6. \E h \in Nat \ {0} : p = 4096 * h
  <2>1. PICK d \in Nat : d = (WordBits - 1) - 12 /\ 12 + d = WordBits - 1
    BY WidthAssumption
  <2>2. 2 ^ (12 + d) = 2 ^ d * 2 ^ 12
    <3>1. 12 \in Nat
      OBVIOUS
    <3>2. QED
      BY <3>1, PowerSum
  <2>3. PICK h \in Nat \ {0} : h = 2 ^ d
    BY <2>1, PowerNext
  <2>4. p = h * 4096
    BY <1>2, <1>4, <2>1, <2>2, <2>3
  <2>5. QED
    BY <2>3, <2>4
<1>7. PICK h \in Nat \ {0} : p = 4096 * h
  BY <1>6
<1>8. s % (2 * p) = v % (2 * p)
  <2>1. WordBits \in 0 .. AddrBits
    BY WidthAssumption
  <2>2. Signed(v) % 2 ^ WordBits = v % 2 ^ WordBits
    BY <2>1, SignedFacts
  <2>3. QED
    BY <1>1, <1>5, <2>2
<1>9. -p <= s /\ s < p - 2048
  BY <1>1, <1>2, <1>4 DEF InReach
<1>10. PICK k \in Int : v = s + k * (2 * p)
  <2>1. PICK a \in Int, b \in Int, c \in Int :
          v = a * (2 * p) + c /\ s = b * (2 * p) + c
    <3>1. 2 * p \in Nat \ {0}
      OBVIOUS
    <3>2. PICK q \in Nat \ {0} : q = 2 * p
      BY <3>1
    <3>3. v = (v \div q) * q + (v % q) /\ s = (s \div q) * q + (s % q) /\ v % q \in Int
          /\ v \div q \in Int /\ s \div q \in Int
      BY DivisionFacts
    <3>4. s % q = v % q
      BY <1>8, <3>2
    <3>5. QED
      BY <3>2, <3>3, <3>4
  <2>2. v = s + (a - b) * (2 * p)
    <3>1. (a - b) * (2 * p) = a * (2 * p) - b * (2 * p)
      OBVIOUS
    <3>2. PICK x \in Int, y \in Int : x = a * (2 * p) /\ y = b * (2 * p)
      OBVIOUS
    <3>3. QED
      BY <2>1, <3>1, <3>2
  <2>3. QED
    BY <2>2
<1>11. w = t + k * (2 * p)
  BY <1>3, <1>10
<1>12. PICK e \in 0 .. 4095 : e = t % 4096
  OBVIOUS
<1>18. PICK u \in Int : t = u * 4096 + e
  <2>1. PICK u \in Int : u = t \div 4096
    OBVIOUS
  <2>2. t = u * 4096 + e
    BY <1>12, <2>1
  <2>3. QED
    BY <2>2
<1>13. w % 4096 = e
  <2>1. k * (2 * p) = (k * (2 * h)) * 4096
    BY <1>7
  <2>2. PICK g \in Int : g = k * (2 * h)
    OBVIOUS
  <2>3. w = (u + g) * 4096 + e
    BY <1>11, <1>18, <2>1, <2>2
  <2>4. QED
    BY <2>3
<1>14. -p <= t - e /\ t < p
  <2>0. 0 <= e /\ e < 4096 /\ -(4096 * h) + 2048 <= t
    BY <1>3, <1>7, <1>9
  <2>1. -h <= u
    <3>1. SUFFICES ASSUME u <= -h - 1 PROVE FALSE
      OBVIOUS
    <3>2. u * 4096 <= -(4096 * h) - 4096
      BY <3>1
    <3>3. QED
      BY <2>0, <1>18, <3>2
  <2>2. -(4096 * h) <= u * 4096
    BY <2>1
  <2>3. QED
    BY <1>3, <1>7, <1>9, <1>18, <2>2
<1>15. WithSign((w % (2 * p)) - e, WordBits - 1) = t - e
  <2>1. PICK q \in Nat \ {0} : q = 2 * p
    OBVIOUS
  <2>2. CASE t >= 0
    <3>1. t \in 0 .. q - 1 /\ w = k * q + t
      BY <1>11, <1>14, <2>1, <2>2
    <3>2. w % q = t
      BY <3>1, RemainderUnique
    <3>3. t - e < p
      BY <1>14
    <3>4. QED
      BY <1>4, <2>1, <3>2, <3>3 DEF WithSign
  <2>3. CASE t < 0
    <3>1. PICK k1 \in Int, t1 \in Int : k1 = k - 1 /\ t1 = t + q
      OBVIOUS
    <3>2. t1 \in 0 .. q - 1
      <4>1. e \in Int /\ 0 <= e /\ -p <= t - e
        BY <1>14
      <4>2. -p <= t
        BY <4>1
      <4>3. 0 <= t1 /\ t1 < q
        BY <2>1, <2>3, <3>1, <4>2
      <4>4. QED
        BY <4>3
    <3>3. w = k1 * q + t1
      <4>1. k * q = k1 * q + q
        BY <3>1
      <4>2. PICK x \in Int, y \in Int : x = k * q /\ y = k1 * q
        OBVIOUS
      <4>3. QED
        BY <1>11, <2>1, <3>1, <4>1, <4>2
    <3>4. w % q = t1
      BY <3>2, <3>3, RemainderUnique
    <3>5. ~(t1 - e < p)
      BY <1>14, <2>1, <3>1
    <3>6. QED
      BY <1>4, <2>1, <3>1, <3>4, <3>5 DEF WithSign
  <2>4. QED
    BY <2>2, <2>3
<1>16. Immediate(bytes, loc, TypeU) = WithSign((w % (2 * p)) - (w % 4096), WordBits - 1)
  <2>1. PICK lo \in Nat, top \in Nat : lo = 12 /\ top = WordBits - 1 /\ lo <= top /\ top + 1 = WordBits
    BY WidthAssumption
  <2>2. Covers(TypeU, lo .. top)
    BY <2>1, TypeUFacts DEF Covers
  <2>3. Holds(bytes, loc, TypeU, w)
    BY <1>2, <1>3
  <2>4. Immediate(bytes, loc, TypeU) = WithSign(Part(w, lo, top), top)
    BY <2>1, <2>2, <2>3, Decoded
  <2>5. Part(w, lo, top) = (w % (2 * p)) - (w % 4096)
    BY <1>2, <1>5, <2>1 DEF Part
  <2>6. QED
    BY <2>1, <2>4, <2>5
<1>17. QED
  BY <1>1, <1>2, <1>3, <1>12, <1>13, <1>15, <1>16

\* The upper part is rounded, so that adding the lower part with its sign gives
\* the number.
LEMMA LowerSum ==
    ASSUME NEW s \in Int, NEW x \in Int, x = WithSign(s % 2 ^ 12, 11)
    PROVE  (s + 2 ^ 11) - ((s + 2 ^ 11) % 2 ^ 12) + x = s
<1>1. 2 ^ 11 = 2048 /\ 2 ^ 12 = 4096 /\ 11 + 1 = 12
  OBVIOUS
<1>2. x = IF s % 4096 < 2048 THEN s % 4096 ELSE (s % 4096) - 4096
  BY <1>1 DEF WithSign
<1>3. PICK q \in Int : q = s \div 4096
  OBVIOUS
<1>4. PICK e \in 0 .. 4095 : e = s % 4096
  OBVIOUS
<1>5. s = q * 4096 + e
  BY <1>3, <1>4
<1>6. CASE e < 2048
  <2>1. (s + 2048) % 4096 = e + 2048
    BY <1>5, <1>6
  <2>2. QED
    BY <1>1, <1>2, <1>4, <1>6, <2>1
<1>7. CASE ~(e < 2048)
  <2>1. (s + 2048) % 4096 = e - 2048
    BY <1>5, <1>7
  <2>2. QED
    BY <1>1, <1>2, <1>4, <1>7, <2>1
<1>8. QED
  BY <1>6, <1>7

\* What is read of the lower immediate.
LEMMA LowerRead ==
    ASSUME NEW bytes, NEW loc, NEW f, Covers(f, 0 .. 11),
           NEW v \in Int, Holds(bytes, loc, f, v)
    PROVE  Immediate(bytes, loc, f) = WithSign(Signed(v) % 2 ^ 12, 11)
<1>1. PICK lo \in Nat, top \in Nat : lo = 0 /\ top = 11 /\ lo <= top
  OBVIOUS
<1>2. Covers(f, lo .. top)
  BY <1>1
<1>3. Immediate(bytes, loc, f) = WithSign(Part(v, lo, top), top)
  <2>1. lo <= top
    BY <1>1
  <2>2. QED
    BY <1>2, <2>1, Decoded
<1>4. v % 2 ^ lo = 0
  BY <1>1, ZeroPower
<1>5. top + 1 = 12
  BY <1>1
<1>6. v % 2 ^ 12 \in Int /\ Signed(v) % 2 ^ 12 = v % 2 ^ 12
  <2>1. PICK n \in Nat : n = 12 /\ n \in 0 .. AddrBits
    BY WidthAssumption
  <2>2. v % 2 ^ n \in Nat
    BY RemainderNext
  <2>3. Signed(v) % 2 ^ n = v % 2 ^ n
    BY <2>1, SignedFacts
  <2>4. QED
    BY <2>1, <2>2, <2>3
<1>7. Part(v, lo, top) = Signed(v) % 2 ^ 12
  <2>1. PICK x \in Int : x = v % 2 ^ 12 /\ x = Signed(v) % 2 ^ 12
    BY <1>6
  <2>2. v % 2 ^ (top + 1) = x
    BY <1>5, <2>1
  <2>3. x - 0 = x
    BY <2>1
  <2>4. QED
    BY <1>4, <2>1, <2>2, <2>3 DEF Part
<1>8. QED
  BY <1>1, <1>3, <1>7

\* The two halves of a number in reach add up to it.
LEMMA HalvesMeet ==
    ASSUME NEW bytes, NEW high, NEW low, NEW v \in Int, NEW f, Covers(f, 0 .. 11),
           Holds(bytes, high, TypeU, v + 2 ^ 11), Holds(bytes, low, f, v), InReach(Signed(v))
    PROVE  Immediate(bytes, high, TypeU) + Immediate(bytes, low, f) = Signed(v)
<1>1. PICK s \in Int : s = Signed(v)
  BY SignedFacts
<1>2. Immediate(bytes, high, TypeU) = (s + 2 ^ 11) - ((s + 2 ^ 11) % 2 ^ 12)
  BY <1>1, UpperRead
<1>3. PICK x : x = WithSign(s % 2 ^ 12, 11)
  OBVIOUS
<1>4. x \in Int
  BY <1>3 DEF WithSign
<1>5. Immediate(bytes, low, f) = x
  BY <1>1, <1>3, LowerRead
<1>6. QED
  BY <1>1, <1>2, <1>3, <1>4, <1>5, LowerSum

\* Everything in a member that is linked has been applied.
LEMMA LinkedSettled ==
    ASSUME TypeInv, DoneInv, RelInv, NEW m \in Members, Linked(m), NEW i \in DOMAIN rels[m]
    PROVE  /\ Past(m, i) /\ Copied(m) /\ Linkable(rels[m][i])
           /\ WellFormed(m) /\ Alone(m, i) => Settled(rels[m][i], m, image[m])
<1>1. Copied(m) /\ m < member
  BY LinkedCopied DEF TypeInv, DoneInv
<1>2. Past(m, i)
  BY <1>1 DEF Past, Copied
<1>3. QED
  BY <1>1, <1>2 DEF RelInv

\* The assembler puts instructions at even addresses, and symbols of code too.
EvenDistances(m) == \A r \in RelsOf(m) : r.type \in Branches => Distance(r, m) % 2 = 0

\* What is read of a branch or a jump.
LEMMA BranchRead ==
    ASSUME NEW r, NEW m, NEW bytes, r.type \in Branches, BranchDone(r, m, bytes),
           NEW v \in Int, v = Relatively(r, m), Signed(v) % 2 = 0
    PROVE  Immediate(bytes, r.offset, Format(r.type)) = Signed(v)
<1>1. PICK type \in Branches : type = r.type
  OBVIOUS
<1>2. PICK top \in 1 .. 20 : /\ {Format(type)[b] : b \in DOMAIN Format(type)} = 1 .. top
                            /\ limit(type) = 2 ^ top
  BY BranchTop
<1>3. PICK f : f = Format(type)
  OBVIOUS
<1>4. Covers(f, 1 .. top) /\ Holds(bytes, r.offset, f, v)
  BY <1>1, <1>2, <1>3 DEF BranchDone, Covers
<1>5. PICK s \in Int : s = Signed(v)
  BY SignedFacts
<1>6. PICK lo \in Nat : lo = 1 /\ lo <= top
  OBVIOUS
<1>7. top \in Nat /\ top + 1 \in 0 .. AddrBits /\ lo \in 0 .. AddrBits
  BY <1>6, WidthAssumption
<1>8. s % 2 ^ (top + 1) = v % 2 ^ (top + 1) /\ s % 2 ^ lo = v % 2 ^ lo
  BY <1>5, <1>7, SignedFacts
<1>9. v % 2 ^ lo = 0
  <2>1. 2 ^ lo = 2
    <3>1. 2 ^ 1 = 2
      OBVIOUS
    <3>2. QED
      BY <1>6, <3>1
  <2>2. QED
    BY <1>5, <1>8, <2>1
<1>10. -(2 ^ top) <= s /\ s < 2 ^ top
  BY <1>1, <1>2, <1>5 DEF BranchDone, check
<1>11. PICK loc : loc = r.offset
  OBVIOUS
<1>12. /\ v \in Int /\ lo \in Nat /\ top \in Nat /\ lo <= top /\ s \in Int
       /\ {f[b] : b \in DOMAIN f} = lo .. top /\ Holds(bytes, loc, f, v)
       /\ v % 2 ^ lo = 0 /\ s % 2 ^ (top + 1) = v % 2 ^ (top + 1)
       /\ -(2 ^ top) <= s /\ s < 2 ^ top
  BY <1>4, <1>6, <1>7, <1>8, <1>9, <1>10, <1>11 DEF Covers
<1>13. Immediate(bytes, loc, f) = s
  BY <1>12, DecodedNumber
<1>14. QED
  BY <1>1, <1>3, <1>5, <1>11, <1>13

\* Both lower immediates have the lower twelve bits.
LEMMA CoversI == Covers(TypeI, 0 .. 11) /\ Covers(TypeS, 0 .. 11)
BY TypeIFacts, TypeSFacts DEF Covers

\* A branch, a jump or a call goes to its symbol.
THEOREM JumpsCorrect ==
    Spec => []((\A m \in Members : WellFormed(m) /\ FieldsApart(m) /\ EvenDistances(m)) => JumpsReach)
<1>1. ASSUME TypeInv, DoneInv, RelInv, NEW m \in Members, Linked(m),
             WellFormed(m), FieldsApart(m), EvenDistances(m),
             NEW r \in RelsOf(m), ~Misplaced(r)
      PROVE  /\ r.type \in Branches => Lower(r, m) = Distance(r, m)
             /\ r.type \in {"CALL", "CALL_PLT"} /\ InReach(Distance(r, m)) =>
                  Upper(r, m) + Immediate(image[m], r.offset + 4, TypeI) = Distance(r, m)
  <2>1. PICK i \in DOMAIN rels[m] : r = rels[m][i]
    BY DEF RelsOf
  <2>2. r.sym \in DOMAIN Symbols /\ Relatively(r, m) \in Int
    BY <1>1, <2>1, RelTyped
  <2>3. PICK v \in Int : v = Relatively(r, m)
    BY <2>2
  <2>4. Signed(v) = Distance(r, m)
    BY <1>1, <2>2, <2>3, NotMisplaced
  <2>5. ASSUME r.type \in Branches \union Calls PROVE Settled(r, m, image[m])
    <3>1. Alone(m, i)
      BY <1>1, <2>1, <2>5, LonelyAlone DEF Lonely
    <3>2. QED
      BY <1>1, <2>1, <3>1, LinkedSettled
  <2>6. ASSUME r.type \in Branches PROVE Lower(r, m) = Distance(r, m)
    <3>1. BranchDone(r, m, image[m])
      BY <2>5, <2>6 DEF Settled
    <3>2. Signed(v) % 2 = 0
      BY <1>1, <2>4, <2>6 DEF EvenDistances
    <3>3. QED
      BY <2>3, <2>4, <2>6, <3>1, <3>2, BranchRead DEF Lower
  <2>7. ASSUME r.type \in {"CALL", "CALL_PLT"}, InReach(Distance(r, m))
        PROVE  Upper(r, m) + Immediate(image[m], r.offset + 4, TypeI) = Distance(r, m)
    <3>1. r.type \in Calls
      BY <2>7 DEF Calls
    <3>2. CallDone(r, m, image[m])
      BY <2>5, <3>1 DEF Settled
    <3>3. /\ Holds(image[m], r.offset, TypeU, v + 2 ^ 11)
          /\ Holds(image[m], r.offset + 4, TypeI, v)
      BY <2>3, <3>1, <3>2 DEF CallDone
    <3>4. InReach(Signed(v))
      BY <2>4, <2>7
    <3>5. QED
      BY <2>4, <3>3, <3>4, CoversI, HalvesMeet DEF Upper
  <2>8. QED
    BY <2>6, <2>7
<1>2. ASSUME TypeInv, DoneInv, RelInv,
             \A m \in Members : WellFormed(m) /\ FieldsApart(m) /\ EvenDistances(m)
      PROVE  JumpsReach
  BY <1>1, <1>2 DEF JumpsReach
<1>3. QED
  BY <1>2, TypeCorrect, DoneInvariant, RelInvariant, PTL

\* The high part that has been found is the only one at its place.
LEMMA OneHigh ==
    ASSUME TypeInv, NEW m \in Members, FieldsApart(m),
           NEW i \in DOMAIN rels[m], NEW j \in DOMAIN rels[m],
           rels[m][i].type = "PCREL_HI20", rels[m][j].type = "PCREL_HI20",
           rels[m][i].offset = rels[m][j].offset
    PROVE  i = j
<1>1. SUFFICES ASSUME i # j PROVE FALSE
  OBVIOUS
<1>2. PICK loc : loc = rels[m][i].offset /\ loc = rels[m][j].offset
  OBVIOUS
<1>3. 12 \in DOMAIN TypeU
  BY TypeUFacts, WidthAssumption
<1>4. Own(rels[m][i], m) = At(loc, DOMAIN TypeU) /\ Own(rels[m][j], m) = At(loc, DOMAIN TypeU)
  BY <1>2, OwnFacts, FormatTyped DEF Highs
<1>5. 8 * loc + 12 \in At(loc, DOMAIN TypeU)
  BY <1>3, AtMember
<1>6. Alone(m, i)
  BY LonelyAlone DEF Lonely, Highs
<1>7. Own(rels[m][i], m) \intersect Own(rels[m][j], m) = {}
  BY <1>1, <1>6 DEF Alone
<1>8. QED
  BY <1>4, <1>5, <1>7

\* The lower part of an absolute address: the bit that is cleared by mistake is
\* zero, if the address is not negative.
LEMMA LowHolds ==
    ASSUME NEW r, NEW m, NEW bytes, r.type \in AbsoluteLow, LowDone(r, m, bytes),
           NEW v \in Int, v = Absolutely(r, m), Signed(v) >= 0
    PROVE  Holds(bytes, r.offset, Format(r.type), v)
<1>1. \/ Format(r.type) = TypeI
      \/ Format(r.type) = TypeS
  BY FormatTyped DEF AbsoluteLow
<1>2. PICK f : f = Format(r.type)
  OBVIOUS
<1>3. f[31] = 11 /\ \A b \in DOMAIN f : b \notin 15 .. 19
  BY <1>1, <1>2, TypeIFacts, TypeSFacts
<1>4. near_zero(v) => ~bit(v, 11)
  <2>1. SUFFICES ASSUME near_zero(v) PROVE ~bit(v, 11)
    OBVIOUS
  <2>2. PICK s \in Int : s = Signed(v)
    BY SignedFacts
  <2>3. 0 <= s /\ s < 2048
    <3>1. 2 ^ 11 = 2048
      OBVIOUS
    <3>2. QED
      BY <2>1, <2>2, <3>1 DEF near_zero
  <2>4. s \div 2048 = 0
    BY <2>3
  <2>5. ~bit(s, 11)
    <3>1. 2 ^ 11 = 2048
      OBVIOUS
    <3>2. QED
      BY <2>4, <3>1 DEF bit
  <2>6. PICK n \in Nat : n = 12 /\ n \in 0 .. AddrBits
    BY WidthAssumption
  <2>7. PICK k \in 0 .. n - 1 : k = 11
    BY <2>6
  <2>8. v % 2 ^ n = s % 2 ^ n
    BY <2>2, <2>6, SignedFacts
  <2>9. bit(v, k) <=> bit(s, k)
    BY <2>8, BitsOfRemainder
  <2>10. QED
    BY <2>5, <2>7, <2>9
<1>5. ASSUME NEW b \in DOMAIN f PROVE 8 * r.offset + b \in bytes <=> bit(v, f[b])
  <2>1. 8 * r.offset + b \in bytes <=> bit(v, f[b]) /\ (near_zero(v) => b # 31)
    BY <1>2, <1>3 DEF LowDone
  <2>2. QED
    BY <1>3, <1>4, <2>1
<1>6. QED
  BY <1>2, <1>5 DEF Holds

\* The high and the low part of an address meet.
THEOREM MeetCorrect ==
    Spec => []((\A m \in Members : WellFormed(m) /\ FieldsApart(m)) => HighAndLowMeet)
<1>1. ASSUME TypeInv, DoneInv, RelInv, NEW m \in Members, Linked(m), WellFormed(m), FieldsApart(m),
             NEW low \in RelsOf(m), NEW high \in RelsOf(m), ~Misplaced(high),
             low.type \in PairedLow, high.type \in High20, high.offset = Symbols[low.sym].val,
             InReach(Distance(high, m))
      PROVE  Upper(high, m) + Lower(low, m) = Distance(high, m)
  <2>1. PICK i \in DOMAIN rels[m] : low = rels[m][i]
    BY DEF RelsOf
  <2>2. PICK j \in DOMAIN rels[m] : high = rels[m][j]
    BY DEF RelsOf
  <2>3. high.type = "PCREL_HI20"
    <3>1. high.type \in Supported
      BY <1>1, <2>2, LinkedSettled DEF Linkable
    <3>2. QED
      BY <1>1, <3>1 DEF High20, Supported, Branches, PairedLow, AbsoluteLow, Stores, Sums, Ignored
  <2>4. PairedDone(low, m, image[m]) /\ HighDone(high, m, image[m])
    <3>1. Alone(m, i) /\ Alone(m, j)
      BY <1>1, <2>1, <2>2, <2>3, LonelyAlone DEF Lonely, Highs
    <3>2. Settled(low, m, image[m]) /\ Settled(high, m, image[m])
      BY <1>1, <2>1, <2>2, <3>1, LinkedSettled
    <3>3. QED
      BY <3>2 DEF Settled
  <2>5. PICK n \in DOMAIN rels[m] :
          /\ rels[m][n].type = "PCREL_HI20" /\ rels[m][n].offset = Symbols[low.sym].val
          /\ Holds(image[m], low.offset, Format(low.type), Relatively(rels[m][n], m))
    BY <1>1, <2>4 DEF PairedDone
  <2>6. n = j
    BY <1>1, <2>2, <2>3, <2>5, OneHigh
  <2>7. PICK v \in Int : v = Relatively(high, m) /\ Signed(v) = Distance(high, m)
    BY <1>1, <2>2, RelTyped, NotMisplaced
  <2>8. PICK f : f = Format(low.type) /\ Covers(f, 0 .. 11)
    BY <1>1, FormatTyped, CoversI DEF PairedLow
  <2>9. Holds(image[m], high.offset, TypeU, v + 2 ^ 11) /\ Holds(image[m], low.offset, f, v)
    BY <2>2, <2>3, <2>4, <2>5, <2>6, <2>7, <2>8 DEF HighDone
  <2>10. InReach(Signed(v))
    BY <1>1, <2>7
  <2>11. Immediate(image[m], high.offset, TypeU) + Immediate(image[m], low.offset, f) = Signed(v)
    BY <2>8, <2>9, <2>10, HalvesMeet
  <2>12. QED
    BY <2>7, <2>8, <2>11 DEF Upper, Lower
<1>2. ASSUME TypeInv, DoneInv, RelInv, NEW m \in Members, Linked(m), WellFormed(m), FieldsApart(m),
             NEW low \in RelsOf(m), NEW high \in RelsOf(m), ~Misplaced(high),
             low.type \in AbsoluteLow, high.type = "HI20",
             low.sym = high.sym, low.addend = high.addend,
             Signed(Target(low, m)) >= 0, InReach(Signed(Target(low, m)))
      PROVE  LET rs1 == At(low.offset, 15 .. 19)
             IN  /\ Upper(high, m) + Lower(low, m) = Signed(Target(low, m))
                 /\ rs1 \intersect image[m] # rs1 \intersect shapes[m].data =>
                      Lower(low, m) = Signed(Target(low, m))
  <2>1. PICK i \in DOMAIN rels[m] : low = rels[m][i]
    BY DEF RelsOf
  <2>2. PICK j \in DOMAIN rels[m] : high = rels[m][j]
    BY DEF RelsOf
  <2>3. LowDone(low, m, image[m]) /\ HighDone(high, m, image[m])
    <3>1. Alone(m, i) /\ Alone(m, j)
      BY <1>2, <2>1, <2>2, LonelyAlone DEF Lonely, Highs
    <3>2. Settled(low, m, image[m]) /\ Settled(high, m, image[m])
      BY <1>2, <2>1, <2>2, <3>1, LinkedSettled
    <3>3. QED
      BY <3>2 DEF Settled
  <2>4. PICK v \in Int : v = Target(low, m)
    BY <1>2, <2>1, RelTyped
  <2>5. v = Absolutely(low, m) /\ v = Absolutely(high, m)
    <3>1. Absolutely(high, m) = Target(high, m)
      BY <1>2, <2>2, RelTyped, NotMisplaced
    <3>2. Target(high, m) = Target(low, m) /\ Absolutely(high, m) = Absolutely(low, m)
      BY <1>2 DEF Target, Absolutely
    <3>3. QED
      BY <2>4, <3>1, <3>2
  <2>6. PICK f : f = Format(low.type) /\ Covers(f, 0 .. 11)
    BY <1>2, FormatTyped, CoversI DEF AbsoluteLow
  <2>7. Holds(image[m], high.offset, TypeU, v + 2 ^ 11)
    BY <1>2, <2>3, <2>5 DEF HighDone
  <2>8. Holds(image[m], low.offset, f, v)
    BY <1>2, <2>3, <2>4, <2>5, <2>6, LowHolds
  <2>9. Upper(high, m) + Lower(low, m) = Signed(v)
    <3>1. Immediate(image[m], high.offset, TypeU) + Immediate(image[m], low.offset, f) = Signed(v)
      BY <1>2, <2>4, <2>6, <2>7, <2>8, HalvesMeet
    <3>2. QED
      BY <2>6, <3>1 DEF Upper, Lower
  <2>10. ASSUME NEW rs1, rs1 = At(low.offset, 15 .. 19),
                rs1 \intersect image[m] # rs1 \intersect shapes[m].data
         PROVE  Lower(low, m) = Signed(v)
    <3>1. PICK x \in rs1 : ~(x \in image[m] <=> x \in shapes[m].data)
      BY <2>10
    <3>2. PICK b \in 15 .. 19 : x = 8 * low.offset + b
      BY <2>10, <3>1 DEF At
    <3>3. near_zero(v)
      BY <1>2, <2>3, <2>5, <3>1, <3>2 DEF LowDone
    <3>4. PICK s \in Int : s = Signed(v)
      BY SignedFacts
    <3>5. 0 <= s /\ s < 2048 /\ 2 ^ 11 = 2048 /\ 2 ^ 12 = 4096
      <4>1. 2 ^ 11 = 2048 /\ 2 ^ 12 = 4096
        OBVIOUS
      <4>2. QED
        BY <1>2, <2>4, <3>3, <3>4, <4>1 DEF near_zero
    <3>6. s % 4096 = s
      BY <3>5
    <3>7. WithSign(s % 2 ^ 12, 11) = s
      BY <3>5, <3>6 DEF WithSign
    <3>8. Immediate(image[m], low.offset, f) = WithSign(s % 2 ^ 12, 11)
      BY <2>6, <2>8, <3>4, LowerRead
    <3>9. QED
      BY <2>6, <3>4, <3>7, <3>8 DEF Lower
  <2>11. QED
    BY <2>4, <2>9, <2>10
<1>3. ASSUME TypeInv, DoneInv, RelInv, \A m \in Members : WellFormed(m) /\ FieldsApart(m)
      PROVE  HighAndLowMeet
  BY <1>1, <1>2, <1>3 DEF HighAndLowMeet
<1>4. QED
  BY <1>3, TypeCorrect, DoneInvariant, RelInvariant, PTL

-----------------------------------------------------------------------------
(***************************************************************************)
(* DataHolds.  Two relocations may share a field: what one adds or sets,   *)
(* the other subtracts.                                                    *)
(***************************************************************************)
Subtracts(s, r) ==
    r.type \in DOMAIN Minus \ {"SET8"} /\ s.type = Minus[r.type] /\ s.offset = r.offset

\* The types that add to a field or set it.
LEMMA MinusTypes ==
    /\ DOMAIN Minus = Adds \union Sets
    /\ \A type \in {"ADD16", "SET16"} : Minus[type] = "SUB16"
    /\ \A type \in {"ADD32", "SET32"} : Minus[type] = "SUB32"
    /\ Minus["ADD64"] = "SUB64" /\ Minus["SET6"] = "SUB6" /\ Minus["SET_ULEB128"] = "SUB_ULEB128"
    /\ Minus["SET8"] = "none"
BY DEF Minus, Adds, Sets

\* Both relocations have the same field.
LEMMA SameField ==
    ASSUME NEW r, NEW s, NEW m, Subtracts(s, r)
    PROVE  /\ s.type \in Subs /\ Extent(s, m) = Extent(r, m) /\ Own(s, m) = Own(r, m)
           /\ \A bytes : FieldValue(s, m, bytes) = FieldValue(r, m, bytes)
           /\ IsUleb(s) => IsUleb(r) /\ Width(s, m) = Width(r, m)
<1>1. s.offset = r.offset
  BY DEF Subtracts
<1>2. ASSUME r.type \in Stores \union Sums, s.type \in Stores \union Sums,
             WidthOf(s.type) = WidthOf(r.type)
      PROVE  /\ Extent(s, m) = Extent(r, m) /\ Own(s, m) = Own(r, m)
             /\ \A bytes : FieldValue(s, m, bytes) = FieldValue(r, m, bytes)
  BY <1>1, <1>2, FieldFacts
<1>3. CASE r.type \in {"ADD16", "SET16"}
  <2>1. s.type = "SUB16"
    BY <1>3, MinusTypes DEF Subtracts
  <2>2. WidthOf(s.type) = WidthOf(r.type)
    BY <1>3, <2>1 DEF WidthOf
  <2>3. QED
    BY <1>2, <1>3, <2>1, <2>2 DEF Subs, Stores, Sums, IsUleb
<1>4. CASE r.type \in {"ADD32", "SET32"}
  <2>1. s.type = "SUB32"
    BY <1>4, MinusTypes DEF Subtracts
  <2>2. WidthOf(s.type) = WidthOf(r.type)
    BY <1>4, <2>1 DEF WidthOf
  <2>3. QED
    BY <1>2, <1>4, <2>1, <2>2 DEF Subs, Stores, Sums, IsUleb
<1>5. CASE r.type = "ADD64"
  <2>1. s.type = "SUB64"
    BY <1>5, MinusTypes DEF Subtracts
  <2>2. WidthOf(s.type) = WidthOf(r.type)
    BY <1>5, <2>1 DEF WidthOf
  <2>3. QED
    BY <1>2, <1>5, <2>1, <2>2 DEF Subs, Stores, Sums, IsUleb
<1>6. CASE r.type = "SET6"
  <2>1. s.type = "SUB6"
    BY <1>6, MinusTypes DEF Subtracts
  <2>2. Extent(s, m) = 6 /\ Extent(r, m) = 6 /\ ~IsUleb(r) /\ ~IsUleb(s)
    BY <1>6, <2>1 DEF Extent, Width, IsUleb
  <2>3. Own(s, m) = Own(r, m)
    BY <1>1, <1>6, <2>1, OwnFacts
  <2>4. QED
    BY <1>1, <2>1, <2>2, <2>3 DEF FieldValue, Subs
<1>7. CASE r.type = "SET_ULEB128"
  <2>1. s.type = "SUB_ULEB128"
    BY <1>7, MinusTypes DEF Subtracts
  <2>2. IsUleb(r) /\ IsUleb(s)
    BY <1>7, <2>1 DEF IsUleb
  <2>3. Width(s, m) = Width(r, m)
    BY <1>1, <1>7, <2>1, <2>2 DEF Width
  <2>4. Own(s, m) = Own(r, m)
    <3>1. PICK w, loc : w = Width(r, m) /\ w = Width(s, m) /\ loc = r.offset /\ loc = s.offset
      BY <1>1, <2>3
    <3>2. PICK bits : bits = {8 * (loc + (n \div 7)) + (n % 7) : n \in 0 .. w - 1}
      OBVIOUS
    <3>3. ASSUME NEW x, IsUleb(x), x.offset = loc, Width(x, m) = w PROVE Own(x, m) = bits
      <4>1. Own(x, m) = {8 * (x.offset + (n \div 7)) + (n % 7) : n \in 0 .. Width(x, m) - 1}
        BY <3>3, OwnFacts
      <4>2. QED
        BY <3>2, <3>3, <4>1
    <3>4. Own(r, m) = bits /\ Own(s, m) = bits
      BY <2>2, <3>1, <3>3
    <3>5. QED
      BY <3>4
  <2>5. QED
    BY <1>1, <1>7, <2>1, <2>2, <2>3, <2>4 DEF FieldValue, Subs, Extent
<1>8. QED
  BY <1>3, <1>4, <1>5, <1>6, <1>7, MinusTypes DEF Subtracts, Adds, Sets

\* A field of SET6 is six bits.
LEMMA SixField ==
    ASSUME NEW r, NEW m, r.type = "SET6"
    PROVE  /\ ~IsUleb(r) /\ Extent(r, m) = 6 /\ Own(r, m) = At(r.offset, 0 .. 5)
           /\ \A bytes : FieldValue(r, m, bytes) = Load(bytes, r.offset, 6)
<1>1. ~IsUleb(r) /\ Extent(r, m) = 6
  BY DEF IsUleb, Extent, Width
<1>2. QED
  BY <1>1, OwnFacts DEF FieldValue

\* The field of LEB128.
LEMMA LebField ==
    ASSUME NEW r, NEW m, IsUleb(r)
    PROVE  LET n == UlebLength(shapes[m].data, r.offset)
           IN  /\ Extent(r, m) = (IF 7 * n > AddrBits THEN AddrBits ELSE 7 * n)
               /\ Width(r, m) = 7 * n
               /\ Own(r, m) = {8 * (r.offset + (k \div 7)) + (k % 7) : k \in 0 .. 7 * n - 1}
               /\ \A bytes : FieldValue(r, m, bytes) = LebValue(bytes, r.offset, n)
<1>1. Width(r, m) = 7 * UlebLength(shapes[m].data, r.offset)
  BY DEF Width, IsUleb
<1>2. r.type # "SUB6"
  BY DEF IsUleb
<1>3. QED
  BY <1>1, <1>2, OwnFacts DEF Extent, FieldValue

\* Numbers, and at least one bit.
LEMMA FieldNumbers ==
    ASSUME NEW r, NEW m, r.type \in Adds \union Sets, r.offset \in Int,
           IsUleb(r) => UlebLength(shapes[m].data, r.offset) \in Nat \ {0}
    PROVE  /\ Extent(r, m) \in Nat \ {0} /\ Own(r, m) # {}
           /\ \A bytes : FieldValue(r, m, bytes) \in Int
<1>1. CASE r.type \in Stores \union Sums
  <2>0. PICK loc \in Int : loc = r.offset
    OBVIOUS
  <2>1. PICK w \in Nat \ {0} : w = WidthOf(r.type)
    BY <1>1, FieldFacts
  <2>2. /\ Extent(r, m) = w /\ Own(r, m) = At(loc, 0 .. w - 1)
        /\ \A bytes : FieldValue(r, m, bytes) = Load(bytes, loc, w)
    BY <1>1, <2>0, <2>1, FieldFacts
  <2>3. ASSUME NEW bytes PROVE Load(bytes, loc, w) \in Int
    <3>1. Load(bytes, loc, w) \in Nat
      BY <2>1, LoadTyped
    <3>2. QED
      BY <3>1
  <2>4. 8 * loc + 0 \in At(loc, 0 .. w - 1)
    <3>1. 0 \in 0 .. w - 1
      BY <2>1
    <3>2. QED
      BY <3>1, AtMember
  <2>5. QED
    BY <2>0, <2>1, <2>2, <2>3, <2>4
<1>2. CASE r.type = "SET6"
  <2>1. /\ Extent(r, m) = 6 /\ Own(r, m) = At(r.offset, 0 .. 5)
        /\ \A bytes : FieldValue(r, m, bytes) = Load(bytes, r.offset, 6)
    BY <1>2, SixField
  <2>2. PICK w \in Nat, loc \in Int : w = 6 /\ loc = r.offset
    OBVIOUS
  <2>3. ASSUME NEW bytes PROVE Load(bytes, loc, w) \in Int
    <3>1. Load(bytes, loc, w) \in Nat
      BY LoadTyped
    <3>2. QED
      BY <3>1
  <2>4. 8 * r.offset + 0 \in At(r.offset, 0 .. 5)
    <3>1. 0 \in 0 .. 5
      OBVIOUS
    <3>2. QED
      BY <3>1, AtMember
  <2>5. QED
    BY <2>1, <2>2, <2>3, <2>4
<1>3. CASE r.type = "SET_ULEB128"
  <2>1. IsUleb(r)
    BY <1>3 DEF IsUleb
  <2>0. PICK loc \in Int : loc = r.offset
    OBVIOUS
  <2>2. PICK n \in Nat \ {0} : n = UlebLength(shapes[m].data, r.offset)
    BY <2>1
  <2>3. /\ Extent(r, m) = (IF 7 * n > AddrBits THEN AddrBits ELSE 7 * n)
        /\ Own(r, m) = {8 * (loc + (k \div 7)) + (k % 7) : k \in 0 .. 7 * n - 1}
        /\ \A bytes : FieldValue(r, m, bytes) = LebValue(bytes, loc, n)
    BY <2>0, <2>1, <2>2, LebField
  <2>4. \A bytes : LebValue(bytes, loc, n) \in Int
    <3>1. \A bytes : LebValue(bytes, loc, n) \in Nat
      BY <2>2, LebBit
    <3>2. QED
      BY <3>1
  <2>5. 7 * n \in Nat \ {0} /\ 0 \in 0 .. 7 * n - 1 /\ AddrBits \in Nat \ {0}
    BY WidthAssumption
  <2>6. QED
    BY <2>3, <2>4, <2>5
<1>4. QED
  BY <1>1, <1>2, <1>3 DEF Adds, Sets, Stores, Sums

\* The value depends on nothing but the field.
LEMMA FieldLocal ==
    ASSUME NEW r, NEW m, r.type \in Adds \union Sets, NEW old, NEW new,
           old \intersect Own(r, m) = new \intersect Own(r, m)
    PROVE  FieldValue(r, m, new) = FieldValue(r, m, old)
<1>1. PICK own : own = Own(r, m) /\ old \intersect own = new \intersect own
  OBVIOUS
<1>2. \A x \in own : x \in new <=> x \in old
  BY <1>1
<1>3. ASSUME NEW w, own = At(r.offset, 0 .. w - 1)
      PROVE  Load(new, r.offset, w) = Load(old, r.offset, w)
  <2>1. \A n \in 0 .. w - 1 : 8 * r.offset + n \in own
    BY <1>3, AtMember
  <2>2. \A n \in 0 .. w - 1 : 8 * r.offset + n \in new <=> 8 * r.offset + n \in old
    BY <1>2, <2>1
  <2>3. QED
    BY <2>2, LoadSame
<1>4. CASE r.type \in Stores \union Sums
  BY <1>1, <1>3, <1>4, FieldFacts
<1>5. CASE r.type = "SET6"
  <2>1. own = At(r.offset, 0 .. 6 - 1)
    BY <1>1, <1>5, SixField
  <2>2. Load(new, r.offset, 6) = Load(old, r.offset, 6)
    BY <1>3, <2>1
  <2>3. QED
    BY <1>5, <2>2, SixField
<1>6. CASE r.type = "SET_ULEB128"
  <2>1. IsUleb(r)
    BY <1>6 DEF IsUleb
  <2>2. PICK n, loc : n = UlebLength(shapes[m].data, r.offset) /\ loc = r.offset
    OBVIOUS
  <2>3. /\ own = {8 * (loc + (k \div 7)) + (k % 7) : k \in 0 .. 7 * n - 1}
        /\ \A bytes : FieldValue(r, m, bytes) = LebValue(bytes, loc, n)
    BY <1>1, <2>1, <2>2, LebField
  <2>4. \A k \in 0 .. 7 * n - 1 :
          8 * (loc + (k \div 7)) + (k % 7) \in new <=> 8 * (loc + (k \div 7)) + (k % 7) \in old
    BY <1>2, <2>3
  <2>5. {k \in 0 .. 7 * n - 1 : 8 * (loc + (k \div 7)) + (k % 7) \in new}
        = {k \in 0 .. 7 * n - 1 : 8 * (loc + (k \div 7)) + (k % 7) \in old}
    BY <2>4
  <2>6. LebValue(new, loc, n) = LebValue(old, loc, n)
    BY <2>5 DEF LebValue
  <2>7. QED
    BY <2>3, <2>6
<1>7. QED
  BY <1>4, <1>5, <1>6 DEF Adds, Sets, Stores, Sums

\* What is loaded is a remainder.
LEMMA AddField ==
    ASSUME NEW r, NEW m, r.type \in Adds, r.offset \in Int, NEW bytes
    PROVE  FieldValue(r, m, bytes) = FieldValue(r, m, bytes) % 2 ^ Extent(r, m)
<1>1. r.type \in Stores \union Sums
  BY DEF Adds, Sums
<1>2. PICK w \in Nat, loc \in Int : w = WidthOf(r.type) /\ loc = r.offset
  BY <1>1, FieldFacts
<1>3. w <= w
  OBVIOUS
<1>4. Load(bytes, loc, w) % 2 ^ w = Load(bytes, loc, w)
  BY <1>2, <1>3, LoadLower
<1>5. QED
  BY <1>1, <1>2, <1>4, FieldFacts

\* Remainders may be taken before or after an addition.
LEMMA SumOfRemainder ==
    ASSUME NEW x \in Int, NEW a \in Int, NEW n \in Nat
    PROVE  ((x % 2 ^ n) + a) % 2 ^ n = (x + a) % 2 ^ n
<1>1. PICK q \in Nat \ {0} : q = 2 ^ n
  BY PowerNext
<1>2. PICK k \in Int : k = x \div q
  BY <1>1, DivisionFacts
<1>3. PICK e \in Int : e = x % q
  BY <1>1, DivisionFacts
<1>4. x = k * q + e
  <2>1. x = (x \div q) * q + (x % q)
    BY DivisionFacts
  <2>2. QED
    BY <1>2, <1>3, <2>1
<1>5. PICK y \in Int : y = e + a
  OBVIOUS
<1>6. PICK l \in Int : l = y \div q
  BY <1>1, DivisionFacts
<1>7. PICK d \in 0 .. q - 1 : d = y % q
  BY <1>1, DivisionFacts
<1>8. y = l * q + d
  BY <1>1, <1>5, <1>6, <1>7, DivisionFacts
<1>9. x + a = (k + l) * q + d
  <2>1. (k + l) * q = k * q + l * q
    OBVIOUS
  <2>2. PICK b \in Int, c \in Int : b = k * q /\ c = l * q
    OBVIOUS
  <2>3. QED
    BY <1>4, <1>5, <1>8, <2>1, <2>2
<1>10. (x + a) % q = d
  <2>1. PICK z \in Int : z = k + l
    OBVIOUS
  <2>2. (z * q + d) % q = d
    BY <2>1, RemainderUnique
  <2>3. QED
    BY <1>9, <2>1, <2>2
<1>11. QED
  BY <1>1, <1>3, <1>5, <1>7, <1>10

\* What relocation i has put into its field, and j taken out of it.
Put(m, i) == IF i \in DOMAIN rels[m] /\ Past(m, i) THEN Absolutely(rels[m][i], m) ELSE 0

\* No other relocation than j is in the field of i, and j subtracts.
Shares(m, i, j) ==
    /\ \A k \in DOMAIN rels[m] \ {i, j} :
         Own(rels[m][i], m) \intersect Own(rels[m][k], m) = {}
    /\ j \in DOMAIN rels[m] => j # i /\ Subtracts(rels[m][j], rels[m][i])

\* From what is put there, read_uleb can subtract.
Fits(r, m) ==
    IsUleb(r) => Width(r, m) < WordBits \/ Absolutely(r, m) \in 0 .. 2 ^ (WordBits - 1) - 1

\* The value of a field is what has been put into it: to an R_RISCV_ADD in any
\* order; R_RISCV_SET is the first.
Filled(m, i, j) ==
    LET r == rels[m][i]
    IN  /\ r.type \in Adds =>
             FieldValue(r, m, image[m])
             = (FieldValue(r, m, shapes[m].data) + Put(m, i) - Put(m, j)) % 2 ^ Extent(r, m)
        /\ r.type \in Sets /\ Past(m, i) /\ (j = 0 \/ (i < j /\ Fits(r, m))) =>
             FieldValue(r, m, image[m]) = (Put(m, i) - Put(m, j)) % 2 ^ Extent(r, m)
FieldInv ==
    \A m \in Members : \A i \in DOMAIN rels[m] : \A j \in {0} \union DOMAIN rels[m] :
        WellFormed(m) /\ Copied(m) /\ Shares(m, i, j) => Filled(m, i, j)

\* LEB128 has at least one byte.
LEMMA LebLong ==
    ASSUME TypeInv, NEW m \in Members, NEW r \in RelsOf(m), WellFormed(m), IsUleb(r)
    PROVE  UlebLength(shapes[m].data, r.offset) \in Nat \ {0}
<1>1. PICK loc \in Int : loc = r.offset
  BY RelTyped DEF RelsOf
<1>2. PICK n \in 0 .. 9 : EndsAt(shapes[m].data, loc, n)
  BY <1>1 DEF WellFormed
<1>3. UlebLength(shapes[m].data, loc) = n + 1 /\ n + 1 \in Nat \ {0}
  BY <1>2, EndsFacts
<1>4. QED
  BY <1>1, <1>3

\* What has been put into a field is a number.
LEMMA PutTyped ==
    ASSUME TypeInv, NEW m \in Members, NEW i
    PROVE  Put(m, i) \in Int
<1>1. CASE i \in DOMAIN rels[m]
  BY <1>1, RelTyped DEF Put
<1>2. CASE i \notin DOMAIN rels[m]
  BY <1>2 DEF Put
<1>3. QED
  BY <1>1, <1>2

\* A step of the sum.
LEMMA SumStep ==
    ASSUME NEW x \in Int, NEW c \in Int, NEW n \in Nat
    PROVE  /\ ((x % 2 ^ n) + c) % 2 ^ n = (x + c) % 2 ^ n
           /\ ((x % 2 ^ n) - c) % 2 ^ n = (x - c) % 2 ^ n
<1>1. ((x % 2 ^ n) + c) % 2 ^ n = (x + c) % 2 ^ n
  BY SumOfRemainder
<1>2. PICK d \in Int : d = -c
  OBVIOUS
<1>3. ((x % 2 ^ n) + d) % 2 ^ n = (x + d) % 2 ^ n
  BY SumOfRemainder
<1>4. PICK old \in Int : old = x % 2 ^ n
  BY RemainderNext
<1>5. old + d = old - c /\ x + d = x - c
  BY <1>2
<1>6. QED
  BY <1>1, <1>3, <1>4, <1>5

\* An address that fits is small when it has been put into the field.
LEMMA SmallRemainder ==
    ASSUME NEW a \in Int, NEW n \in Nat, NEW old, old = a % 2 ^ n,
           a \in 0 .. 2 ^ (WordBits - 1) - 1
    PROVE  old < 2 ^ (WordBits - 1)
<1>1. PICK q \in Nat \ {0} : q = 2 ^ n
  BY PowerNext
<1>2. WordBits - 1 \in Nat
  BY WidthAssumption
<1>3. PICK p \in Nat : p = 2 ^ (WordBits - 1)
  BY <1>2, PowerNext
<1>4. a % q <= a
  <2>1. PICK e \in 0 .. q - 1 : e = a % q
    BY <1>1, DivisionFacts
  <2>2. PICK d \in Int : d = a \div q
    BY <1>1, DivisionFacts
  <2>3. a = d * q + e
    <3>1. a = (a \div q) * q + (a % q)
      BY DivisionFacts
    <3>2. QED
      BY <2>1, <2>2, <3>1
  <2>4. CASE d < 0
    <3>1. PICK c \in Nat : c = -d - 1
      BY <2>4
    <3>2. c * q \in Nat /\ d = -c - 1
      BY <3>1
    <3>3. d * q = -(c * q) - q
      BY <3>2
    <3>4. QED
      BY <1>3, <2>1, <2>3, <3>2, <3>3
  <2>5. CASE d >= 0
    <3>1. d * q >= 0 /\ d * q \in Int
      BY <2>5
    <3>2. QED
      BY <2>1, <2>3, <3>1
  <2>6. QED
    BY <2>4, <2>5
<1>5. QED
  BY <1>1, <1>3, <1>4

\* A member as it is copied.
LEMMA FilledFirst ==
    ASSUME TypeInv, NEW m \in Members, NEW i \in DOMAIN rels[m], NEW r, r = rels[m][i],
           r.type \in Adds
    PROVE  LET f == FieldValue(r, m, shapes[m].data) IN f = (f + 0 - 0) % 2 ^ Extent(r, m)
<1>1. r.offset \in Int /\ ~IsUleb(r)
  <2>1. r.offset \in Int
    BY RelTyped
  <2>2. QED
    BY <2>1 DEF IsUleb, Adds
<1>2. PICK f \in Int : f = FieldValue(r, m, shapes[m].data)
  BY <1>1, FieldNumbers
<1>3. f = f % 2 ^ Extent(r, m)
  BY <1>1, <1>2, AddField
<1>4. f + 0 - 0 = f
  OBVIOUS
<1>5. QED
  BY <1>2, <1>3, <1>4

\* What has been put when the relocation at hand is done.
NextPut(m, k) ==
    IF k \in DOMAIN rels[m] /\ (Past(m, k) \/ k = relIdx) THEN Absolutely(rels[m][k], m) ELSE 0

\* One relocation is applied, and the field of i has the value it should.
LEMMA FieldStep ==
    ASSUME TypeInv, OtherInv, NEW bytes, Handles(bytes), NEW m \in Members, m = member,
           WellFormed(m), NEW i \in DOMAIN rels[m], NEW j \in {0} \union DOMAIN rels[m],
           Shares(m, i, j), Filled(m, i, j), NEW r, r = rels[m][i]
    PROVE  /\ r.type \in Adds =>
                FieldValue(r, m, bytes)
                = (FieldValue(r, m, shapes[m].data) + NextPut(m, i) - NextPut(m, j)) % 2 ^ Extent(r, m)
           /\ r.type \in Sets /\ (Past(m, i) \/ i = relIdx) /\ (j = 0 \/ (i < j /\ Fits(r, m))) =>
                FieldValue(r, m, bytes) = (NextPut(m, i) - NextPut(m, j)) % 2 ^ Extent(r, m)
<1>1. r = rels[m][i]
  OBVIOUS
<1>2. CASE r.type \notin Adds \union Sets
  BY <1>2
<1>3. SUFFICES ASSUME r.type \in Adds \union Sets
               PROVE  /\ r.type \in Adds =>
                           FieldValue(r, m, bytes)
                           = (FieldValue(r, m, shapes[m].data) + NextPut(m, i) - NextPut(m, j))
                             % 2 ^ Extent(r, m)
                      /\ r.type \in Sets /\ (Past(m, i) \/ i = relIdx)
                         /\ (j = 0 \/ (i < j /\ Fits(r, m))) =>
                           FieldValue(r, m, bytes) = (NextPut(m, i) - NextPut(m, j)) % 2 ^ Extent(r, m)
  BY <1>2
<1>4. /\ r \in RelsOf(m) /\ r.offset \in Int /\ i \in Nat \ {0} /\ Absolutely(r, m) \in Int
      /\ j \in Nat /\ 0 \notin DOMAIN rels[m]
  <2>1. \A k \in DOMAIN rels[m] : k \in Nat \ {0}
    BY RelTyped
  <2>2. QED
    BY <1>1, <2>1, RelTyped DEF RelsOf
<1>5. IsUleb(r) => UlebLength(shapes[m].data, r.offset) \in Nat \ {0}
  BY <1>4, LebLong
<1>6. PICK n \in Nat : n = Extent(r, m)
  BY <1>3, <1>4, <1>5, FieldNumbers
<1>7. PICK f \in Int : f = FieldValue(r, m, shapes[m].data)
  BY <1>3, <1>4, <1>5, FieldNumbers
<1>8. PICK old \in Int : old = FieldValue(r, m, image[m])
  BY <1>3, <1>4, <1>5, FieldNumbers
<1>9. PICK new \in Int : new = FieldValue(r, m, bytes)
  BY <1>3, <1>4, <1>5, FieldNumbers
<1>10. PICK a \in Int : a = Put(m, i)
  BY PutTyped
<1>11. PICK b \in Int : b = Put(m, j)
  BY PutTyped
<1>12. /\ r.type \in Adds => old = (f + a - b) % 2 ^ n
       /\ r.type \in Sets /\ Past(m, i) /\ (j = 0 \/ (i < j /\ Fits(r, m))) => old = (a - b) % 2 ^ n
  BY <1>1, <1>6, <1>7, <1>8, <1>10, <1>11 DEF Filled
<1>13. /\ NowRelocating /\ Effect(This, m, image[m], bytes) /\ relIdx \in DOMAIN rels[m]
       /\ This = rels[m][relIdx] /\ phase = "relocate" /\ relIdx \in Nat
  BY DEF Handles, NowRelocating, This, TypeInv
<1>14. \A k \in DOMAIN rels[m] : Past(m, k) => k < relIdx
  <2>1. m \in Int
    BY MembersAssumption DEF Members
  <2>2. QED
    BY <1>13, <2>1 DEF Past
<1>15. LebSame(This, m, image[m]) /\ Keeps(bytes, image[m], Own(This, m))
  BY HandledKeeps
<1>16. \A k : k # relIdx => NextPut(m, k) = Put(m, k)
  BY DEF NextPut, Put
<1>17. NextPut(m, relIdx) = Absolutely(This, m) /\ Put(m, relIdx) = 0
  BY <1>13, <1>14 DEF NextPut, Put
<1>18. j \in DOMAIN rels[m] => j # i /\ Subtracts(rels[m][j], r)
  BY <1>1 DEF Shares
<1>19. j # i
  BY <1>4, <1>18
<1>20. CASE relIdx = i
  <2>1. This = r /\ a = 0 /\ NextPut(m, j) = b
    BY <1>1, <1>10, <1>11, <1>13, <1>16, <1>17, <1>19, <1>20
  <2>2. PICK c \in Int : c = Absolutely(r, m) /\ c = NextPut(m, i)
    BY <1>4, <1>17, <1>20, <2>1
  <2>3. SumDone(r, m, image[m], bytes) /\ LebSame(r, m, image[m])
    BY <1>13, <1>15, <2>1 DEF Effect
  <2>4. ASSUME r.type \in Adds PROVE new = (f + c - b) % 2 ^ n
    <3>1. new = (old + c) % 2 ^ n
      BY <1>6, <1>8, <1>9, <2>2, <2>3, <2>4 DEF SumDone
    <3>2. PICK x \in Int : x = f + a - b
      OBVIOUS
    <3>3. x \in Int /\ c \in Int /\ n \in Nat /\ old \in Int /\ old = x % 2 ^ n
      BY <1>12, <2>4, <3>2
    <3>4. (old + c) % 2 ^ n = (x + c) % 2 ^ n
      <4>1. ((x % 2 ^ n) + c) % 2 ^ n = (x + c) % 2 ^ n
        BY SumStep
      <4>2. QED
        BY <3>3, <4>1
    <3>5. x + c = f + c - b
      BY <2>1, <3>2
    <3>6. QED
      BY <3>1, <3>4, <3>5
  <2>5. ASSUME r.type \in Sets, j = 0 \/ i < j PROVE new = (c - b) % 2 ^ n
    <3>1. new = c % 2 ^ n
      BY <1>6, <1>9, <2>2, <2>3, <2>5 DEF SumDone
    <3>2. b = 0
      BY <1>4, <1>11, <1>14, <1>20, <2>5 DEF Put
    <3>3. c - b = c
      BY <3>2
    <3>4. QED
      BY <3>1, <3>3
  <2>6. QED
    BY <1>6, <1>7, <1>9, <2>1, <2>2, <2>4, <2>5
<1>21. CASE relIdx = j
  <2>1. j \in DOMAIN rels[m] /\ This = rels[m][j] /\ b = 0 /\ NextPut(m, i) = a
    BY <1>10, <1>11, <1>13, <1>16, <1>17, <1>19, <1>21
  <2>2. /\ This.type \in Subs /\ Extent(This, m) = n
        /\ \A data : FieldValue(This, m, data) = FieldValue(r, m, data)
        /\ IsUleb(This) => IsUleb(r) /\ Width(This, m) = Width(r, m)
    BY <1>6, <1>18, <2>1, SameField
  <2>3. PICK c \in Int : c = Absolutely(This, m) /\ c = NextPut(m, j)
    BY <1>17, <1>21, <2>1, RelTyped
  <2>4. SumDone(This, m, image[m], bytes)
    BY <1>13 DEF Effect
  <2>5. ASSUME Readable(This, m, image[m]) PROVE new = (old - c) % 2 ^ n
    BY <1>8, <1>9, <1>15, <2>2, <2>3, <2>4, <2>5 DEF SumDone
  <2>6. ASSUME NEW x \in Int, old = (x - b) % 2 ^ n, Readable(This, m, image[m]) PROVE new = (x - c) % 2 ^ n
    <3>1. x - b = x
      BY <2>1
    <3>2. x \in Int /\ c \in Int /\ n \in Nat /\ old \in Int /\ old = x % 2 ^ n
      BY <2>6, <3>1
    <3>3. (old - c) % 2 ^ n = (x - c) % 2 ^ n
      <4>1. ((x % 2 ^ n) - c) % 2 ^ n = (x - c) % 2 ^ n
        BY SumStep
      <4>2. QED
        BY <3>2, <4>1
    <3>4. QED
      BY <2>5, <2>6, <3>3
  <2>7. f + a \in Int
    OBVIOUS
  <2>8. ASSUME r.type \in Adds PROVE new = (f + a - c) % 2 ^ n
    <3>1. Readable(This, m, image[m])
      BY <2>2, <2>8 DEF Readable, IsUleb, Adds
    <3>2. QED
      BY <1>12, <2>6, <2>7, <2>8, <3>1
  <2>9. ASSUME r.type \in Sets, Past(m, i), i < j, Fits(r, m) PROVE new = (a - c) % 2 ^ n
    <3>1. old = (a - b) % 2 ^ n
      BY <1>12, <2>9
    <3>2. a - b = a /\ a = Absolutely(r, m)
      BY <1>1, <1>10, <2>1, <2>9 DEF Put
    <3>3. Readable(This, m, image[m])
      <4>1. SUFFICES ASSUME IsUleb(This), ~(Width(This, m) < WordBits)
                     PROVE  old < 2 ^ (WordBits - 1)
        BY <1>8, <2>2 DEF Readable
      <4>2. a \in 0 .. 2 ^ (WordBits - 1) - 1
        BY <2>2, <2>9, <3>2, <4>1 DEF Fits
      <4>3. old = a % 2 ^ n
        BY <3>1, <3>2
      <4>4. QED
        BY <4>2, <4>3, SmallRemainder
    <3>4. QED
      BY <2>6, <3>1, <3>3
  <2>10. QED
    BY <1>4, <1>6, <1>7, <1>9, <1>19, <1>21, <2>1, <2>3, <2>8, <2>9
<1>22. CASE relIdx # i /\ relIdx # j
  <2>1. Own(r, m) \intersect Own(This, m) = {}
    BY <1>1, <1>13, <1>22 DEF Shares
  <2>2. image[m] \intersect Own(r, m) = bytes \intersect Own(r, m)
    BY <1>15, <2>1 DEF Keeps
  <2>3. new = old
    BY <1>3, <1>8, <1>9, <2>2, FieldLocal
  <2>4. NextPut(m, i) = a /\ NextPut(m, j) = b
    BY <1>10, <1>11, <1>16, <1>22
  <2>5. QED
    BY <1>6, <1>7, <1>9, <1>12, <1>22, <2>3, <2>4
<1>23. QED
  BY <1>20, <1>21, <1>22

\* The fields do not change by themselves.
LEMMA FieldsStay ==
    ASSUME UNCHANGED <<shapes, addr, rels>>, NEW m
    PROVE  /\ \A i, j : Shares(m, i, j)' <=> Shares(m, i, j)
           /\ \A r : (Extent(r, m))' = Extent(r, m) /\ (Absolutely(r, m))' = Absolutely(r, m)
           /\ \A r, bytes : (FieldValue(r, m, bytes))' = FieldValue(r, m, bytes)
           /\ \A r : Fits(r, m)' <=> Fits(r, m)
<1>1. \A r : (Own(r, m))' = Own(r, m)
  BY InputsStay
<1>2. \A i, j : Shares(m, i, j)' <=> Shares(m, i, j)
  BY <1>1 DEF Shares, Subtracts
<1>3. \A r : (Width(r, m))' = Width(r, m)
  BY DEF Width
<1>4. \A r : (Extent(r, m))' = Extent(r, m) /\ (Absolutely(r, m))' = Absolutely(r, m)
  BY <1>3 DEF Extent, Absolutely, get_sym_addr, GlobalAddr, isec_addr
<1>5. \A r, bytes : (FieldValue(r, m, bytes))' = FieldValue(r, m, bytes)
  BY <1>4 DEF FieldValue
<1>6. \A r : Fits(r, m)' <=> Fits(r, m)
  BY <1>3, <1>4 DEF Fits
<1>7. QED
  BY <1>2, <1>4, <1>5, <1>6

\* Filled after a step, in terms of the state before it.
LEMMA FilledNext ==
    ASSUME UNCHANGED <<shapes, addr, rels>>, NEW m, NEW i \in DOMAIN rels[m],
           NEW j \in {0} \union DOMAIN rels[m], 0 \notin DOMAIN rels[m],
           NEW new, new = image'[m], NEW r, r = rels[m][i],
           NEW a, a = (IF Past(m, i)' THEN Absolutely(r, m) ELSE 0),
           NEW b, b = (IF j # 0 /\ Past(m, j)' THEN Absolutely(rels[m][j], m) ELSE 0),
           r.type \in Adds =>
             FieldValue(r, m, new) = (FieldValue(r, m, shapes[m].data) + a - b) % 2 ^ Extent(r, m),
           r.type \in Sets /\ Past(m, i)' /\ (j = 0 \/ (i < j /\ Fits(r, m))) =>
             FieldValue(r, m, new) = (a - b) % 2 ^ Extent(r, m)
    PROVE  Filled(m, i, j)'
<1>1. Put(m, i)' = a
  BY FieldsStay DEF Put
<1>2. Put(m, j)' = b
  BY FieldsStay DEF Put
<1>3. (rels[m][i])' = r
  OBVIOUS
<1>4. (FieldValue(rels[m][i], m, image[m]))' = FieldValue(r, m, new)
  BY FieldsStay DEF FieldValue, Extent, Width
<1>5. (FieldValue(rels[m][i], m, shapes[m].data))' = FieldValue(r, m, shapes[m].data)
  BY FieldsStay DEF FieldValue, Extent, Width
<1>6. (Extent(rels[m][i], m))' = Extent(r, m)
  BY FieldsStay DEF Extent, Width
<1>7. (Fits(rels[m][i], m))' <=> Fits(r, m)
  BY FieldsStay DEF Fits, Width
<1>8. QED
  BY <1>1, <1>2, <1>3, <1>4, <1>5, <1>6, <1>7 DEF Filled

\* Every step keeps the values of the fields.
LEMMA FieldNext == TypeInv /\ OtherInv /\ FieldInv /\ [Next]_vars => FieldInv'
<1> SUFFICES ASSUME TypeInv, OtherInv, FieldInv, [Next]_vars,
                    NEW m \in Members, NEW i \in DOMAIN rels'[m], NEW j \in {0} \union DOMAIN rels'[m],
                    WellFormed(m)', Copied(m)', Shares(m, i, j)'
             PROVE  Filled(m, i, j)'
  BY DEF FieldInv
<1>1. /\ UNCHANGED <<shapes, addr, rels>>
      /\ \/ MemberStays(m) /\ \A bytes : ~Handles(bytes)
         \/ CopyMember /\ m = member /\ image'[m] = shapes[m].data
         \/ \E bytes : /\ Handles(bytes) /\ (Copied(m)' <=> Copied(m))
                       /\ image'[m] = IF m = member THEN bytes ELSE image[m]
  BY MemberCases DEF MemberStays
<1>2. i \in DOMAIN rels[m] /\ j \in {0} \union DOMAIN rels[m] /\ WellFormed(m) /\ Shares(m, i, j)
  BY <1>1, InputsStay, FieldsStay
<1>3. 0 \notin DOMAIN rels[m]
  BY RelTyped
<1>4. PICK r, new : r = rels[m][i] /\ new = image'[m]
  OBVIOUS
<1>5. PICK a : a = IF Past(m, i)' THEN Absolutely(r, m) ELSE 0
  OBVIOUS
<1>6. PICK b : b = IF j # 0 /\ Past(m, j)' THEN Absolutely(rels[m][j], m) ELSE 0
  OBVIOUS
<1>7. SUFFICES /\ r.type \in Adds =>
                    FieldValue(r, m, new)
                    = (FieldValue(r, m, shapes[m].data) + a - b) % 2 ^ Extent(r, m)
               /\ r.type \in Sets /\ Past(m, i)' /\ (j = 0 \/ (i < j /\ Fits(r, m))) =>
                    FieldValue(r, m, new) = (a - b) % 2 ^ Extent(r, m)
  BY <1>1, <1>2, <1>3, <1>4, <1>5, <1>6, FilledNext
<1>8. ASSUME Copied(m)
      PROVE  /\ r.type \in Adds =>
                  FieldValue(r, m, image[m])
                  = (FieldValue(r, m, shapes[m].data) + Put(m, i) - Put(m, j)) % 2 ^ Extent(r, m)
             /\ r.type \in Sets /\ Past(m, i) /\ (j = 0 \/ (i < j /\ Fits(r, m))) =>
                  FieldValue(r, m, image[m]) = (Put(m, i) - Put(m, j)) % 2 ^ Extent(r, m)
  BY <1>2, <1>4, <1>8 DEF FieldInv, Filled
<1>9. CASE MemberStays(m) /\ \A bytes : ~Handles(bytes)
  <2>1. new = image[m] /\ Copied(m)
    BY <1>4, <1>9 DEF MemberStays
  <2>2. Past(m, i)' <=> Past(m, i)
    BY <1>2, <1>9, PastCases
  <2>3. j # 0 => (Past(m, j)' <=> Past(m, j))
    BY <1>2, <1>9, PastCases
  <2>4. a = Put(m, i) /\ b = Put(m, j)
    BY <1>2, <1>3, <1>4, <1>5, <1>6, <2>2, <2>3 DEF Put
  <2>5. QED
    BY <1>8, <2>1, <2>2, <2>4
<1>10. CASE CopyMember /\ m = member /\ image'[m] = shapes[m].data
  <2>1. ~Past(m, i)' /\ (j # 0 => ~Past(m, j)')
    BY <1>2, <1>10, PastCases
  <2>2. a = 0 /\ b = 0
    BY <1>5, <1>6, <2>1
  <2>3. new = shapes[m].data
    BY <1>4, <1>10
  <2>4. ASSUME r.type \in Adds
        PROVE  FieldValue(r, m, new) = (FieldValue(r, m, shapes[m].data) + a - b) % 2 ^ Extent(r, m)
    BY <1>2, <1>4, <2>2, <2>3, <2>4, FilledFirst
  <2>5. QED
    BY <2>1, <2>4
<1>11. CASE \E bytes : /\ Handles(bytes) /\ (Copied(m)' <=> Copied(m))
                       /\ image'[m] = IF m = member THEN bytes ELSE image[m]
  <2>1. PICK bytes : /\ Handles(bytes) /\ (Copied(m)' <=> Copied(m))
                     /\ image'[m] = IF m = member THEN bytes ELSE image[m]
    BY <1>11
  <2>2. Past(m, i)' <=> Past(m, i) \/ (m = member /\ i = relIdx)
    BY <1>2, <2>1, PastCases
  <2>3. j # 0 => (Past(m, j)' <=> Past(m, j) \/ (m = member /\ j = relIdx))
    BY <1>2, <2>1, PastCases
  <2>4. Copied(m)
    BY <2>1
  <2>5. CASE m # member
    <3>1. a = Put(m, i) /\ b = Put(m, j)
      BY <1>2, <1>3, <1>4, <1>5, <1>6, <2>2, <2>3, <2>5 DEF Put
    <3>2. new = image[m]
      BY <1>4, <2>1, <2>5
    <3>3. QED
      BY <1>8, <2>2, <2>4, <2>5, <3>1, <3>2
  <2>6. CASE m = member
    <3>1. a = NextPut(m, i) /\ b = NextPut(m, j)
      BY <1>2, <1>3, <1>4, <1>5, <1>6, <2>2, <2>3, <2>6 DEF NextPut
    <3>2. new = bytes
      BY <1>4, <2>1, <2>6
    <3>3. Filled(m, i, j)
      BY <1>2, <2>4 DEF FieldInv
    <3>4. /\ r.type \in Adds =>
               FieldValue(r, m, bytes)
               = (FieldValue(r, m, shapes[m].data) + NextPut(m, i) - NextPut(m, j)) % 2 ^ Extent(r, m)
          /\ r.type \in Sets /\ (Past(m, i) \/ i = relIdx) /\ (j = 0 \/ (i < j /\ Fits(r, m))) =>
               FieldValue(r, m, bytes) = (NextPut(m, i) - NextPut(m, j)) % 2 ^ Extent(r, m)
      BY <1>2, <1>4, <2>1, <2>6, <3>3, FieldStep
    <3>5. QED
      BY <2>2, <2>6, <3>1, <3>2, <3>4
  <2>7. QED
    BY <2>5, <2>6
<1>12. QED
  BY <1>1, <1>9, <1>10, <1>11

\* The values of the fields, for all time.
THEOREM FieldInvariant == Spec => []FieldInv
<1>1. Init => FieldInv
  BY DEF Init, FieldInv, Copied
<1>2. TypeInv /\ OtherInv /\ FieldInv /\ [Next]_vars => FieldInv'
  BY FieldNext
<1>3. QED
  BY <1>1, <1>2, TypeCorrect, OtherInvariant, PTL DEF Spec

\* What is subtracted from the field of a relocation.
Subtracted(r, m) ==
    {s \in RelsOf(m) : r.type \in DOMAIN Minus /\ s.type = Minus[r.type] /\ s.offset = r.offset}

\* At most one relocation, by the one that shares the field.
LEMMA PartnerFound ==
    ASSUME TypeInv, NEW m \in Members, WellFormed(m), FieldsApart(m),
           \A k \in DOMAIN rels[m] : rels[m][k].type \in Supported,
           NEW i \in DOMAIN rels[m], NEW r, r = rels[m][i], r.type \in Adds \union Sets
    PROVE  \E j \in {0} \union DOMAIN rels[m] :
             /\ Shares(m, i, j)
             /\ Subtracted(r, m) = IF j = 0 THEN {} ELSE {rels[m][j]}
<1>1. r \in RelsOf(m) /\ r.offset \in Int /\ 0 \notin DOMAIN rels[m]
  BY RelTyped DEF RelsOf
<1>2. IsUleb(r) => UlebLength(shapes[m].data, r.offset) \in Nat \ {0}
  BY <1>1, LebLong
<1>3. Own(r, m) # {}
  BY <1>1, <1>2, FieldNumbers
<1>4. ASSUME NEW k \in DOMAIN rels[m]
      PROVE  /\ Partners(r, rels[m][k]) <=> Subtracts(rels[m][k], r)
             /\ rels[m][k] \in Subtracted(r, m) <=> Subtracts(rels[m][k], r)
  <2>1. PICK s : s = rels[m][k] /\ s \in RelsOf(m)
    BY DEF RelsOf
  <2>2. s.type # "none"
    BY <2>1 DEF Supported, Branches, PairedLow, AbsoluteLow, Stores, Sums, Ignored
  <2>3. r.type \in DOMAIN Minus
    BY MinusTypes
  <2>4. s.type = Minus[r.type] => r.type # "SET8"
    BY <2>2, MinusTypes
  <2>5. ~(s.type \in DOMAIN Minus /\ r.type = Minus[s.type])
    BY MinusTypes DEF Adds, Sets
  <2>6. QED
    BY <2>1, <2>3, <2>4, <2>5 DEF Partners, Subtracts, Subtracted
<1>5. ASSUME NEW k \in DOMAIN rels[m], Subtracts(rels[m][k], r)
      PROVE  /\ k # i
             /\ \A l \in DOMAIN rels[m] : Partners(r, rels[m][l]) => l = k
  <2>1. Own(rels[m][k], m) = Own(r, m) /\ rels[m][k].type \in Subs
    BY <1>5, SameField
  <2>2. k # i
    BY <2>1 DEF Subs, Adds, Sets
  <2>3. ~(Own(r, m) \intersect Own(rels[m][k], m) = {})
    BY <1>3, <2>1
  <2>4. QED
    BY <2>2, <2>3 DEF FieldsApart
<1>6. CASE \A k \in DOMAIN rels[m] : ~Subtracts(rels[m][k], r)
  <2>1. Shares(m, i, 0)
    <3>1. ASSUME NEW k \in DOMAIN rels[m], k # i
          PROVE  Own(rels[m][i], m) \intersect Own(rels[m][k], m) = {}
      BY <1>4, <1>6, <3>1 DEF FieldsApart
    <3>2. QED
      BY <1>1, <3>1 DEF Shares
  <2>2. Subtracted(r, m) = {}
    BY <1>4, <1>6 DEF Subtracted, RelsOf
  <2>3. QED
    BY <2>1, <2>2
<1>7. CASE \E k \in DOMAIN rels[m] : Subtracts(rels[m][k], r)
  <2>1. PICK j \in DOMAIN rels[m] : Subtracts(rels[m][j], r)
    BY <1>7
  <2>2. j # i /\ j # 0 /\ \A l \in DOMAIN rels[m] : Partners(r, rels[m][l]) => l = j
    BY <1>1, <1>5, <2>1
  <2>3. ASSUME NEW k \in DOMAIN rels[m] \ {i, j}
        PROVE  Own(rels[m][i], m) \intersect Own(rels[m][k], m) = {}
    BY <2>2, <2>3 DEF FieldsApart
  <2>4. Shares(m, i, j)
    BY <2>1, <2>2, <2>3 DEF Shares
  <2>5. ASSUME NEW s \in Subtracted(r, m) PROVE s = rels[m][j]
    <3>1. PICK k \in DOMAIN rels[m] : s = rels[m][k]
      BY <2>5 DEF Subtracted, RelsOf
    <3>2. k = j
      BY <1>4, <2>2, <2>5, <3>1
    <3>3. QED
      BY <3>1, <3>2
  <2>6. rels[m][j] \in Subtracted(r, m)
    BY <1>4, <2>1
  <2>7. Subtracted(r, m) = {rels[m][j]}
    BY <2>5, <2>6
  <2>8. QED
    BY <2>2, <2>4, <2>7
<1>8. QED
  BY <1>6, <1>7

\* R_RISCV_SET comes before what is subtracted.
LEMMA SetsFirst ==
    ASSUME TypeInv, DoneInv, OrderInv, NEW m \in Members, Linked(m), SetFirst(shapes[m].rels),
           NEW i \in DOMAIN rels[m], rels[m][i].type \in Sets,
           NEW j \in DOMAIN rels[m], j # i, rels[m][j].offset = rels[m][i].offset
    PROVE  i < j
<1>1. Copied(m) /\ m < member
  BY LinkedCopied DEF TypeInv, DoneInv
<1>2. rels[m] = shapes[m].rels
  BY <1>1 DEF OrderInv, SetFirst
<1>3. i \in Nat /\ j \in Nat
  BY RelTyped
<1>4. ~(j < i)
  BY <1>2 DEF SetFirst, Sets
<1>5. QED
  BY <1>3, <1>4

\* The value that the property is about is that of the field.
LEMMA ValueIsField ==
    ASSUME NEW r, NEW m, r.type \in Adds \union Sets, NEW bytes, LebSame(r, m, bytes)
    PROVE  ValueBits(r, m) = Extent(r, m) /\ Value(r, m, bytes) = FieldValue(r, m, bytes)
<1>1. PICK a \in Int : a = AddrBits /\ a >= 22 /\ WordBits <= a
  BY WidthAssumption
<1>2. r.type # "SUB6"
  BY DEF Adds, Sets
<1>3. CASE IsUleb(r)
  <2>0. PICK loc : loc = r.offset
    OBVIOUS
  <2>1. PICK n \in Nat : n = UlebLength(bytes, loc)
    BY <1>3, <2>0 DEF LebSame
  <2>2. UlebLength(shapes[m].data, r.offset) = n
    BY <1>3, <2>0, <2>1 DEF LebSame
  <2>3. UlebValue(bytes, loc) = LebValue(bytes, loc, n)
    BY <2>1 DEF UlebValue, LebValue
  <2>4. PICK w \in Int : w = 7 * n /\ w = Width(r, m)
    BY <1>3, <2>0, <2>1, <2>2 DEF Width, IsUleb
  <2>5. ValueBits(r, m) = IF w < a THEN w ELSE a
    BY <1>1, <2>4, MinOfTwo DEF ValueBits
  <2>6. Extent(r, m) = IF w > a THEN a ELSE w
    BY <1>1, <1>2, <1>3, <2>4 DEF Extent
  <2>7. QED
    BY <1>1, <1>3, <2>0, <2>1, <2>2, <2>3, <2>4, <2>5, <2>6 DEF Value, FieldValue
<1>4. CASE ~IsUleb(r)
  <2>1. Width(r, m) = Extent(r, m)
    BY <1>2, <1>4 DEF Extent
  <2>2. PICK w \in Int : w = Width(r, m) /\ w <= a
    BY <1>1, <1>4, WidthAssumption DEF Width, WidthOf, Adds, Sets, IsUleb
  <2>3. ValueBits(r, m) = IF w < a THEN w ELSE a
    BY <1>1, <2>2, MinOfTwo DEF ValueBits
  <2>4. QED
    BY <1>1, <1>4, <2>1, <2>2, <2>3 DEF Value, FieldValue
<1>5. QED
  BY <1>3, <1>4

\* The sum of what is subtracted.
LEMMA SubtractedSum ==
    /\ SumSet({}) = 0
    /\ \A x \in Int : SumSet({x}) = x
<1>1. ASSUME NEW x \in Int PROVE SumSet({x}) = x
  <2>1. PICK S : S = {}
    OBVIOUS
  <2>2. S \in SUBSET Int /\ IsFiniteSet(S) /\ x \notin S
    BY <2>1, FS_EmptySet
  <2>3. SumSet(S \union {x}) = x + SumSet(S)
    BY <2>2, SumAdded
  <2>4. SumSet(S) = 0 /\ S \union {x} = {x}
    BY <2>1, SumEmpty
  <2>5. QED
    BY <2>3, <2>4
<1>2. QED
  BY <1>1, SumEmpty

\* What is stored.
LEMMA StoredWhole ==
    ASSUME TypeInv, DoneInv, RelInv, NEW m \in Members, Linked(m), WellFormed(m), FieldsApart(m),
           NEW r \in RelsOf(m), ~Misplaced(r)
    PROVE  /\ r.type \in {"32", "64"} =>
                Load(image[m], r.offset, WordBits) = Target(r, m) % 2 ^ WordBits
           /\ r.type \in {"PLT32", "32_PCREL"} =>
                Load(image[m], r.offset, WordBits) = Distance(r, m) % 2 ^ WordBits
<1>1. PICK i \in DOMAIN rels[m] : r = rels[m][i]
  BY DEF RelsOf
<1>2. CASE r.type \notin {"32", "64", "PLT32", "32_PCREL"}
  BY <1>2
<1>3. CASE r.type \in {"32", "64", "PLT32", "32_PCREL"}
  <2>1. Alone(m, i)
    BY <1>1, <1>3, LonelyAlone DEF Lonely
  <2>2. StoreDone(r, m, image[m])
    BY <1>1, <2>1, LinkedSettled DEF Settled
  <2>3. WidthOf(r.type) = WordBits /\ r.type \in Stores
    BY <1>3 DEF WidthOf, Stores
  <2>4. Absolutely(r, m) = Target(r, m)
    BY <1>1, RelTyped, NotMisplaced
  <2>5. Relatively(r, m) % 2 ^ WordBits = Distance(r, m) % 2 ^ WordBits
    <3>1. PICK v \in Int : v = Relatively(r, m) /\ Signed(v) = Distance(r, m)
      BY <1>1, RelTyped, NotMisplaced
    <3>2. WordBits \in 0 .. AddrBits
      BY WidthAssumption
    <3>3. Signed(v) % 2 ^ WordBits = v % 2 ^ WordBits
      BY <3>2, SignedFacts
    <3>4. QED
      BY <3>1, <3>3
  <2>6. QED
    BY <1>3, <2>2, <2>3, <2>4, <2>5 DEF StoreDone
<1>4. QED
  BY <1>2, <1>3

\* What has been put into a field that is linked.
LEMMA DifferenceHolds ==
    ASSUME TypeInv, OtherInv, DoneInv, OrderInv, RelInv, FieldInv,
           NEW m \in Members, Linked(m), WellFormed(m), FieldsApart(m),
           NEW r \in RelsOf(m), r.type \in Adds \union Sets,
           \A s \in Subtracted(r, m) \union {r} : ~Misplaced(s),
           r.type \in Adds \/ SetFirst(shapes[m].rels),
           Subtracted(r, m) = {} \/ IsRead(r, m)
    PROVE  Value(r, m, image[m])
           = (Target(r, m) + (IF r.type \in Adds THEN Value(r, m, shapes[m].data) ELSE 0)
              - SumSet({Target(s, m) : s \in Subtracted(r, m)})) % 2 ^ ValueBits(r, m)
<1>1. PICK i \in DOMAIN rels[m] : r = rels[m][i]
  BY DEF RelsOf
<1>2. \A k \in DOMAIN rels[m] : Past(m, k) /\ rels[m][k].type \in Supported
  BY LinkedSettled DEF Linkable
<1>3. Copied(m)
  BY <1>1, LinkedSettled
<1>4. PICK j \in {0} \union DOMAIN rels[m] :
        /\ Shares(m, i, j)
        /\ Subtracted(r, m) = IF j = 0 THEN {} ELSE {rels[m][j]}
  BY <1>1, <1>2, PartnerFound
<1>5. 0 \notin DOMAIN rels[m] /\ r.offset \in Int /\ r.sym \in DOMAIN Symbols
  BY <1>1, RelTyped
<1>6. PICK a \in Int : a = Target(r, m) /\ a = Put(m, i)
  <2>1. Absolutely(r, m) = Target(r, m) /\ Target(r, m) \in Int
    BY <1>1, RelTyped, NotMisplaced
  <2>2. Put(m, i) = Absolutely(r, m)
    BY <1>1, <1>2 DEF Put
  <2>3. QED
    BY <2>1, <2>2
<1>7. PICK b \in Int : b = SumSet({Target(s, m) : s \in Subtracted(r, m)}) /\ b = Put(m, j)
  <2>1. CASE j = 0
    <3>1. {Target(s, m) : s \in Subtracted(r, m)} = {}
      BY <1>4, <2>1
    <3>2. Put(m, j) = 0
      BY <1>5, <2>1 DEF Put
    <3> WITNESS 0 \in Int
    <3>3. SumSet({Target(s, m) : s \in Subtracted(r, m)}) = 0
      BY <3>1, SubtractedSum
    <3>4. QED
      BY <3>2, <3>3
  <2>2. CASE j # 0
    <3>1. PICK s : s = rels[m][j]
      OBVIOUS
    <3>2. j \in DOMAIN rels[m] /\ Subtracted(r, m) = {s} /\ ~Misplaced(s)
      BY <1>4, <2>2, <3>1
    <3>3. Absolutely(s, m) = Target(s, m) /\ Target(s, m) \in Int
      BY <3>1, <3>2, RelTyped, NotMisplaced
    <3>4. Put(m, j) = Target(s, m)
      BY <1>2, <3>1, <3>2, <3>3 DEF Put
    <3>5. {Target(t, m) : t \in Subtracted(r, m)} = {Target(s, m)}
      BY <3>2
    <3>6. SumSet({Target(s, m)}) = Target(s, m)
      BY <3>3, SubtractedSum
    <3>7. QED
      BY <3>3, <3>4, <3>5, <3>6
  <2>3. QED
    BY <2>1, <2>2
<1>8. Filled(m, i, j)
  BY <1>3, <1>4 DEF FieldInv
<1>9. LebSame(r, m, image[m])
  <2>1. Keeps(image[m], shapes[m].data, OwnAll(m))
    BY <1>3 DEF OtherInv
  <2>2. QED
    BY <2>1, LebStays
<1>10. PICK n : n = ValueBits(r, m) /\ n = Extent(r, m)
  BY <1>9, ValueIsField
<1>11. Value(r, m, image[m]) = FieldValue(r, m, image[m])
  BY <1>9, ValueIsField
<1>12. CASE r.type \in Adds
  <2>1. ~IsUleb(r)
    BY <1>12 DEF IsUleb, Adds
  <2>2. LebSame(r, m, shapes[m].data)
    BY <2>1 DEF LebSame
  <2>3. PICK f \in Int : f = FieldValue(r, m, shapes[m].data)
    BY <1>5, <2>1, FieldNumbers
  <2>4. Value(r, m, shapes[m].data) = f
    BY <2>2, <2>3, ValueIsField
  <2>5. FieldValue(r, m, image[m]) = (f + a - b) % 2 ^ n
    BY <1>1, <1>6, <1>7, <1>8, <1>10, <1>12, <2>3 DEF Filled
  <2>6. f + a - b = a + f - b
    OBVIOUS
  <2>7. QED
    BY <1>6, <1>7, <1>10, <1>11, <1>12, <2>4, <2>5, <2>6
<1>13. CASE r.type \notin Adds
  <2>1. r.type \in Sets /\ SetFirst(shapes[m].rels)
    BY <1>13
  <2>2. j = 0 \/ (i < j /\ Fits(r, m))
    <3>1. SUFFICES ASSUME j # 0 PROVE i < j /\ Fits(r, m)
      OBVIOUS
    <3>2. j \in DOMAIN rels[m] /\ j # i /\ rels[m][j].offset = rels[m][i].offset
      BY <1>1, <1>4, <3>1 DEF Shares, Subtracts
    <3>3. i < j
      BY <1>1, <2>1, <3>2, SetsFirst
    <3>4. IsRead(r, m)
      BY <1>4, <3>1
    <3>5. Absolutely(r, m) = Target(r, m)
      BY <1>1, RelTyped, NotMisplaced
    <3>6. Fits(r, m)
      BY <3>4, <3>5 DEF Fits, IsRead
    <3>7. QED
      BY <3>3, <3>6
  <2>3. FieldValue(r, m, image[m]) = (a - b) % 2 ^ n
    BY <1>1, <1>2, <1>6, <1>7, <1>8, <1>10, <2>1, <2>2 DEF Filled
  <2>4. a - b = a + 0 - b
    OBVIOUS
  <2>5. QED
    BY <1>6, <1>7, <1>10, <1>11, <1>13, <2>3, <2>4
<1>14. QED
  BY <1>12, <1>13

\* An address is stored, a distance, or the difference of two addresses.
THEOREM DataCorrect ==
    Spec => []((\A m \in Members : WellFormed(m) /\ FieldsApart(m)) => DataHolds)
<1>1. ASSUME TypeInv, OtherInv, DoneInv, OrderInv, RelInv, FieldInv,
             \A m \in Members : WellFormed(m) /\ FieldsApart(m)
      PROVE  DataHolds
  <2>1. ASSUME NEW m \in Members, Linked(m), NEW r \in RelsOf(m),
               \A s \in Subtracted(r, m) \union {r} : ~Misplaced(s),
               r.type \in DOMAIN Minus, r.type \in Adds \/ SetFirst(shapes[m].rels),
               Subtracted(r, m) = {} \/ IsRead(r, m)
        PROVE  Value(r, m, image[m])
               = (Target(r, m) + (IF r.type \in Adds THEN Value(r, m, shapes[m].data) ELSE 0)
                  - SumSet({Target(s, m) : s \in Subtracted(r, m)})) % 2 ^ ValueBits(r, m)
    BY <1>1, <2>1, MinusTypes, DifferenceHolds
  <2>2. ASSUME NEW m \in Members, Linked(m), NEW r \in RelsOf(m), ~Misplaced(r)
        PROVE  /\ r.type \in {"32", "64"} =>
                    Load(image[m], r.offset, WordBits) = Target(r, m) % 2 ^ WordBits
               /\ r.type \in {"PLT32", "32_PCREL"} =>
                    Load(image[m], r.offset, WordBits) = Distance(r, m) % 2 ^ WordBits
    BY <1>1, <2>2, StoredWhole
  <2>3. QED
    BY <2>1, <2>2 DEF DataHolds, Subtracted, Adds
<1>2. QED
  BY <1>1, TypeCorrect, OtherInvariant, DoneInvariant, OrderInvariant, RelInvariant, FieldInvariant, PTL

\* The linker gives up for a reason.
THEOREM ErrorsCorrect ==
    Spec => []((\A m \in Members : HalvesApart(m)) => ErrorsAreReal)
<1>1. ASSUME TypeInv, OrderInv, DoneInv, RelInv, GaveUpInv, \A m \in Members : HalvesApart(m)
      PROVE  ErrorsAreReal
  <2>1. ASSUME phase \in Failures
        PROVE  member \in Members /\ relIdx \in DOMAIN rels[member] /\ This \in Rel
    <3>1. member \in Members /\ relIdx \in DOMAIN rels[member]
      BY <1>1, <2>1 DEF TypeInv
    <3>2. QED
      BY <1>1, <3>1, RelTyped DEF This
  <2> DEFINE needed == IF This.type = "HI20" THEN Signed(Target(This, member)) ELSE Distance(This, member)
             top == IF This.type \in Branches
                    THEN Max({Format(This.type)[b] : b \in DOMAIN Format(This.type)})
                    ELSE WordBits - 1
  <2>2. ASSUME phase = "out_of_range", ~Misplaced(This) PROVE needed \notin -(2 ^ top) .. 2 ^ top - 1
    <3>1. /\ This.type \in Branches \union Calls \union {"HI20"} /\ ~check(Checked, This.type)
          /\ This.sym \in DOMAIN Symbols
      BY <1>1, <2>1, <2>2 DEF GaveUpInv, Failures, Rel
    <3>2. needed = Signed(Checked)
      BY <2>2, <3>1, NotMisplaced DEF Checked, S_A, S_A_P
    <3>3. limit(This.type) = 2 ^ top /\ top \in Nat
      <4>1. CASE This.type \in Branches
        <5>1. PICK type \in Branches : type = This.type
          BY <4>1
        <5>2. PICK t \in 1 .. 20 : /\ limit(type) = 2 ^ t
                                  /\ Max({Format(type)[b] : b \in DOMAIN Format(type)}) = t
          BY BranchTop
        <5>3. top = t
          BY <5>1, <5>2
        <5>4. QED
          BY <5>1, <5>2, <5>3
      <4>2. CASE This.type \notin Branches
        <5>1. top = WordBits - 1
          BY <4>2
        <5>2. This.type \in {"CALL", "CALL_PLT", "HI20"}
          BY <3>1, <4>2 DEF Calls
        <5>3. limit(This.type) = 2 ^ (WordBits - 1)
          BY <5>2 DEF limit
        <5>4. QED
          BY <5>1, <5>3, WidthAssumption
      <4>3. QED
        BY <4>1, <4>2
    <3> HIDE DEF needed, top
    <3>4. PICK p \in Nat : p = 2 ^ top
      BY <3>3, PowerNext
    <3>5. ~(-p <= needed /\ needed < p)
      BY <3>1, <3>2, <3>3, <3>4 DEF check
    <3>6. needed \notin -p .. p - 1
      BY <3>5
    <3>7. QED
      BY <3>4, <3>6
  <2>3. ASSUME phase = "pair_missing", NEW r \in RelsOf(member), r.type \in High20
        PROVE  r.offset # Symbols[This.sym].val
    <3>1. This.type \in PairedLow /\ find_paired_reloc = 0
      BY <1>1, <2>3 DEF GaveUpInv
    <3>2. member \in Members /\ relIdx \in DOMAIN rels[member]
      BY <2>1, <2>3 DEF Failures
    <3>3. InOrder(rels[member])
      BY <1>1, <2>3, <3>2 DEF OrderInv
    <3>4. QED
      BY <1>1, <2>3, <3>1, <3>2, <3>3, NoPair
  <2>4. /\ phase = "not_supported" => \E r \in RelsOf(member) : r.type \notin Supported
        /\ phase = "odd_padding" => \E r \in RelsOf(member) : r.type = "ALIGN" /\ r.addend % 2 = 1
    BY <1>1 DEF GaveUpInv
  <2>5. /\ phase = "not_bound" => LostBy(Unbound)
        /\ phase = "unreachable" => LostBy(Unplaced)
        /\ phase = "not_found" => GoneBy
        /\ phase = "crashed" => LostBy(Unplaced) \/ GoneBy
    BY <1>1 DEF GaveUpInv
  <2>6. ASSUME NEW m \in Members, Linked(m), NEW r \in RelsOf(m) PROVE Linkable(r)
    <3>1. PICK i \in DOMAIN rels[m] : r = rels[m][i]
      BY <2>6 DEF RelsOf
    <3>2. QED
      BY <1>1, <2>6, <3>1, LinkedSettled
  <2>7. QED
    BY <2>2, <2>3, <2>4, <2>5, <2>6 DEF ErrorsAreReal, LostBy, GoneBy
<1>2. QED
  BY <1>1, TypeCorrect, OrderInvariant, DoneInvariant, RelInvariant, GaveUpInvariant, PTL
=============================================================================

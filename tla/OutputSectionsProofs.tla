------------------------ MODULE OutputSectionsProofs ------------------------
(***************************************************************************)
(* Output sections are correct for every number of files, any section      *)
(* headers and any width of an int: the invariants OutputSections states   *)
(* hold, and it implements Placement.                                      *)
(*                                                                         *)
(* IInv says what each pass leaves for the next: which sections are linked *)
(* (ReadInv), that bindings come in the order of the sections and number   *)
(* the members of each output section without a gap (BindInv), that the    *)
(* members are those (MemberInv), that they lie one behind the other       *)
(* (LayoutInv), and what was copied and filled so far (ImageInv).          *)
(***************************************************************************)
EXTENDS OutputSections, LayoutLemmas

\* The order of files, and of the sections in one.
Earlier(a, b) == a[1] < b[1] \/ (a[1] = b[1] /\ a[2] < b[2])

\* The constructor of Input_file has run for file f.
Read(f) == phase # "read" \/ f < at

ReadInv ==
    \A f \in Files : IF Read(f)
        THEN /\ DOMAIN state[f] = DOMAIN files[f] /\ DOMAIN relCount[f] = DOMAIN files[f]
             /\ \A i, j \in DOMAIN listed[f] : i < j => listed[f][i] < listed[f][j]
             /\ Range(listed[f]) = {i \in DOMAIN files[f] : Linked(files[f][i])}
             /\ \A i \in DOMAIN files[f] : state[f][i] # "no_need" <=> Linked(files[f][i])
        ELSE state[f] = <<>> /\ listed[f] = <<>> /\ relCount[f] = <<>>

\* The sections that the binding loop has come past.
Passed ==
    IF phase = "bind" THEN {Walk[n] : n \in {m \in DOMAIN Walk : m < at}} \intersect Relocatable
    ELSE Relocatable

\* The first b bindings are made.
Made(b) ==
    /\ {n \in DOMAIN bound : bound[n] # NoBinding} = 1 .. b
    /\ {bound[n].isec : n \in 1 .. b} = Passed
    /\ \A id \in Relocatable : \A n \in 1 .. b : bound[n].isec = id => bound[n].osec = KeyOf(id)
    /\ \A n \in 1 .. b : /\ bound[n].osec \in osecs
                         /\ bound[n].member \in 1 .. count[bound[n].osec]
    /\ \A m, n \in 1 .. b : m < n =>
         /\ Earlier(bound[m].isec, bound[n].isec)
         /\ bound[m].osec = bound[n].osec => bound[m].member < bound[n].member
    /\ \A k \in Keys : \A i \in 1 .. count[k] :
         \E n \in 1 .. b : bound[n].osec = k /\ bound[n].member = i

BindInv ==
    /\ phase \in {"read", "merge", "count"} =>
         osecs = {} /\ bound = <<>> /\ \A k \in Keys : count[k] = 0
    /\ phase \notin {"read", "merge", "count"} =>
         /\ Len(bound) = Cardinality(Relocatable)
         /\ \E b \in Nat : Made(b)
    /\ phase \notin {"read", "merge", "count", "bind"} =>
         \A n \in DOMAIN bound : bound[n] # NoBinding
    /\ \A k \in osecs : k # NoOutput /\ count[k] # 0
    /\ \A k \in Keys : count[k] # 0 => k \in osecs

\* AddMember has come past binding n.
Added(n) == n \in DOMAIN bound /\ (phase = "add" => n < at)

MemberInv ==
    /\ phase \in {"read", "merge", "count", "bind"} => \A k \in Keys : members[k] = <<>>
    /\ phase \notin {"read", "merge", "count", "bind"} =>
         /\ \A k \in Keys : Len(members[k]) = count[k]
         /\ \A n \in DOMAIN bound : Added(n) =>
              members[bound[n].osec][bound[n].member].isec = bound[n].isec
         /\ phase = "add" => \A n \in DOMAIN bound : ~Added(n) =>
              members[bound[n].osec][bound[n].member].isec = NoSection

\* Member n of k has its offset.
Set(k, n) ==
    /\ n \in DOMAIN members[k]
    /\ LaidOut(k) \/ (phase = "assign" /\ k = out /\ n < member)

LoopInv ==
    /\ phase = "count" => at = 1
    /\ phase \notin {"assign", "copy"} => out = NoOutput
    /\ phase = "done" => todo = {}
    /\ phase \in {"assign", "copy"} => todo \subseteq osecs
    /\ out # NoOutput =>
         out \in osecs \ todo /\ member \in 1 .. Len(members[out]) + 1
    /\ phase \in {"copy", "done"} => \A k \in osecs :
         shsize[k] = 0 => k \notin todo \union {out}

\* The greatest sh_addralign of the members before the n-th.
TopAt(k, n, t) ==
    /\ \A m \in 1 .. n - 1 : HeaderOf(Member(k, m).isec).align <= t
    /\ t = 0 \/ \E m \in 1 .. n - 1 : t = HeaderOf(Member(k, m).isec).align

\* The loop is at member m of o, and p2align is t.
Here(o, m, t) == phase = "assign" /\ out = o /\ member = m /\ top = t

LayoutInv ==
    /\ \A k \in Keys : \A n \in DOMAIN members[k] : Member(k, n).offset # Unplaced <=> Set(k, n)
    /\ \A k \in Keys : \A n \in DOMAIN members[k] : Set(k, n) /\ n = 1 => Member(k, n).offset = 0
    /\ \A k \in Keys : \A m, n \in DOMAIN members[k] : Set(k, n) /\ m < n =>
         MemberEnd(k, m) <= Member(k, n).offset
    /\ \A o \in osecs : \A m \in 1 .. Len(members[o]) + 1 : \A t \in Nat : Here(o, m, t) =>
         /\ cursor = IF m = 1 THEN 0 ELSE MemberEnd(o, m - 1)
         /\ TopAt(o, m, t)
    /\ \A k \in osecs : \A l \in DOMAIN members[k] : LaidOut(k) /\ l = Len(members[k]) =>
         shsize[k] = MemberEnd(k, l)

\* While no shift is wider than an int.
AlignInv ==
    phase \in {"assign", "copy", "done"} => \A k \in osecs :
        (\A n \in DOMAIN members[k] : HeaderOf(Member(k, n).isec).align < IntBits) =>
          /\ \A n \in DOMAIN members[k] : Set(k, n) =>
               \E t \in Nat : TopAt(k, n, t) /\ Member(k, n).offset % Power[t] = 0
          /\ \A l \in DOMAIN members[k] : LaidOut(k) /\ l = Len(members[k]) =>
               \E t \in Nat : TopAt(k, l + 1, t) /\ shalign[k] = Power[t]

\* The bytes of k are copied, and the room behind its member n is filled.
Copied(k) == k \in osecs \ todo /\ shsize[k] # 0 /\ phase \in {"copy", "done"}
Padded(k, n) == Copied(k) /\ (k = out => n < member)

\* What is in the room behind member n, j bytes behind its end.
Fill(k, n, j) ==
    IF "EXECINSTR" \in flags[k] /\ j < 2 * ((NextStart(k, n) - MemberEnd(k, n)) \div 2)
    THEN Trap(j) ELSE Zero

ImageOf(k) ==
    /\ DOMAIN image[k] = 0 .. shsize[k] - 1
    /\ Copied(k) => \A n \in DOMAIN members[k] :
         \A j \in 0 .. HeaderOf(Member(k, n).isec).size - 1 :
           image[k][Member(k, n).offset + j] = Byte(Member(k, n).isec, j)
    /\ \A n \in DOMAIN members[k] :
         \A j \in 0 .. NextStart(k, n) - MemberEnd(k, n) - 1 :
           image[k][MemberEnd(k, n) + j] = IF Padded(k, n) THEN Fill(k, n, j) ELSE Zero

ImageInv ==
    /\ DOMAIN image = Keys
    /\ phase \in {"copy", "done"} => \A k \in osecs : ImageOf(k)

IInv == TypeOK /\ ReadInv /\ BindInv /\ MemberInv /\ LoopInv /\ LayoutInv /\ AlignInv /\ ImageInv

-----------------------------------------------------------------------------
(***************************************************************************)
(* Sequences, and powers of two.                                           *)
(***************************************************************************)
LEMMA SequenceTyped ==
    ASSUME NEW A, NEW n \in Nat, NEW s, s \in [1 .. n -> A]
    PROVE  s \in Seq(A) /\ Len(s) = n /\ DOMAIN s = 1 .. n
OBVIOUS

LEMMA SequenceWider ==
    ASSUME NEW B, NEW A \in SUBSET B, NEW s \in Seq(A)
    PROVE  s \in Seq(B)
OBVIOUS

LEMMA SequenceExcept ==
    ASSUME NEW A, NEW s \in Seq(A), NEW i \in DOMAIN s, NEW a \in A
    PROVE  /\ [s EXCEPT ![i] = a] \in Seq(A) /\ Len([s EXCEPT ![i] = a]) = Len(s)
           /\ DOMAIN [s EXCEPT ![i] = a] = DOMAIN s
OBVIOUS

\* The recursive function is one.
LEMMA PowerDefined ==
    \A n \in Nat : Power[n] = IF n = 0 THEN 1 ELSE 2 * Power[n-1]
<1> DEFINE Good(f, k) == \A n \in 0 .. k : f[n] = IF n = 0 THEN 1 ELSE 2 * f[n-1]
           Done == {k \in Nat : \E f \in [0 .. k -> Nat] : Good(f, k)}
<1>1. 0 \in Done
  <2>1. [n \in 0 .. 0 |-> 1] \in [0 .. 0 -> Nat] /\ Good([n \in 0 .. 0 |-> 1], 0)
    OBVIOUS
  <2>2. QED
    BY <2>1
<1>2. ASSUME NEW k \in Done PROVE k + 1 \in Done
  <2>1. PICK f \in [0 .. k -> Nat] : Good(f, k)
    OBVIOUS
  <2>2. k \in Nat /\ f[k] \in Nat
    OBVIOUS
  <2> DEFINE g == [n \in 0 .. k + 1 |-> IF n = k + 1 THEN 2 * f[k] ELSE f[n]]
  <2>3. g \in [0 .. k + 1 -> Nat]
    BY <2>2
  <2>4. g[k + 1] = 2 * f[k] /\ (\A n \in 0 .. k : g[n] = f[n])
    BY <2>2
  <2> HIDE DEF g
  <2>5. ASSUME NEW n \in 0 .. k + 1 PROVE g[n] = IF n = 0 THEN 1 ELSE 2 * g[n-1]
    <3>1. CASE n = k + 1
      <4>1. n # 0 /\ n - 1 = k /\ g[n-1] = f[k]
        BY <2>2, <2>4, <3>1
      <4>2. QED
        BY <2>4, <3>1, <4>1
    <3>2. CASE n \in 0 .. k
      <4>1. n # 0 => n - 1 \in 0 .. k
        BY <2>2, <3>2
      <4>2. QED
        BY <2>1, <2>4, <3>2, <4>1
    <3>3. QED
      BY <2>2, <3>1, <3>2
  <2>6. Good(g, k + 1) /\ k + 1 \in Nat
    BY <2>2, <2>5
  <2> HIDE DEF Good
  <2>7. QED
    BY <2>3, <2>6
<1>3. Done = Nat
  <2>1. Done \in SUBSET Nat
    OBVIOUS
  <2> HIDE DEF Done
  <2>2. QED
    BY <1>1, <1>2, <2>1, Induction
<1>4. PICK F \in [Nat -> UNION {[0 .. k -> Nat] : k \in Nat}] :
        \A k \in Nat : F[k] \in [0 .. k -> Nat] /\ Good(F[k], k)
  <2> DEFINE S(k) == {f \in [0 .. k -> Nat] : Good(f, k)}
             G == [k \in Nat |-> CHOOSE f \in S(k) : TRUE]
  <2>1. \A k \in Nat : S(k) # {}
    BY <1>3
  <2> HIDE DEF Good
  <2>2. \A k \in Nat : G[k] \in [0 .. k -> Nat] /\ Good(G[k], k)
    BY <2>1
  <2>3. G \in [Nat -> UNION {[0 .. k -> Nat] : k \in Nat}]
    BY <2>2
  <2> HIDE DEF G
  <2>4. QED
    BY <2>2, <2>3
<1>5. \A k, l \in Nat : \A n \in 0 .. k : n <= l => F[k][n] = F[l][n]
  <2> SUFFICES ASSUME NEW k \in Nat, NEW l \in Nat
               PROVE  \A n \in 0 .. k : n <= l => F[k][n] = F[l][n]
    OBVIOUS
  <2> DEFINE Same == {n \in Nat : n <= k /\ n <= l => F[k][n] = F[l][n]}
  <2>1. 0 \in Same
    BY <1>4
  <2>2. ASSUME NEW n \in Same PROVE n + 1 \in Same
    <3>1. n \in Nat /\ (n <= k /\ n <= l => F[k][n] = F[l][n])
      OBVIOUS
    <3>2. ASSUME n + 1 <= k, n + 1 <= l PROVE F[k][n + 1] = F[l][n + 1]
      <4>1. n + 1 \in 0 .. k /\ n + 1 \in 0 .. l /\ n + 1 # 0 /\ (n + 1) - 1 = n /\ n <= k /\ n <= l
        BY <3>1, <3>2
      <4>2. F[k][n + 1] = 2 * F[k][n] /\ F[l][n + 1] = 2 * F[l][n]
        BY <1>4, <4>1
      <4>3. QED
        BY <3>1, <4>1, <4>2
    <3>3. QED
      BY <3>1, <3>2
  <2>3. Same = Nat
    <3>1. Same \in SUBSET Nat
      OBVIOUS
    <3> HIDE DEF Same
    <3>2. QED
      BY <2>1, <2>2, <3>1, Induction
  <2>4. ASSUME NEW n \in 0 .. k, n <= l PROVE F[k][n] = F[l][n]
    <3>1. n \in Nat /\ n <= k
      OBVIOUS
    <3>2. n \in Same
      <4> HIDE DEF Same
      <4>1. QED
        BY <2>3, <3>1
    <3>3. QED
      BY <2>4, <3>1, <3>2
  <2>5. QED
    BY <2>4
<1>0. \A n \in Nat : n # 0 => n - 1 \in Nat /\ n - 1 \in 0 .. n /\ n - 1 <= n - 1
  OBVIOUS
<1> HIDE DEF Done
<1> DEFINE P == [n \in Nat |-> F[n][n]]
<1>6. P = [n \in Nat |-> IF n = 0 THEN 1 ELSE 2 * P[n-1]]
  <2>1. ASSUME NEW n \in Nat PROVE P[n] = IF n = 0 THEN 1 ELSE 2 * P[n-1]
    <3>1. n \in 0 .. n
      OBVIOUS
    <3>2. F[n][n] = IF n = 0 THEN 1 ELSE 2 * F[n][n-1]
      BY <1>4, <3>1
    <3>3. n # 0 => n - 1 \in Nat /\ F[n][n-1] = F[n-1][n-1]
      <4>1. n # 0 => n - 1 \in Nat /\ n - 1 \in 0 .. n /\ n - 1 <= n - 1
        BY <1>0
      <4>2. QED
        BY <1>5, <4>1
    <3>4. QED
      BY <3>2, <3>3
  <2>2. QED
    BY <2>1
<1>7. \E p : p = [n \in Nat |-> IF n = 0 THEN 1 ELSE 2 * p[n-1]]
  BY <1>6
<1>8. Power = [n \in Nat |-> IF n = 0 THEN 1 ELSE 2 * Power[n-1]]
  BY <1>7 DEF Power
<1>9. QED
  BY <1>8

LEMMA PowerTyped ==
    \A n \in Nat : Power[n] \in Nat \ {0} /\ n < Power[n]
<1> DEFINE Done == {n \in Nat : Power[n] \in Nat \ {0} /\ n < Power[n]}
<1>1. 0 \in Done
  BY PowerDefined
<1>2. ASSUME NEW n \in Done PROVE n + 1 \in Done
  <2>1. n \in Nat /\ n + 1 \in Nat /\ n + 1 # 0 /\ (n + 1) - 1 = n
    OBVIOUS
  <2>2. Power[n + 1] = 2 * Power[n]
    BY <2>1, PowerDefined
  <2>3. Power[n] \in Nat \ {0} /\ n < Power[n]
    OBVIOUS
  <2>4. QED
    BY <2>1, <2>2, <2>3
<1>3. Done = Nat
  <2>1. Done \in SUBSET Nat
    OBVIOUS
  <2> HIDE DEF Done
  <2>2. QED
    BY <1>1, <1>2, <2>1, Induction
<1>4. QED
  BY <1>3

\* The lesser power divides the greater.
LEMMA PowerDivides ==
    ASSUME NEW m \in Nat
    PROVE  \A n \in Nat : m <= n => /\ Power[m] <= Power[n]
                                    /\ m < n => Power[m] < Power[n]
                                    /\ Power[n] % Power[m] = 0
<1>0. PICK p \in Nat \ {0} : p = Power[m]
  BY PowerTyped
<1> DEFINE Done == {d \in Nat : d = 0 \/ \E q \in Nat : q > 1 /\ Power[m + d] = q * p}
<1>1. 0 \in Done
  OBVIOUS
<1>2. ASSUME NEW d \in Done PROVE d + 1 \in Done
  <2>1. d \in Nat /\ m + (d + 1) \in Nat /\ m + (d + 1) # 0 /\ (m + (d + 1)) - 1 = m + d /\ m + d \in Nat
    OBVIOUS
  <2>2. Power[m + (d + 1)] = 2 * Power[m + d]
    BY <2>1, PowerDefined
  <2>3. PICK q \in Nat : q >= 1 /\ Power[m + d] = q * p
    <3>1. CASE d = 0
      <4>1. m + d = m /\ Power[m + d] = 1 * p
        BY <1>0, <3>1
      <4>2. QED
        BY <4>1
    <3>2. CASE d # 0
      BY <3>2
    <3>3. QED
      BY <3>1, <3>2
  <2>4. 2 * q \in Nat /\ 2 * q > 1 /\ Power[m + (d + 1)] = (2 * q) * p
    <3>1. 2 * (q * p) = (2 * q) * p
      BY <1>0
    <3>2. QED
      BY <2>2, <2>3, <3>1
  <2>5. \E r \in Nat : r > 1 /\ Power[m + (d + 1)] = r * p
    BY <2>4
  <2>6. QED
    BY <2>1, <2>5
<1>3. Done = Nat
  <2>1. Done \in SUBSET Nat
    OBVIOUS
  <2> HIDE DEF Done
  <2>2. QED
    BY <1>1, <1>2, <2>1, Induction
<1>4. ASSUME NEW n \in Nat, m <= n
      PROVE  /\ Power[m] <= Power[n]
             /\ m < n => Power[m] < Power[n]
             /\ Power[n] % Power[m] = 0
  <2>1. CASE m = n
    <3>1. Power[n] = 1 * p /\ (1 * p) % p = 0
      BY <1>0, <2>1, MultipleDivides
    <3>2. QED
      BY <1>0, <2>1, <3>1
  <2>2. CASE m # n
    <3>1. PICK d \in Nat : n = m + d /\ d # 0
      <4>1. n - m \in Nat /\ n = m + (n - m) /\ n - m # 0
        BY <1>4, <2>2
      <4>2. QED
        BY <4>1
    <3>2. d \in Done
      <4> HIDE DEF Done
      <4>1. QED
        BY <1>3
    <3>3. PICK q \in Nat : q > 1 /\ Power[n] = q * p
      BY <3>1, <3>2
    <3>4. (q * p) % p = 0
      <4>1. q \in Int /\ p \in Nat \ {0}
        OBVIOUS
      <4>2. QED
        BY <4>1, MultipleDivides, Zenon
    <3>5. p < q * p
      <4>0. q - 2 \in Nat /\ q = (q - 2) + 2
        BY <3>3
      <4>1. PICK s \in Nat : q = s + 2
        BY <4>0
      <4>2. PICK z \in Nat : z = s * p
        BY <1>0
      <4>3. (s + 2) * p = z + p + p
        BY <1>0, <4>1, <4>2
      <4>4. QED
        BY <1>0, <4>1, <4>2, <4>3
    <3>6. QED
      BY <1>0, <3>3, <3>4, <3>5
  <2>3. QED
    BY <2>1, <2>2
<1>5. QED
  BY <1>4

-----------------------------------------------------------------------------
(***************************************************************************)
(* Walk: the sections of all files, in their order.                        *)
(***************************************************************************)
LEMMA ConcatFacts ==
    ASSUME NEW A, NEW u \in Seq(A), NEW v \in Seq(A)
    PROVE  /\ u \o v \in Seq(A) /\ Len(u) \in Nat /\ Len(v) \in Nat
           /\ DOMAIN (u \o v) = 1 .. Len(u) + Len(v)
           /\ DOMAIN u = 1 .. Len(u) /\ DOMAIN v = 1 .. Len(v)
           /\ \A n \in 1 .. Len(u) : (u \o v)[n] = u[n]
           /\ \A n \in 1 .. Len(v) : (u \o v)[n + Len(u)] = v[n]
OBVIOUS

Ordered(w) == \A m, n \in DOMAIN w : m < n => Earlier(w[m], w[n])

\* w has the elements of the first k lists, each with the number of its list.
Holds(w, lists, k) ==
    \A id : (\E n \in DOMAIN w : w[n] = id)
              <=> \E f \in 1 .. k : \E j \in DOMAIN lists[f] : id = <<f, lists[f][j]>>

LEMMA OneMoreList ==
    ASSUME NEW A, NEW lists, NEW f \in Nat \ {0}, NEW w \in Seq(A), NEW t \in Seq(A),
           DOMAIN t = DOMAIN lists[f], \A j \in DOMAIN t : t[j] = <<f, lists[f][j]>>,
           \A i, j \in DOMAIN lists[f] : i < j => lists[f][i] < lists[f][j],
           Ordered(w), Holds(w, lists, f - 1)
    PROVE  w \o t \in Seq(A) /\ Ordered(w \o t) /\ Holds(w \o t, lists, f)
<1>1. /\ w \o t \in Seq(A) /\ Len(w) \in Nat /\ Len(t) \in Nat
      /\ DOMAIN (w \o t) = 1 .. Len(w) + Len(t)
      /\ DOMAIN w = 1 .. Len(w) /\ DOMAIN t = 1 .. Len(t)
      /\ \A n \in 1 .. Len(w) : (w \o t)[n] = w[n]
      /\ \A n \in 1 .. Len(t) : (w \o t)[n + Len(w)] = t[n]
  BY ConcatFacts
<1>2. PICK v : v = w \o t
  OBVIOUS
<1>3. PICK l \in Nat, k \in Nat : l = Len(w) /\ k = Len(t)
  BY <1>1
<1>4. ASSUME NEW n \in 1 .. l + k
      PROVE  \/ n \in 1 .. l /\ v[n] = w[n]
             \/ n - l \in 1 .. k /\ v[n] = t[n - l]
  <2>1. CASE n <= l
    <3>1. n \in 1 .. l
      BY <2>1
    <3>2. QED
      BY <1>1, <1>2, <1>3, <3>1
  <2>2. CASE n > l
    <3>1. n - l \in 1 .. k /\ (n - l) + l = n
      BY <2>2
    <3>2. (w \o t)[(n - l) + l] = t[n - l]
      BY <1>1, <1>3, <3>1
    <3>3. QED
      BY <1>2, <3>1, <3>2
  <2>3. QED
    BY <2>1, <2>2
<1>5. Holds(v, lists, f)
  <2> SUFFICES ASSUME NEW id
               PROVE  (\E n \in DOMAIN v : v[n] = id)
                        <=> \E g \in 1 .. f : \E j \in DOMAIN lists[g] : id = <<g, lists[g][j]>>
    BY DEF Holds
  <2>1. ASSUME NEW n \in DOMAIN v, v[n] = id
        PROVE  \E g \in 1 .. f : \E j \in DOMAIN lists[g] : id = <<g, lists[g][j]>>
    <3>1. n \in 1 .. l + k
      BY <1>1, <1>2, <1>3, <2>1
    <3>2. CASE n \in 1 .. l /\ v[n] = w[n]
      <4>1. \E g \in 1 .. f - 1 : \E j \in DOMAIN lists[g] : id = <<g, lists[g][j]>>
        BY <1>1, <1>3, <2>1, <3>2 DEF Holds
      <4>2. \A g \in 1 .. f - 1 : g \in 1 .. f
        OBVIOUS
      <4>3. QED
        BY <4>1, <4>2
    <3>3. CASE n - l \in 1 .. k /\ v[n] = t[n - l]
      <4>1. n - l \in DOMAIN lists[f] /\ f \in 1 .. f
        BY <1>1, <1>3, <3>3
      <4>2. QED
        BY <2>1, <3>3, <4>1
    <3>4. QED
      BY <1>4, <3>1, <3>2, <3>3
  <2>2. ASSUME NEW g \in 1 .. f, NEW j \in DOMAIN lists[g], id = <<g, lists[g][j]>>
        PROVE  \E n \in DOMAIN v : v[n] = id
    <3>1. CASE g = f
      <4>1. j \in 1 .. k /\ t[j] = id
        BY <1>1, <1>3, <2>2, <3>1
      <4>2. j + l \in 1 .. l + k
        BY <4>1
      <4>3. v[j + l] = id
        BY <1>1, <1>2, <1>3, <4>1
      <4>4. QED
        BY <1>1, <1>2, <1>3, <4>2, <4>3
    <3>2. CASE g # f
      <4>1. g \in 1 .. f - 1
        BY <2>2, <3>2
      <4>2. PICK n \in DOMAIN w : w[n] = id
        BY <2>2, <4>1 DEF Holds
      <4>3. n \in 1 .. l /\ n \in 1 .. l + k
        BY <1>1, <1>3
      <4>4. QED
        BY <1>1, <1>2, <1>3, <4>2, <4>3
    <3>3. QED
      BY <3>1, <3>2
  <2>3. QED
    BY <2>1, <2>2
<1>6. \A n \in 1 .. l : w[n] \in A /\ w[n][1] < f
  <2> TAKE n \in 1 .. l
  <2>1. PICK g \in 1 .. f - 1 : \E j \in DOMAIN lists[g] : w[n] = <<g, lists[g][j]>>
    BY <1>1, <1>3 DEF Holds
  <2>2. w[n][1] = g /\ g < f
    BY <2>1
  <2>3. w[n] \in A
    BY <1>1, <1>3
  <2>4. QED
    BY <2>2, <2>3
<1>7. \A j \in 1 .. k : t[j] = <<f, lists[f][j]>> /\ j \in DOMAIN lists[f]
  BY <1>1, <1>3
<1>8. Ordered(v)
  <2> SUFFICES ASSUME NEW m \in DOMAIN v, NEW n \in DOMAIN v, m < n PROVE Earlier(v[m], v[n])
    BY DEF Ordered
  <2>1. m \in 1 .. l + k /\ n \in 1 .. l + k
    BY <1>1, <1>2, <1>3
  <2>2. CASE n \in 1 .. l /\ v[n] = w[n]
    <3>1. m \in 1 .. l /\ v[m] = w[m]
      BY <1>1, <1>2, <1>3, <2>1, <2>2
    <3>2. QED
      BY <1>1, <1>3, <2>2, <3>1 DEF Ordered
  <2>3. CASE n - l \in 1 .. k /\ v[n] = t[n - l]
    <3>1. v[n] = <<f, lists[f][n - l]>> /\ n - l \in DOMAIN lists[f]
      BY <1>7, <2>3
    <3>2. CASE m \in 1 .. l /\ v[m] = w[m]
      <4>1. v[m][1] < f /\ v[n][1] = f
        BY <1>6, <3>1, <3>2
      <4>2. QED
        BY <4>1 DEF Earlier
    <3>3. CASE m - l \in 1 .. k /\ v[m] = t[m - l]
      <4>1. v[m] = <<f, lists[f][m - l]>> /\ m - l \in DOMAIN lists[f]
        BY <1>7, <3>3
      <4>2. lists[f][m - l] < lists[f][n - l]
        <5>1. m - l < n - l
          BY <2>1
        <5>2. QED
          BY <3>1, <4>1, <5>1
      <4>3. QED
        BY <3>1, <4>1, <4>2 DEF Earlier
    <3>4. QED
      BY <1>4, <2>1, <3>2, <3>3
  <2>4. QED
    BY <1>4, <2>1, <2>2, <2>3
<1>9. QED
  BY <1>1, <1>2, <1>5, <1>8

LEMMA FlattenFacts ==
    ASSUME NEW N \in Nat \ {0}, NEW S \in SUBSET Nat, NEW lists \in [1 .. N -> Seq(S)],
           \A f \in 1 .. N : \A i, j \in DOMAIN lists[f] : i < j => lists[f][i] < lists[f][j],
           NEW s, s = [f \in 1 .. N |-> [j \in DOMAIN lists[f] |-> <<f, lists[f][j]>>]]
    PROVE  /\ FlattenSeq(s) \in Seq((1 .. N) \X S)
           /\ Ordered(FlattenSeq(s)) /\ Holds(FlattenSeq(s), lists, N)
<1> DEFINE A == (1 .. N) \X S
           Good(w, k) == w \in Seq(A) /\ Ordered(w) /\ Holds(w, lists, k)
           Rec(g, k) == \A i \in 1 .. k : g[i] = IF i = 1 THEN s[i] ELSE g[i-1] \o s[i]
<1>0. \A f \in 1 .. N : lists[f] \in Seq(S) /\ s[f] = [j \in DOMAIN lists[f] |-> <<f, lists[f][j]>>]
  OBVIOUS
<1>1. ASSUME NEW f \in 1 .. N
      PROVE  /\ s[f] \in Seq(A) /\ DOMAIN s[f] = DOMAIN lists[f]
             /\ \A j \in DOMAIN s[f] : s[f][j] = <<f, lists[f][j]>>
             /\ \A i, j \in DOMAIN lists[f] : i < j => lists[f][i] < lists[f][j]
  <2>1. PICK t, l : t = s[f] /\ l = lists[f]
    OBVIOUS
  <2>2. l \in Seq(S) /\ t = [j \in DOMAIN l |-> <<f, l[j]>>]
    BY <1>0, <2>1
  <2>3. PICK k \in Nat : k = Len(l) /\ DOMAIN l = 1 .. k
    BY <2>2
  <2>4. t \in [1 .. k -> A]
    BY <2>2, <2>3
  <2>5. t \in Seq(A)
    BY <2>4, SequenceTyped
  <2>6. QED
    BY <2>1, <2>2, <2>5
<1>2. ASSUME NEW f \in 1 .. N, NEW w, w \in Seq(A), Ordered(w), Holds(w, lists, f - 1)
      PROVE  Good(w \o s[f], f)
  <2>1. f \in Nat \ {0}
    OBVIOUS
  <2> HIDE DEF A
  <2>2. QED
    BY <1>1, <1>2, <2>1, OneMoreList
<1>3. Len(s) = N
  OBVIOUS
<1>4. Good(s[1], 1)
  <2>1. 1 \in 1 .. N /\ (1 .. 1) = {1}
    OBVIOUS
  <2>2. s[1] \in Seq(A)
    BY <1>1, <2>1
  <2>3. Holds(s[1], lists, 1)
    BY <1>1, <2>1 DEF Holds
  <2>4. Ordered(s[1])
    BY <1>1, <2>1 DEF Ordered, Earlier
  <2>5. QED
    BY <2>2, <2>3, <2>4
<1> HIDE DEF A
<1> DEFINE Built(k) == \E g \in [1 .. k -> Seq(A)] : Rec(g, k) /\ \A i \in 1 .. k : Good(g[i], i)
           Done == {k \in Nat : k <= N => Built(k)}
<1>5. 0 \in Done
  <2>1. PICK g : g = [i \in 1 .. 0 |-> <<>>]
    OBVIOUS
  <2>2. g \in [1 .. 0 -> Seq(A)] /\ Rec(g, 0) /\ \A i \in 1 .. 0 : Good(g[i], i)
    BY <2>1
  <2>3. Built(0)
    BY <2>2
  <2> HIDE DEF Built
  <2>4. QED
    BY <2>3
<1>6. ASSUME NEW k \in Done PROVE k + 1 \in Done
  <2> HIDE DEF Built
  <2> SUFFICES ASSUME k + 1 <= N PROVE Built(k + 1)
    OBVIOUS
  <2>1. k \in Nat /\ k <= N /\ k + 1 \in 1 .. N
    OBVIOUS
  <2>0. Built(k)
    BY <2>1
  <2>2. PICK g \in [1 .. k -> Seq(A)] : Rec(g, k) /\ \A i \in 1 .. k : Good(g[i], i)
    BY <2>0 DEF Built
  <2> DEFINE last == IF k + 1 = 1 THEN s[k + 1] ELSE g[k] \o s[k + 1]
             h == [i \in 1 .. k + 1 |-> IF i = k + 1 THEN last ELSE g[i]]
  <2>3. Good(last, k + 1)
    <3>1. CASE k = 0
      <4>1. last = s[1] /\ k + 1 = 1
        BY <3>1
      <4>2. QED
        BY <1>4, <4>1
    <3>2. CASE k # 0
      <4>1. last = g[k] \o s[k + 1] /\ k \in 1 .. k /\ (k + 1) - 1 = k
        BY <2>1, <3>2
      <4>2. Good(g[k], k)
        BY <2>2, <4>1
      <4>3. g[k] \in Seq(A) /\ Ordered(g[k]) /\ Holds(g[k], lists, (k + 1) - 1)
        BY <4>1, <4>2
      <4> HIDE DEF Good
      <4>4. Good(g[k] \o s[k + 1], k + 1)
        BY <1>2, <2>1, <4>3
      <4>5. QED
        BY <4>1, <4>4
    <3>3. QED
      BY <3>1, <3>2
  <2> HIDE DEF last
  <2>4. h[k + 1] = last /\ (\A i \in 1 .. k : h[i] = g[i])
    BY <2>1
  <2>5. h \in [1 .. k + 1 -> Seq(A)]
    BY <2>1, <2>3
  <2> HIDE DEF h
  <2>6. ASSUME NEW i \in 1 .. k + 1
        PROVE  h[i] = (IF i = 1 THEN s[i] ELSE h[i-1] \o s[i]) /\ Good(h[i], i)
    <3>1. CASE i = k + 1
      <4>1. i # 1 => i - 1 = k /\ h[i-1] = g[k]
        BY <2>1, <2>4, <3>1
      <4>2. h[i] = last
        BY <2>4, <3>1
      <4> HIDE DEF Good
      <4>3. QED
        BY <2>3, <3>1, <4>1, <4>2 DEF last
    <3>2. CASE i \in 1 .. k
      <4>1. i # 1 => i - 1 \in 1 .. k
        BY <2>1, <3>2
      <4>2. h[i] = g[i] /\ (i # 1 => h[i-1] = g[i-1])
        BY <2>4, <3>2, <4>1
      <4> HIDE DEF Good
      <4>3. QED
        BY <2>2, <3>2, <4>2
    <3>3. QED
      BY <2>1, <3>1, <3>2
  <2> HIDE DEF Good
  <2>7. QED
    BY <2>5, <2>6 DEF Built
<1> HIDE DEF Good, Built
<1>7. N \in Done
  <2>1. Done \in SUBSET Nat
    OBVIOUS
  <2> HIDE DEF Done
  <2>2. QED
    BY <1>5, <1>6, <2>1, Induction
<1>8. PICK g \in [1 .. N -> Seq(A)] : Rec(g, N) /\ \A i \in 1 .. N : Good(g[i], i)
  <2>1. Built(N)
    BY <1>7
  <2>2. QED
    BY <2>1 DEF Built
<1>9. g = [i \in 1 .. N |-> IF i = 1 THEN s[i] ELSE g[i-1] \o s[i]]
  BY <1>8
<1>10. PICK c : c = CHOOSE h : h = [i \in 1 .. N |-> IF i = 1 THEN s[i] ELSE h[i-1] \o s[i]]
  OBVIOUS
<1>11. c = [i \in 1 .. N |-> IF i = 1 THEN s[i] ELSE c[i-1] \o s[i]]
  BY <1>9, <1>10, Zenon
<1>12. FlattenSeq(s) = c[N]
  BY <1>3, <1>10 DEF FlattenSeq
<1>13. Good(c[N], N)
  <2> DEFINE Same == {k \in Nat : \A i \in 1 .. k : i <= N => c[i] = g[i]}
  <2>1. 0 \in Same
    OBVIOUS
  <2>2. ASSUME NEW k \in Same PROVE k + 1 \in Same
    <3>1. k \in Nat /\ \A i \in 1 .. k : i <= N => c[i] = g[i]
      OBVIOUS
    <3>2. ASSUME k + 1 <= N PROVE c[k + 1] = g[k + 1]
      <4>1. k + 1 \in 1 .. N /\ (k + 1) - 1 = k /\ (k + 1 # 1 => k \in 1 .. k /\ k <= N)
        BY <3>1, <3>2
      <4>2. c[k + 1] = IF k + 1 = 1 THEN s[k + 1] ELSE c[k] \o s[k + 1]
        BY <1>11, <4>1
      <4>3. g[k + 1] = IF k + 1 = 1 THEN s[k + 1] ELSE g[k] \o s[k + 1]
        BY <1>9, <4>1
      <4>4. QED
        BY <3>1, <4>1, <4>2, <4>3
    <3>3. QED
      BY <3>1, <3>2
  <2>3. N \in Same
    <3>1. Same \in SUBSET Nat
      OBVIOUS
    <3> HIDE DEF Same
    <3>2. QED
      BY <2>1, <2>2, <3>1, Induction
  <2>4. c[N] = g[N]
    BY <2>3
  <2>5. QED
    BY <1>8, <2>4
<1>14. QED
  BY <1>12, <1>13 DEF Good, A

-----------------------------------------------------------------------------
(***************************************************************************)
(* Input files, and the sections that become members.                      *)
(***************************************************************************)
LEMMA Counts ==
    NumFiles \in Nat \ {0} /\ MaxSections \in Nat /\ IntBits \in Nat \ {0} /\ 1 \in Files
BY CountsAssumption DEF Files

LEMMA ShapesTyped ==
    ASSUME NEW h \in Shapes
    PROVE  h \in Header /\ h.size \in Nat /\ h.align \in Nat /\ h.flags \in SUBSET Attributes
<1>1. PICK file \in FileShapes : h \in Range(file)
  BY DEF Shapes
<1>2. file \in Seq(Header)
  BY FilesAssumption
<1>3. h \in Header
  BY <1>1, <1>2 DEF Range
<1>4. QED
  BY <1>3 DEF Header

LEMMA FileTyped ==
    ASSUME files \in [Files -> FileShapes], NEW f \in Files
    PROVE  /\ Len(files[f]) \in Nat /\ DOMAIN files[f] = 1 .. Len(files[f])
           /\ files[f] \in Seq(Header)
           /\ \A i \in DOMAIN files[f] : i \in 1 .. MaxSections /\ files[f][i] \in Shapes
<1>1. PICK file \in FileShapes : file = files[f]
  OBVIOUS
<1>2. file \in Seq(Header) /\ Len(file) <= MaxSections
  BY FilesAssumption
<1>3. DOMAIN file = 1 .. Len(file) /\ Len(file) \in Nat
  BY <1>2
<1>4. \A i \in DOMAIN file : file[i] \in Range(file)
  BY DEF Range
<1>5. \A i \in DOMAIN file : file[i] \in Shapes
  BY <1>4 DEF Shapes
<1>6. \A i \in DOMAIN file : i \in 1 .. MaxSections
  BY <1>2, <1>3, Counts
<1>7. QED
  BY <1>1, <1>2, <1>3, <1>5, <1>6

\* A key is one whatever the number of relocations is, and never that of no section.
LEMMA KeyTyped ==
    ASSUME NEW h \in Shapes, NEW r \in Nat, NEW b \in BOOLEAN
    PROVE  /\ OutputKey(h, r, b) \in Keys
           /\ h.type # "NULL" => OutputKey(h, r, b) # NoOutput
<1>1. OutputKey(h, r, b) = OutputKey(h, IF r = 0 THEN 0 ELSE 1, b)
  <2>1. (r # 0) <=> (IF r = 0 THEN 0 ELSE 1) # 0
    OBVIOUS
  <2>2. QED
    BY <2>1 DEF OutputKey
<1>2. (IF r = 0 THEN 0 ELSE 1) \in {0, 1}
  OBVIOUS
<1>3. OutputKey(h, r, b) \in Keys
  BY <1>1, <1>2 DEF Keys
<1>4. ASSUME h.type # "NULL" PROVE OutputKey(h, r, b).type # "NULL"
  <2>1. \A n : CanonicalType(n, h.type) # "NULL"
    BY <1>4 DEF CanonicalType
  <2>2. QED
    BY <2>1 DEF OutputKey
<1>5. QED
  BY <1>3, <1>4 DEF NoOutput

LEMMA WalkFacts ==
    ASSUME TypeOK, ReadInv
    PROVE  /\ Walk \in Seq(Ids) /\ Ordered(Walk)
           /\ \A id : id \in Range(Walk)
                <=> \E f \in Files : \E j \in DOMAIN listed[f] : id = <<f, listed[f][j]>>
<1>1. PICK N \in Nat \ {0}, S \in SUBSET Nat : N = NumFiles /\ S = 1 .. MaxSections
  BY Counts
<1>2. PICK lists : lists = listed
  OBVIOUS
<1>3. lists \in [1 .. N -> Seq(S)]
  BY <1>1, <1>2 DEF TypeOK, FileTypes, Files
<1>4. \A f \in 1 .. N : \A i, j \in DOMAIN lists[f] : i < j => lists[f][i] < lists[f][j]
  <2> SUFFICES ASSUME NEW f \in 1 .. N
               PROVE  \A i, j \in DOMAIN lists[f] : i < j => lists[f][i] < lists[f][j]
    OBVIOUS
  <2>1. f \in Files
    BY <1>1 DEF Files
  <2>2. CASE Read(f)
    BY <1>2, <2>1, <2>2 DEF ReadInv
  <2>3. CASE ~Read(f)
    <3>1. DOMAIN lists[f] = {}
      BY <1>2, <2>1, <2>3 DEF ReadInv
    <3>2. QED
      BY <3>1
  <2>4. QED
    BY <2>2, <2>3
<1>5. PICK s : s = [f \in 1 .. N |-> [j \in DOMAIN lists[f] |-> <<f, lists[f][j]>>]]
  OBVIOUS
<1>6. Walk = FlattenSeq(s)
  BY <1>1, <1>2, <1>5 DEF Walk, Files
<1>7. PICK w : w = FlattenSeq(s)
  OBVIOUS
<1>8. w \in Seq((1 .. N) \X S) /\ Ordered(w) /\ Holds(w, lists, N)
  BY <1>3, <1>4, <1>5, <1>7, FlattenFacts
<1>9. w \in Seq(Ids)
  BY <1>1, <1>8 DEF Ids, Files
<1>10. \A id : id \in Range(w)
         <=> \E f \in Files : \E j \in DOMAIN lists[f] : id = <<f, lists[f][j]>>
  <2>1. \A id : id \in Range(w) <=> \E n \in DOMAIN w : w[n] = id
    BY DEF Range
  <2>2. QED
    BY <1>1, <1>8, <2>1 DEF Holds, Files
<1>11. QED
  BY <1>2, <1>6, <1>7, <1>8, <1>9, <1>10

LEMMA RelocatableFacts ==
    ASSUME TypeOK, ReadInv, phase # "read"
    PROVE  /\ Relocatable = {id \in Ids : id[2] \in DOMAIN files[id[1]]
                                            /\ state[id[1]][id[2]] = "relocatable"}
           /\ IsFiniteSet(Relocatable)
<1>1. \A f \in Files : Read(f)
  BY DEF Read
<1>2. ASSUME NEW id \in Ids, id[2] \in DOMAIN files[id[1]], state[id[1]][id[2]] = "relocatable"
      PROVE  id \in Range(Walk)
  <2>1. id[1] \in Files /\ id = <<id[1], id[2]>>
    BY DEF Ids
  <2>2. id[2] \in Range(listed[id[1]])
    BY <1>1, <1>2, <2>1 DEF ReadInv
  <2>3. PICK j \in DOMAIN listed[id[1]] : listed[id[1]][j] = id[2]
    BY <2>2 DEF Range
  <2>4. QED
    BY <2>1, <2>3, WalkFacts
<1>3. ASSUME NEW id \in Range(Walk)
      PROVE  id \in Ids /\ id[2] \in DOMAIN files[id[1]]
  <2>1. PICK f \in Files : \E j \in DOMAIN listed[f] : id = <<f, listed[f][j]>>
    BY <1>3, WalkFacts
  <2>2. PICK j \in DOMAIN listed[f] : id = <<f, listed[f][j]>>
    BY <2>1
  <2>3. listed[f][j] \in Range(listed[f])
    BY DEF Range
  <2>4. listed[f][j] \in DOMAIN files[f]
    BY <1>1, <2>3 DEF ReadInv
  <2>5. listed[f][j] \in 1 .. MaxSections
    BY <2>4, FileTyped DEF TypeOK, FileTypes
  <2>6. QED
    BY <2>2, <2>4, <2>5 DEF Ids
<1>4. IsFiniteSet(Ids)
  <2>1. IsFiniteSet(1 .. MaxSections) /\ IsFiniteSet(Files)
    BY Counts, FS_Interval DEF Files
  <2>2. QED
    BY <2>1, FS_Product DEF Ids
<1>5. Relocatable = {id \in Ids : id[2] \in DOMAIN files[id[1]]
                                    /\ state[id[1]][id[2]] = "relocatable"}
  BY <1>2, <1>3 DEF Relocatable
<1>6. QED
  BY <1>4, <1>5, FS_Subset

LEMMA MemberTyped ==
    ASSUME TypeOK, ReadInv, phase # "read", NEW id \in Relocatable
    PROVE  /\ id \in Ids /\ id # NoSection /\ id[1] \in Files /\ id[2] \in DOMAIN files[id[1]]
           /\ HeaderOf(id) \in Shapes /\ Linked(HeaderOf(id))
           /\ HeaderOf(id).size \in Nat /\ HeaderOf(id).align \in Nat
           /\ HeaderOf(id).flags \in SUBSET Attributes
           /\ KeyOf(id) \in Keys \ {NoOutput}
<1>1. id \in Ids /\ id[2] \in DOMAIN files[id[1]] /\ state[id[1]][id[2]] = "relocatable"
  BY RelocatableFacts
<1>2. id[1] \in Files /\ id[1] # 0
  BY <1>1, Counts DEF Ids, Files
<1>3. HeaderOf(id) \in Shapes
  BY <1>1, <1>2, FileTyped DEF TypeOK, FileTypes, HeaderOf
<1>4. Linked(HeaderOf(id))
  BY <1>1, <1>2 DEF ReadInv, Read, HeaderOf
<1>5. HeaderOf(id).type # "NULL"
  BY <1>4 DEF Linked, NeverLinked
<1>6. relCount[id[1]][id[2]] \in Nat
  <2>1. relCount[id[1]] \in Seq(Nat) /\ DOMAIN relCount[id[1]] = DOMAIN files[id[1]]
    BY <1>2 DEF TypeOK, FileTypes, ReadInv, Read
  <2>2. QED
    BY <1>1, <2>1
<1>7. CtorsInInitArray \in BOOLEAN
  BY DEF CtorsInInitArray
<1>8. KeyOf(id) \in Keys \ {NoOutput}
  BY <1>3, <1>5, <1>6, <1>7, KeyTyped DEF KeyOf
<1>9. id # NoSection
  BY <1>2 DEF NoSection
<1>10. QED
  BY <1>1, <1>2, <1>3, <1>4, <1>8, <1>9, ShapesTyped

\* What later passes look at does not change when the files are read.
LEMMA StaticSections ==
    ASSUME UNCHANGED readVars
    PROVE  /\ files' = files /\ state' = state /\ listed' = listed /\ relCount' = relCount
           /\ Walk' = Walk /\ Relocatable' = Relocatable
<1>1. files' = files /\ state' = state /\ listed' = listed /\ relCount' = relCount
  BY DEF readVars
<1>2. Walk' = Walk
  BY <1>1 DEF Walk
<1>3. Relocatable' = Relocatable
  BY <1>1, <1>2 DEF Relocatable
<1>4. QED
  BY <1>1, <1>2, <1>3

LEMMA StaticHeader ==
    ASSUME UNCHANGED readVars, NEW id
    PROVE  HeaderOf(id)' = HeaderOf(id) /\ KeyOf(id)' = KeyOf(id)
<1>1. files' = files /\ state' = state /\ listed' = listed /\ relCount' = relCount
  BY DEF readVars
<1>2. HeaderOf(id)' = HeaderOf(id)
  BY <1>1 DEF HeaderOf
<1>3. CtorsInInitArray' = CtorsInInitArray
  BY <1>1 DEF CtorsInInitArray
<1>4. QED
  BY <1>1, <1>2, <1>3 DEF KeyOf

-----------------------------------------------------------------------------
(***************************************************************************)
(* The constructor of Input_file, and Init_mergeable_section.              *)
(***************************************************************************)
LEMMA RelocationSectionFound ==
    ASSUME NEW file \in Seq(Header), NEW i
    PROVE  RelocationSection(file, i) # 0 => RelocationSection(file, i) \in DOMAIN file
<1>1. PICK I : I = {j \in 1 .. Len(file) : file[j].type \in RelocationTypes /\ file[j].info = i}
  OBVIOUS
<1>2. RelocationSection(file, i) = IF I # {} THEN Max(I) ELSE 0
  BY <1>1 DEF RelocationSection, SelectLastInSeq
<1>3. Len(file) \in Nat /\ DOMAIN file = 1 .. Len(file)
  OBVIOUS
<1>4. IsFiniteSet(I) /\ I \in SUBSET Nat
  <2>1. IsFiniteSet(1 .. Len(file))
    BY <1>3, FS_Interval
  <2>2. I \in SUBSET (1 .. Len(file))
    BY <1>1
  <2>3. IsFiniteSet(I)
    BY <2>1, <2>2, FS_Subset, Zenon
  <2>4. QED
    BY <1>1, <1>3, <2>3
<1>5. CASE I # {}
  <2>1. Max(I) \in I
    BY <1>4, <1>5, MaxOfFinite
  <2>2. QED
    BY <1>1, <1>2, <1>3, <2>1
<1>6. CASE I = {}
  BY <1>2, <1>6
<1>7. QED
  BY <1>5, <1>6

\* The loop over the files goes on, and the other files stay as they are.
LEMMA NextFileFacts ==
    ASSUME LoopTypes, NEW then, <<phase, then>> \in {<<"read", "merge">>, <<"merge", "count">>},
           NextFile(then)
    PROVE  /\ LoopTypes'
           /\ phase' \in {phase, then}
           /\ \A f \in Files : f # at => (f < at <=> (phase' # phase \/ f < at'))
           /\ phase' # phase \/ at < at'
           /\ phase' # phase => at' = 1
<1>1. at \in Files /\ NumFiles \in Nat \ {0} /\ phase \in Phases
  BY Counts DEF LoopTypes
<1>2. CASE at = NumFiles
  <2>1. phase' = then /\ at' = 1 /\ then # phase /\ then \in Phases
    BY <1>2 DEF NextFile, Phases
  <2>2. \A f \in Files : f # at => f < at
    BY <1>1, <1>2 DEF Files
  <2>3. LoopTypes'
    BY <2>1, Counts DEF LoopTypes
  <2>4. QED
    BY <2>1, <2>2, <2>3
<1>3. CASE at # NumFiles
  <2>1. phase' = phase /\ at' = at + 1
    BY <1>3 DEF NextFile
  <2>2. at + 1 \in Files /\ at + 1 \in Nat \ {0} /\ at < at + 1
    BY <1>1, <1>3 DEF Files
  <2>3. \A f \in Files : f # at => (f < at <=> f < at + 1)
    BY <1>1 DEF Files
  <2>4. LoopTypes'
    BY <1>1, <2>1, <2>2 DEF LoopTypes
  <2>5. QED
    BY <2>1, <2>2, <2>3, <2>4
<1>4. QED
  BY <1>2, <1>3

LEMMA ReadFileStep ==
    ASSUME TypeOK, ReadInv, ReadFile
    PROVE  FileTypes' /\ LoopTypes' /\ ReadInv'
<1> DEFINE file == files[at]
           T == {i \in DOMAIN file : Linked(file[i])}
           numbers == [i \in DOMAIN file |-> i]
           states == [i \in DOMAIN file |-> IF Linked(file[i]) THEN "relocatable" ELSE "no_need"]
           sizes == [i \in DOMAIN file |->
                       IF Linked(file[i]) /\ RelocationSection(file, i) # 0
                       THEN file[RelocationSection(file, i)].size ELSE 0]
<1>1. /\ phase = "read" /\ files' = files /\ NextFile("merge")
      /\ state' = [state EXCEPT ![at] = states]
      /\ listed' = [listed EXCEPT ![at] = Select(numbers, T)]
      /\ relCount' = [relCount EXCEPT ![at] = sizes]
  BY DEF ReadFile
<1>2. FileTypes /\ LoopTypes /\ at \in Files
  BY <1>1 DEF TypeOK, LoopTypes
<1>3. /\ Len(file) \in Nat /\ DOMAIN file = 1 .. Len(file) /\ file \in Seq(Header)
      /\ \A i \in DOMAIN file : i \in 1 .. MaxSections /\ file[i] \in Shapes
  BY <1>2, FileTyped DEF FileTypes
<1>4. PICK n \in Nat : n = Len(file)
  BY <1>3
<1>5. states \in Seq(States) /\ DOMAIN states = DOMAIN file
  <2>1. states \in [1 .. n -> States]
    BY <1>3, <1>4 DEF States
  <2>2. QED
    BY <1>3, <1>4, <2>1, SequenceTyped
<1>6. sizes \in Seq(Nat) /\ DOMAIN sizes = DOMAIN file
  <2>1. \A i \in DOMAIN file :
          RelocationSection(file, i) # 0 => file[RelocationSection(file, i)].size \in Nat
    <3> TAKE i \in DOMAIN file
    <3>1. RelocationSection(file, i) # 0 => RelocationSection(file, i) \in DOMAIN file
      BY <1>3, RelocationSectionFound
    <3>2. QED
      BY <1>3, <3>1, ShapesTyped
  <2>2. sizes \in [1 .. n -> Nat]
    BY <1>3, <1>4, <2>1
  <2>3. QED
    BY <1>3, <1>4, <2>2, SequenceTyped
<1>7. PICK r : r = Select(numbers, T)
  OBVIOUS
<1>8. /\ r \in Seq(T)
      /\ \A i, j \in DOMAIN r : i < j => r[i] < r[j]
      /\ Range(r) = T
  <2>1. numbers \in Seq(DOMAIN file) /\ DOMAIN numbers = DOMAIN file
    <3>1. numbers \in [1 .. n -> DOMAIN file]
      BY <1>3, <1>4
    <3>2. QED
      BY <1>3, <1>4, <3>1, SequenceTyped
  <2>2. PICK s, U, A : s = numbers /\ U = T /\ A = DOMAIN file
    OBVIOUS
  <2>3. s \in Seq(A) /\ r = Select(s, U)
    BY <1>7, <2>1, <2>2
  <2>4. /\ r \in Seq(A \intersect U)
        /\ \E h \in [DOMAIN r -> DOMAIN s] :
             /\ \A i \in DOMAIN r : r[i] = s[h[i]]
             /\ \A i, j \in DOMAIN r : i < j => h[i] < h[j]
             /\ \A i \in DOMAIN s : s[i] \in U => \E j \in DOMAIN r : h[j] = i
    BY <2>3, SelectFacts
  <2>5. DOMAIN s = DOMAIN file /\ A \intersect U = T /\ \A i \in DOMAIN file : s[i] = i
    BY <2>1, <2>2
  <2> HIDE DEF numbers, T
  <2>6. PICK h \in [DOMAIN r -> DOMAIN s] :
             /\ \A i \in DOMAIN r : r[i] = s[h[i]]
             /\ \A i, j \in DOMAIN r : i < j => h[i] < h[j]
             /\ \A i \in DOMAIN s : s[i] \in U => \E j \in DOMAIN r : h[j] = i
    BY <2>4
  <2>7. \A i \in DOMAIN r : r[i] = h[i] /\ r[i] \in T
    BY <2>4, <2>5, <2>6
  <2>8. \A i \in T : \E j \in DOMAIN r : r[j] = i
    <3> TAKE i \in T
    <3>1. i \in DOMAIN file
      BY <2>2 DEF T
    <3>2. i \in DOMAIN s /\ s[i] \in U
      BY <2>2, <2>5, <3>1
    <3>3. QED
      BY <2>6, <2>7, <3>2
  <2>9. Range(r) = T
    BY <2>7, <2>8 DEF Range
  <2>10. QED
    BY <2>4, <2>5, <2>6, <2>7, <2>9
<1>9. r \in Seq(1 .. MaxSections)
  <2>1. T \in SUBSET (1 .. MaxSections)
    BY <1>3
  <2> HIDE DEF T
  <2>2. QED
    BY <1>8, <2>1, SequenceWider
<1>10. /\ state'[at] = states /\ listed'[at] = r /\ relCount'[at] = sizes
       /\ \A f \in Files : f # at =>
            state'[f] = state[f] /\ listed'[f] = listed[f] /\ relCount'[f] = relCount[f]
  BY <1>1, <1>2, <1>7 DEF FileTypes
<1>11. FileTypes'
  <2> HIDE DEF states, sizes
  <2>1. QED
    BY <1>1, <1>2, <1>5, <1>6, <1>7, <1>9 DEF FileTypes
<1>12. /\ LoopTypes' /\ \A f \in Files : f # at => (Read(f)' <=> Read(f))
       /\ \A f \in Files : f = at => Read(f)'
  <2>1. /\ LoopTypes' /\ phase' \in {"read", "merge"}
        /\ \A f \in Files : f # at => (f < at <=> (phase' # phase \/ f < at'))
        /\ phase' # phase \/ at < at'
    BY <1>1, <1>2, NextFileFacts
  <2>2. QED
    BY <1>1, <2>1 DEF Read
<1>13. ASSUME NEW f \in Files
       PROVE  IF Read(f)'
         THEN /\ DOMAIN state'[f] = DOMAIN files[f] /\ DOMAIN relCount'[f] = DOMAIN files[f]
              /\ \A i, j \in DOMAIN listed'[f] : i < j => listed'[f][i] < listed'[f][j]
              /\ Range(listed'[f]) = {i \in DOMAIN files[f] : Linked(files[f][i])}
              /\ \A i \in DOMAIN files[f] : state'[f][i] # "no_need" <=> Linked(files[f][i])
         ELSE state'[f] = <<>> /\ listed'[f] = <<>> /\ relCount'[f] = <<>>
  <2>1. CASE f = at
    <3>1. \A i \in DOMAIN file : states[i] # "no_need" <=> Linked(file[i])
      OBVIOUS
    <3> HIDE DEF states, sizes
    <3>2. QED
      BY <1>5, <1>6, <1>8, <1>10, <1>12, <2>1, <3>1
  <2>2. CASE f # at
    BY <1>10, <1>12, <2>2 DEF ReadInv
  <2>3. QED
    BY <2>1, <2>2
<1>14. ReadInv'
  BY <1>1, <1>13 DEF ReadInv
<1>15. QED
  BY <1>11, <1>12, <1>14

LEMMA MergeStep ==
    ASSUME TypeOK, ReadInv, InitMergeableSection
    PROVE  FileTypes' /\ LoopTypes' /\ ReadInv'
<1> DEFINE states == [i \in DOMAIN files[at] |->
                        IF Mergeable(at, i) THEN "mergeable" ELSE state[at][i]]
<1>1. /\ phase = "merge" /\ files' = files /\ listed' = listed /\ relCount' = relCount
      /\ state' = [state EXCEPT ![at] = states] /\ NextFile("count")
  BY DEF InitMergeableSection
<1>2. FileTypes /\ LoopTypes /\ at \in Files
  BY <1>1 DEF TypeOK, LoopTypes
<1>3. LoopTypes' /\ phase' \in {"merge", "count"}
  BY <1>1, <1>2, NextFileFacts
<1>4. \A f \in Files : Read(f) /\ Read(f)'
  BY <1>1, <1>3 DEF Read
<1>5. state[at] \in Seq(States) /\ DOMAIN state[at] = DOMAIN files[at]
  BY <1>2, <1>4 DEF FileTypes, ReadInv
<1>6. PICK n \in Nat : DOMAIN files[at] = 1 .. n
  BY <1>2, FileTyped DEF FileTypes
<1>7. states \in Seq(States) /\ DOMAIN states = DOMAIN files[at]
  <2>1. states \in [1 .. n -> States]
    BY <1>5, <1>6 DEF States
  <2>2. QED
    BY <1>6, <2>1, SequenceTyped
<1>8. \A i \in DOMAIN files[at] : states[i] # "no_need" <=> Linked(files[at][i])
  <2> SUFFICES ASSUME NEW i \in DOMAIN files[at]
               PROVE  states[i] # "no_need" <=> Linked(files[at][i])
    OBVIOUS
  <2>1. state[at][i] # "no_need" <=> Linked(files[at][i])
    BY <1>2, <1>4 DEF ReadInv
  <2>2. Mergeable(at, i) => Linked(files[at][i])
    BY <1>2, <1>4 DEF ReadInv, Mergeable
  <2>3. QED
    BY <2>1, <2>2
<1> HIDE DEF states
<1>9. FileTypes'
  BY <1>1, <1>2, <1>7 DEF FileTypes
<1>10. state'[at] = states /\ \A f \in Files : f # at => state'[f] = state[f]
  BY <1>1, <1>2 DEF FileTypes
<1>11. ASSUME NEW f \in Files
       PROVE  /\ DOMAIN state'[f] = DOMAIN files[f] /\ DOMAIN relCount[f] = DOMAIN files[f]
              /\ \A i, j \in DOMAIN listed[f] : i < j => listed[f][i] < listed[f][j]
              /\ Range(listed[f]) = {i \in DOMAIN files[f] : Linked(files[f][i])}
              /\ \A i \in DOMAIN files[f] : state'[f][i] # "no_need" <=> Linked(files[f][i])
  <2>1. CASE f = at
    BY <1>4, <1>7, <1>8, <1>10, <2>1 DEF ReadInv
  <2>2. CASE f # at
    BY <1>4, <1>10, <2>2 DEF ReadInv
  <2>3. QED
    BY <2>1, <2>2
<1>12. ReadInv'
  BY <1>1, <1>4, <1>11 DEF ReadInv
<1>13. QED
  BY <1>3, <1>9, <1>12

\* The other steps leave the input files alone, and come later.
LEMMA LaterSteps ==
    ASSUME Next, ~ReadFile, ~InitMergeableSection
    PROVE  UNCHANGED readVars /\ phase # "read" /\ phase' # "read"
BY DEF Next, CountSections, SkipSection, BindSection, InsertOutputSections, AddMember, AddDone,
       BeginAssign, AssignOffset, AssignSize, OpenOutputFile, BeginCopy, PadMember, CopyEnd,
       CopyDone, Terminated, Ended, vars

-----------------------------------------------------------------------------
(***************************************************************************)
(* Combined_input_sections: the bindings.                                  *)
(***************************************************************************)
LEMMA CountedOnce ==
    ASSUME NEW n \in Nat, NEW T, IsFiniteSet(T), NEW f \in [1 .. n -> T],
           \A i, j \in 1 .. n : i < j => f[i] # f[j]
    PROVE  /\ n <= Cardinality(T) /\ Cardinality(T) \in Nat
           /\ (\A x \in T : \E i \in 1 .. n : f[i] = x) => n = Cardinality(T)
<1>1. IsFiniteSet(1 .. n) /\ Cardinality(1 .. n) = n
  <2>1. 1 \in Int /\ n \in Int /\ (1 > n <=> n = 0)
    OBVIOUS
  <2>2. IsFiniteSet(1 .. n) /\ Cardinality(1 .. n) = IF 1 > n THEN 0 ELSE n - 1 + 1
    BY <2>1, FS_Interval
  <2>3. QED
    BY <2>1, <2>2
<1>2. f \in Injection(1 .. n, T)
  <2>1. \A i, j \in 1 .. n : f[i] = f[j] => i = j
    <3> TAKE i, j \in 1 .. n
    <3>1. i < j \/ j < i \/ i = j
      OBVIOUS
    <3>2. QED
      BY <3>1
  <2>2. QED
    BY <2>1 DEF Injection, IsInjective
<1>3. n <= Cardinality(T) /\ Cardinality(T) \in Nat
  BY <1>1, <1>2, FS_Injection, FS_CardinalityType
<1>4. ASSUME \A x \in T : \E i \in 1 .. n : f[i] = x PROVE n = Cardinality(T)
  <2>1. f \in Surjection(1 .. n, T)
    BY <1>4 DEF Surjection
  <2>2. QED
    BY <1>1, <1>2, <2>1, FS_Injection
<1>5. QED
  BY <1>3, <1>4

\* The walk has come past `at` - 1 sections.
LEMMA WalkStep ==
    ASSUME TypeOK, ReadInv, phase = "bind", at \in DOMAIN Walk
    PROVE  /\ Walk[at] \in Ids
           /\ \A id \in Passed : Earlier(id, Walk[at]) /\ id # Walk[at]
<1>1. PICK w : w = Walk
  OBVIOUS
<1>2. w \in Seq(Ids) /\ Ordered(w)
  BY <1>1, WalkFacts
<1>3. ASSUME NEW id \in Passed PROVE Earlier(id, Walk[at])
  <2>1. PICK m \in DOMAIN w : m < at /\ id = w[m]
    BY <1>1 DEF Passed
  <2>2. QED
    BY <1>1, <1>2, <2>1 DEF Ordered
<1>4. Walk[at] \in Ids
  BY <1>1, <1>2
<1>5. ASSUME NEW id \in Passed PROVE id # Walk[at]
  <2>1. Earlier(id, Walk[at])
    BY <1>3
  <2>2. PICK a, b \in Int : Walk[at][1] = a /\ Walk[at][2] = b
    BY <1>4, Counts DEF Ids, Files
  <2>3. QED
    BY <2>1, <2>2 DEF Earlier
<1>6. QED
  BY <1>3, <1>4, <1>5

\* Walk[at] is among the sections that are passed, if it is linked.
LEMMA PassedStep ==
    ASSUME TypeOK, ReadInv, phase = "bind", at \in DOMAIN Walk,
           UNCHANGED readVars, phase' = phase, at' = at + 1
    PROVE  Passed' = Passed \union ({Walk[at]} \intersect Relocatable)
<1>1. PICK w, p, R : w = Walk /\ p = at /\ R = Relocatable
  OBVIOUS
<1>2. Walk' = w /\ Relocatable' = R /\ at' = p + 1
  BY <1>1, StaticSections
<1>3. Passed = {w[n] : n \in {m \in DOMAIN w : m < p}} \intersect R
  BY <1>1 DEF Passed
<1>4. Passed' = {w[n] : n \in {m \in DOMAIN w : m < p + 1}} \intersect R
  BY <1>2 DEF Passed
<1>5. {m \in DOMAIN w : m < p + 1} = {m \in DOMAIN w : m < p} \union {p}
  <2>1. w \in Seq(Ids)
    BY <1>1, WalkFacts
  <2>2. DOMAIN w = 1 .. Len(w) /\ Len(w) \in Nat /\ p \in DOMAIN w
    BY <1>1, <2>1
  <2>3. QED
    BY <2>2
<1>6. QED
  BY <1>1, <1>3, <1>4, <1>5

LEMMA CountStep ==
    ASSUME TypeOK, ReadInv, BindInv, LoopInv, CountSections
    PROVE  LoopTypes' /\ BindTypes' /\ BindInv'
<1>1. phase = "count" /\ phase' = "bind" /\ at' = at /\ at \in Files /\ osecs' = osecs
      /\ count' = count /\ flags' = flags /\ members' = members /\ UNCHANGED readVars
  BY DEF CountSections, TypeOK, LoopTypes
<1>2. PICK n \in Nat : n = Cardinality(Relocatable)
  BY <1>1, RelocatableFacts, FS_CardinalityType
<1>3. bound' = [i \in 1 .. n |-> NoBinding]
  <2>1. Relocatable = {id \in Files \X (1 .. MaxSections) :
                         /\ id[2] \in DOMAIN files[id[1]]
                         /\ state[id[1]][id[2]] = "relocatable"}
    BY <1>1, RelocatableFacts DEF Ids
  <2>2. QED
    BY <1>2, <2>1 DEF CountSections
<1>4. /\ bound' \in Seq([isec : Ids \union {NoSection}, osec : Keys \union {NoOutput}, member : Nat])
      /\ Len(bound') = n
  <2>1. NoBinding \in [isec : Ids \union {NoSection}, osec : Keys \union {NoOutput}, member : Nat]
    BY DEF NoBinding
  <2>2. PICK A : A = [isec : Ids \union {NoSection}, osec : Keys \union {NoOutput}, member : Nat]
    OBVIOUS
  <2>3. bound' \in [1 .. n -> A]
    BY <1>3, <2>1, <2>2
  <2>4. QED
    BY <2>2, <2>3, SequenceTyped
<1>5. osecs = {} /\ \A k \in Keys : count[k] = 0
  BY <1>1 DEF BindInv
<1>6. Relocatable' = Relocatable
  BY <1>1, StaticSections
<1>7. Passed' = {}
  <2>1. at = 1 /\ Walk' = Walk
    BY <1>1, StaticSections DEF LoopInv
  <2>2. PICK w : w = Walk
    OBVIOUS
  <2>3. DOMAIN w = 1 .. Len(w)
    BY <2>2, WalkFacts
  <2>4. {w[m] : m \in {i \in DOMAIN w : i < 1}} = {}
    BY <2>3
  <2>5. QED
    BY <1>1, <1>6, <2>1, <2>2, <2>4 DEF Passed
<1>8. Made(0)'
  BY <1>3, <1>5, <1>1, <1>7 DEF Made
<1>9. QED
  BY <1>1, <1>2, <1>4, <1>5, <1>6, <1>8 DEF LoopTypes, BindTypes, BindInv, TypeOK, Phases

\* A section is bound after the sections that were.
LEMMA MadeOneMore ==
    ASSUME TypeOK, ReadInv, BindInv, BindSection, NEW b \in Nat, Made(b)
    PROVE  b + 1 <= Len(bound) /\ Made(b + 1)'
<1> DEFINE id == Walk[at]
           k  == KeyOf(Walk[at])
           new == [isec |-> id, osec |-> k, member |-> count[k] + 1]
<1>1. /\ phase = "bind" /\ at <= Len(Walk) /\ id \in Relocatable
      /\ osecs' = osecs \union {k} /\ count' = [count EXCEPT ![k] = @ + 1]
      /\ bound' = [bound EXCEPT ![BindOffset + 1] = new]
      /\ phase' = phase /\ at' = at + 1 /\ UNCHANGED readVars
  BY DEF BindSection
<1>2. PICK B, c : B = bound /\ c = count
  OBVIOUS
<1>3. DOMAIN B = 1 .. Len(B) /\ Len(B) \in Nat /\ c \in [Keys -> Nat] /\ Len(B) = Cardinality(Relocatable)
  <2>1. B \in Seq([isec : Ids \union {NoSection}, osec : Keys \union {NoOutput}, member : Nat])
    BY <1>2 DEF TypeOK, BindTypes
  <2>2. DOMAIN B = 1 .. Len(B) /\ Len(B) \in Nat
    BY <2>1
  <2>3. QED
    BY <1>1, <1>2, <2>2 DEF TypeOK, BindTypes, BindInv
<1>4. at \in DOMAIN Walk
  <2>1. PICK w \in Seq(Ids) : w = Walk
    BY WalkFacts
  <2>2. QED
    BY <1>1, <2>1 DEF TypeOK, LoopTypes
<1>5. /\ {n \in DOMAIN B : B[n] # NoBinding} = 1 .. b
      /\ {B[n].isec : n \in 1 .. b} = Passed
      /\ \A i \in Relocatable : \A n \in 1 .. b : B[n].isec = i => B[n].osec = KeyOf(i)
      /\ \A n \in 1 .. b : B[n].osec \in osecs /\ B[n].member \in 1 .. c[B[n].osec]
      /\ \A m, n \in 1 .. b : m < n =>
           /\ Earlier(B[m].isec, B[n].isec)
           /\ B[m].osec = B[n].osec => B[m].member < B[n].member
      /\ \A q \in Keys : \A i \in 1 .. c[q] : \E n \in 1 .. b : B[n].osec = q /\ B[n].member = i
  BY <1>2 DEF Made
<1>6. BindOffset = b
  <2>1. 1 \in Int /\ b \in Int /\ (1 > b <=> b = 0)
    OBVIOUS
  <2>2. Cardinality(1 .. b) = IF 1 > b THEN 0 ELSE b - 1 + 1
    BY <2>1, FS_Interval
  <2>3. Cardinality(1 .. b) = b
    BY <2>1, <2>2
  <2>4. QED
    BY <1>2, <1>5, <2>3 DEF BindOffset
<1>7. id \in Ids /\ k \in Keys /\ k # NoOutput
  BY <1>1, MemberTyped
<1>8. \A i \in Passed : Earlier(i, id) /\ i # id /\ i \in Relocatable /\ i \in Ids
  <2>1. \A i \in Passed : i \in Relocatable
    BY <1>1 DEF Passed
  <2>2. QED
    BY <1>1, <1>4, <2>1, WalkStep, MemberTyped
<1>9. b + 1 <= Len(B)
  <2>1. PICK R : R = Relocatable
    OBVIOUS
  <2>2. IsFiniteSet(R) /\ Len(B) = Cardinality(R)
    BY <1>1, <1>3, <2>1, RelocatableFacts
  <2>3. PICK i : i = id
    OBVIOUS
  <2>4. i \in R /\ \A n \in 1 .. b : B[n].isec \in R /\ B[n].isec # i
    BY <1>1, <1>5, <1>8, <2>1, <2>3
  <2>5. \A m, n \in 1 .. b : m < n => B[m].isec # B[n].isec
    <3> SUFFICES ASSUME NEW m \in 1 .. b, NEW n \in 1 .. b, m < n
                 PROVE  B[m].isec # B[n].isec
      OBVIOUS
    <3>1. Earlier(B[m].isec, B[n].isec) /\ B[m].isec \in Ids
      BY <1>5, <1>8
    <3>2. PICK x, y \in Int : B[m].isec[1] = x /\ B[m].isec[2] = y
      BY <3>1, Counts DEF Ids, Files
    <3>3. QED
      BY <3>1, <3>2 DEF Earlier
  <2>6. PICK f : f = [n \in 1 .. b + 1 |-> IF n = b + 1 THEN i ELSE B[n].isec]
    OBVIOUS
  <2>7. f \in [1 .. b + 1 -> R]
    BY <2>4, <2>6
  <2>8. \A m, n \in 1 .. b + 1 : m < n => f[m] # f[n]
    <3> SUFFICES ASSUME NEW m \in 1 .. b + 1, NEW n \in 1 .. b + 1, m < n
                 PROVE  f[m] # f[n]
      OBVIOUS
    <3>1. m \in 1 .. b /\ m # b + 1 /\ (n = b + 1 \/ n \in 1 .. b)
      OBVIOUS
    <3>2. QED
      BY <2>4, <2>5, <2>6, <3>1
  <2>9. b + 1 \in Nat
    OBVIOUS
  <2>10. b + 1 <= Cardinality(R)
    BY <2>2, <2>7, <2>8, <2>9, CountedOnce
  <2>11. QED
    BY <2>2, <2>10
<1>10. b + 1 \in DOMAIN B
  BY <1>3, <1>9
<1> HIDE DEF id, k
<1>11. /\ DOMAIN bound' = DOMAIN B /\ bound'[b + 1] = new
       /\ \A n \in DOMAIN B : n # b + 1 => bound'[n] = B[n]
  BY <1>1, <1>2, <1>6, <1>10
<1>12. \A n \in 1 .. b : n \in DOMAIN B /\ n # b + 1 /\ n \in 1 .. b + 1
  BY <1>3, <1>10
<1>13. new # NoBinding /\ new.isec = id /\ new.osec = k /\ new.member = c[k] + 1
  BY <1>1, <1>2, MemberTyped DEF NoBinding, id
<1>14. {n \in DOMAIN bound' : bound'[n] # NoBinding} = 1 .. b + 1
  <2>1. ASSUME NEW n \in DOMAIN B PROVE bound'[n] # NoBinding <=> n \in 1 .. b + 1
    <3>1. CASE n = b + 1
      BY <1>11, <1>13, <3>1
    <3>2. CASE n # b + 1
      <4>1. n \in 1 .. b + 1 <=> n \in 1 .. b
        BY <1>3, <3>2
      <4>2. B[n] # NoBinding <=> n \in 1 .. b
        BY <1>5
      <4>3. QED
        BY <1>11, <3>2, <4>1, <4>2
    <3>3. QED
      BY <3>1, <3>2
  <2>2. \A n \in 1 .. b + 1 : n \in DOMAIN B
    BY <1>3, <1>10
  <2>3. QED
    BY <1>11, <2>1, <2>2
<1>15. /\ count' = [c EXCEPT ![k] = c[k] + 1] /\ c[k] \in Nat /\ count'[k] = c[k] + 1
       /\ \A q \in Keys : q # k => count'[q] = c[q]
  BY <1>1, <1>2, <1>3, <1>7 DEF k
<1>16. {bound'[n].isec : n \in 1 .. b + 1} = Passed'
  <2>1. Passed' = Passed \union {id}
    BY <1>1, <1>4, PassedStep DEF id
  <2>2. PICK P : P = Passed
    OBVIOUS
  <2>3. \A n \in 1 .. b + 1 : n = b + 1 \/ n \in 1 .. b
    OBVIOUS
  <2>4. b + 1 \in 1 .. b + 1 /\ bound'[b + 1].isec = id
    BY <1>11
  <2>5. \A n \in 1 .. b : bound'[n].isec = B[n].isec
    BY <1>11, <1>12
  <2>6. {B[n].isec : n \in 1 .. b} = P
    BY <1>5, <2>2
  <2>7. {bound'[n].isec : n \in 1 .. b + 1} = P \union {id}
    BY <1>12, <2>3, <2>4, <2>5, <2>6
  <2>8. QED
    BY <2>1, <2>2, <2>7
<1>17. ASSUME NEW i \in Relocatable', NEW n \in 1 .. b + 1, bound'[n].isec = i
       PROVE  bound'[n].osec = KeyOf(i)'
  <2>1. KeyOf(i)' = KeyOf(i) /\ i \in Relocatable
    BY <1>1, StaticHeader, StaticSections
  <2>2. CASE n = b + 1
    BY <1>11, <1>17, <2>1, <2>2 DEF id, k
  <2>3. CASE n # b + 1
    <3>1. n \in 1 .. b
      BY <2>3
    <3>2. QED
      BY <1>5, <1>11, <1>12, <1>17, <2>1, <3>1
  <2>4. QED
    BY <2>2, <2>3
<1>18. ASSUME NEW n \in 1 .. b + 1
       PROVE  bound'[n].osec \in osecs' /\ bound'[n].member \in 1 .. count'[bound'[n].osec]
  <2>1. CASE n = b + 1
    <3>1. bound'[n] = new /\ k \in osecs' /\ c[k] + 1 \in 1 .. c[k] + 1
      BY <1>1, <1>11, <1>15, <2>1 DEF k
    <3>2. QED
      BY <1>13, <1>15, <3>1
  <2>2. CASE n # b + 1
    <3>1. n \in 1 .. b /\ bound'[n] = B[n]
      BY <1>11, <1>12, <2>2
    <3>2. B[n].osec \in osecs /\ B[n].osec \in Keys /\ B[n].member \in 1 .. c[B[n].osec]
      BY <1>5, <3>1 DEF TypeOK, BindTypes
    <3>3. c[B[n].osec] \in Nat /\ c[B[n].osec] <= count'[B[n].osec] /\ count'[B[n].osec] \in Nat
      BY <1>3, <1>15, <3>2
    <3>4. B[n].member \in 1 .. count'[B[n].osec]
      BY <3>2, <3>3
    <3>5. QED
      BY <1>1, <3>1, <3>2, <3>4
  <2>3. QED
    BY <2>1, <2>2
<1>19. ASSUME NEW m \in 1 .. b + 1, NEW n \in 1 .. b + 1, m < n
       PROVE  /\ Earlier(bound'[m].isec, bound'[n].isec)
              /\ bound'[m].osec = bound'[n].osec => bound'[m].member < bound'[n].member
  <2>1. m \in 1 .. b /\ bound'[m] = B[m]
    <3>1. m \in 1 .. b
      BY <1>19
    <3>2. QED
      BY <1>11, <1>12, <3>1
  <2>2. CASE n = b + 1
    <3>1. bound'[n] = new
      BY <1>11, <2>2
    <3>2. B[m].isec \in Passed
      BY <1>5, <2>1
    <3>3. Earlier(B[m].isec, id)
      BY <1>8, <3>2
    <3>4. B[m].osec = k => B[m].member < c[k] + 1
      BY <1>5, <1>15, <2>1
    <3>5. QED
      BY <1>13, <2>1, <3>1, <3>3, <3>4
  <2>3. CASE n # b + 1
    <3>1. n \in 1 .. b /\ bound'[n] = B[n]
      BY <1>11, <1>12, <2>3
    <3>2. QED
      BY <1>5, <1>19, <2>1, <3>1
  <2>4. QED
    BY <2>2, <2>3
<1>20. ASSUME NEW q \in Keys, NEW i \in 1 .. count'[q]
       PROVE  \E n \in 1 .. b + 1 : bound'[n].osec = q /\ bound'[n].member = i
  <2>1. CASE q = k /\ i = c[k] + 1
    <3>1. b + 1 \in 1 .. b + 1 /\ bound'[b + 1].osec = q /\ bound'[b + 1].member = i
      BY <1>11, <1>13, <2>1
    <3>2. QED
      BY <3>1
  <2>2. CASE ~(q = k /\ i = c[k] + 1)
    <3>1. i \in 1 .. c[q]
      BY <1>15, <2>2
    <3>2. PICK n \in 1 .. b : B[n].osec = q /\ B[n].member = i
      BY <1>5, <3>1
    <3>3. n \in 1 .. b + 1 /\ bound'[n] = B[n]
      BY <1>11, <1>12
    <3>4. QED
      BY <3>2, <3>3
  <2>3. QED
    BY <2>1, <2>2
<1> HIDE DEF new
<1>21. QED
  BY <1>2, <1>9, <1>14, <1>16, <1>17, <1>18, <1>19, <1>20 DEF Made

LEMMA BindSectionStep ==
    ASSUME TypeOK, ReadInv, BindInv, BindSection
    PROVE  LoopTypes' /\ BindTypes' /\ BindInv'
<1> DEFINE id == Walk[at]
           k  == KeyOf(id)
           A  == [isec : Ids \union {NoSection}, osec : Keys \union {NoOutput}, member : Nat]
           new == [isec |-> id, osec |-> k, member |-> count[k] + 1]
           more == flags[k] \union (HeaderOf(id).flags \ {"MERGE", "STRINGS", "COMPRESSED", "GROUP"})
<1>1. /\ phase = "bind" /\ id \in Relocatable
      /\ osecs' = osecs \union {k} /\ count' = [count EXCEPT ![k] = @ + 1]
      /\ flags' = [flags EXCEPT ![k] = more]
      /\ bound' = [bound EXCEPT ![BindOffset + 1] = new]
      /\ phase' = phase /\ at' = at + 1 /\ members' = members /\ UNCHANGED readVars
  BY DEF BindSection
<1>2. id \in Ids /\ k \in Keys /\ k # NoOutput /\ HeaderOf(id).flags \in SUBSET Attributes
  BY <1>1, MemberTyped
<1>3. PICK b \in Nat : Made(b)
  BY <1>1 DEF BindInv
<1>4. Made(b + 1)' /\ b + 1 \in Nat
  BY <1>3, MadeOneMore
<1>5. /\ bound \in Seq(A) /\ count \in [Keys -> Nat] /\ flags \in [Keys -> SUBSET Attributes]
      /\ osecs \in SUBSET Keys /\ at \in Nat \ {0} /\ count[k] \in Nat /\ members \in [Keys -> Seq(Slot)]
  BY <1>2 DEF TypeOK, BindTypes, LoopTypes
<1>6. new \in A
  BY <1>2, <1>5
<1>7. more \in SUBSET Attributes
  <2>1. flags[k] \in SUBSET Attributes
    BY <1>2, <1>5
  <2>2. QED
    BY <1>2, <2>1
<1>8. Len(bound) = Cardinality(Relocatable)
  BY <1>1 DEF BindInv
<1> HIDE DEF id, k, A, new, more
<1>9. bound' \in Seq(A) /\ Len(bound') = Len(bound)
  <2>1. PICK s, i : s = bound /\ i = BindOffset + 1
    OBVIOUS
  <2>2. s \in Seq(A) /\ bound' = [s EXCEPT ![i] = new]
    BY <1>1, <1>5, <2>1
  <2>3. CASE i \in DOMAIN s
    BY <1>6, <2>1, <2>2, <2>3, SequenceExcept
  <2>4. CASE i \notin DOMAIN s
    <3>1. s = [x \in DOMAIN s |-> s[x]]
      BY <2>2
    <3>2. [s EXCEPT ![i] = new] = s
      BY <2>4, <3>1
    <3>3. QED
      BY <2>1, <2>2, <3>2
  <2>5. QED
    BY <2>3, <2>4
<1>10. count' \in [Keys -> Nat] /\ count'[k] # 0 /\ \A q \in Keys : q # k => count'[q] = count[q]
  <2>1. PICK c : c = count
    OBVIOUS
  <2>2. c \in [Keys -> Nat] /\ count' = [c EXCEPT ![k] = c[k] + 1] /\ c[k] \in Nat /\ c[k] + 1 # 0
    BY <1>1, <1>5, <2>1
  <2>3. QED
    BY <1>2, <2>1, <2>2
<1>11. flags' \in [Keys -> SUBSET Attributes]
  <2>1. PICK F, S : F = flags /\ S = SUBSET Attributes
    OBVIOUS
  <2>2. flags' = [F EXCEPT ![k] = more] /\ F \in [Keys -> S] /\ more \in S
    BY <1>1, <1>5, <1>7, <2>1
  <2>3. flags' \in [Keys -> S]
    BY <2>2
  <2>4. QED
    BY <2>1, <2>3
<1>12. osecs' \in SUBSET Keys
  BY <1>1, <1>2, <1>5
<1>13. BindTypes'
  <2>1. bound' \in Seq([isec : Ids \union {NoSection}, osec : Keys \union {NoOutput}, member : Nat])
    BY <1>9 DEF A
  <2>2. QED
    BY <1>1, <1>5, <1>10, <1>11, <1>12, <2>1 DEF BindTypes
<1>14. LoopTypes'
  <2>1. at + 1 \in Nat \ {0}
    BY <1>5
  <2>2. QED
    BY <1>1, <2>1 DEF LoopTypes, Phases
<1>15. Relocatable' = Relocatable
  BY <1>1, StaticSections
<1>16. \A q \in osecs' : q # NoOutput /\ count'[q] # 0
  <2>1. \A q \in osecs : q # NoOutput /\ count[q] # 0 /\ q \in Keys
    BY <1>5 DEF BindInv
  <2>2. QED
    BY <1>1, <1>2, <1>10, <2>1
<1>17. \A q \in Keys : count'[q] # 0 => q \in osecs'
  <2>1. \A q \in Keys : count[q] # 0 => q \in osecs
    BY DEF BindInv
  <2>2. QED
    BY <1>1, <1>10, <2>1
<1>18. BindInv'
  BY <1>1, <1>4, <1>8, <1>9, <1>15, <1>16, <1>17 DEF BindInv
<1>19. QED
  BY <1>13, <1>14, <1>18

\* Nothing but the phase and the loop index changes.
LEMMA MadeStays ==
    ASSUME UNCHANGED <<readVars, bindVars>>, Passed' = Passed, NEW b, Made(b)
    PROVE  Made(b)'
<1>1. bound' = bound /\ osecs' = osecs /\ count' = count /\ UNCHANGED readVars
  BY DEF bindVars
<1>2. Relocatable' = Relocatable
  BY <1>1, StaticSections
<1>3. \A id \in Relocatable : KeyOf(id)' = KeyOf(id)
  BY <1>1, StaticHeader
<1>4. QED
  BY <1>1, <1>2, <1>3 DEF Made

LEMMA SkipSectionStep ==
    ASSUME TypeOK, ReadInv, BindInv, SkipSection
    PROVE  LoopTypes' /\ BindTypes' /\ BindInv'
<1>1. /\ phase = "bind" /\ at <= Len(Walk) /\ Walk[at] \notin Relocatable /\ at' = at + 1
      /\ phase' = phase /\ members' = members /\ UNCHANGED <<readVars, bindVars>>
  BY DEF SkipSection
<1>2. at \in DOMAIN Walk
  <2>1. PICK w \in Seq(Ids) : w = Walk
    BY WalkFacts
  <2>2. QED
    BY <1>1, <2>1 DEF TypeOK, LoopTypes
<1>3. Passed' = Passed
  BY <1>1, <1>2, PassedStep
<1>4. PICK b \in Nat : Made(b)
  BY <1>1 DEF BindInv
<1>5. Made(b)'
  BY <1>1, <1>3, <1>4, MadeStays
<1>6. osecs' = osecs /\ count' = count /\ flags' = flags /\ bound' = bound /\ UNCHANGED readVars
  BY <1>1 DEF bindVars
<1>7. Relocatable' = Relocatable
  BY <1>6, StaticSections
<1>8. at + 1 \in Nat \ {0}
  BY DEF TypeOK, LoopTypes
<1>9. LoopTypes' /\ BindTypes'
  BY <1>1, <1>6, <1>8 DEF LoopTypes, BindTypes, TypeOK, Phases
<1>10. BindInv'
  BY <1>1, <1>5, <1>6, <1>7 DEF BindInv
<1>11. QED
  BY <1>9, <1>10

\* After the loop every binding is made.
LEMMA AllMade ==
    ASSUME TypeOK, ReadInv, BindInv, InsertOutputSections
    PROVE  BindInv' /\ \A n \in DOMAIN bound : bound[n] # NoBinding
<1>1. /\ phase = "bind" /\ at > Len(Walk) /\ phase' = "add" /\ at' = 1
      /\ UNCHANGED <<readVars, bindVars>>
  BY DEF InsertOutputSections
<1>2. osecs' = osecs /\ count' = count /\ flags' = flags /\ bound' = bound /\ UNCHANGED readVars
  BY <1>1 DEF bindVars
<1>3. PICK w, R : w = Walk /\ R = Relocatable
  OBVIOUS
<1>4. Passed = R
  <2>1. w \in Seq(Ids)
    BY <1>3, WalkFacts
  <2>2. \A n \in DOMAIN w : n < at
    BY <1>1, <1>3, <2>1 DEF TypeOK, LoopTypes
  <2>3. {w[n] : n \in {m \in DOMAIN w : m < at}} = Range(w)
    BY <2>2 DEF Range
  <2>4. R \in SUBSET Range(w)
    BY <1>3 DEF Relocatable
  <2>5. QED
    BY <1>1, <1>3, <2>3, <2>4 DEF Passed
<1>5. Passed' = R
  BY <1>1, <1>2, <1>3, StaticSections DEF Passed
<1>6. PICK b \in Nat : Made(b)
  BY <1>1 DEF BindInv
<1>7. Made(b)'
  BY <1>1, <1>4, <1>5, <1>6, MadeStays
<1>8. b = Len(bound)
  <2>1. PICK B : B = bound
    OBVIOUS
  <2>2. {B[n].isec : n \in 1 .. b} = R /\ \A m, n \in 1 .. b : m < n => Earlier(B[m].isec, B[n].isec)
    BY <1>4, <1>6, <2>1 DEF Made
  <2>3. IsFiniteSet(R) /\ Len(B) = Cardinality(R) /\ R \in SUBSET Ids
    BY <1>1, <1>3, <2>1, RelocatableFacts DEF BindInv
  <2>4. \A m, n \in 1 .. b : m < n => B[m].isec # B[n].isec
    <3> SUFFICES ASSUME NEW m \in 1 .. b, NEW n \in 1 .. b, m < n
                 PROVE  B[m].isec # B[n].isec
      OBVIOUS
    <3>1. Earlier(B[m].isec, B[n].isec) /\ B[m].isec \in Ids
      BY <2>2, <2>3
    <3>2. PICK x, y \in Int : B[m].isec[1] = x /\ B[m].isec[2] = y
      BY <3>1, Counts DEF Ids, Files
    <3>3. QED
      BY <3>1, <3>2 DEF Earlier
  <2>5. PICK f : f = [n \in 1 .. b |-> B[n].isec]
    OBVIOUS
  <2>6. f \in [1 .. b -> R] /\ (\A m, n \in 1 .. b : m < n => f[m] # f[n])
    BY <2>2, <2>4, <2>5
  <2>7. \A x \in R : \E n \in 1 .. b : f[n] = x
    BY <2>2, <2>5
  <2>8. b = Cardinality(R)
    BY <2>3, <2>6, <2>7, CountedOnce
  <2>9. QED
    BY <2>1, <2>3, <2>8
<1>9. \A n \in DOMAIN bound : bound[n] # NoBinding
  <2>1. DOMAIN bound = 1 .. Len(bound)
    BY DEF TypeOK, BindTypes
  <2>2. {n \in DOMAIN bound : bound[n] # NoBinding} = DOMAIN bound
    BY <1>6, <1>8, <2>1 DEF Made
  <2>3. QED
    BY <2>2
<1>10. Relocatable' = Relocatable
  BY <1>2, StaticSections
<1>11. BindInv'
  BY <1>1, <1>2, <1>6, <1>7, <1>9, <1>10 DEF BindInv
<1>12. QED
  BY <1>9, <1>11

\* The passes after the binding loop leave the bindings as they are.
Bound == phase \notin {"read", "merge", "count", "bind"}

LEMMA BindLater ==
    ASSUME BindInv, Bound, Bound', UNCHANGED <<readVars, bindVars>>
    PROVE  BindInv'
<1>1. osecs' = osecs /\ count' = count /\ bound' = bound /\ UNCHANGED readVars
  BY DEF bindVars
<1>2. Relocatable' = Relocatable
  BY <1>1, StaticSections
<1>3. Passed' = Passed
  BY <1>2 DEF Passed, Bound
<1>4. PICK b \in Nat : Made(b)
  BY DEF BindInv, Bound
<1>5. Made(b)'
  BY <1>3, <1>4, MadeStays
<1>6. QED
  BY <1>1, <1>2, <1>5 DEF BindInv, Bound

LEMMA BindingFacts ==
    ASSUME TypeOK, BindInv, Bound
    PROVE  /\ {bound[n].isec : n \in DOMAIN bound} = Relocatable
           /\ \A n \in DOMAIN bound :
                /\ bound[n].isec \in Relocatable /\ bound[n].osec = KeyOf(bound[n].isec)
                /\ bound[n].osec \in osecs /\ bound[n].osec \in Keys
                /\ bound[n].member \in 1 .. count[bound[n].osec]
           /\ \A m, n \in DOMAIN bound : m < n =>
                /\ Earlier(bound[m].isec, bound[n].isec)
                /\ bound[m].osec = bound[n].osec => bound[m].member < bound[n].member
           /\ \A k \in Keys : \A i \in 1 .. count[k] :
                \E n \in DOMAIN bound : bound[n].osec = k /\ bound[n].member = i
<1>1. PICK b \in Nat : Made(b)
  BY DEF BindInv, Bound
<1>2. 1 .. b = DOMAIN bound
  <2>1. {n \in DOMAIN bound : bound[n] # NoBinding} = DOMAIN bound
    BY DEF BindInv, Bound
  <2>2. QED
    BY <1>1, <2>1 DEF Made
<1>3. Passed = Relocatable
  BY DEF Passed, Bound
<1>4. {bound[n].isec : n \in DOMAIN bound} = Relocatable
  BY <1>1, <1>2, <1>3 DEF Made
<1>5. ASSUME NEW n \in DOMAIN bound
      PROVE  /\ bound[n].isec \in Relocatable /\ bound[n].osec = KeyOf(bound[n].isec)
             /\ bound[n].osec \in osecs /\ bound[n].osec \in Keys
             /\ bound[n].member \in 1 .. count[bound[n].osec]
  <2>1. bound[n].isec \in Relocatable
    BY <1>4
  <2>2. bound[n].osec = KeyOf(bound[n].isec)
    BY <1>1, <1>2, <2>1 DEF Made
  <2>3. QED
    BY <1>1, <1>2, <2>1, <2>2 DEF Made, TypeOK, BindTypes
<1>6. QED
  BY <1>1, <1>2, <1>4, <1>5 DEF Made

-----------------------------------------------------------------------------
(***************************************************************************)
(* Combined_input_sections: the members.                                   *)
(***************************************************************************)
LEMMA TwiceExcept ==
    ASSUME NEW K, NEW A, NEW M \in [K -> Seq(A)], NEW k \in K, NEW n \in DOMAIN M[k], NEW a \in A,
           NEW new, new = [M EXCEPT ![k] = [M[k] EXCEPT ![n] = a]]
    PROVE  /\ new \in [K -> Seq(A)] /\ new[k][n] = a
           /\ \A q \in K : DOMAIN new[q] = DOMAIN M[q] /\ Len(new[q]) = Len(M[q])
           /\ \A q \in K : \A i \in DOMAIN M[q] : q # k \/ i # n => new[q][i] = M[q][i]
<1>1. PICK s, t : s = M[k] /\ t = [s EXCEPT ![n] = a]
  OBVIOUS
<1>2. s \in Seq(A) /\ n \in DOMAIN s
  BY <1>1
<1>3. t \in Seq(A) /\ Len(t) = Len(s) /\ DOMAIN t = DOMAIN s
  BY <1>1, <1>2, SequenceExcept
<1>4. t[n] = a /\ \A i \in DOMAIN s : i # n => t[i] = s[i]
  BY <1>1, <1>2
<1>5. new = [M EXCEPT ![k] = t]
  BY <1>1
<1>6. new \in [K -> Seq(A)] /\ new[k] = t /\ \A q \in K : q # k => new[q] = M[q]
  <2>1. PICK T : T = Seq(A)
    OBVIOUS
  <2>2. M \in [K -> T] /\ t \in T
    BY <1>3, <2>1
  <2>3. new \in [K -> T] /\ new[k] = t /\ \A q \in K : q # k => new[q] = M[q]
    BY <1>5, <2>2
  <2>4. QED
    BY <2>1, <2>3
<1>7. QED
  BY <1>1, <1>3, <1>4, <1>6

LEMMA InsertStep ==
    ASSUME TypeOK, ReadInv, BindInv, InsertOutputSections
    PROVE  members' \in [Keys -> Seq(Slot)] /\ MemberInv'
<1>1. /\ phase' = "add" /\ at' = 1 /\ bound' = bound /\ count' = count /\ phase = "bind"
      /\ members' = [k \in Keys |->
            [n \in 1 .. count[k] |-> [isec |-> NoSection, offset |-> Unplaced]]]
  BY DEF InsertOutputSections, bindVars
<1>2. count \in [Keys -> Nat] /\ bound \in Seq([isec : Ids \union {NoSection},
                        osec : Keys \union {NoOutput}, member : Nat])
  BY DEF TypeOK, BindTypes
<1>3. [isec |-> NoSection, offset |-> Unplaced] \in Slot
  BY DEF Slot
<1>4. ASSUME NEW k \in Keys
      PROVE  members'[k] \in Seq(Slot) /\ Len(members'[k]) = count[k]
             /\ \A n \in 1 .. count[k] : members'[k][n].isec = NoSection
  <2>1. PICK l \in Nat : l = count[k]
    BY <1>2
  <2>2. members'[k] = [n \in 1 .. l |-> [isec |-> NoSection, offset |-> Unplaced]]
    BY <1>1, <2>1
  <2>3. members'[k] \in [1 .. l -> Slot] /\ \A n \in 1 .. l : members'[k][n].isec = NoSection
    BY <1>3, <2>2
  <2>4. members'[k] \in Seq(Slot) /\ Len(members'[k]) = l
    BY <2>3, SequenceTyped
  <2>5. QED
    BY <2>1, <2>3, <2>4
<1>5. members' \in [Keys -> Seq(Slot)]
  BY <1>1, <1>4
<1>6. PICK b \in Nat : Made(b)
  BY <1>1 DEF BindInv
<1>7. \A n \in DOMAIN bound : bound[n].osec \in Keys /\ bound[n].member \in 1 .. count[bound[n].osec]
  <2> TAKE n \in DOMAIN bound
  <2>1. bound[n] # NoBinding
    BY AllMade
  <2>2. n \in 1 .. b
    BY <1>6, <2>1 DEF Made
  <2>3. QED
    BY <1>6, <2>2 DEF Made, TypeOK, BindTypes
<1>8. \A n \in DOMAIN bound : ~Added(n)'
  <2>1. \A n \in DOMAIN bound : n >= 1
    BY <1>2
  <2>2. \A n \in DOMAIN bound : ~(n < 1)
    BY <1>2
  <2>3. QED
    BY <1>1, <2>2 DEF Added
<1>9. \A n \in DOMAIN bound : members'[bound[n].osec][bound[n].member].isec = NoSection
  BY <1>4, <1>7
<1>10. MemberInv'
  BY <1>1, <1>4, <1>8, <1>9 DEF MemberInv
<1>11. QED
  BY <1>5, <1>10

LEMMA AddMemberStep ==
    ASSUME TypeOK, ReadInv, BindInv, MemberInv, AddMember
    PROVE  members' \in [Keys -> Seq(Slot)] /\ MemberInv'
           /\ \A k \in Keys : \A n \in DOMAIN members'[k] :
                n \in DOMAIN members[k] /\ members'[k][n].offset = members[k][n].offset
<1> DEFINE i == bound[at].isec
           k == bound[at].osec
           m == bound[at].member
           old == members[k][m]
           new == [old EXCEPT !.isec = i]
<1>1. /\ phase = "add" /\ at <= Len(bound) /\ phase' = phase /\ at' = at + 1
      /\ bound' = bound /\ count' = count
      /\ members' = [members EXCEPT ![k] = [members[k] EXCEPT ![m] = new]]
  BY DEF AddMember, bindVars
<1>2. at \in Nat \ {0} /\ Bound /\ members \in [Keys -> Seq(Slot)] /\ count \in [Keys -> Nat]
  BY <1>1 DEF Bound, TypeOK, LoopTypes, BindTypes
<1>3. DOMAIN bound = 1 .. Len(bound) /\ Len(bound) \in Nat /\ at \in DOMAIN bound
  <2>1. DOMAIN bound = 1 .. Len(bound) /\ Len(bound) \in Nat
    BY DEF TypeOK, BindTypes
  <2>2. QED
    BY <1>1, <1>2, <2>1
<1>4. \A n \in DOMAIN bound :
        /\ bound[n].isec \in Relocatable /\ bound[n].osec \in Keys
        /\ bound[n].member \in 1 .. count[bound[n].osec]
  BY <1>2, BindingFacts
<1>5. \A q \in Keys : Len(members[q]) = count[q] /\ DOMAIN members[q] = 1 .. count[q]
  <2> TAKE q \in Keys
  <2>1. Len(members[q]) = count[q] /\ members[q] \in Seq(Slot)
    BY <1>1, <1>2 DEF MemberInv
  <2>2. QED
    BY <2>1
<1>6. k \in Keys /\ m \in DOMAIN members[k] /\ i \in Relocatable /\ i \in Ids
  BY <1>1, <1>3, <1>4, <1>5, MemberTyped
<1>7. old \in Slot
  BY <1>2, <1>6
<1>8. new \in Slot /\ new.isec = i /\ new.offset = old.offset
  BY <1>6, <1>7 DEF Slot
<1> HIDE DEF new, k, m, i
<1>9. /\ members' \in [Keys -> Seq(Slot)] /\ members'[k][m] = new
      /\ \A q \in Keys : DOMAIN members'[q] = DOMAIN members[q] /\ Len(members'[q]) = Len(members[q])
      /\ \A q \in Keys : \A n \in DOMAIN members[q] : q # k \/ n # m => members'[q][n] = members[q][n]
  <2>1. PICK M, N : M = members /\ N = members'
    OBVIOUS
  <2>2. M \in [Keys -> Seq(Slot)] /\ m \in DOMAIN M[k] /\ N = [M EXCEPT ![k] = [M[k] EXCEPT ![m] = new]]
    BY <1>1, <1>2, <1>6, <2>1
  <2>3. /\ N \in [Keys -> Seq(Slot)] /\ N[k][m] = new
        /\ \A q \in Keys : DOMAIN N[q] = DOMAIN M[q] /\ Len(N[q]) = Len(M[q])
        /\ \A q \in Keys : \A n \in DOMAIN M[q] : q # k \/ n # m => N[q][n] = M[q][n]
    BY <1>6, <1>8, <2>2, TwiceExcept
  <2>4. QED
    BY <2>1, <2>3
<1>10. \A q \in Keys : Len(members'[q]) = count[q]
  BY <1>5, <1>9
<1>11. ASSUME NEW n \in DOMAIN bound
       PROVE  /\ n = at => members'[bound[n].osec][bound[n].member].isec = bound[n].isec
              /\ n # at => members'[bound[n].osec][bound[n].member] = members[bound[n].osec][bound[n].member]
  <2>1. CASE n = at
    BY <1>8, <1>9, <2>1 DEF k, m, i
  <2>2. CASE n # at
    <3>1. bound[n].osec \in Keys /\ bound[n].member \in DOMAIN members[bound[n].osec]
      BY <1>4, <1>5
    <3>2. n < at \/ at < n
      BY <1>2, <1>3, <2>2
    <3>3. bound[n].osec = k => bound[n].member < m \/ m < bound[n].member
      BY <1>2, <1>3, <3>2, BindingFacts DEF k, m
    <3>4. bound[n].osec # k \/ bound[n].member # m
      <4>1. \A x \in DOMAIN bound : bound[x].member \in Int
        BY <1>2, <1>4
      <4>2. bound[n].member \in Int /\ m \in Int
        BY <1>3, <4>1 DEF m
      <4>3. QED
        BY <3>3, <4>2
    <3>5. QED
      BY <1>9, <2>2, <3>1, <3>4
  <2>3. QED
    BY <2>1, <2>2
<1>12. \A n \in DOMAIN bound : Added(n)' <=> Added(n) \/ n = at
  <2>1. \A n \in DOMAIN bound : n < at + 1 <=> n < at \/ n = at
    BY <1>2, <1>3
  <2>2. QED
    BY <1>1, <2>1 DEF Added
<1>13. MemberInv'
  <2>1. \A n \in DOMAIN bound : Added(n)' => members'[bound[n].osec][bound[n].member].isec = bound[n].isec
    BY <1>1, <1>11, <1>12 DEF MemberInv
  <2>2. \A n \in DOMAIN bound : ~Added(n)' => members'[bound[n].osec][bound[n].member].isec = NoSection
    BY <1>1, <1>11, <1>12 DEF MemberInv
  <2>3. QED
    BY <1>1, <1>10, <2>1, <2>2 DEF MemberInv
<1>14. \A q \in Keys : \A n \in DOMAIN members'[q] :
         n \in DOMAIN members[q] /\ members'[q][n].offset = members[q][n].offset
  <2> SUFFICES ASSUME NEW q \in Keys, NEW n \in DOMAIN members'[q]
               PROVE  n \in DOMAIN members[q] /\ members'[q][n].offset = members[q][n].offset
    OBVIOUS
  <2>1. CASE q = k /\ n = m
    BY <1>6, <1>8, <1>9, <2>1
  <2>2. CASE q # k \/ n # m
    BY <1>9, <2>2
  <2>3. QED
    BY <2>1, <2>2
<1>15. QED
  BY <1>9, <1>13, <1>14

\* Members keep their sections from then on.
SameMembers ==
    \A k \in Keys : /\ DOMAIN members'[k] = DOMAIN members[k] /\ Len(members'[k]) = Len(members[k])
                    /\ \A n \in DOMAIN members[k] : members'[k][n].isec = members[k][n].isec

LEMMA MemberLater ==
    ASSUME TypeOK, BindInv, MemberInv, Bound, UNCHANGED bindVars, SameMembers,
           phase' \in {"assign", "copy", "done"},
           phase = "add" => at > Len(bound)
    PROVE  MemberInv'
<1>1. bound' = bound /\ count' = count
  BY DEF bindVars
<1>2. \A n \in DOMAIN bound : Added(n)
  <2>1. \A n \in DOMAIN bound : n \in Nat /\ n <= Len(bound) /\ Len(bound) \in Nat
    BY DEF TypeOK, BindTypes
  <2>2. phase = "add" => \A n \in DOMAIN bound : n < at
    BY <2>1 DEF TypeOK, LoopTypes
  <2>3. QED
    BY <2>2 DEF Added
<1>3. \A k \in Keys : Len(members[k]) = count[k] /\ DOMAIN members[k] = 1 .. count[k]
  <2> TAKE k \in Keys
  <2>1. Len(members[k]) = count[k] /\ members[k] \in Seq(Slot)
    BY DEF MemberInv, Bound, TypeOK, BindTypes
  <2>2. QED
    BY <2>1
<1>4. \A n \in DOMAIN bound : members'[bound[n].osec][bound[n].member].isec = bound[n].isec
  <2> TAKE n \in DOMAIN bound
  <2>1. bound[n].osec \in Keys /\ bound[n].member \in 1 .. count[bound[n].osec]
    BY BindingFacts
  <2>2. members[bound[n].osec][bound[n].member].isec = bound[n].isec
    BY <1>2 DEF MemberInv, Bound
  <2>3. QED
    BY <1>3, <2>1, <2>2 DEF SameMembers
<1>5. QED
  BY <1>1, <1>3, <1>4 DEF MemberInv, SameMembers

\* The members of an output section: in order, and all that have its key.
LEMMA MemberFacts ==
    ASSUME TypeOK, ReadInv, BindInv, MemberInv, phase \in {"assign", "copy", "done"}
    PROVE  /\ \A k \in Keys : DOMAIN members[k] = 1 .. Len(members[k]) /\ Len(members[k]) \in Nat
           /\ \A k \in osecs : k \in Keys /\ k # NoOutput /\ Len(members[k]) # 0
           /\ \A k \in Keys : \A n \in DOMAIN members[k] :
                /\ k \in osecs /\ Member(k, n) \in Slot
                /\ Member(k, n).isec \in Relocatable /\ KeyOf(Member(k, n).isec) = k
                /\ HeaderOf(Member(k, n).isec).size \in Nat /\ HeaderOf(Member(k, n).isec).align \in Nat
           /\ \A k \in Keys : \A m, n \in DOMAIN members[k] : m < n =>
                Earlier(Member(k, m).isec, Member(k, n).isec)
                /\ Member(k, m).isec # Member(k, n).isec
           /\ \A id \in Relocatable : KeyOf(id) \in osecs /\
                \E n \in DOMAIN members[KeyOf(id)] : Member(KeyOf(id), n).isec = id
<1>1. Bound /\ \A n \in DOMAIN bound : Added(n)
  BY DEF Bound, Added
<1>2. members \in [Keys -> Seq(Slot)] /\ count \in [Keys -> Nat] /\ osecs \in SUBSET Keys
      /\ DOMAIN bound = 1 .. Len(bound)
  BY DEF TypeOK, BindTypes
<1>3. \A k \in Keys : /\ Len(members[k]) = count[k] /\ DOMAIN members[k] = 1 .. count[k]
                      /\ count[k] \in Nat /\ members[k] \in Seq(Slot)
  <2> TAKE k \in Keys
  <2>1. Len(members[k]) = count[k] /\ members[k] \in Seq(Slot) /\ count[k] \in Nat
    BY <1>1, <1>2 DEF MemberInv, Bound
  <2>2. QED
    BY <2>1
<1>4. \A n \in DOMAIN bound : Member(bound[n].osec, bound[n].member).isec = bound[n].isec
  BY <1>1 DEF MemberInv, Bound, Member
<1>5. ASSUME NEW k \in Keys, NEW n \in DOMAIN members[k]
      PROVE  \E i \in DOMAIN bound :
               bound[i].osec = k /\ bound[i].member = n /\ Member(k, n).isec = bound[i].isec
  <2>1. PICK i \in DOMAIN bound : bound[i].osec = k /\ bound[i].member = n
    BY <1>1, <1>3, BindingFacts
  <2>2. QED
    BY <1>4, <2>1
<1>6. ASSUME NEW k \in Keys, NEW n \in DOMAIN members[k]
      PROVE  /\ k \in osecs /\ Member(k, n) \in Slot
             /\ Member(k, n).isec \in Relocatable /\ KeyOf(Member(k, n).isec) = k
             /\ HeaderOf(Member(k, n).isec).size \in Nat /\ HeaderOf(Member(k, n).isec).align \in Nat
  <2>1. PICK i \in DOMAIN bound :
               bound[i].osec = k /\ bound[i].member = n /\ Member(k, n).isec = bound[i].isec
    BY <1>5
  <2>2. bound[i].isec \in Relocatable /\ bound[i].osec = KeyOf(bound[i].isec) /\ bound[i].osec \in osecs
    BY <1>1, BindingFacts
  <2>3. Member(k, n) \in Slot
    BY <1>3 DEF Member
  <2>4. Member(k, n).isec \in Relocatable
    BY <2>1, <2>2
  <2>5. HeaderOf(Member(k, n).isec).size \in Nat /\ HeaderOf(Member(k, n).isec).align \in Nat
    BY <2>4, MemberTyped
  <2>6. QED
    BY <2>1, <2>2, <2>3, <2>4, <2>5
<1>7. ASSUME NEW k \in Keys, NEW m \in DOMAIN members[k], NEW n \in DOMAIN members[k], m < n
      PROVE  Earlier(Member(k, m).isec, Member(k, n).isec) /\ Member(k, m).isec # Member(k, n).isec
  <2>1. PICK i \in DOMAIN bound :
               bound[i].osec = k /\ bound[i].member = m /\ Member(k, m).isec = bound[i].isec
    BY <1>5
  <2>2. PICK j \in DOMAIN bound :
               bound[j].osec = k /\ bound[j].member = n /\ Member(k, n).isec = bound[j].isec
    BY <1>5
  <2>3. m \in Nat /\ n \in Nat
    BY <1>3
  <2>4. ~(j < i)
    <3>1. j < i => bound[j].member < bound[i].member
      BY <1>1, <2>1, <2>2, BindingFacts
    <3>2. QED
      BY <1>7, <2>1, <2>2, <2>3, <3>1
  <2>5. i < j
    <3>1. i # j
      BY <1>7, <2>1, <2>2, <2>3
    <3>2. QED
      BY <1>2, <2>4, <3>1
  <2>6. Earlier(bound[i].isec, bound[j].isec) /\ bound[i].isec \in Ids
    BY <1>1, <2>5, BindingFacts, MemberTyped
  <2>7. PICK x, y \in Int : bound[i].isec[1] = x /\ bound[i].isec[2] = y
    BY <2>6, Counts DEF Ids, Files
  <2>8. QED
    BY <2>1, <2>2, <2>6, <2>7 DEF Earlier
<1>8. ASSUME NEW id \in Relocatable
      PROVE  KeyOf(id) \in osecs /\ \E n \in DOMAIN members[KeyOf(id)] : Member(KeyOf(id), n).isec = id
  <2>1. PICK i \in DOMAIN bound : bound[i].isec = id
    BY <1>1, BindingFacts
  <2>2. bound[i].osec = KeyOf(id) /\ bound[i].osec \in osecs /\ bound[i].osec \in Keys
        /\ bound[i].member \in 1 .. count[bound[i].osec]
    BY <1>1, <2>1, BindingFacts
  <2>3. bound[i].member \in DOMAIN members[KeyOf(id)] /\ Member(KeyOf(id), bound[i].member).isec = id
    BY <1>3, <1>4, <2>1, <2>2
  <2>4. QED
    BY <2>2, <2>3
<1>9. \A k \in osecs : k \in Keys /\ k # NoOutput /\ Len(members[k]) # 0
  BY <1>2, <1>3 DEF BindInv
<1>10. QED
  BY <1>3, <1>6, <1>7, <1>8, <1>9

-----------------------------------------------------------------------------
(***************************************************************************)
(* Assign_input_section_offset.                                            *)
(***************************************************************************)
Laying == phase \in {"assign", "copy", "done"}

LEMMA HeaderStays ==
    ASSUME UNCHANGED readVars, NEW k, NEW n, members'[k][n].isec = members[k][n].isec
    PROVE  HeaderOf(Member(k, n).isec)' = HeaderOf(Member(k, n).isec)
BY DEF readVars, HeaderOf, Member

LEMMA MemberStays ==
    ASSUME UNCHANGED readVars, NEW k, NEW n, members'[k][n] = members[k][n]
    PROVE  /\ Member(k, n)' = Member(k, n) /\ MemberEnd(k, n)' = MemberEnd(k, n)
           /\ HeaderOf(Member(k, n).isec)' = HeaderOf(Member(k, n).isec)
BY HeaderStays DEF Member, MemberEnd

LEMMA TopAtStays ==
    ASSUME UNCHANGED readVars, SameMembers, NEW k \in Keys, NEW n \in Nat,
           n - 1 <= Len(members[k]), DOMAIN members[k] = 1 .. Len(members[k]),
           Len(members[k]) \in Nat, NEW t
    PROVE  TopAt(k, n, t)' <=> TopAt(k, n, t)
<1>1. \A m \in 1 .. n - 1 : HeaderOf(Member(k, m).isec)' = HeaderOf(Member(k, m).isec)
  <2> TAKE m \in 1 .. n - 1
  <2>1. m \in DOMAIN members[k]
    OBVIOUS
  <2>2. QED
    BY <2>1, HeaderStays DEF SameMembers
<1>2. QED
  BY <1>1 DEF TopAt

LEMMA AlignToFacts ==
    ASSUME NEW v \in Nat, NEW a \in Nat
    PROVE  /\ AlignTo(v, a) \in Nat /\ v <= AlignTo(v, a)
           /\ v = 0 => AlignTo(v, a) = 0
           /\ a # 0 => AlignTo(v, a) % a = 0
<1>1. CASE a = 0
  BY <1>1 DEF AlignTo
<1>2. CASE a # 0
  <2>1. AlignTo(v, a) = ((v + a - 1) \div a) * a /\ a \in Nat \ {0}
    BY <1>2 DEF AlignTo
  <2>2. AlignTo(v, a) \in Nat /\ v <= AlignTo(v, a) /\ AlignTo(v, a) < v + a /\ AlignTo(v, a) % a = 0
    BY <2>1, AlignedUp
  <2>3. ASSUME v = 0 PROVE AlignTo(v, a) = 0
    <3>1. PICK q \in Int : q = (v + a - 1) \div a
      <4>1. v + a - 1 \in Int
        OBVIOUS
      <4>2. QED
        BY <2>1, <4>1, QuotientTyped
    <3>2. q * a >= 0 /\ q * a < 1 * a
      BY <2>1, <2>2, <2>3, <3>1
    <3>3. q < 1
      BY <2>1, <3>2, ProductMonotonic
    <3>4. ~(q <= -1)
      <4>1. q <= -1 => q * a <= (-1) * a
        BY ProductMonotonic
      <4>2. QED
        BY <2>1, <3>2, <4>1
    <3>5. q = 0
      BY <3>3, <3>4
    <3>6. QED
      BY <2>1, <3>1, <3>5
  <2>4. QED
    BY <2>2, <2>3
<1>3. QED
  BY <1>1, <1>2

LEMMA ShiftedFacts ==
    ASSUME NEW p \in Nat
    PROVE  /\ Shifted(p) \in SUBSET Nat
           /\ p < IntBits => Shifted(p) = {Power[p]} /\ Power[p] \in Nat \ {0}
<1>1. Power[p] \in Nat \ {0}
  BY PowerTyped
<1>2. p % IntBits \in Nat
  BY Counts, DivisionFacts
<1>3. Power[p % IntBits] \in Nat
  BY <1>2, PowerTyped
<1>4. QED
  BY <1>1, <1>3 DEF Shifted

\* What is laid out changes where the loop is left, only.
LEMMA SetFacts ==
    ASSUME IInv, Laying
    PROVE  /\ \A k \in Keys : DOMAIN members[k] = 1 .. Len(members[k]) /\ Len(members[k]) \in Nat
           /\ \A k \in Keys : \A n \in DOMAIN members[k] :
                /\ k \in osecs /\ k # NoOutput
                /\ Member(k, n).offset \in Nat \union {Unplaced}
                /\ HeaderOf(Member(k, n).isec).size \in Nat
                /\ HeaderOf(Member(k, n).isec).align \in Nat
                /\ MemberEnd(k, n) \in Int
                /\ Set(k, n) => Member(k, n).offset \in Nat /\ MemberEnd(k, n) \in Nat
                                  /\ Member(k, n).offset <= MemberEnd(k, n)
           /\ out # NoOutput => out \in osecs /\ out \in Keys /\ out \notin todo
<1>1. TypeOK /\ ReadInv /\ BindInv /\ MemberInv /\ LayoutInv /\ LoopInv
  BY DEF IInv
<1>2. \A k \in Keys : DOMAIN members[k] = 1 .. Len(members[k]) /\ Len(members[k]) \in Nat
  BY <1>1, MemberFacts DEF Laying
<1>3. ASSUME NEW k \in Keys, NEW n \in DOMAIN members[k]
      PROVE  /\ k \in osecs /\ k # NoOutput
             /\ Member(k, n).offset \in Nat \union {Unplaced}
             /\ HeaderOf(Member(k, n).isec).size \in Nat
             /\ HeaderOf(Member(k, n).isec).align \in Nat
             /\ MemberEnd(k, n) \in Int
             /\ Set(k, n) => Member(k, n).offset \in Nat /\ MemberEnd(k, n) \in Nat
                               /\ Member(k, n).offset <= MemberEnd(k, n)
  <2>1. /\ k \in osecs /\ k # NoOutput /\ Member(k, n) \in Slot
        /\ HeaderOf(Member(k, n).isec).size \in Nat /\ HeaderOf(Member(k, n).isec).align \in Nat
    BY <1>1, MemberFacts DEF Laying
  <2>2. PICK x, s : x = Member(k, n).offset /\ s = HeaderOf(Member(k, n).isec).size
    OBVIOUS
  <2>3. x \in Nat \union {Unplaced} /\ s \in Nat /\ Unplaced \in Int
    BY <2>1, <2>2 DEF Slot, Unplaced
  <2>4. MemberEnd(k, n) = x + s
    BY <2>2 DEF MemberEnd
  <2>5. Set(k, n) => x # Unplaced
    BY <1>1, <2>2 DEF LayoutInv
  <2>6. QED
    BY <2>1, <2>2, <2>3, <2>4, <2>5
<1>4. out # NoOutput => out \in osecs /\ out \in Keys /\ out \notin todo
  BY <1>1 DEF LoopInv, TypeOK, BindTypes
<1>5. QED
  BY <1>2, <1>3, <1>4

\* No other member than m of o changes.
OthersStay(o, m) ==
    \A k \in Keys : \A n \in DOMAIN members[k] : k # o \/ n # m => members'[k][n] = members[k][n]

\* The offset of the member at hand, member m of o.
LEMMA AssignOffsetFacts ==
    ASSUME IInv, AssignOffset, NEW o, NEW m, o = out, m = member
    PROVE  \E a \in Nat, x \in Nat :
             /\ a \in Shifted(top) /\ x = AlignTo(cursor, a) /\ cursor <= x
             /\ cursor = 0 => x = 0
             /\ o \in osecs /\ o \in Keys /\ m \in DOMAIN members[o]
             /\ members' \in [Keys -> Seq(Slot)]
             /\ members'[o][m].offset = x /\ SameMembers /\ OthersStay(o, m)
             /\ cursor' = MemberEnd(o, m)' /\ cursor' \in Nat
             /\ top' = Max({top, HeaderOf(Member(o, m).isec).align})
<1> DEFINE old == members[o][m]
           h == HeaderOf(old.isec)
<1>1. /\ phase = "assign" /\ o # NoOutput /\ m \in DOMAIN members[o] /\ UNCHANGED readVars
  BY DEF AssignOffset
<1>2. PICK a \in Shifted(top) :
        /\ members' = [members EXCEPT ![o][m].offset = AlignTo(cursor, a)]
        /\ cursor' = AlignTo(cursor, a) + h.size
        /\ top' = Max({top, h.align})
  BY DEF AssignOffset
<1>3. Laying /\ cursor \in Nat /\ top \in Nat /\ members \in [Keys -> Seq(Slot)]
  BY <1>1 DEF Laying, IInv, TypeOK, WorkTypes, BindTypes
<1>4. o \in osecs /\ o \in Keys
  BY <1>1, <1>3, SetFacts
<1>5. a \in Nat
  BY <1>3, ShiftedFacts
<1>6. PICK x \in Nat : x = AlignTo(cursor, a) /\ cursor <= x /\ (cursor = 0 => x = 0)
  BY <1>3, <1>5, AlignToFacts
<1>7. old \in Slot /\ h.size \in Nat
  <2>1. old \in Slot
    BY <1>1, <1>3, <1>4
  <2>2. QED
    BY <1>1, <1>3, <1>4, <2>1, SetFacts DEF Member
<1> DEFINE new == [old EXCEPT !.offset = x]
<1>8. new \in Slot /\ new.isec = old.isec /\ new.offset = x
  BY <1>6, <1>7 DEF Slot
<1>9. members' = [members EXCEPT ![o] = [members[o] EXCEPT ![m] = new]]
  BY <1>2, <1>6
<1> HIDE DEF new
<1>10. /\ members' \in [Keys -> Seq(Slot)] /\ members'[o][m] = new
       /\ \A q \in Keys : DOMAIN members'[q] = DOMAIN members[q] /\ Len(members'[q]) = Len(members[q])
       /\ \A q \in Keys : \A n \in DOMAIN members[q] :
            q # o \/ n # m => members'[q][n] = members[q][n]
  <2>1. PICK M, N : M = members /\ N = members'
    OBVIOUS
  <2>2. M \in [Keys -> Seq(Slot)] /\ o \in Keys /\ m \in DOMAIN M[o]
        /\ N = [M EXCEPT ![o] = [M[o] EXCEPT ![m] = new]]
    BY <1>1, <1>3, <1>4, <1>9, <2>1
  <2>3. /\ N \in [Keys -> Seq(Slot)] /\ N[o][m] = new
        /\ \A q \in Keys : DOMAIN N[q] = DOMAIN M[q] /\ Len(N[q]) = Len(M[q])
        /\ \A q \in Keys : \A n \in DOMAIN M[q] : q # o \/ n # m => N[q][n] = M[q][n]
    BY <1>8, <2>2, TwiceExcept
  <2>4. QED
    BY <2>1, <2>3
<1>11. SameMembers
  <2> SUFFICES ASSUME NEW k \in Keys, NEW n \in DOMAIN members[k]
               PROVE  members'[k][n].isec = members[k][n].isec
    BY <1>10 DEF SameMembers
  <2>1. CASE k = o /\ n = m
    BY <1>8, <1>10, <2>1
  <2>2. CASE k # o \/ n # m
    BY <1>10, <2>2
  <2>3. QED
    BY <2>1, <2>2
<1>12. cursor' = x + h.size /\ cursor' \in Nat
  BY <1>2, <1>6, <1>7
<1>13. MemberEnd(o, m)' = x + h.size
  <2>1. members'[o][m].isec = members[o][m].isec /\ members'[o][m].offset = x
    BY <1>8, <1>10
  <2>2. HeaderOf(Member(o, m).isec)' = h
    BY <1>1, <2>1, HeaderStays DEF Member
  <2>3. QED
    BY <2>1, <2>2 DEF MemberEnd, Member
<1>14. QED
  BY <1>1, <1>2, <1>4, <1>5, <1>6, <1>8, <1>10, <1>11, <1>12, <1>13 DEF Member, OthersStay

\* The layout of a section stays as it is.
LEMMA LayoutStays ==
    ASSUME IInv, Laying, UNCHANGED <<readVars, osecs>>, members' = members,
           phase' \in {"assign", "copy", "done"},
           \A k \in Keys : \A n \in DOMAIN members[k] : Set(k, n)' <=> Set(k, n),
           \A k \in osecs : \A l \in DOMAIN members[k] : LaidOut(k)' /\ l = Len(members[k]) =>
             shsize'[k] = MemberEnd(k, l),
           \A o \in osecs : \A m \in 1 .. Len(members[o]) + 1 : \A t \in Nat : Here(o, m, t)' =>
             /\ cursor' = IF m = 1 THEN 0 ELSE MemberEnd(o, m - 1)
             /\ TopAt(o, m, t)
    PROVE  LayoutInv'
<1>1. UNCHANGED readVars /\ osecs' = osecs /\ LayoutInv /\ SameMembers
  BY DEF IInv, SameMembers
<1>2. \A k \in Keys : \A n \in DOMAIN members[k] :
        Member(k, n)' = Member(k, n) /\ MemberEnd(k, n)' = MemberEnd(k, n)
  BY <1>1, MemberStays
<1>3. \A k \in osecs : k \in Keys
  BY DEF IInv, TypeOK, BindTypes
<1>4. ASSUME NEW o \in osecs, NEW m \in 1 .. Len(members[o]) + 1, NEW t \in Nat, Here(o, m, t)'
      PROVE  /\ cursor' = IF m = 1 THEN 0 ELSE MemberEnd(o, m - 1)'
             /\ TopAt(o, m, t)'
  <2>1. /\ cursor' = IF m = 1 THEN 0 ELSE MemberEnd(o, m - 1)
        /\ TopAt(o, m, t)
    BY <1>4
  <2>2. DOMAIN members[o] = 1 .. Len(members[o]) /\ Len(members[o]) \in Nat /\ o \in Keys
    BY <1>3, SetFacts
  <2>3. (m = 1 \/ m - 1 \in DOMAIN members[o]) /\ m \in Nat /\ m - 1 <= Len(members[o])
    BY <2>2
  <2>4. m # 1 => MemberEnd(o, m - 1)' = MemberEnd(o, m - 1)
    BY <1>2, <2>2, <2>3
  <2>5. TopAt(o, m, t)'
    BY <1>1, <2>1, <2>2, <2>3, TopAtStays
  <2>6. QED
    BY <2>1, <2>4, <2>5
<1>5. \A k \in Keys : \A n \in DOMAIN members[k] : Member(k, n)'.offset # Unplaced <=> Set(k, n)'
  BY <1>1, <1>2 DEF LayoutInv
<1>6. \A k \in Keys : \A n \in DOMAIN members[k] : Set(k, n)' /\ n = 1 => Member(k, n)'.offset = 0
  BY <1>1, <1>2 DEF LayoutInv
<1>7. \A k \in Keys : \A m, n \in DOMAIN members[k] : Set(k, n)' /\ m < n =>
        MemberEnd(k, m)' <= Member(k, n)'.offset
  BY <1>1, <1>2 DEF LayoutInv
<1>8. \A k \in osecs : \A l \in DOMAIN members[k] : LaidOut(k)' /\ l = Len(members[k]) =>
             shsize'[k] = MemberEnd(k, l)'
  BY <1>2, <1>3
<1>9. QED
  BY <1>1, <1>4, <1>5, <1>6, <1>7, <1>8 DEF LayoutInv

\* The alignment of a section stays as it is.
LEMMA AlignStays ==
    ASSUME IInv, Laying, UNCHANGED <<readVars, osecs>>, members' = members,
           \A k \in Keys : \A n \in DOMAIN members[k] : Set(k, n)' <=> Set(k, n),
           \A k \in osecs :
             (\A n \in DOMAIN members[k] : HeaderOf(Member(k, n).isec).align < IntBits) =>
               \A l \in DOMAIN members[k] : LaidOut(k)' /\ l = Len(members[k]) =>
                 \E t \in Nat : TopAt(k, l + 1, t) /\ shalign'[k] = Power[t]
    PROVE  AlignInv'
<1>1. UNCHANGED readVars /\ osecs' = osecs /\ AlignInv /\ SameMembers
  BY DEF IInv, SameMembers
<1>2. \A k \in Keys : \A n \in DOMAIN members[k] :
        /\ Member(k, n)' = Member(k, n)
        /\ HeaderOf(Member(k, n).isec)' = HeaderOf(Member(k, n).isec)
  BY <1>1, MemberStays
<1> SUFFICES ASSUME NEW k \in osecs,
                    \A n \in DOMAIN members[k] : HeaderOf(Member(k, n).isec)'.align < IntBits
             PROVE  /\ \A n \in DOMAIN members[k] : Set(k, n)' =>
                         \E t \in Nat : TopAt(k, n, t)' /\ Member(k, n)'.offset % Power[t] = 0
                    /\ \A l \in DOMAIN members[k] : LaidOut(k)' /\ l = Len(members[k]) =>
                         \E t \in Nat : TopAt(k, l + 1, t)' /\ shalign'[k] = Power[t]
  BY <1>1 DEF AlignInv
<1>3. k \in Keys
  BY DEF IInv, TypeOK, BindTypes
<1>4. DOMAIN members[k] = 1 .. Len(members[k]) /\ Len(members[k]) \in Nat
  BY <1>3, SetFacts
<1>5. \A n \in DOMAIN members[k] : HeaderOf(Member(k, n).isec).align < IntBits
  BY <1>2, <1>3
<1>6. ASSUME NEW n \in DOMAIN members[k], Set(k, n)'
      PROVE  \E t \in Nat : TopAt(k, n, t)' /\ Member(k, n)'.offset % Power[t] = 0
  <2>1. PICK t \in Nat : TopAt(k, n, t) /\ Member(k, n).offset % Power[t] = 0
    BY <1>1, <1>3, <1>5, <1>6 DEF AlignInv, Laying
  <2>2. n \in Nat /\ n - 1 <= Len(members[k])
    BY <1>4
  <2>3. TopAt(k, n, t)'
    BY <1>1, <1>3, <1>4, <2>1, <2>2, TopAtStays
  <2>4. QED
    BY <1>2, <1>3, <2>1, <2>3
<1>7. ASSUME NEW l \in DOMAIN members[k], LaidOut(k)', l = Len(members[k])
      PROVE  \E t \in Nat : TopAt(k, l + 1, t)' /\ shalign'[k] = Power[t]
  <2>1. PICK t \in Nat : TopAt(k, l + 1, t) /\ shalign'[k] = Power[t]
    BY <1>5, <1>7
  <2>2. l + 1 \in Nat /\ (l + 1) - 1 <= Len(members[k])
    BY <1>4, <1>7
  <2>3. TopAt(k, l + 1, t)'
    BY <1>1, <1>3, <1>4, <2>1, <2>2, TopAtStays
  <2>4. QED
    BY <2>1, <2>3
<1>8. QED
  BY <1>6, <1>7

LEMMA BeginAssignStep ==
    ASSUME IInv, BeginAssign
    PROVE  LoopInv' /\ LayoutInv' /\ AlignInv'
<1>1. /\ phase = "assign" /\ phase' = phase /\ out = NoOutput /\ out' \in todo
      /\ todo' = todo \ {out'} /\ member' = 1 /\ cursor' = 0 /\ top' = 0
      /\ UNCHANGED <<readVars, bindVars, members, shdrVars>>
  BY DEF BeginAssign
<1>2. osecs' = osecs /\ members' = members /\ shsize' = shsize /\ shalign' = shalign /\ Laying
      /\ UNCHANGED readVars
  BY <1>1 DEF bindVars, shdrVars, Laying
<1>3. LoopInv /\ LayoutInv /\ AlignInv /\ todo \subseteq osecs
  BY <1>1 DEF IInv, LoopInv
<1>4. \A k \in osecs : k \in Keys /\ k # NoOutput /\ Len(members[k]) # 0 /\ Len(members[k]) \in Nat
  BY <1>2, MemberFacts DEF IInv, Laying
<1>5. PICK o : o = out'
  OBVIOUS
<1>6. o \in osecs /\ out' = o /\ o \in todo /\ o # NoOutput
  BY <1>1, <1>3, <1>4, <1>5
<1>7. LoopInv'
  <2>1. 1 \in 1 .. Len(members[o]) + 1
    BY <1>4, <1>6
  <2>2. QED
    BY <1>1, <1>2, <1>3, <1>6, <2>1 DEF LoopInv
<1>8. \A k \in osecs : LaidOut(k)' <=> LaidOut(k)
  BY <1>1, <1>2, <1>4, <1>6 DEF LaidOut
<1>9. ASSUME NEW k \in Keys, NEW n \in DOMAIN members[k] PROVE Set(k, n)' <=> Set(k, n)
  <2>1. k \in osecs /\ k # NoOutput /\ n \in Nat /\ ~(n < 1)
    BY <1>2, SetFacts
  <2>2. LaidOut(k)' <=> LaidOut(k)
    BY <1>8, <2>1
  <2>3. QED
    BY <1>1, <1>2, <2>1, <2>2 DEF Set
<1>10. \A k \in osecs : \A l \in DOMAIN members[k] : LaidOut(k)' /\ l = Len(members[k]) =>
         shsize'[k] = MemberEnd(k, l)
  BY <1>2, <1>3, <1>8 DEF LayoutInv
<1>11. \A q \in osecs : \A m \in 1 .. Len(members[q]) + 1 : \A t \in Nat : Here(q, m, t)' =>
             /\ cursor' = IF m = 1 THEN 0 ELSE MemberEnd(q, m - 1)
             /\ TopAt(q, m, t)
  BY <1>1 DEF Here, TopAt
<1>12. LayoutInv'
  BY <1>1, <1>2, <1>9, <1>10, <1>11, LayoutStays
<1>13. AlignInv'
  BY <1>1, <1>2, <1>3, <1>8, <1>9, AlignStays DEF AlignInv, Laying
<1>14. QED
  BY <1>7, <1>12, <1>13

LEMMA AssignSizeStep ==
    ASSUME IInv, AssignSize
    PROVE  /\ LoopInv' /\ LayoutInv' /\ AlignInv'
           /\ shsize' \in [Keys -> Nat] /\ shalign' \in [Keys -> Nat]
<1>1. /\ phase = "assign" /\ phase' = phase /\ out # NoOutput /\ out' = NoOutput
      /\ member \notin DOMAIN members[out] /\ todo' = todo
      /\ shsize' = [shsize EXCEPT ![out] = cursor]
      /\ UNCHANGED <<readVars, bindVars, members>>
  BY DEF AssignSize
<1>2. PICK a \in Shifted(top) : shalign' = [shalign EXCEPT ![out] = a]
  BY DEF AssignSize
<1>3. osecs' = osecs /\ members' = members /\ Laying /\ UNCHANGED readVars
  BY <1>1 DEF bindVars, Laying
<1>4. /\ LoopInv /\ LayoutInv /\ AlignInv /\ cursor \in Nat /\ top \in Nat
      /\ shsize \in [Keys -> Nat] /\ shalign \in [Keys -> Nat]
  BY DEF IInv, TypeOK, WorkTypes, ShdrTypes
<1>5. a \in Nat
  BY <1>4, ShiftedFacts
<1>6. PICK o : o = out
  OBVIOUS
<1>7. o \in osecs /\ o \in Keys /\ o \notin todo /\ o # NoOutput
  BY <1>1, <1>3, <1>6, SetFacts
<1>8. /\ shsize' \in [Keys -> Nat] /\ shsize'[o] = cursor
      /\ \A k \in Keys : k # o => shsize'[k] = shsize[k]
  BY <1>1, <1>4, <1>6, <1>7
<1>9. /\ shalign' \in [Keys -> Nat] /\ shalign'[o] = a
      /\ \A k \in Keys : k # o => shalign'[k] = shalign[k]
  BY <1>2, <1>4, <1>5, <1>6, <1>7
<1>10. /\ \A k \in osecs : k \in Keys /\ k # NoOutput
       /\ Len(members[o]) # 0 /\ Len(members[o]) \in Nat /\ DOMAIN members[o] = 1 .. Len(members[o])
  BY <1>3, <1>7, MemberFacts DEF IInv, Laying
<1>11. PICK l \in Nat : l = Len(members[o]) /\ l # 0
  BY <1>10
<1>12. member = l + 1
  <2>1. member \in 1 .. l + 1 /\ member \notin 1 .. l
    BY <1>1, <1>4, <1>6, <1>10, <1>11 DEF LoopInv
  <2>2. QED
    BY <2>1
<1>13. LoopInv'
  BY <1>1, <1>3, <1>4, <1>10 DEF LoopInv
<1>14. \A k \in osecs : LaidOut(k)' <=> LaidOut(k) \/ k = o
  BY <1>1, <1>3, <1>6, <1>7, <1>10 DEF LaidOut
<1>15. ~LaidOut(o)
  BY <1>1, <1>6 DEF LaidOut
<1>16. ASSUME NEW k \in Keys, NEW n \in DOMAIN members[k] PROVE Set(k, n)' <=> Set(k, n)
  <2>1. k \in osecs /\ k # NoOutput
    BY <1>3, SetFacts
  <2>2. CASE k = o
    <3>1. n < member
      BY <1>10, <1>11, <1>12, <2>2
    <3>2. LaidOut(k)' /\ members'[k] = members[k]
      BY <1>3, <1>14, <2>1, <2>2
    <3>3. QED
      BY <1>1, <1>6, <2>2, <3>1, <3>2 DEF Set
  <2>3. CASE k # o
    <3>1. LaidOut(k)' <=> LaidOut(k)
      BY <1>14, <2>1, <2>3
    <3>2. QED
      BY <1>1, <1>3, <1>6, <2>1, <2>3, <3>1 DEF Set
  <2>4. QED
    BY <2>2, <2>3
<1>17. Here(o, l + 1, top)
  BY <1>1, <1>6, <1>12 DEF Here
<1>18. cursor = MemberEnd(o, l) /\ TopAt(o, l + 1, top)
  <2>1. l + 1 \in 1 .. Len(members[o]) + 1 /\ l + 1 # 1 /\ (l + 1) - 1 = l
    BY <1>11
  <2>2. cursor = (IF l + 1 = 1 THEN 0 ELSE MemberEnd(o, (l + 1) - 1)) /\ TopAt(o, l + 1, top)
    BY <1>4, <1>7, <1>17, <2>1 DEF LayoutInv
  <2>3. QED
    BY <2>1, <2>2
<1>19. ASSUME NEW k \in osecs, NEW i \in DOMAIN members[k], LaidOut(k)', i = Len(members[k])
       PROVE  shsize'[k] = MemberEnd(k, i)
  <2>1. CASE k = o
    BY <1>8, <1>11, <1>18, <1>19, <2>1
  <2>2. CASE k # o
    BY <1>4, <1>8, <1>10, <1>14, <1>19, <2>2 DEF LayoutInv
  <2>3. QED
    BY <2>1, <2>2
<1>20. \A q \in osecs : \A m \in 1 .. Len(members[q]) + 1 : \A t \in Nat : ~Here(q, m, t)'
  BY <1>1, <1>10 DEF Here
<1>21. LayoutInv'
  BY <1>1, <1>3, <1>16, <1>19, <1>20, LayoutStays
<1>22. ASSUME NEW k \in osecs,
              \A n \in DOMAIN members[k] : HeaderOf(Member(k, n).isec).align < IntBits,
              NEW i \in DOMAIN members[k], LaidOut(k)', i = Len(members[k])
       PROVE  \E t \in Nat : TopAt(k, i + 1, t) /\ shalign'[k] = Power[t]
  <2>1. CASE k = o
    <3>1. top < IntBits
      <4>1. top = 0 \/ \E m \in 1 .. (l + 1) - 1 : top = HeaderOf(Member(o, m).isec).align
        BY <1>18 DEF TopAt
      <4>2. 1 .. (l + 1) - 1 = DOMAIN members[o]
        BY <1>10, <1>11
      <4>3. QED
        BY <1>22, <2>1, <4>1, <4>2, Counts
    <3>2. a = Power[top]
      BY <1>4, <3>1, ShiftedFacts
    <3>3. QED
      BY <1>4, <1>9, <1>11, <1>18, <1>22, <2>1, <3>2
  <2>2. CASE k # o
    <3>1. LaidOut(k) /\ k \in Keys
      BY <1>10, <1>14, <1>22, <2>2
    <3>2. PICK t \in Nat : TopAt(k, i + 1, t) /\ shalign[k] = Power[t]
      BY <1>3, <1>4, <1>22, <3>1 DEF AlignInv, Laying
    <3>3. QED
      BY <1>9, <2>2, <3>1, <3>2
  <2>3. QED
    BY <2>1, <2>2
<1>23. AlignInv'
  BY <1>1, <1>3, <1>16, <1>22, AlignStays
<1>24. QED
  BY <1>8, <1>9, <1>13, <1>21, <1>23

LEMMA OpenOutputFileStep ==
    ASSUME IInv, OpenOutputFile
    PROVE  LoopInv' /\ LayoutInv' /\ AlignInv'
<1>1. /\ phase = "assign" /\ phase' = "copy" /\ out = NoOutput /\ out' = out /\ todo = {}
      /\ todo' = {k \in osecs : shsize[k] # 0}
      /\ UNCHANGED <<readVars, bindVars, members, shdrVars>>
  BY DEF OpenOutputFile
<1>2. osecs' = osecs /\ members' = members /\ shsize' = shsize /\ shalign' = shalign /\ Laying
      /\ UNCHANGED readVars
  BY <1>1 DEF bindVars, shdrVars, Laying
<1>3. LoopInv /\ LayoutInv /\ AlignInv
  BY DEF IInv
<1>4. \A k \in osecs : k \in Keys /\ k # NoOutput
  BY <1>2, MemberFacts DEF IInv, Laying
<1>5. LoopInv'
  BY <1>1, <1>2, <1>4 DEF LoopInv
<1>6. \A k \in osecs : LaidOut(k)' <=> LaidOut(k)
  BY <1>1, <1>2, <1>4 DEF LaidOut
<1>7. ASSUME NEW k \in Keys, NEW n \in DOMAIN members[k] PROVE Set(k, n)' <=> Set(k, n)
  <2>1. k \in osecs /\ k # NoOutput
    BY <1>2, SetFacts
  <2>2. LaidOut(k)' <=> LaidOut(k)
    BY <1>6, <2>1
  <2>3. QED
    BY <1>1, <1>2, <2>1, <2>2 DEF Set
<1>8. \A k \in osecs : \A l \in DOMAIN members[k] : LaidOut(k)' /\ l = Len(members[k]) =>
        shsize'[k] = MemberEnd(k, l)
  BY <1>2, <1>3, <1>6 DEF LayoutInv
<1>9. \A q \in osecs : \A m \in 1 .. Len(members[q]) + 1 : \A t \in Nat : ~Here(q, m, t)'
  BY <1>1 DEF Here
<1>10. LayoutInv'
  BY <1>1, <1>2, <1>7, <1>8, <1>9, LayoutStays
<1>11. AlignInv'
  BY <1>1, <1>2, <1>3, <1>6, <1>7, AlignStays DEF AlignInv, Laying
<1>12. QED
  BY <1>5, <1>10, <1>11

\* Copying changes no offset.
LEMMA CopySteps ==
    ASSUME IInv, BeginCopy \/ PadMember \/ CopyEnd \/ CopyDone \/ Terminated
    PROVE  LoopInv' /\ LayoutInv' /\ AlignInv'
<1>1. /\ phase \in {"copy", "done"} /\ phase' \in {"copy", "done"}
      /\ UNCHANGED <<readVars, bindVars, members, shdrVars>>
  BY DEF BeginCopy, PadMember, CopyEnd, CopyDone, Terminated, Ended, vars
<1>2. osecs' = osecs /\ members' = members /\ shsize' = shsize /\ shalign' = shalign /\ Laying
      /\ UNCHANGED readVars
  BY <1>1 DEF bindVars, shdrVars, Laying
<1>3. LoopInv /\ LayoutInv /\ AlignInv
  BY DEF IInv
<1>4. \A k \in osecs : k \in Keys /\ k # NoOutput /\ Len(members[k]) # 0 /\ Len(members[k]) \in Nat
                        /\ DOMAIN members[k] = 1 .. Len(members[k])
  BY <1>2, MemberFacts DEF IInv, Laying
<1>5. LoopInv'
  <2>1. CASE BeginCopy
    <3>1. PICK o : o = out'
      OBVIOUS
    <3>2. o \in todo /\ todo' = todo \ {o} /\ member' = 1 /\ out' = o /\ phase = "copy" /\ phase' = "copy"
      BY <2>1, <3>1 DEF BeginCopy
    <3>3. o \in osecs /\ o # NoOutput
      BY <1>3, <1>4, <3>2 DEF LoopInv
    <3>4. 1 \in 1 .. Len(members[o]) + 1
      BY <1>4, <3>3
    <3>5. QED
      BY <1>2, <1>3, <3>2, <3>3, <3>4 DEF LoopInv
  <2>2. CASE PadMember
    <3>1. PICK o : o = out
      OBVIOUS
    <3>2. /\ out' = o /\ todo' = todo /\ member' = member + 1 /\ member \in DOMAIN members[o]
          /\ phase = "copy" /\ phase' = "copy" /\ o # NoOutput
      BY <2>2, <3>1 DEF PadMember
    <3>3. o \in osecs \ todo
      BY <1>3, <3>1, <3>2 DEF LoopInv
    <3>4. member + 1 \in 1 .. Len(members[o]) + 1
      BY <1>4, <3>2, <3>3
    <3>5. QED
      BY <1>2, <1>3, <3>1, <3>2, <3>3, <3>4 DEF LoopInv
  <2>3. CASE CopyEnd
    <3>1. out' = NoOutput /\ todo' = todo /\ phase = "copy" /\ phase' = "copy"
      BY <2>3 DEF CopyEnd
    <3>2. QED
      BY <1>2, <1>3, <1>4, <3>1 DEF LoopInv
  <2>4. CASE CopyDone
    <3>1. out = NoOutput /\ out' = out /\ todo' = todo /\ todo = {} /\ phase = "copy" /\ phase' = "done"
      BY <2>4 DEF CopyDone, workVars
    <3>2. QED
      BY <1>2, <1>3, <1>4, <3>1 DEF LoopInv
  <2>5. CASE Terminated
    <3>1. out' = out /\ todo' = todo /\ phase = "done" /\ phase' = phase
      BY <2>5 DEF Terminated, Ended, vars, workVars
    <3>2. QED
      BY <1>2, <1>3, <1>4, <3>1 DEF LoopInv
  <2>6. QED
    BY <2>1, <2>2, <2>3, <2>4, <2>5
<1>6. \A k \in osecs : LaidOut(k)' <=> LaidOut(k)
  BY <1>1, <1>2 DEF LaidOut
<1>7. ASSUME NEW k \in Keys, NEW n \in DOMAIN members[k] PROVE Set(k, n)' <=> Set(k, n)
  <2>1. k \in osecs
    BY <1>2, SetFacts
  <2>2. LaidOut(k)' <=> LaidOut(k)
    BY <1>6, <2>1
  <2>3. QED
    BY <1>1, <1>2, <2>2 DEF Set
<1>8. \A k \in osecs : \A l \in DOMAIN members[k] : LaidOut(k)' /\ l = Len(members[k]) =>
        shsize'[k] = MemberEnd(k, l)
  BY <1>2, <1>3, <1>6 DEF LayoutInv
<1>9. \A q \in osecs : \A m \in 1 .. Len(members[q]) + 1 : \A t \in Nat : ~Here(q, m, t)'
  BY <1>1 DEF Here
<1>10. LayoutInv'
  BY <1>1, <1>2, <1>7, <1>8, <1>9, LayoutStays
<1>11. AlignInv'
  BY <1>1, <1>2, <1>3, <1>6, <1>7, AlignStays DEF AlignInv, Laying
<1>12. QED
  BY <1>5, <1>10, <1>11

LEMMA AssignOffsetStep ==
    ASSUME IInv, AssignOffset
    PROVE  LoopInv' /\ LayoutInv' /\ AlignInv' /\ top' \in Nat
<1>1. /\ phase = "assign" /\ phase' = phase /\ out # NoOutput /\ out' = out /\ todo' = todo
      /\ member' = member + 1 /\ UNCHANGED <<readVars, bindVars, shdrVars>>
  BY DEF AssignOffset
<1>2. osecs' = osecs /\ shsize' = shsize /\ shalign' = shalign /\ Laying /\ UNCHANGED readVars
  BY <1>1 DEF bindVars, shdrVars, Laying
<1>3. /\ LoopInv /\ LayoutInv /\ AlignInv /\ cursor \in Nat /\ top \in Nat
      /\ members \in [Keys -> Seq(Slot)]
  BY DEF IInv, TypeOK, WorkTypes, BindTypes
<1>4. PICK o, n, t : o = out /\ n = member /\ t = top
  OBVIOUS
<1>5. PICK a \in Nat, x \in Nat :
             /\ a \in Shifted(top) /\ x = AlignTo(cursor, a) /\ cursor <= x
             /\ cursor = 0 => x = 0
             /\ o \in osecs /\ o \in Keys /\ n \in DOMAIN members[o]
             /\ members' \in [Keys -> Seq(Slot)]
             /\ members'[o][n].offset = x /\ SameMembers /\ OthersStay(o, n)
             /\ cursor' = MemberEnd(o, n)' /\ cursor' \in Nat
             /\ top' = Max({top, HeaderOf(Member(o, n).isec).align})
  BY <1>4, AssignOffsetFacts
<1>6. /\ \A k \in osecs : k \in Keys /\ k # NoOutput
      /\ \A k \in Keys : DOMAIN members[k] = 1 .. Len(members[k]) /\ Len(members[k]) \in Nat
      /\ \A k \in Keys : \A i \in DOMAIN members[k] : k \in osecs
  BY <1>2, MemberFacts DEF IInv, Laying
<1>7. /\ n \in Nat \ {0} /\ n \in 1 .. Len(members[o]) + 1 /\ t \in Nat
      /\ Len(members'[o]) = Len(members[o])
  BY <1>3, <1>4, <1>5, <1>6 DEF SameMembers
<1>8. /\ cursor = IF n = 1 THEN 0 ELSE MemberEnd(o, n - 1)
      /\ TopAt(o, n, t)
  BY <1>1, <1>3, <1>4, <1>5, <1>7 DEF LayoutInv, Here
<1>9. LoopInv'
  <2>1. n + 1 \in 1 .. Len(members'[o]) + 1
    BY <1>5, <1>6, <1>7
  <2>2. QED
    BY <1>1, <1>2, <1>3, <1>4, <2>1 DEF LoopInv
<1>10. PICK al \in Nat : al = HeaderOf(Member(o, n).isec).align
  BY <1>2, <1>5, SetFacts
<1>11. top' \in Nat /\ top' \in {t, al} /\ t <= top' /\ al <= top'
  BY <1>4, <1>5, <1>7, <1>10, MaxOfTwo
<1>12. \A k \in osecs : LaidOut(k)' <=> LaidOut(k)
  BY <1>1, <1>2 DEF LaidOut
<1>13. ~LaidOut(o)
  BY <1>1, <1>4 DEF LaidOut
<1>14. /\ \A k \in Keys : \A i \in DOMAIN members[k] : (k # o \/ i # n) =>
            /\ Member(k, i)' = Member(k, i) /\ MemberEnd(k, i)' = MemberEnd(k, i)
            /\ Set(k, i)' <=> Set(k, i)
       /\ Set(o, n)' /\ ~Set(o, n) /\ Member(o, n)'.offset = x
       /\ \A i \in DOMAIN members[o] : Set(o, i)' <=> i < n + 1
       /\ \A i \in DOMAIN members[o] : Set(o, i) <=> i < n
  <2>1. \A i \in DOMAIN members[o] : i \in DOMAIN members'[o] /\ (Set(o, i)' <=> i < n + 1)
        /\ (Set(o, i) <=> i < n)
    BY <1>1, <1>4, <1>5, <1>12, <1>13 DEF Set, SameMembers
  <2>2. \A i \in DOMAIN members[o] : i # n => (i < n + 1 <=> i < n)
    BY <1>5, <1>6, <1>7
  <2>3. ASSUME NEW k \in Keys, NEW i \in DOMAIN members[k], k # o \/ i # n
        PROVE  /\ Member(k, i)' = Member(k, i) /\ MemberEnd(k, i)' = MemberEnd(k, i)
               /\ Set(k, i)' <=> Set(k, i)
    <3>1. members'[k][i] = members[k][i]
      BY <1>5, <2>3 DEF OthersStay
    <3>2. Member(k, i)' = Member(k, i) /\ MemberEnd(k, i)' = MemberEnd(k, i)
      BY <1>1, <3>1, MemberStays
    <3>3. CASE k = o
      BY <2>1, <2>2, <2>3, <3>2, <3>3
    <3>4. CASE k # o
      <4>1. LaidOut(k)' <=> LaidOut(k)
        BY <1>6, <1>12
      <4>2. Set(k, i)' <=> Set(k, i)
        BY <1>1, <1>4, <1>5, <3>4, <4>1 DEF Set, SameMembers
      <4>3. QED
        BY <3>2, <4>2
    <3>5. QED
      BY <3>3, <3>4
  <2>4. Set(o, n)' /\ ~Set(o, n)
    BY <1>5, <1>7, <2>1
  <2>5. Member(o, n)'.offset = x
    BY <1>5 DEF Member
  <2>6. QED
    BY <2>1, <2>3, <2>4, <2>5
<1>15. \A k \in Keys : \A i \in DOMAIN members'[k] : i \in DOMAIN members[k]
  BY <1>5 DEF SameMembers
<1>16. ASSUME NEW k \in Keys, NEW i \in DOMAIN members[k]
       PROVE  /\ Member(k, i)'.offset # Unplaced <=> Set(k, i)'
              /\ Set(k, i)' /\ i = 1 => Member(k, i)'.offset = 0
  <2>1. CASE k # o \/ i # n
    BY <1>3, <1>14, <2>1 DEF LayoutInv
  <2>2. CASE k = o /\ i = n
    <3>1. x # Unplaced
      BY DEF Unplaced
    <3>2. n = 1 => x = 0
      BY <1>5, <1>8
    <3>3. QED
      BY <1>14, <2>2, <3>1, <3>2
  <2>3. QED
    BY <2>1, <2>2
<1>17. \A m \in DOMAIN members[o] : m < n => MemberEnd(o, m) <= cursor
  <2> SUFFICES ASSUME NEW m \in DOMAIN members[o], m < n PROVE MemberEnd(o, m) <= cursor
    OBVIOUS
  <2>1. m \in Nat /\ m >= 1 /\ n - 1 \in DOMAIN members[o] /\ cursor = MemberEnd(o, n - 1)
    BY <1>5, <1>6, <1>7, <1>8
  <2>2. CASE m = n - 1
    BY <1>3, <2>1, <2>2
  <2>3. CASE m # n - 1
    <3>1. m < n - 1 /\ n - 1 < n
      BY <1>7, <2>1, <2>3
    <3>2. Set(o, n - 1)
      BY <1>14, <2>1, <3>1
    <3>3. MemberEnd(o, m) <= Member(o, n - 1).offset
      BY <1>3, <1>5, <2>1, <3>1, <3>2 DEF LayoutInv
    <3>4. /\ Member(o, n - 1).offset \in Nat /\ MemberEnd(o, n - 1) \in Nat /\ MemberEnd(o, m) \in Int
          /\ Member(o, n - 1).offset <= MemberEnd(o, n - 1)
      BY <1>2, <1>5, <2>1, <3>2, SetFacts
    <3>5. QED
      BY <2>1, <3>3, <3>4
  <2>4. QED
    BY <2>2, <2>3
<1>18. ASSUME NEW k \in Keys, NEW m \in DOMAIN members[k], NEW i \in DOMAIN members[k],
              Set(k, i)', m < i
       PROVE  MemberEnd(k, m)' <= Member(k, i)'.offset
  <2>0. m \in Nat /\ i \in Nat
    BY <1>6
  <2>1. CASE k # o
    BY <1>3, <1>14, <1>18, <2>1 DEF LayoutInv
  <2>2. CASE k = o /\ i = n
    <3>1. MemberEnd(o, m)' = MemberEnd(o, m) /\ MemberEnd(o, m) <= cursor
      BY <1>7, <1>14, <1>17, <1>18, <2>0, <2>2
    <3>2. MemberEnd(o, m) \in Int
      BY <1>2, <1>5, <2>2, SetFacts
    <3>3. MemberEnd(o, m) <= x
      BY <1>3, <1>5, <3>1, <3>2
    <3>4. QED
      BY <1>14, <2>2, <3>1, <3>3
  <2>3. CASE k = o /\ i # n
    <3>1. i < n + 1
      BY <1>14, <1>18, <2>3
    <3>2. m # n /\ i < n
      BY <1>7, <1>18, <2>0, <2>3, <3>1
    <3>3. Set(o, i)
      BY <1>14, <2>3, <3>2
    <3>4. MemberEnd(o, m) <= Member(o, i).offset
      BY <1>3, <1>5, <1>18, <2>3, <3>3 DEF LayoutInv
    <3>5. QED
      BY <1>14, <2>3, <3>2, <3>4
  <2>4. QED
    BY <2>1, <2>2, <2>3
<1>19. TopAt(o, n + 1, top')
  <2>1. 1 .. (n + 1) - 1 = 1 .. n /\ n \in 1 .. n /\ \A m \in 1 .. n : m = n \/ m \in 1 .. n - 1
    BY <1>7
  <2>2. \A m \in 1 .. n - 1 : HeaderOf(Member(o, m).isec).align \in Nat
    <3>1. \A m \in 1 .. n - 1 : m \in DOMAIN members[o]
      BY <1>5, <1>6, <1>7
    <3>2. QED
      BY <1>2, <1>5, <3>1, SetFacts
  <2>3. \A m \in 1 .. n : HeaderOf(Member(o, m).isec).align <= top'
    <3> SUFFICES ASSUME NEW m \in 1 .. n PROVE HeaderOf(Member(o, m).isec).align <= top'
      OBVIOUS
    <3>1. CASE m = n
      BY <1>10, <1>11, <3>1
    <3>2. CASE m \in 1 .. n - 1
      BY <1>7, <1>8, <1>11, <2>2, <3>2 DEF TopAt
    <3>3. QED
      BY <2>1, <3>1, <3>2
  <2>4. top' = 0 \/ \E m \in 1 .. n : top' = HeaderOf(Member(o, m).isec).align
    <3>1. CASE top' = al
      BY <1>10, <2>1, <3>1
    <3>2. CASE top' = t
      <4>1. \A m \in 1 .. n - 1 : m \in 1 .. n
        BY <1>7
      <4>2. QED
        BY <1>8, <3>2, <4>1 DEF TopAt
    <3>3. QED
      BY <1>11, <3>1, <3>2
  <2>5. QED
    BY <2>1, <2>3, <2>4 DEF TopAt
<1>20. ASSUME NEW q \in osecs', NEW m \in 1 .. Len(members'[q]) + 1, NEW u \in Nat, Here(q, m, u)'
       PROVE  /\ cursor' = IF m = 1 THEN 0 ELSE MemberEnd(q, m - 1)'
              /\ TopAt(q, m, u)'
  <2>1. q = o /\ m = n + 1 /\ u = top'
    BY <1>1, <1>4, <1>20 DEF Here
  <2>2. m # 1 /\ m - 1 = n
    BY <1>7, <2>1
  <2>3. TopAt(o, n + 1, u)
    BY <1>19, <2>1
  <2>4. n + 1 \in Nat /\ (n + 1) - 1 <= Len(members[o])
    BY <1>5, <1>6, <1>7
  <2>5. TopAt(o, n + 1, u)'
    BY <1>1, <1>5, <1>6, <2>3, <2>4, TopAtStays
  <2>6. QED
    BY <1>5, <2>1, <2>2, <2>5
<1>21. ASSUME NEW k \in osecs', NEW l \in DOMAIN members'[k], LaidOut(k)', l = Len(members'[k])
       PROVE  shsize'[k] = MemberEnd(k, l)'
  <2>1. k \in osecs /\ LaidOut(k) /\ k # o /\ k \in Keys
    BY <1>2, <1>6, <1>12, <1>13, <1>21
  <2>2. l \in DOMAIN members[k] /\ l = Len(members[k])
    BY <1>5, <1>21, <2>1 DEF SameMembers
  <2>3. MemberEnd(k, l)' = MemberEnd(k, l)
    BY <1>14, <2>1, <2>2
  <2>4. QED
    BY <1>2, <1>3, <2>1, <2>2, <2>3 DEF LayoutInv
<1>22. LayoutInv'
  BY <1>15, <1>16, <1>18, <1>20, <1>21 DEF LayoutInv
<1>23. ASSUME NEW k \in osecs, NEW i \in DOMAIN members[k],
              \A m \in DOMAIN members[k] : HeaderOf(Member(k, m).isec).align < IntBits,
              Set(k, i)'
       PROVE  \E u \in Nat : TopAt(k, i, u)' /\ Member(k, i)'.offset % Power[u] = 0
  <2>1. k \in Keys /\ i \in Nat /\ i - 1 <= Len(members[k])
    BY <1>6
  <2>2. CASE k # o \/ i # n
    <3>1. Set(k, i) /\ Member(k, i)' = Member(k, i)
      BY <1>14, <1>23, <2>1, <2>2
    <3>2. PICK u \in Nat : TopAt(k, i, u) /\ Member(k, i).offset % Power[u] = 0
      BY <1>2, <1>3, <1>23, <2>1, <3>1 DEF AlignInv, Laying
    <3>3. TopAt(k, i, u)'
      BY <1>1, <1>5, <1>6, <2>1, <3>2, TopAtStays
    <3>4. QED
      BY <3>1, <3>2, <3>3
  <2>3. CASE k = o /\ i = n
    <3>1. t < IntBits
      <4>1. \A m \in 1 .. n - 1 : m \in DOMAIN members[o]
        BY <1>5, <1>6, <1>7
      <4>2. QED
        BY <1>8, <1>23, <2>3, <4>1, Counts DEF TopAt
    <3>2. a = Power[t] /\ a # 0
      BY <1>4, <1>5, <1>7, <3>1, ShiftedFacts
    <3>3. x % Power[t] = 0
      <4>1. AlignTo(cursor, a) % a = 0
        BY <1>3, <3>2, AlignToFacts
      <4>2. QED
        BY <1>5, <3>2, <4>1
    <3>4. TopAt(o, n, t)'
      BY <1>1, <1>5, <1>6, <1>8, <2>1, <2>3, TopAtStays
    <3>5. QED
      BY <1>7, <1>14, <2>3, <3>3, <3>4
  <2>4. QED
    BY <2>2, <2>3
<1>24. ASSUME NEW k \in osecs, NEW l \in DOMAIN members[k], LaidOut(k)', l = Len(members[k]),
              \A m \in DOMAIN members[k] : HeaderOf(Member(k, m).isec).align < IntBits
       PROVE  \E u \in Nat : TopAt(k, l + 1, u)' /\ shalign'[k] = Power[u]
  <2>1. k \in Keys /\ LaidOut(k) /\ l + 1 \in Nat /\ (l + 1) - 1 <= Len(members[k])
    BY <1>6, <1>12, <1>24
  <2>2. PICK u \in Nat : TopAt(k, l + 1, u) /\ shalign[k] = Power[u]
    BY <1>2, <1>3, <1>24, <2>1 DEF AlignInv, Laying
  <2>3. TopAt(k, l + 1, u)'
    BY <1>1, <1>5, <1>6, <2>1, <2>2, TopAtStays
  <2>4. QED
    BY <1>2, <2>2, <2>3
<1>25. AlignInv'
  <2>1. \A k \in Keys : \A m \in DOMAIN members[k] :
          HeaderOf(Member(k, m).isec)' = HeaderOf(Member(k, m).isec)
    BY <1>1, <1>5, HeaderStays DEF SameMembers
  <2>2. ASSUME NEW k \in osecs',
               \A m \in DOMAIN members'[k] : HeaderOf(Member(k, m).isec)'.align < IntBits
        PROVE  /\ \A i \in DOMAIN members'[k] : Set(k, i)' =>
                    \E u \in Nat : TopAt(k, i, u)' /\ Member(k, i)'.offset % Power[u] = 0
               /\ \A l \in DOMAIN members'[k] : LaidOut(k)' /\ l = Len(members'[k]) =>
                    \E u \in Nat : TopAt(k, l + 1, u)' /\ shalign'[k] = Power[u]
    <3>1. k \in osecs /\ k \in Keys /\ DOMAIN members'[k] = DOMAIN members[k]
          /\ Len(members'[k]) = Len(members[k])
      BY <1>2, <1>5, <1>6 DEF SameMembers
    <3>2. \A m \in DOMAIN members[k] : HeaderOf(Member(k, m).isec).align < IntBits
      BY <2>1, <2>2, <3>1
    <3>3. QED
      BY <1>23, <1>24, <3>1, <3>2
  <2>3. QED
    BY <2>2 DEF AlignInv
<1>26. QED
  BY <1>9, <1>11, <1>22, <1>25

LEMMA AddDoneStep ==
    ASSUME IInv, AddDone
    PROVE  LoopInv' /\ LayoutInv' /\ AlignInv'
<1>1. /\ phase = "add" /\ phase' = "assign" /\ out' = out /\ todo' = osecs
      /\ UNCHANGED <<readVars, bindVars, members, shdrVars>>
  BY DEF AddDone
<1>2. out = NoOutput /\ LayoutInv
  BY <1>1 DEF IInv, LoopInv
<1>3. osecs' = osecs /\ members' = members
  BY <1>1 DEF bindVars
<1>4. \A k \in osecs : k # NoOutput
  BY DEF IInv, BindInv
<1>5. \A k : ~LaidOut(k) /\ ~LaidOut(k)'
  BY <1>1, <1>3 DEF LaidOut
<1>6. \A k \in Keys : \A n \in DOMAIN members[k] : k \in osecs /\ ~Set(k, n) /\ ~Set(k, n)'
  <2> SUFFICES ASSUME NEW k \in Keys, NEW n \in DOMAIN members[k]
               PROVE  k \in osecs /\ ~Set(k, n) /\ ~Set(k, n)'
    OBVIOUS
  <2>1. members[k] \in Seq(Slot) /\ count[k] \in Nat
    BY DEF IInv, TypeOK, BindTypes
  <2>2. Len(members[k]) = count[k]
    BY <1>1 DEF IInv, MemberInv
  <2>3. count[k] # 0
    BY <2>1, <2>2
  <2>4. k \in osecs /\ k # NoOutput
    BY <1>4, <2>3 DEF IInv, BindInv
  <2>5. QED
    BY <1>1, <1>2, <1>5, <2>4 DEF Set
<1>7. LoopInv'
  BY <1>1, <1>2, <1>3 DEF LoopInv
<1>8. LayoutInv'
  <2>1. \A k \in Keys : \A n \in DOMAIN members[k] : Member(k, n)'.offset = Unplaced
    BY <1>2, <1>3, <1>6 DEF LayoutInv, Member
  <2>2. \A o \in osecs : \A m \in 1 .. Len(members[o]) + 1 : \A t \in Nat : ~Here(o, m, t)'
    BY <1>1, <1>2, <1>4 DEF Here
  <2>3. QED
    BY <1>3, <1>5, <1>6, <2>1, <2>2 DEF LayoutInv
<1>9. AlignInv'
  <2>1. \A k \in osecs : k \in Keys
    BY DEF IInv, TypeOK, BindTypes
  <2>2. QED
    BY <1>3, <1>5, <1>6, <2>1 DEF AlignInv
<1>10. QED
  BY <1>7, <1>8, <1>9

-----------------------------------------------------------------------------
(***************************************************************************)
(* m_copy_chunk.                                                           *)
(***************************************************************************)
LEMMA CopyStatic ==
    ASSUME UNCHANGED <<readVars, bindVars, members, shdrVars>>, NEW k, NEW n, NEW j
    PROVE  /\ Member(k, n)' = Member(k, n) /\ MemberEnd(k, n)' = MemberEnd(k, n)
           /\ NextStart(k, n)' = NextStart(k, n) /\ Fill(k, n, j)' = Fill(k, n, j)
           /\ HeaderOf(Member(k, n).isec)' = HeaderOf(Member(k, n).isec)
           /\ Byte(Member(k, n).isec, j)' = Byte(Member(k, n).isec, j)
<1>1. UNCHANGED readVars /\ members' = members /\ shsize' = shsize /\ flags' = flags
  BY DEF bindVars, shdrVars
<1>2. /\ Member(k, n)' = Member(k, n) /\ MemberEnd(k, n)' = MemberEnd(k, n)
      /\ HeaderOf(Member(k, n).isec)' = HeaderOf(Member(k, n).isec)
  BY <1>1, MemberStays
<1>3. NextStart(k, n)' = NextStart(k, n)
  BY <1>1 DEF NextStart, Member
<1>4. Fill(k, n, j)' = Fill(k, n, j)
  BY <1>1, <1>2, <1>3 DEF Fill
<1>5. Byte(Member(k, n).isec, j)' = Byte(Member(k, n).isec, j)
  <2>1. Byte(Member(k, n).isec, j) = IF HeaderOf(Member(k, n).isec).type = "NOBITS" THEN Stray
               ELSE [from |-> "section", id |-> Member(k, n).isec, at |-> j]
    BY DEF Byte
  <2>2. Byte(Member(k, n).isec, j)' = IF HeaderOf(Member(k, n).isec)'.type = "NOBITS" THEN Stray
               ELSE [from |-> "section", id |-> Member(k, n)'.isec, at |-> j]
    BY DEF Byte
  <2>3. QED
    BY <1>2, <2>1, <2>2
<1>6. QED
  BY <1>2, <1>3, <1>4, <1>5

\* Where everything is laid out: the members, and the room behind them.
LEMMA CopyFacts ==
    ASSUME IInv, Laying, NEW k \in osecs, LaidOut(k)
    PROVE  /\ k \in Keys /\ shsize[k] \in Nat
           /\ DOMAIN members[k] = 1 .. Len(members[k]) /\ Len(members[k]) \in Nat
           /\ \A n \in DOMAIN members[k] :
                /\ Member(k, n).offset \in Nat /\ MemberEnd(k, n) \in Nat /\ NextStart(k, n) \in Nat
                /\ HeaderOf(Member(k, n).isec).size \in Nat
                /\ MemberEnd(k, n) = Member(k, n).offset + HeaderOf(Member(k, n).isec).size
                /\ MemberEnd(k, n) <= NextStart(k, n) /\ NextStart(k, n) <= shsize[k]
           /\ \A m, n \in DOMAIN members[k] : m < n => NextStart(k, m) <= Member(k, n).offset
<1>1. LayoutInv /\ k \in Keys /\ shsize[k] \in Nat
  BY DEF IInv, TypeOK, BindTypes, ShdrTypes
<1>2. PICK l \in Nat : l = Len(members[k]) /\ DOMAIN members[k] = 1 .. l
  BY <1>1, SetFacts
<1>3. \A n \in 1 .. l : Set(k, n)
  BY <1>2 DEF Set
<1>4. \A n \in 1 .. l :
        /\ Member(k, n).offset \in Nat /\ MemberEnd(k, n) \in Nat
        /\ HeaderOf(Member(k, n).isec).size \in Nat
        /\ MemberEnd(k, n) = Member(k, n).offset + HeaderOf(Member(k, n).isec).size
        /\ Member(k, n).offset <= MemberEnd(k, n)
  BY <1>1, <1>2, <1>3, SetFacts DEF MemberEnd
<1>5. \A m, n \in 1 .. l : m < n => MemberEnd(k, m) <= Member(k, n).offset
  BY <1>1, <1>2, <1>3 DEF LayoutInv
<1>6. l # 0 => shsize[k] = MemberEnd(k, l)
  <2>1. l # 0 => l \in DOMAIN members[k]
    BY <1>2
  <2>2. QED
    BY <1>1, <1>2, <2>1 DEF LayoutInv
<1>7. ASSUME NEW n \in 1 .. l
      PROVE  /\ NextStart(k, n) \in Nat /\ MemberEnd(k, n) <= NextStart(k, n)
             /\ NextStart(k, n) <= shsize[k]
  <2>1. CASE n < l
    <3>1. n + 1 \in 1 .. l /\ n < n + 1 /\ l \in 1 .. l
      BY <2>1
    <3>2. NextStart(k, n) = Member(k, n + 1).offset
      BY <1>2, <2>1 DEF NextStart
    <3>3. Member(k, n + 1).offset <= shsize[k]
      <4>1. PICK x, y, z \in Nat : x = Member(k, n + 1).offset /\ y = MemberEnd(k, n + 1) /\ z = shsize[k]
        BY <1>1, <1>4, <3>1
      <4>2. x <= y
        BY <1>4, <3>1, <4>1
      <4>3. CASE n + 1 = l
        BY <1>6, <4>1, <4>2, <4>3
      <4>4. CASE n + 1 # l
        <5>1. n + 1 < l
          BY <2>1, <4>4
        <5>2. PICK v, w \in Nat : v = Member(k, l).offset /\ w = MemberEnd(k, l) /\ v <= w
          BY <1>4, <3>1
        <5>3. y <= v
          BY <1>5, <3>1, <4>1, <5>1, <5>2
        <5>4. w = z
          BY <1>6, <4>1, <5>1, <5>2
        <5>5. QED
          BY <4>1, <4>2, <5>2, <5>3, <5>4
      <4>5. QED
        BY <4>3, <4>4
    <3>4. QED
      BY <1>4, <1>5, <3>1, <3>2, <3>3
  <2>2. CASE n = l
    <3>1. NextStart(k, n) = shsize[k] /\ shsize[k] = MemberEnd(k, n)
      BY <1>2, <1>6, <2>2 DEF NextStart
    <3>2. QED
      BY <1>1, <3>1
  <2>3. QED
    BY <2>1, <2>2
<1>8. ASSUME NEW m \in 1 .. l, NEW n \in 1 .. l, m < n
      PROVE  NextStart(k, m) <= Member(k, n).offset
  <2>1. m + 1 \in 1 .. l /\ m < l
    BY <1>8
  <2>2. NextStart(k, m) = Member(k, m + 1).offset
    BY <1>2, <2>1 DEF NextStart
  <2>3. CASE n = m + 1
    BY <1>4, <2>2, <2>3
  <2>4. CASE n # m + 1
    <3>1. m + 1 < n
      BY <1>8, <2>4
    <3>2. PICK x, y, z \in Nat :
            x = Member(k, m + 1).offset /\ y = MemberEnd(k, m + 1) /\ z = Member(k, n).offset /\ x <= y
      BY <1>4, <2>1
    <3>3. y <= z
      BY <1>5, <2>1, <3>1, <3>2
    <3>4. QED
      BY <2>2, <3>2, <3>3
  <2>5. QED
    BY <2>3, <2>4
<1>9. QED
  BY <1>1, <1>2, <1>4, <1>7, <1>8

\* A byte belongs to one member at most; none is behind a member's end.
LEMMA CoveringFacts ==
    ASSUME IInv, Laying, NEW k \in osecs, LaidOut(k), NEW n \in DOMAIN members[k]
    PROVE  /\ \A i \in Nat : Member(k, n).offset <= i /\ i < MemberEnd(k, n) => Covering(k, i) = {n}
           /\ \A i \in Nat : MemberEnd(k, n) <= i /\ i < NextStart(k, n) => Covering(k, i) = {}
<1>1. /\ DOMAIN members[k] = 1 .. Len(members[k]) /\ Len(members[k]) \in Nat
      /\ \A m \in DOMAIN members[k] :
           /\ Member(k, m).offset \in Nat /\ MemberEnd(k, m) \in Nat /\ NextStart(k, m) \in Nat
           /\ Member(k, m).offset <= MemberEnd(k, m) /\ MemberEnd(k, m) <= NextStart(k, m)
      /\ \A a, b \in DOMAIN members[k] : a < b => NextStart(k, a) <= Member(k, b).offset
  BY CopyFacts
<1>2. PICK p, q, r \in Nat : p = Member(k, n).offset /\ q = MemberEnd(k, n) /\ r = NextStart(k, n)
                             /\ p <= q /\ q <= r
  BY <1>1
<1>3. ASSUME NEW i \in Nat, NEW m \in Covering(k, i)
      PROVE  m = n \/ i < p \/ i >= r
  <2>1. m \in DOMAIN members[k] /\ Member(k, m).offset <= i /\ i < MemberEnd(k, m)
    BY <1>3 DEF Covering
  <2>2. PICK x, y, z \in Nat : x = Member(k, m).offset /\ y = MemberEnd(k, m) /\ z = NextStart(k, m)
                               /\ x <= i /\ i < y /\ y <= z
    BY <1>1, <2>1
  <2>3. CASE m < n
    <3>1. z <= p
      BY <1>1, <1>2, <2>1, <2>2, <2>3
    <3>2. QED
      BY <2>2, <3>1
  <2>4. CASE n < m
    <3>1. r <= x
      BY <1>1, <1>2, <2>1, <2>2, <2>4
    <3>2. QED
      BY <2>2, <3>1
  <2>5. m \in Nat /\ n \in Nat
    BY <1>1, <2>1
  <2>6. QED
    BY <2>3, <2>4, <2>5
<1>4. ASSUME NEW i \in Nat, p <= i, i < q PROVE Covering(k, i) = {n}
  <2>1. n \in Covering(k, i)
    BY <1>2, <1>4 DEF Covering
  <2>2. i < r
    BY <1>2, <1>4
  <2>3. \A m \in Covering(k, i) : m = n
    BY <1>3, <1>4, <2>2
  <2>4. QED
    BY <2>1, <2>3
<1>5. ASSUME NEW i \in Nat, q <= i, i < r PROVE Covering(k, i) = {}
  <2>1. p <= i
    BY <1>2, <1>5
  <2>2. n \notin Covering(k, i)
    BY <1>2, <1>5 DEF Covering
  <2>3. \A m \in Covering(k, i) : m = n
    BY <1>3, <1>5, <2>1
  <2>4. QED
    BY <2>2, <2>3
<1>6. QED
  BY <1>2, <1>4, <1>5

\* The bytes of an output section that no step is about stay what they are.
LEMMA ImageStays ==
    ASSUME UNCHANGED <<readVars, bindVars, members, shdrVars>>, NEW k, image'[k] = image[k],
           ImageOf(k), Copied(k)' <=> Copied(k),
           \A n \in DOMAIN members[k] : Padded(k, n)' <=> Padded(k, n)
    PROVE  ImageOf(k)'
<1>1. members' = members /\ shsize' = shsize
  BY DEF shdrVars
<1>2. \A n, j : /\ Member(k, n)' = Member(k, n) /\ MemberEnd(k, n)' = MemberEnd(k, n)
                /\ NextStart(k, n)' = NextStart(k, n) /\ Fill(k, n, j)' = Fill(k, n, j)
                /\ HeaderOf(Member(k, n).isec)' = HeaderOf(Member(k, n).isec)
                /\ Byte(Member(k, n).isec, j)' = Byte(Member(k, n).isec, j)
  BY CopyStatic
<1>3. ASSUME Copied(k)', NEW n \in DOMAIN members[k],
             NEW j \in 0 .. HeaderOf(Member(k, n).isec)'.size - 1
      PROVE  image'[k][Member(k, n)'.offset + j] = Byte(Member(k, n).isec, j)'
  <2>1. j \in 0 .. HeaderOf(Member(k, n).isec).size - 1
    BY <1>2
  <2>2. image[k][Member(k, n).offset + j] = Byte(Member(k, n).isec, j)
    BY <1>3, <2>1 DEF ImageOf
  <2>3. QED
    BY <1>2, <2>2
<1>4. ASSUME NEW n \in DOMAIN members[k],
             NEW j \in 0 .. NextStart(k, n)' - MemberEnd(k, n)' - 1
      PROVE  image'[k][MemberEnd(k, n)' + j] = IF Padded(k, n)' THEN Fill(k, n, j)' ELSE Zero
  <2>1. j \in 0 .. NextStart(k, n) - MemberEnd(k, n) - 1
    BY <1>2
  <2>2. image[k][MemberEnd(k, n) + j] = IF Padded(k, n) THEN Fill(k, n, j) ELSE Zero
    BY <2>1 DEF ImageOf
  <2>3. QED
    BY <1>2, <2>2
<1>5. DOMAIN image'[k] = 0 .. shsize'[k] - 1
  BY <1>1 DEF ImageOf
<1>6. QED
  BY <1>1, <1>3, <1>4, <1>5 DEF ImageOf

LEMMA OpenImageStep ==
    ASSUME IInv, OpenOutputFile
    PROVE  ImageInv'
<1>1. /\ phase = "assign" /\ phase' = "copy" /\ out = NoOutput /\ todo = {}
      /\ todo' = {k \in osecs : shsize[k] # 0}
      /\ image' = [k \in Keys |-> [n \in 0 .. shsize[k] - 1 |-> Zero]]
      /\ UNCHANGED <<readVars, bindVars, members, shdrVars>>
  BY DEF OpenOutputFile
<1>2. osecs' = osecs /\ members' = members /\ shsize' = shsize /\ Laying
  BY <1>1 DEF bindVars, shdrVars, Laying
<1>3. ASSUME NEW k \in osecs PROVE ImageOf(k)'
  <2>1. k # NoOutput
    BY DEF IInv, BindInv
  <2>2. LaidOut(k)
    BY <1>1, <2>1 DEF LaidOut
  <2>3. ~Copied(k)'
    BY <1>1, <1>2 DEF Copied
  <2>4. \A n : ~Padded(k, n)'
    BY <2>3 DEF Padded
  <2>5. k \in Keys /\ shsize[k] \in Nat
    BY <1>2, <2>2, CopyFacts
  <2>6. image'[k] = [n \in 0 .. shsize[k] - 1 |-> Zero]
    BY <1>1, <2>5
  <2>7. ASSUME NEW n \in DOMAIN members[k], NEW j \in 0 .. NextStart(k, n)' - MemberEnd(k, n)' - 1
        PROVE  image'[k][MemberEnd(k, n)' + j] = Zero
    <3>1. j \in 0 .. NextStart(k, n) - MemberEnd(k, n) - 1 /\ MemberEnd(k, n)' = MemberEnd(k, n)
      BY <1>1, CopyStatic
    <3>2. MemberEnd(k, n) \in Nat /\ NextStart(k, n) \in Nat /\ NextStart(k, n) <= shsize[k]
      BY <1>2, <2>2, CopyFacts
    <3>3. MemberEnd(k, n) + j \in 0 .. shsize[k] - 1
      BY <2>5, <3>1, <3>2
    <3>4. QED
      BY <2>6, <3>1, <3>3
  <2>8. DOMAIN image'[k] = 0 .. shsize'[k] - 1
    BY <1>2, <2>6
  <2>9. QED
    BY <1>2, <2>3, <2>4, <2>7, <2>8 DEF ImageOf
<1>4. DOMAIN image' = Keys
  BY <1>1
<1>5. QED
  BY <1>2, <1>3, <1>4 DEF ImageInv

LEMMA BeginCopyStep ==
    ASSUME IInv, BeginCopy
    PROVE  ImageInv'
<1>1. PICK o : o = out'
  OBVIOUS
<1> DEFINE bytes == [n \in DOMAIN image[o] |->
                       LET on == Covering(o, n) IN
                       IF on = {} THEN image[o][n]
                       ELSE Byte(Member(o, Max(on)).isec, n - Member(o, Max(on)).offset)]
<1>2. /\ phase = "copy" /\ phase' = phase /\ out = NoOutput /\ o \in todo /\ todo' = todo \ {o}
      /\ out' = o /\ member' = 1 /\ image' = [image EXCEPT ![o] = bytes]
      /\ UNCHANGED <<readVars, bindVars, members, shdrVars>>
  BY <1>1 DEF BeginCopy
<1>3. osecs' = osecs /\ members' = members /\ shsize' = shsize /\ Laying
  BY <1>2 DEF bindVars, shdrVars, Laying
<1>4. ImageInv /\ LoopInv /\ TypeOK /\ BindInv
  BY DEF IInv
<1>5. o \in osecs /\ o # NoOutput /\ o \in Keys
  BY <1>2, <1>4 DEF LoopInv, BindInv, TypeOK, BindTypes
<1>6. LaidOut(o) /\ ImageOf(o)
  BY <1>2, <1>4, <1>5 DEF LaidOut, ImageInv
<1>7. DOMAIN image' = Keys /\ image'[o] = bytes /\ \A k \in Keys : k # o => image'[k] = image[k]
  BY <1>2, <1>4, <1>5 DEF ImageInv
<1>8. /\ DOMAIN members[o] = 1 .. Len(members[o]) /\ Len(members[o]) \in Nat /\ shsize[o] \in Nat
      /\ \A n \in DOMAIN members[o] :
                /\ Member(o, n).offset \in Nat /\ MemberEnd(o, n) \in Nat /\ NextStart(o, n) \in Nat
                /\ HeaderOf(Member(o, n).isec).size \in Nat
                /\ MemberEnd(o, n) = Member(o, n).offset + HeaderOf(Member(o, n).isec).size
                /\ MemberEnd(o, n) <= NextStart(o, n) /\ NextStart(o, n) <= shsize[o]
  BY <1>3, <1>5, <1>6, CopyFacts
<1>9. DOMAIN bytes = 0 .. shsize[o] - 1
  BY <1>6 DEF ImageOf
<1>10. ASSUME NEW n \in DOMAIN members[o], NEW j \in 0 .. HeaderOf(Member(o, n).isec).size - 1
       PROVE  bytes[Member(o, n).offset + j] = Byte(Member(o, n).isec, j)
  <2>1. PICK p, s \in Nat : p = Member(o, n).offset /\ s = HeaderOf(Member(o, n).isec).size
    BY <1>8
  <2>2. PICK i \in Nat : i = p + j
    BY <2>1
  <2>0. j \in Nat /\ j < s
    BY <2>1
  <2>3. p <= i /\ i < p + s /\ i - p = j /\ p + s = MemberEnd(o, n)
    <3>1. p <= i /\ i < p + s /\ i - p = j
      BY <2>0, <2>2
    <3>2. p + s = MemberEnd(o, n)
      BY <1>8, <2>1
    <3>3. QED
      BY <3>1, <3>2
  <2>4. p + s <= shsize[o]
    <3>1. MemberEnd(o, n) <= NextStart(o, n) /\ NextStart(o, n) <= shsize[o]
          /\ MemberEnd(o, n) \in Nat /\ NextStart(o, n) \in Nat
      BY <1>8
    <3>2. QED
      BY <1>8, <2>3, <3>1
  <2>5. i \in DOMAIN bytes
    BY <1>8, <1>9, <2>3, <2>4
  <2>6. Covering(o, i) = {n}
    BY <1>3, <1>5, <1>6, <2>1, <2>3, CoveringFacts
  <2>7. Max({n}) = n
    <3>1. n \in Nat /\ {n} = {n, n}
      BY <1>8
    <3>2. QED
      BY <3>1, MaxOfTwo
  <2>8. bytes[i] = Byte(Member(o, n).isec, i - Member(o, n).offset)
    BY <2>5, <2>6, <2>7
  <2> HIDE DEF bytes
  <2>9. QED
    BY <2>1, <2>2, <2>3, <2>8
<1>11. \A n \in DOMAIN members[o] : ~Padded(o, n) /\ ~Padded(o, n)'
  <2>1. ~Copied(o)
    BY <1>2 DEF Copied
  <2>2. \A n \in DOMAIN members[o] : ~(n < 1)
    BY <1>8
  <2>3. QED
    BY <1>2, <2>1, <2>2 DEF Padded
<1>12. ASSUME NEW n \in DOMAIN members[o], NEW j \in 0 .. NextStart(o, n) - MemberEnd(o, n) - 1
       PROVE  bytes[MemberEnd(o, n) + j] = Zero
  <2>1. PICK q, r \in Nat : q = MemberEnd(o, n) /\ r = NextStart(o, n) /\ r <= shsize[o]
    BY <1>8
  <2>2. PICK i : i = q + j /\ i \in Nat /\ q <= i /\ i < r /\ i \in 0 .. shsize[o] - 1
    <3>1. PICK z \in Nat : z = shsize[o]
      BY <1>8
    <3>2. j \in 0 .. r - q - 1
      BY <2>1
    <3>3. PICK i \in Nat : i = q + j /\ q <= i /\ i < r /\ i \in 0 .. z - 1
      BY <2>1, <3>1, <3>2
    <3>4. QED
      BY <3>1, <3>3
  <2>3. Covering(o, i) = {}
    BY <1>3, <1>5, <1>6, <2>1, <2>2, CoveringFacts
  <2>4. bytes[i] = image[o][i]
    BY <1>9, <2>2, <2>3
  <2>5. image[o][i] = Zero
    BY <1>6, <1>11, <2>1, <2>2 DEF ImageOf
  <2>6. QED
    BY <2>1, <2>2, <2>4, <2>5
<1> HIDE DEF bytes
<1>13. ImageOf(o)'
  <2>1. ASSUME NEW n \in DOMAIN members[o], NEW j \in 0 .. HeaderOf(Member(o, n).isec)'.size - 1
        PROVE  image'[o][Member(o, n)'.offset + j] = Byte(Member(o, n).isec, j)'
    <3>1. Member(o, n)' = Member(o, n) /\ HeaderOf(Member(o, n).isec)' = HeaderOf(Member(o, n).isec)
          /\ Byte(Member(o, n).isec, j)' = Byte(Member(o, n).isec, j)
      BY <1>2, CopyStatic
    <3>2. QED
      BY <1>7, <1>10, <3>1
  <2>2. ASSUME NEW n \in DOMAIN members[o], NEW j \in 0 .. NextStart(o, n)' - MemberEnd(o, n)' - 1
        PROVE  image'[o][MemberEnd(o, n)' + j] = IF Padded(o, n)' THEN Fill(o, n, j)' ELSE Zero
    <3>1. MemberEnd(o, n)' = MemberEnd(o, n) /\ NextStart(o, n)' = NextStart(o, n)
      BY <1>2, CopyStatic
    <3>2. QED
      BY <1>7, <1>11, <1>12, <3>1
  <2>3. QED
    BY <1>3, <1>7, <1>9, <2>1, <2>2 DEF ImageOf
<1>14. ASSUME NEW k \in osecs, k # o PROVE ImageOf(k)'
  <2>1. k \in Keys /\ k # NoOutput
    BY <1>4 DEF TypeOK, BindTypes, BindInv
  <2>2. Copied(k)' <=> Copied(k)
    BY <1>2, <1>3, <1>14 DEF Copied
  <2>3. \A n \in DOMAIN members[k] : Padded(k, n)' <=> Padded(k, n)
    BY <1>2, <1>14, <2>1, <2>2 DEF Padded
  <2>4. ImageOf(k) /\ image'[k] = image[k]
    BY <1>2, <1>4, <1>7, <1>14, <2>1 DEF ImageInv
  <2>5. QED
    BY <1>2, <2>2, <2>3, <2>4, ImageStays
<1>15. QED
  BY <1>3, <1>7, <1>13, <1>14 DEF ImageInv

LEMMA PadMemberStep ==
    ASSUME IInv, PadMember
    PROVE  ImageInv'
<1>1. PICK o, m : o = out /\ m = member
  OBVIOUS
<1> DEFINE bytes == [i \in DOMAIN image[o] |->
                       IF i < MemberEnd(o, m) THEN image[o][i] ELSE Padding(o, m, i)]
<1>2. /\ phase = "copy" /\ phase' = phase /\ o # NoOutput /\ out' = o /\ todo' = todo
      /\ m \in DOMAIN members[o] /\ member' = m + 1 /\ image' = [image EXCEPT ![o] = bytes]
      /\ UNCHANGED <<readVars, bindVars, members, shdrVars>>
  BY <1>1 DEF PadMember
<1>3. osecs' = osecs /\ members' = members /\ shsize' = shsize /\ Laying
  BY <1>2 DEF bindVars, shdrVars, Laying
<1>4. ImageInv /\ LoopInv /\ TypeOK
  BY DEF IInv
<1>5. o \in osecs /\ o \notin todo /\ o \in Keys /\ shsize[o] # 0
  BY <1>1, <1>2, <1>4 DEF LoopInv, TypeOK, BindTypes
<1>6. LaidOut(o) /\ ImageOf(o) /\ Copied(o) /\ Copied(o)'
  BY <1>2, <1>3, <1>4, <1>5 DEF LaidOut, ImageInv, Copied
<1>7. DOMAIN image' = Keys /\ image'[o] = bytes /\ \A k \in Keys : k # o => image'[k] = image[k]
  BY <1>2, <1>4, <1>5 DEF ImageInv
<1>8. /\ DOMAIN members[o] = 1 .. Len(members[o]) /\ Len(members[o]) \in Nat /\ shsize[o] \in Nat
      /\ \A n \in DOMAIN members[o] :
                /\ Member(o, n).offset \in Nat /\ MemberEnd(o, n) \in Nat /\ NextStart(o, n) \in Nat
                /\ HeaderOf(Member(o, n).isec).size \in Nat
                /\ MemberEnd(o, n) = Member(o, n).offset + HeaderOf(Member(o, n).isec).size
                /\ MemberEnd(o, n) <= NextStart(o, n) /\ NextStart(o, n) <= shsize[o]
      /\ \A a, b \in DOMAIN members[o] : a < b => NextStart(o, a) <= Member(o, b).offset
  BY <1>3, <1>5, <1>6, CopyFacts
<1>9. DOMAIN image[o] = 0 .. shsize[o] - 1 /\ DOMAIN bytes = 0 .. shsize[o] - 1
  BY <1>6 DEF ImageOf
<1>10. PICK e, r, size \in Nat : e = MemberEnd(o, m) /\ r = NextStart(o, m) /\ e <= r /\ size = r - e
                                 /\ r <= shsize[o]
  <2>1. PICK e, r \in Nat : e = MemberEnd(o, m) /\ r = NextStart(o, m) /\ e <= r /\ r <= shsize[o]
    BY <1>2, <1>8
  <2>2. r - e \in Nat
    BY <2>1
  <2>3. QED
    BY <2>1, <2>2
<1>11. size \div 2 \in Nat /\ 2 * (size \div 2) <= size
  OBVIOUS
<1>12. \A i \in 0 .. shsize[o] - 1 : i < e \/ i >= r => bytes[i] = image[o][i]
  <2> SUFFICES ASSUME NEW i \in 0 .. shsize[o] - 1, i < e \/ i >= r PROVE bytes[i] = image[o][i]
    OBVIOUS
  <2>1. CASE i < e
    BY <1>9, <1>10, <2>1
  <2>2. CASE i >= r
    <3>1. ~(i < NextStart(o, m)) /\ ~(i - e < 2 * (size \div 2))
      <4>1. PICK h \in Int : h = 2 * (size \div 2) /\ h <= size
        BY <1>11
      <4>2. i \in Int
        BY <1>8
      <4>3. ~(i < r) /\ ~(i - e < h)
        BY <1>10, <2>2, <4>1, <4>2
      <4>4. QED
        BY <1>10, <4>1, <4>3
    <3>2. Padding(o, m, i) = image[o][i]
      BY <1>10, <3>1 DEF Padding
    <3>3. QED
      BY <1>9, <3>2
  <2>3. QED
    BY <2>1, <2>2
<1>13. \A i \in e .. r - 1 : bytes[i] = Fill(o, m, i - e)
  <2> SUFFICES ASSUME NEW i \in e .. r - 1 PROVE bytes[i] = Fill(o, m, i - e)
    OBVIOUS
  <2>1. i \in 0 .. shsize[o] - 1 /\ ~(i < e) /\ i < NextStart(o, m)
    BY <1>8, <1>10
  <2>2. bytes[i] = Padding(o, m, i)
    BY <1>9, <1>10, <2>1
  <2>3. image[o][i] = Zero
    <3>1. ~Padded(o, m)
      <4>1. ~(m < m)
        BY <1>2, <1>8
      <4>2. QED
        BY <1>1, <4>1 DEF Padded
    <3>2. i - e \in 0 .. NextStart(o, m) - MemberEnd(o, m) - 1 /\ MemberEnd(o, m) + (i - e) = i
      BY <1>10
    <3>3. QED
      BY <1>2, <1>6, <3>1, <3>2 DEF ImageOf
  <2>4. Padding(o, m, i) = Fill(o, m, i - e)
    BY <1>10, <2>1, <2>3 DEF Padding, Fill
  <2>5. QED
    BY <2>2, <2>4
<1> HIDE DEF bytes
<1>14. ASSUME NEW n \in DOMAIN members[o], n # m
       PROVE  (MemberEnd(o, n) <= e /\ NextStart(o, n) <= e) \/ Member(o, n).offset >= r
  <2>1. CASE n < m
    <3>1. PICK w, x, y, z \in Nat : w = MemberEnd(o, n) /\ x = NextStart(o, n)
                 /\ y = Member(o, m).offset /\ z = HeaderOf(Member(o, m).isec).size
                 /\ w <= x /\ e = y + z
      BY <1>2, <1>8, <1>10
    <3>2. x <= y
      BY <1>2, <1>8, <2>1, <3>1
    <3>3. QED
      BY <3>1, <3>2
  <2>2. CASE m < n
    <3>1. NextStart(o, m) <= Member(o, n).offset /\ Member(o, n).offset \in Nat
      BY <1>2, <1>8, <2>2
    <3>2. QED
      BY <1>10, <3>1
  <2>3. n \in Nat /\ m \in Nat
    BY <1>2, <1>8
  <2>4. QED
    BY <1>14, <2>1, <2>2, <2>3
<1>15. ASSUME NEW n \in DOMAIN members[o], NEW j \in 0 .. HeaderOf(Member(o, n).isec).size - 1
       PROVE  bytes[Member(o, n).offset + j] = Byte(Member(o, n).isec, j)
  <2>1. PICK p, s, f \in Nat : p = Member(o, n).offset /\ s = HeaderOf(Member(o, n).isec).size
                            /\ f = MemberEnd(o, n) /\ f = p + s /\ f <= shsize[o]
    <3>1. PICK p, s, f, g \in Nat : p = Member(o, n).offset /\ s = HeaderOf(Member(o, n).isec).size
                            /\ f = MemberEnd(o, n) /\ f = p + s /\ g = NextStart(o, n)
                            /\ f <= g /\ g <= shsize[o]
      BY <1>8
    <3>2. f <= shsize[o]
      BY <1>8, <3>1
    <3>3. QED
      BY <3>1, <3>2
  <2>2. j \in Nat /\ j < s /\ p + j \in 0 .. shsize[o] - 1 /\ p + j < f /\ p <= p + j
    <3>1. PICK z \in Nat : z = shsize[o]
      BY <1>8
    <3>2. j \in 0 .. s - 1
      BY <2>1
    <3>3. j \in Nat /\ j < s /\ p + j \in 0 .. z - 1 /\ p + j < f /\ p <= p + j
      BY <2>1, <3>1, <3>2
    <3>4. QED
      BY <3>1, <3>3
  <2>3. p + j < e \/ p + j >= r
    <3>1. CASE n = m
      BY <1>10, <2>1, <2>2, <3>1
    <3>2. CASE n # m
      <4>1. f <= e \/ p >= r
        BY <1>14, <2>1, <3>2
      <4>2. QED
        BY <2>1, <2>2, <4>1
    <3>3. QED
      BY <3>1, <3>2
  <2>4. bytes[p + j] = image[o][p + j]
    BY <1>12, <2>2, <2>3
  <2>5. image[o][p + j] = Byte(Member(o, n).isec, j)
    BY <1>6, <2>1 DEF ImageOf
  <2>6. QED
    BY <2>1, <2>4, <2>5
<1>16. ASSUME NEW n \in DOMAIN members[o], NEW j \in 0 .. NextStart(o, n) - MemberEnd(o, n) - 1
       PROVE  bytes[MemberEnd(o, n) + j] = IF Padded(o, n)' THEN Fill(o, n, j) ELSE Zero
  <2>0. n \in Nat /\ m \in Nat
    BY <1>2, <1>8
  <2>1. Padded(o, n)' <=> n < m + 1
    BY <1>2, <1>6 DEF Padded
  <2>2. Padded(o, n) <=> n < m
    BY <1>1, <1>6 DEF Padded
  <2>3. CASE n = m
    <3>1. n < m + 1
      BY <2>0, <2>3
    <3>2. e + j \in e .. r - 1 /\ (e + j) - e = j
      <4>1. e \in Nat /\ r \in Nat /\ j \in 0 .. r - e - 1
        BY <1>10, <2>3
      <4>2. QED
        BY <4>1
    <3>3. bytes[e + j] = Fill(o, m, j)
      BY <1>13, <3>2
    <3>4. Padded(o, n)'
      BY <2>1, <3>1
    <3>5. MemberEnd(o, n) = e
      BY <1>10, <2>3
    <3>6. QED
      BY <2>3, <3>3, <3>4, <3>5
  <2>4. CASE n # m
    <3>1. PICK p, f, g \in Nat : p = Member(o, n).offset /\ f = MemberEnd(o, n)
                            /\ g = NextStart(o, n) /\ p <= f /\ f <= g /\ g <= shsize[o]
      <4>1. PICK p, f, g, s \in Nat : /\ p = Member(o, n).offset /\ f = MemberEnd(o, n)
                                      /\ g = NextStart(o, n)
                                      /\ s = HeaderOf(Member(o, n).isec).size /\ f = p + s
        BY <1>8
      <4>2. f <= g /\ g <= shsize[o]
        BY <1>8, <4>1
      <4>3. p <= f
        BY <4>1
      <4>4. QED
        BY <4>1, <4>2, <4>3
    <3>0. PICK i \in Nat : i = f + j /\ f <= i /\ i < g
      BY <3>1
    <3>2. i < e \/ i >= r
      <4>1. g <= e \/ p >= r
        BY <1>14, <2>4, <3>1
      <4>2. QED
        BY <1>10, <3>0, <3>1, <4>1
    <3>3. i \in 0 .. shsize[o] - 1
      <4>1. PICK z \in Nat : z = shsize[o]
        BY <1>8
      <4>2. i \in 0 .. z - 1
        BY <3>0, <3>1, <4>1
      <4>3. QED
        BY <4>1, <4>2
    <3>4. bytes[i] = image[o][i]
      BY <1>12, <3>2, <3>3
    <3>5. image[o][i] = IF Padded(o, n) THEN Fill(o, n, j) ELSE Zero
      BY <1>6, <3>0, <3>1 DEF ImageOf
    <3>6. n < m + 1 <=> n < m
      BY <2>0, <2>4
    <3>7. QED
      BY <2>1, <2>2, <3>0, <3>1, <3>4, <3>5, <3>6
  <2>5. QED
    BY <2>3, <2>4
<1>17. ImageOf(o)'
  <2>1. ASSUME NEW n \in DOMAIN members[o], NEW j \in 0 .. HeaderOf(Member(o, n).isec)'.size - 1
        PROVE  image'[o][Member(o, n)'.offset + j] = Byte(Member(o, n).isec, j)'
    <3>1. Member(o, n)' = Member(o, n) /\ HeaderOf(Member(o, n).isec)' = HeaderOf(Member(o, n).isec)
          /\ Byte(Member(o, n).isec, j)' = Byte(Member(o, n).isec, j)
      BY <1>2, CopyStatic
    <3>2. QED
      BY <1>7, <1>15, <3>1
  <2>2. ASSUME NEW n \in DOMAIN members[o], NEW j \in 0 .. NextStart(o, n)' - MemberEnd(o, n)' - 1
        PROVE  image'[o][MemberEnd(o, n)' + j] = IF Padded(o, n)' THEN Fill(o, n, j)' ELSE Zero
    <3>1. MemberEnd(o, n)' = MemberEnd(o, n) /\ NextStart(o, n)' = NextStart(o, n)
          /\ Fill(o, n, j)' = Fill(o, n, j)
      BY <1>2, CopyStatic
    <3>2. bytes[MemberEnd(o, n) + j] = IF Padded(o, n)' THEN Fill(o, n, j) ELSE Zero
      BY <1>16, <3>1
    <3>3. QED
      BY <1>7, <3>1, <3>2
  <2>3. QED
    BY <1>3, <1>7, <1>9, <2>1, <2>2 DEF ImageOf
<1>18. ASSUME NEW k \in osecs, k # o PROVE ImageOf(k)'
  <2>1. k \in Keys
    BY <1>4 DEF TypeOK, BindTypes
  <2>2. Copied(k)' <=> Copied(k)
    BY <1>2, <1>3 DEF Copied
  <2>3. \A n \in DOMAIN members[k] : Padded(k, n)' <=> Padded(k, n)
    BY <1>1, <1>2, <1>18, <2>2 DEF Padded
  <2>4. ImageOf(k) /\ image'[k] = image[k]
    BY <1>2, <1>4, <1>7, <1>18, <2>1 DEF ImageInv
  <2>5. QED
    BY <1>2, <2>2, <2>3, <2>4, ImageStays
<1>19. QED
  BY <1>3, <1>7, <1>17, <1>18 DEF ImageInv

LEMMA CopyEndStep ==
    ASSUME IInv, CopyEnd \/ CopyDone \/ Terminated
    PROVE  ImageInv'
<1>1. /\ phase \in {"copy", "done"} /\ phase' \in {"copy", "done"} /\ todo' = todo
      /\ image' = image /\ UNCHANGED <<readVars, bindVars, members, shdrVars>>
  BY DEF CopyEnd, CopyDone, Terminated, Ended, vars, workVars
<1>2. ImageInv /\ LoopInv /\ TypeOK /\ BindInv
  BY DEF IInv
<1>3. osecs' = osecs /\ members' = members /\ shsize' = shsize /\ Laying
  BY <1>1 DEF bindVars, shdrVars, Laying
<1>4. \A k \in osecs : Copied(k)' <=> Copied(k)
  BY <1>1, <1>3 DEF Copied
<1>5. ASSUME NEW k \in osecs, NEW n \in DOMAIN members[k] PROVE Padded(k, n)' <=> Padded(k, n)
  <2>1. k # NoOutput /\ k \in Keys
    BY <1>2 DEF BindInv, TypeOK, BindTypes
  <2>2. CASE CopyEnd
    <3>1. out # NoOutput /\ member \notin DOMAIN members[out] /\ out' = NoOutput
      BY <2>2 DEF CopyEnd
    <3>2. k = out => n < member
      <4>1. k = out => member \in 1 .. Len(members[k]) + 1 /\ member \notin DOMAIN members[k]
        BY <1>2, <3>1 DEF LoopInv
      <4>2. DOMAIN members[k] = 1 .. Len(members[k]) /\ Len(members[k]) \in Nat
        BY <1>3, <2>1, SetFacts
      <4>3. QED
        BY <4>1, <4>2
    <3>3. QED
      BY <1>4, <2>1, <3>1, <3>2 DEF Padded
  <2>3. CASE CopyDone \/ Terminated
    <3>1. out' = out /\ out = NoOutput
      BY <1>2, <2>3 DEF CopyDone, Terminated, Ended, vars, workVars, LoopInv
    <3>2. QED
      BY <1>4, <2>1, <3>1 DEF Padded
  <2>4. QED
    BY <2>2, <2>3
<1>6. \A k \in osecs : ImageOf(k)'
  <2> TAKE k \in osecs
  <2>1. ImageOf(k) /\ image'[k] = image[k]
    BY <1>1, <1>2 DEF ImageInv
  <2>2. QED
    BY <1>1, <1>4, <1>5, <2>1, ImageStays
<1>7. QED
  BY <1>1, <1>2, <1>3, <1>6 DEF ImageInv

-----------------------------------------------------------------------------
(***************************************************************************)
(* The invariant holds in every step of Next.                              *)
(***************************************************************************)
Early == {"read", "merge", "count", "bind", "add"}

\* Before Assign_input_section_offset no member has an offset.
LEMMA EarlyStep ==
    ASSUME IInv, UNCHANGED <<workVars, shdrVars, image>>, phase \in Early, phase' \in Early,
           phase' = "count" => at' = 1,
           \A k \in Keys : \A n \in DOMAIN members'[k] : members'[k][n].offset = Unplaced
    PROVE  LoopInv' /\ LayoutInv' /\ AlignInv' /\ ImageInv'
<1>1. out = NoOutput /\ out' = NoOutput /\ image' = image
  BY DEF IInv, LoopInv, Early, workVars
<1>2. LoopInv'
  BY <1>1 DEF LoopInv, Early
<1>3. ~(phase' \in {"assign", "copy", "done"})
  BY DEF Early
<1>4. \A k, n : ~Set(k, n)' /\ ~LaidOut(k)'
  BY <1>3 DEF Set, LaidOut
<1>5. \A o, m, t : ~Here(o, m, t)'
  BY <1>3 DEF Here
<1>6. LayoutInv'
  <2>1. \A k \in Keys : \A n \in DOMAIN members'[k] : Member(k, n)'.offset = Unplaced
    BY DEF Member
  <2>2. QED
    BY <1>4, <1>5, <2>1 DEF LayoutInv
<1>7. AlignInv'
  BY <1>3 DEF AlignInv
<1>8. ImageInv'
  BY <1>1, <1>3 DEF IInv, ImageInv
<1>9. QED
  BY <1>2, <1>6, <1>7, <1>8

LEMMA ReadingSteps ==
    ASSUME IInv, ReadFile \/ InitMergeableSection
    PROVE  IInv'
<1>1. /\ UNCHANGED <<bindVars, members, workVars, shdrVars, image>>
      /\ phase \in {"read", "merge"} /\ phase' \in {"read", "merge", "count"}
      /\ phase' = "count" => at' = 1
  <2>1. CASE ReadFile
    <3>1. /\ UNCHANGED <<bindVars, members, workVars, shdrVars, image>>
          /\ phase = "read" /\ NextFile("merge")
      BY <2>1 DEF ReadFile
    <3>2. QED
      BY <3>1, NextFileFacts DEF IInv, TypeOK
  <2>2. CASE InitMergeableSection
    <3>1. /\ UNCHANGED <<bindVars, members, workVars, shdrVars, image>>
          /\ phase = "merge" /\ NextFile("count")
      BY <2>2 DEF InitMergeableSection
    <3>2. QED
      BY <3>1, NextFileFacts DEF IInv, TypeOK
  <2>3. QED
    BY <2>1, <2>2
<1>2. FileTypes' /\ LoopTypes' /\ ReadInv'
  BY ReadFileStep, MergeStep DEF IInv
<1>3. /\ osecs' = osecs /\ count' = count /\ flags' = flags /\ bound' = bound /\ members' = members
      /\ out' = out /\ todo' = todo /\ member' = member /\ cursor' = cursor /\ top' = top
      /\ shsize' = shsize /\ shalign' = shalign
  BY <1>1 DEF bindVars, workVars, shdrVars
<1>4. TypeOK'
  <2>1. BindTypes' /\ WorkTypes' /\ ShdrTypes'
    BY <1>3 DEF IInv, TypeOK, BindTypes, WorkTypes, ShdrTypes
  <2>2. QED
    BY <1>2, <2>1 DEF TypeOK
<1>5. BindInv'
  BY <1>1, <1>3 DEF IInv, BindInv
<1>6. MemberInv'
  BY <1>1, <1>3 DEF IInv, MemberInv
<1>7. \A k \in Keys : \A n \in DOMAIN members'[k] : members'[k][n].offset = Unplaced
  <2>1. \A k \in Keys : members'[k] = <<>>
    BY <1>1, <1>3 DEF IInv, MemberInv
  <2>2. DOMAIN <<>> = {}
    OBVIOUS
  <2>3. QED
    BY <2>1, <2>2
<1>8. LoopInv' /\ LayoutInv' /\ AlignInv' /\ ImageInv'
  <2>1. phase \in Early /\ phase' \in Early
    BY <1>1 DEF Early
  <2>2. QED
    BY <1>1, <1>7, <2>1, EarlyStep
<1>9. QED
  BY <1>2, <1>4, <1>5, <1>6, <1>8 DEF IInv

\* What was read stays.
LEMMA ReadLater ==
    ASSUME IInv, UNCHANGED readVars, phase # "read", phase' # "read"
    PROVE  FileTypes' /\ ReadInv'
<1>1. files' = files /\ state' = state /\ listed' = listed /\ relCount' = relCount
  BY StaticSections
<1>2. \A f \in Files : Read(f) /\ Read(f)'
  BY DEF Read
<1>3. QED
  BY <1>1, <1>2 DEF IInv, TypeOK, FileTypes, ReadInv

LEMMA BindingSteps ==
    ASSUME IInv, CountSections \/ SkipSection \/ BindSection \/ InsertOutputSections \/ AddMember
    PROVE  IInv'
<1>1. /\ UNCHANGED <<readVars, workVars, shdrVars, image>>
      /\ phase \in {"count", "bind", "add"} /\ phase' \in {"bind", "add"}
      /\ phase' = "bind" => phase \in {"count", "bind"} /\ members' = members
      /\ todo' = todo /\ osecs \subseteq osecs'
  BY DEF CountSections, SkipSection, BindSection, InsertOutputSections, AddMember, workVars, bindVars
<1>2. FileTypes' /\ ReadInv'
  BY <1>1, ReadLater
<1>3. LoopTypes'
  <2>1. ASSUME InsertOutputSections \/ AddMember PROVE phase' = "add" /\ at' \in Nat \ {0}
    BY <2>1 DEF InsertOutputSections, AddMember, IInv, TypeOK, LoopTypes
  <2>2. ASSUME InsertOutputSections \/ AddMember PROVE LoopTypes'
    BY <2>1, <2>2 DEF LoopTypes, Phases
  <2>3. QED
    BY <2>2, CountStep, SkipSectionStep, BindSectionStep DEF IInv
<1>4. BindInv'
  <2>1. CASE AddMember
    <3>1. Bound /\ Bound' /\ UNCHANGED bindVars
      BY <2>1 DEF AddMember, Bound
    <3>2. QED
      BY <1>1, <3>1, BindLater DEF IInv
  <2>2. QED
    BY <2>1, CountStep, SkipSectionStep, BindSectionStep, AllMade DEF IInv
<1>5. BindTypes'
  <2>1. ASSUME InsertOutputSections \/ AddMember PROVE BindTypes'
    <3>1. UNCHANGED bindVars /\ members' \in [Keys -> Seq(Slot)]
      <4>1. CASE InsertOutputSections
        BY <4>1, InsertStep DEF InsertOutputSections, IInv
      <4>2. CASE AddMember
        BY <4>2, AddMemberStep DEF AddMember, IInv
      <4>3. QED
        BY <2>1, <4>1, <4>2
    <3>2. osecs' = osecs /\ count' = count /\ flags' = flags /\ bound' = bound
      BY <3>1 DEF bindVars
    <3>3. QED
      BY <3>1, <3>2 DEF IInv, TypeOK, BindTypes
  <2>2. QED
    BY <2>1, CountStep, SkipSectionStep, BindSectionStep DEF IInv
<1>6. WorkTypes' /\ ShdrTypes'
  BY <1>1 DEF IInv, TypeOK, WorkTypes, ShdrTypes, workVars, shdrVars
<1>7. MemberInv'
  <2>1. ASSUME CountSections \/ SkipSection \/ BindSection PROVE MemberInv'
    <3>1. phase \in {"count", "bind"} /\ phase' = "bind" /\ members' = members
      BY <2>1 DEF CountSections, SkipSection, BindSection
    <3>2. QED
      BY <3>1 DEF IInv, MemberInv
  <2>2. QED
    BY <2>1, InsertStep, AddMemberStep DEF IInv
<1>8. \A k \in Keys : \A n \in DOMAIN members'[k] : members'[k][n].offset = Unplaced
  <2>1. ASSUME CountSections \/ SkipSection \/ BindSection, NEW k \in Keys PROVE DOMAIN members'[k] = {}
    <3>1. phase \in {"count", "bind"} /\ members' = members
      BY <2>1 DEF CountSections, SkipSection, BindSection
    <3>2. members'[k] = <<>>
      BY <3>1 DEF IInv, MemberInv
    <3>3. QED
      BY <3>2
  <2>2. ASSUME InsertOutputSections, NEW k \in Keys, NEW n \in DOMAIN members'[k]
        PROVE  members'[k][n].offset = Unplaced
    <3>1. members'[k] = [i \in 1 .. count[k] |-> [isec |-> NoSection, offset |-> Unplaced]]
      BY <2>2 DEF InsertOutputSections
    <3>2. QED
      BY <3>1
  <2>3. ASSUME AddMember, NEW k \in Keys, NEW n \in DOMAIN members'[k]
        PROVE  members'[k][n].offset = Unplaced
    <3>1. n \in DOMAIN members[k] /\ members'[k][n].offset = members[k][n].offset
      BY <2>3, AddMemberStep DEF IInv
    <3>2. ~Set(k, n)
      BY <2>3 DEF AddMember, Set, LaidOut
    <3>3. QED
      BY <3>1, <3>2 DEF IInv, LayoutInv, Member
  <2>4. QED
    BY <2>1, <2>2, <2>3
<1>9. LoopInv' /\ LayoutInv' /\ AlignInv' /\ ImageInv'
  <2>1. phase \in Early /\ phase' \in Early /\ phase' # "count"
    BY <1>1 DEF Early
  <2>2. QED
    BY <1>1, <1>8, <2>1, EarlyStep
<1>10. TypeOK'
  BY <1>2, <1>3, <1>5, <1>6 DEF TypeOK
<1>11. QED
  BY <1>2, <1>4, <1>7, <1>9, <1>10 DEF IInv

LEMMA AssigningFacts ==
    ASSUME IInv, AddDone \/ BeginAssign \/ AssignOffset \/ AssignSize \/ OpenOutputFile
    PROVE  /\ UNCHANGED <<readVars, bindVars>>
           /\ phase \in {"add", "assign"} /\ phase' \in {"assign", "copy"}
           /\ phase = "add" => at > Len(bound)
           /\ phase' = "copy" => OpenOutputFile
           /\ ~OpenOutputFile => image' = image
           /\ at' \in {1, at}
           /\ members' \in [Keys -> Seq(Slot)] /\ SameMembers
           /\ WorkTypes' /\ ShdrTypes'
<1>0. osecs \in SUBSET Keys /\ members \in [Keys -> Seq(Slot)]
      /\ out \in Keys \union {NoOutput} /\ todo \in SUBSET osecs
      /\ member \in Nat /\ cursor \in Nat /\ top \in Nat
      /\ shsize \in [Keys -> Nat] /\ shalign \in [Keys -> Nat]
  BY DEF IInv, TypeOK, BindTypes, WorkTypes, ShdrTypes
<1>1. CASE AddDone
  <2>1. /\ UNCHANGED <<readVars, bindVars, members, out, member, cursor, top, shdrVars, image>>
        /\ phase = "add" /\ phase' = "assign" /\ at > Len(bound) /\ at' = 1 /\ todo' = osecs
    BY <1>1 DEF AddDone
  <2>2. osecs' = osecs /\ shsize' = shsize /\ shalign' = shalign
    BY <2>1 DEF bindVars, shdrVars
  <2>3. SameMembers
    BY <2>1 DEF SameMembers
  <2>4. WorkTypes' /\ ShdrTypes'
    BY <1>0, <2>1, <2>2 DEF WorkTypes, ShdrTypes
  <2>5. QED
    BY <1>0, <2>1, <2>3, <2>4
<1>2. CASE BeginAssign
  <2>1. /\ UNCHANGED <<readVars, at, bindVars, members, shdrVars, image>>
        /\ phase = "assign" /\ phase' = "assign"
        /\ out' \in todo /\ todo' = todo \ {out'} /\ member' = 1 /\ cursor' = 0 /\ top' = 0
    BY <1>2 DEF BeginAssign
  <2>2. osecs' = osecs /\ shsize' = shsize /\ shalign' = shalign
    BY <2>1 DEF bindVars, shdrVars
  <2>3. SameMembers
    BY <2>1 DEF SameMembers
  <2>4. WorkTypes' /\ ShdrTypes'
    BY <1>0, <2>1, <2>2 DEF WorkTypes, ShdrTypes
  <2>5. QED
    BY <1>0, <2>1, <2>3, <2>4
<1>3. CASE AssignOffset
  <2>1. /\ UNCHANGED <<readVars, at, bindVars, out, todo, shdrVars, image>>
        /\ phase = "assign" /\ phase' = "assign" /\ member' = member + 1
    BY <1>3 DEF AssignOffset
  <2>2. osecs' = osecs /\ shsize' = shsize /\ shalign' = shalign
    BY <2>1 DEF bindVars, shdrVars
  <2>3. members' \in [Keys -> Seq(Slot)] /\ SameMembers /\ cursor' \in Nat
    BY <1>3, AssignOffsetFacts
  <2>4. top' \in Nat
    BY <1>3, AssignOffsetStep
  <2>5. WorkTypes' /\ ShdrTypes'
    BY <1>0, <2>1, <2>2, <2>3, <2>4 DEF WorkTypes, ShdrTypes
  <2>6. QED
    BY <2>1, <2>3, <2>5
<1>4. CASE AssignSize
  <2>1. /\ UNCHANGED <<readVars, at, bindVars, members, todo, member, cursor, top, image>>
        /\ phase = "assign" /\ phase' = "assign" /\ out' = NoOutput
    BY <1>4 DEF AssignSize
  <2>2. osecs' = osecs
    BY <2>1 DEF bindVars
  <2>3. SameMembers
    BY <2>1 DEF SameMembers
  <2>4. WorkTypes' /\ ShdrTypes'
    BY <1>0, <1>4, <2>1, <2>2, AssignSizeStep DEF WorkTypes, ShdrTypes
  <2>5. QED
    BY <1>0, <2>1, <2>3, <2>4
<1>5. CASE OpenOutputFile
  <2>1. /\ UNCHANGED <<readVars, at, bindVars, members, out, member, cursor, top, shdrVars>>
        /\ phase = "assign" /\ phase' = "copy" /\ todo' = {k \in osecs : shsize[k] # 0}
    BY <1>5 DEF OpenOutputFile
  <2>2. osecs' = osecs /\ shsize' = shsize /\ shalign' = shalign
    BY <2>1 DEF bindVars, shdrVars
  <2>3. SameMembers
    BY <2>1 DEF SameMembers
  <2>4. WorkTypes' /\ ShdrTypes'
    BY <1>0, <2>1, <2>2 DEF WorkTypes, ShdrTypes
  <2>5. QED
    BY <1>0, <1>5, <2>1, <2>3, <2>4
<1>6. QED
  BY <1>1, <1>2, <1>3, <1>4, <1>5

LEMMA CopyingFacts ==
    ASSUME IInv, BeginCopy \/ PadMember \/ CopyEnd \/ CopyDone \/ Terminated
    PROVE  /\ UNCHANGED <<readVars, bindVars, at, members>>
           /\ phase \in {"copy", "done"} /\ phase' \in {"copy", "done"}
           /\ WorkTypes' /\ ShdrTypes'
<1>0. osecs \in SUBSET Keys /\ out \in Keys \union {NoOutput} /\ todo \in SUBSET osecs
      /\ member \in Nat /\ cursor \in Nat /\ top \in Nat
      /\ shsize \in [Keys -> Nat] /\ shalign \in [Keys -> Nat]
  BY DEF IInv, TypeOK, BindTypes, WorkTypes, ShdrTypes
<1>1. /\ UNCHANGED <<readVars, bindVars, at, members, cursor, top, shdrVars>>
      /\ phase \in {"copy", "done"} /\ phase' \in {"copy", "done"}
      /\ out' \in Keys \union {NoOutput} /\ todo' \in SUBSET todo /\ member' \in Nat
  <2>1. CASE BeginCopy
    BY <1>0, <2>1 DEF BeginCopy
  <2>2. CASE PadMember
    BY <1>0, <2>2 DEF PadMember
  <2>3. CASE CopyEnd
    BY <1>0, <2>3 DEF CopyEnd
  <2>4. CASE CopyDone
    BY <1>0, <2>4 DEF CopyDone, workVars
  <2>5. CASE Terminated
    BY <1>0, <2>5 DEF Terminated, Ended, vars, workVars
  <2>6. QED
    BY <2>1, <2>2, <2>3, <2>4, <2>5
<1>2. osecs' = osecs /\ shsize' = shsize /\ shalign' = shalign
  BY <1>1 DEF bindVars, shdrVars
<1>3. QED
  BY <1>0, <1>1, <1>2 DEF WorkTypes, ShdrTypes

\* Layout and copy: bindings and members are as the earlier passes left them.
LEMMA LaterFacts ==
    ASSUME IInv, UNCHANGED <<readVars, bindVars>>, phase \in {"add", "assign", "copy", "done"},
           phase' \in {"assign", "copy", "done"}, phase = "add" => at > Len(bound),
           at' \in {1, at}, members' \in [Keys -> Seq(Slot)], SameMembers, WorkTypes', ShdrTypes'
    PROVE  TypeOK' /\ ReadInv' /\ BindInv' /\ MemberInv'
<1>1. Bound /\ Bound' /\ UNCHANGED readVars /\ UNCHANGED bindVars
  BY DEF Bound
<1>2. FileTypes' /\ ReadInv'
  BY <1>1, ReadLater
<1>3. LoopTypes'
  <2>1. at \in Nat \ {0}
    BY DEF IInv, TypeOK, LoopTypes
  <2>2. QED
    BY <2>1 DEF LoopTypes, Phases
<1>4. BindTypes'
  <2>1. osecs' = osecs /\ count' = count /\ flags' = flags /\ bound' = bound
    BY <1>1 DEF bindVars
  <2>2. QED
    BY <2>1 DEF IInv, TypeOK, BindTypes
<1>5. BindInv'
  BY <1>1, BindLater DEF IInv
<1>6. MemberInv'
  BY <1>1, MemberLater DEF IInv
<1>7. QED
  BY <1>2, <1>3, <1>4, <1>5, <1>6 DEF TypeOK

LEMMA LaterInvariant ==
    ASSUME IInv, \/ AddDone \/ BeginAssign \/ AssignOffset \/ AssignSize \/ OpenOutputFile
                 \/ BeginCopy \/ PadMember \/ CopyEnd \/ CopyDone \/ Terminated
    PROVE  IInv'
<1>1. TypeOK' /\ ReadInv' /\ BindInv' /\ MemberInv'
  <2>1. CASE AddDone \/ BeginAssign \/ AssignOffset \/ AssignSize \/ OpenOutputFile
    BY <2>1, AssigningFacts, LaterFacts
  <2>2. CASE BeginCopy \/ PadMember \/ CopyEnd \/ CopyDone \/ Terminated
    <3>1. /\ UNCHANGED <<readVars, bindVars, at, members>>
          /\ phase \in {"copy", "done"} /\ phase' \in {"copy", "done"}
          /\ WorkTypes' /\ ShdrTypes'
      BY <2>2, CopyingFacts
    <3>2. members' \in [Keys -> Seq(Slot)] /\ SameMembers
      BY <3>1 DEF SameMembers, IInv, TypeOK, BindTypes
    <3>3. QED
      BY <3>1, <3>2, LaterFacts
  <2>3. QED
    BY <2>1, <2>2
<1>2. LoopInv' /\ LayoutInv' /\ AlignInv'
  BY AddDoneStep, BeginAssignStep, AssignOffsetStep, AssignSizeStep, OpenOutputFileStep, CopySteps
<1>3. ImageInv'
  <2>1. CASE AddDone \/ BeginAssign \/ AssignOffset \/ AssignSize
    <3>1. phase' = "assign" /\ image' = image
      BY <2>1 DEF AddDone, BeginAssign, AssignOffset, AssignSize
    <3>2. QED
      BY <3>1 DEF IInv, ImageInv
  <2>2. QED
    BY <2>1, OpenImageStep, BeginCopyStep, PadMemberStep, CopyEndStep
<1>4. QED
  BY <1>1, <1>2, <1>3 DEF IInv

LEMMA InitInvariant ==
    Init => IInv
<1> SUFFICES ASSUME Init PROVE IInv
  OBVIOUS
<1>1. /\ files \in [Files -> FileShapes] /\ phase = "read" /\ at = 1
      /\ state = [f \in Files |-> <<>>] /\ listed = [f \in Files |-> <<>>]
      /\ relCount = [f \in Files |-> <<>>]
      /\ osecs = {} /\ bound = <<>> /\ count = [k \in Keys |-> 0] /\ flags = [k \in Keys |-> {}]
      /\ members = [k \in Keys |-> <<>>]
      /\ out = NoOutput /\ todo = {} /\ member = 0 /\ cursor = 0 /\ top = 0
      /\ shsize = [k \in Keys |-> 0] /\ shalign = [k \in Keys |-> 1]
      /\ image = [k \in Keys |-> <<>>]
  BY DEF Init
<1>2. 1 \in Files
  BY Counts
<1>3. FileTypes
  <2>1. <<>> \in Seq(States) /\ <<>> \in Seq(1 .. MaxSections) /\ <<>> \in Seq(Nat)
    OBVIOUS
  <2>2. QED
    BY <1>1, <2>1 DEF FileTypes
<1>4. TypeOK
  <2>1. LoopTypes
    BY <1>1, <1>2 DEF LoopTypes, Phases
  <2>2. BindTypes
    BY <1>1 DEF BindTypes
  <2>3. WorkTypes /\ ShdrTypes
    BY <1>1 DEF WorkTypes, ShdrTypes
  <2>4. QED
    BY <1>3, <2>1, <2>2, <2>3 DEF TypeOK
<1>5. ReadInv
  <2>1. \A f \in Files : ~Read(f)
    BY <1>1 DEF Read, Files
  <2>2. QED
    BY <1>1, <2>1 DEF ReadInv
<1>6. BindInv /\ MemberInv
  BY <1>1 DEF BindInv, MemberInv
<1>7. LoopInv
  BY <1>1 DEF LoopInv
<1>8. \A k \in Keys : DOMAIN members[k] = {}
  BY <1>1
<1>9. LayoutInv
  BY <1>1, <1>8 DEF LayoutInv
<1>10. AlignInv /\ ImageInv
  BY <1>1 DEF AlignInv, ImageInv
<1>11. QED
  BY <1>4, <1>5, <1>6, <1>7, <1>9, <1>10 DEF IInv

\* IInv holds in every reachable state.
THEOREM Invariance ==
    Spec => []IInv
<1>1. ASSUME IInv, Next PROVE IInv'
  BY <1>1, ReadingSteps, BindingSteps, LaterInvariant DEF Next
<1>2. ASSUME IInv, UNCHANGED vars PROVE IInv'
  <2>1. /\ UNCHANGED readVars /\ UNCHANGED bindVars
        /\ files' = files /\ state' = state /\ listed' = listed /\ relCount' = relCount
        /\ phase' = phase /\ at' = at
        /\ osecs' = osecs /\ count' = count /\ flags' = flags /\ bound' = bound
        /\ members' = members /\ out' = out /\ todo' = todo /\ member' = member
        /\ cursor' = cursor /\ top' = top /\ shsize' = shsize /\ shalign' = shalign
        /\ image' = image
    BY <1>2 DEF vars, readVars, bindVars, workVars, shdrVars
  <2>2. TypeOK'
    BY <1>2, <2>1
       DEF IInv, TypeOK, FileTypes, LoopTypes, BindTypes, WorkTypes, ShdrTypes
  <2>3. ReadInv' /\ MemberInv' /\ LoopInv'
    BY <1>2, <2>1 DEF IInv, ReadInv, Read, MemberInv, Added, LoopInv
  <2>4. BindInv'
    <3>1. Relocatable' = Relocatable /\ Walk' = Walk
      BY <2>1, StaticSections
    <3>2. Passed' = Passed
      BY <2>1, <3>1 DEF Passed
    <3>3. \A b \in Nat : Made(b) => Made(b)'
      BY <2>1, <3>2, MadeStays
    <3>4. QED
      BY <1>2, <2>1, <3>1, <3>3 DEF IInv, BindInv
  <2>5. ASSUME NEW k, NEW n, NEW t
        PROVE  /\ Set(k, n)' <=> Set(k, n)
               /\ LaidOut(k)' <=> LaidOut(k)
               /\ Here(k, n, t)' <=> Here(k, n, t)
               /\ TopAt(k, n, t)' <=> TopAt(k, n, t)
               /\ Member(k, n)' = Member(k, n) /\ MemberEnd(k, n)' = MemberEnd(k, n)
               /\ HeaderOf(Member(k, n).isec)' = HeaderOf(Member(k, n).isec)
    <3>1. /\ LaidOut(k)' <=> LaidOut(k)
          /\ Here(k, n, t)' <=> Here(k, n, t)
          /\ Member(k, n)' = Member(k, n) /\ MemberEnd(k, n)' = MemberEnd(k, n)
          /\ HeaderOf(Member(k, n).isec)' = HeaderOf(Member(k, n).isec)
      BY <2>1 DEF LaidOut, Here, Member, MemberEnd, HeaderOf
    <3>2. Set(k, n)' <=> Set(k, n)
      BY <2>1, <3>1 DEF Set
    <3>3. TopAt(k, n, t)' <=> TopAt(k, n, t)
      BY <2>1 DEF TopAt, HeaderOf, Member
    <3>4. QED
      BY <3>1, <3>2, <3>3
  <2>6. ASSUME Laying PROVE LayoutInv' /\ AlignInv'
    <3>1. LayoutInv /\ AlignInv /\ UNCHANGED <<readVars, osecs>> /\ phase' \in {"assign", "copy", "done"}
      BY <1>2, <2>1, <2>6 DEF IInv, Laying
    <3>2. LayoutInv'
      <4>1. \A o \in osecs : \A m \in 1 .. Len(members[o]) + 1 : \A t \in Nat : Here(o, m, t)' =>
              /\ cursor' = IF m = 1 THEN 0 ELSE MemberEnd(o, m - 1)
              /\ TopAt(o, m, t)
        BY <2>1, <2>5, <3>1 DEF LayoutInv
      <4>2. \A k \in osecs : \A l \in DOMAIN members[k] : LaidOut(k)' /\ l = Len(members[k]) =>
              shsize'[k] = MemberEnd(k, l)
        BY <2>1, <2>5, <3>1 DEF LayoutInv
      <4>3. \A k \in Keys : \A n \in DOMAIN members[k] : Set(k, n)' <=> Set(k, n)
        BY <2>5
      <4>4. QED
        BY <1>2, <2>1, <2>6, <3>1, <4>1, <4>2, <4>3, LayoutStays
    <3>3. AlignInv'
      <4>1. \A k \in osecs :
              (\A n \in DOMAIN members[k] : HeaderOf(Member(k, n).isec).align < IntBits) =>
                \A l \in DOMAIN members[k] : LaidOut(k)' /\ l = Len(members[k]) =>
                  \E t \in Nat : TopAt(k, l + 1, t) /\ shalign'[k] = Power[t]
        BY <2>1, <2>5, <2>6, <3>1 DEF AlignInv, Laying
      <4>2. \A k \in Keys : \A n \in DOMAIN members[k] : Set(k, n)' <=> Set(k, n)
        BY <2>5
      <4>3. QED
        BY <1>2, <2>1, <2>6, <3>1, <4>1, <4>2, AlignStays
    <3>4. QED
      BY <3>2, <3>3
  <2>7. ASSUME ~Laying PROVE LayoutInv' /\ AlignInv'
    <3>1. phase \in Early /\ phase' \in Early
      BY <1>2, <2>1, <2>7 DEF IInv, TypeOK, LoopTypes, Phases, Early, Laying
    <3>2. \A k \in Keys : \A n \in DOMAIN members'[k] : members'[k][n].offset = Unplaced
      <4>1. \A k, n : ~Set(k, n)
        BY <3>1 DEF Set, LaidOut, Early
      <4>2. \A k \in Keys : \A n \in DOMAIN members[k] : Member(k, n).offset = Unplaced
        BY <1>2, <4>1 DEF IInv, LayoutInv
      <4>3. QED
        BY <2>1, <4>2 DEF Member
    <3>3. phase' = "count" => at' = 1
      BY <1>2, <2>1 DEF IInv, LoopInv
    <3>4. UNCHANGED <<workVars, shdrVars, image>>
      BY <2>1 DEF workVars, shdrVars
    <3>5. QED
      BY <1>2, <3>1, <3>2, <3>3, <3>4, EarlyStep
  <2>8. ImageInv'
    <3>1. ASSUME NEW k \in osecs, ImageOf(k) PROVE ImageOf(k)'
      <4>1. /\ Copied(k)' <=> Copied(k)
            /\ \A n \in DOMAIN members[k] : Padded(k, n)' <=> Padded(k, n)
        BY <2>1 DEF Copied, Padded
      <4>2. UNCHANGED <<readVars, bindVars, members, shdrVars>> /\ image'[k] = image[k]
        BY <2>1 DEF readVars, bindVars, shdrVars
      <4>3. QED
        BY <3>1, <4>1, <4>2, ImageStays
    <3>2. QED
      BY <1>2, <2>1, <3>1 DEF IInv, ImageInv
  <2>9. QED
    BY <2>2, <2>3, <2>4, <2>6, <2>7, <2>8 DEF IInv
<1>3. IInv /\ [Next]_vars => IInv'
  BY <1>1, <1>2
<1>4. QED
  BY InitInvariant, <1>3, PTL DEF Spec

-----------------------------------------------------------------------------
(***************************************************************************)
(* The properties.                                                         *)
(***************************************************************************)
\* Every variable has its type.
THEOREM TypeCorrect ==
    Spec => []TypeOK
BY Invariance, PTL DEF IInv

\* Combined_input_sections binds every linked section, once, to the output
\* section its key will be looked up as, in the order of files and sections.
LEMMA MembersAreSections == IInv => SectionsAreMembers
<1> SUFFICES ASSUME IInv PROVE SectionsAreMembers
  OBVIOUS
<1>1. phase = "add" => \A n \in DOMAIN bound : bound[n] # NoBinding
  BY DEF IInv, BindInv
<1>2. ASSUME Laying, NEW id \in Relocatable
      PROVE  Cardinality({n \in DOMAIN members[KeyOf(id)] : Member(KeyOf(id), n).isec = id}) = 1
  <2>1. PICK k, n : k = KeyOf(id) /\ k \in Keys /\ n \in DOMAIN members[k] /\ Member(k, n).isec = id
    BY <1>2, MemberFacts DEF IInv, Laying
  <2>2. ASSUME NEW m \in DOMAIN members[k], Member(k, m).isec = id PROVE m = n
    <3>1. m \in Nat /\ n \in Nat
      BY <1>2, <2>1, MemberFacts DEF IInv, Laying
    <3>2. ~(m < n) /\ ~(n < m)
      BY <1>2, <2>1, <2>2, MemberFacts DEF IInv, Laying
    <3>3. QED
      BY <3>1, <3>2
  <2>3. {m \in DOMAIN members[KeyOf(id)] : Member(KeyOf(id), m).isec = id} = {n}
    BY <2>1, <2>2
  <2>4. QED
    BY <2>3, FS_Singleton
<1>3. ASSUME Laying, NEW k \in osecs, NEW n \in DOMAIN members[k]
      PROVE  /\ Member(k, n).isec \in Relocatable
             /\ KeyOf(Member(k, n).isec) = k
             /\ \A m \in 1 .. n - 1 : Earlier(Member(k, m).isec, Member(k, n).isec)
  <2>1. k \in Keys /\ DOMAIN members[k] = 1 .. Len(members[k]) /\ Len(members[k]) \in Nat
    BY <1>3, MemberFacts DEF IInv, Laying
  <2>2. \A m \in 1 .. n - 1 : m \in DOMAIN members[k] /\ m < n
    BY <2>1
  <2>3. QED
    BY <1>3, <2>1, <2>2, MemberFacts DEF IInv, Laying
<1>4. QED
  BY <1>1, <1>2, <1>3 DEF SectionsAreMembers, Laying, Earlier

THEOREM BindingCorrect ==
    Spec => []SectionsAreMembers
BY Invariance, MembersAreSections, PTL

\* The first member with a section is the one that has it.
LEMMA AddressFacts ==
    ASSUME IInv, Laying, NEW k \in Keys, NEW n \in DOMAIN members[k]
    PROVE  MemberIndex(k, Member(k, n).isec) = n
<1>1. /\ DOMAIN members[k] = 1 .. Len(members[k]) /\ Len(members[k]) \in Nat
      /\ \A a, b \in DOMAIN members[k] : a < b => Member(k, a).isec # Member(k, b).isec
  BY MemberFacts DEF IInv, Laying
<1>2. PICK I : I = {i \in 1 .. Len(members[k]) : members[k][i].isec = Member(k, n).isec}
  OBVIOUS
<1>3. I = {n}
  <2>1. ASSUME NEW i \in 1 .. Len(members[k]), Member(k, i).isec = Member(k, n).isec PROVE i = n
    <3>1. i \in Nat /\ n \in Nat /\ ~(i < n) /\ ~(n < i)
      BY <1>1, <2>1
    <3>2. QED
      BY <3>1
  <2>2. QED
    BY <1>1, <1>2, <2>1 DEF Member
<1>4. Min(I) = n
  <2>1. n \in Int
    BY <1>1
  <2>2. QED
    BY <1>3, <2>1 DEF Min
<1>5. QED
  BY <1>2, <1>3, <1>4 DEF MemberIndex, SelectInSeq

\* The address Get_input_section_addr gives relocation holds the section.
LEMMA SectionAtAddress == IInv => AddressesReadSection
<1> SUFFICES ASSUME IInv, phase = "done", NEW id \in Relocatable,
                    NEW j \in 0 .. HeaderOf(id).size - 1
             PROVE  image[KeyOf(id)][AddressOf(id) + j] = Byte(id, j)
  BY DEF AddressesReadSection
<1>1. Laying /\ phase \in {"assign", "copy", "done"}
  BY DEF Laying
<1>2. PICK k, n : /\ k = KeyOf(id) /\ k \in osecs /\ k \in Keys
                  /\ n \in DOMAIN members[k] /\ Member(k, n).isec = id
  BY <1>1, MemberFacts DEF IInv
<1>3. AddressOf(id) = Member(k, n).offset
  <2>1. MemberIndex(k, id) = n
    BY <1>1, <1>2, AddressFacts
  <2>2. QED
    BY <1>2, <2>1 DEF AddressOf
<1>4. LaidOut(k) /\ ImageOf(k)
  BY <1>2 DEF LaidOut, IInv, ImageInv
<1>5. Copied(k)
  <2>1. PICK s \in Nat : s = HeaderOf(id).size /\ s > 0
    <3>1. HeaderOf(id).size \in Nat
      BY <1>1, <1>2, <1>4, CopyFacts
    <3>2. QED
      BY <3>1
  <2>2. PICK p, e, g, z \in Nat : /\ p = Member(k, n).offset /\ e = MemberEnd(k, n)
                                  /\ g = NextStart(k, n) /\ z = shsize[k]
                                  /\ e = p + s /\ e <= g /\ g <= z
    BY <1>1, <1>2, <1>4, <2>1, CopyFacts
  <2>3. z # 0
    BY <2>1, <2>2
  <2>4. todo = {}
    BY DEF IInv, LoopInv
  <2>5. QED
    BY <1>2, <2>2, <2>3, <2>4 DEF Copied
<1>6. QED
  BY <1>2, <1>3, <1>4, <1>5 DEF ImageOf

THEOREM AddressesCorrect ==
    Spec => []AddressesReadSection
BY Invariance, SectionAtAddress, PTL

\* A byte that belongs to no member is in the room behind one.
LEMMA BehindMember ==
    ASSUME IInv, Laying, NEW k \in osecs, LaidOut(k), NEW i \in Nat, i < shsize[k],
           Covering(k, i) = {}
    PROVE  \E n \in DOMAIN members[k] : MemberEnd(k, n) <= i /\ i < NextStart(k, n)
<1>1. /\ k \in Keys /\ shsize[k] \in Nat
      /\ DOMAIN members[k] = 1 .. Len(members[k]) /\ Len(members[k]) \in Nat
      /\ \A n \in DOMAIN members[k] : Member(k, n).offset \in Nat /\ MemberEnd(k, n) \in Nat
  BY CopyFacts
<1>2. PICK L \in Nat : L = Len(members[k]) /\ L # 0
  BY <1>1, MemberFacts DEF IInv, Laying
<1> DEFINE Before == {n \in 1 .. L : Member(k, n).offset <= i}
<1>3. 1 \in Before
  <2>1. 1 \in DOMAIN members[k] /\ Set(k, 1)
    BY <1>1, <1>2 DEF Set
  <2>2. Member(k, 1).offset = 0
    BY <1>1, <2>1 DEF IInv, LayoutInv
  <2>3. QED
    BY <1>2, <2>2
<1>4. Before \in SUBSET Nat /\ \A n \in Before : n <= L
  OBVIOUS
<1>5. PICK n \in 1 .. L : Member(k, n).offset <= i /\ \A m \in Before : m <= n
  <2>1. \E n \in Before : \A m \in Before : m <= n
    <3> HIDE DEF Before
    <3>1. QED
      BY <1>3, <1>4, GreatestNatural
  <2>2. QED
    BY <2>1
<1>6. n \in DOMAIN members[k] /\ n \in Nat
  BY <1>1, <1>2
<1>7. MemberEnd(k, n) <= i
  <2>1. ~(i < MemberEnd(k, n))
    BY <1>5, <1>6 DEF Covering
  <2>2. QED
    BY <1>1, <1>6, <2>1
<1>8. i < NextStart(k, n)
  <2>1. CASE n < L
    <3>1. n + 1 \in 1 .. L /\ ~(n + 1 <= n)
      BY <1>6, <2>1
    <3>2. ~(Member(k, n + 1).offset <= i)
      BY <1>5, <3>1
    <3>3. Member(k, n + 1).offset \in Nat
      BY <1>1, <1>2, <3>1
    <3>4. i < Member(k, n + 1).offset
      BY <3>2, <3>3
    <3>5. QED
      BY <1>2, <2>1, <3>4 DEF NextStart
  <2>2. CASE ~(n < L)
    BY <1>2, <2>2 DEF NextStart
  <2>3. QED
    BY <2>1, <2>2
<1>9. QED
  BY <1>6, <1>7, <1>8

\* c.ebreak is whole wherever its bytes are.
LEMMA WholeTraps ==
    ASSUME NEW j \in Nat, NEW h \in Nat, j < 2 * h
    PROVE  \/ Trap(j) = Trap(0) /\ Trap(j + 1) = Trap(1) /\ j + 1 < 2 * h
           \/ Trap(j) = Trap(1) /\ j # 0 /\ Trap(j - 1) = Trap(0)
<1>1. CASE j % 2 = 0
  <2>1. (j + 1) % 2 = 1 /\ j + 1 < 2 * h /\ 0 % 2 = 0 /\ 1 % 2 = 1
    BY <1>1
  <2>2. QED
    BY <1>1, <2>1 DEF Trap
<1>2. CASE j % 2 = 1
  <2>1. (j - 1) % 2 = 0 /\ j # 0 /\ 0 % 2 = 0 /\ 1 % 2 = 1
    BY <1>2
  <2>2. QED
    BY <1>2, <2>1 DEF Trap
<1>3. QED
  BY <1>1, <1>2

LEMMA PaddingIsHarmless == IInv => PaddingHarmless
<1> SUFFICES ASSUME IInv PROVE PaddingHarmless
  OBVIOUS
<1>1. ASSUME phase = "copy", out # NoOutput, member \in DOMAIN members[out]
      PROVE  /\ MemberEnd(out, member) <= NextStart(out, member)
             /\ NextStart(out, member) <= shsize[out]
  <2>1. PICK o, m : o = out /\ m = member
    OBVIOUS
  <2>2. o \in osecs /\ LaidOut(o) /\ Laying
    BY <1>1, <2>1 DEF IInv, LoopInv, LaidOut, Laying
  <2>3. m \in DOMAIN members[o]
    BY <1>1, <2>1
  <2>4. MemberEnd(o, m) <= NextStart(o, m) /\ NextStart(o, m) <= shsize[o]
    BY <2>2, <2>3, CopyFacts
  <2>5. QED
    BY <2>1, <2>4
<1>2. ASSUME phase = "done", NEW k \in osecs, NEW i \in DOMAIN image[k], Covering(k, i) = {}
      PROVE  \/ image[k][i] = Zero
             \/ /\ "EXECINSTR" \in flags[k]
                /\ \/ image[k][i] = Trap(0) /\ image[k][i + 1] = Trap(1)
                   \/ image[k][i] = Trap(1) /\ image[k][i - 1] = Trap(0)
  <2>1. LaidOut(k) /\ Laying /\ ImageOf(k)
    BY <1>2 DEF IInv, ImageInv, LaidOut, Laying
  <2>2. i \in Nat /\ i < shsize[k]
    <3>1. PICK z \in Nat : z = shsize[k]
      BY <2>1, CopyFacts
    <3>2. i \in 0 .. z - 1
      BY <1>2, <2>1, <3>1 DEF ImageOf
    <3>3. QED
      BY <3>1, <3>2
  <2>3. PICK n \in DOMAIN members[k] : MemberEnd(k, n) <= i /\ i < NextStart(k, n)
    BY <1>2, <2>1, <2>2, BehindMember
  <2>4. PICK e, g \in Nat : e = MemberEnd(k, n) /\ g = NextStart(k, n)
    BY <2>1, CopyFacts
  <2>5. PICK j \in Nat : j = i - e /\ i = e + j /\ j < g - e
    BY <2>2, <2>3, <2>4
  <2>6. j \in 0 .. NextStart(k, n) - MemberEnd(k, n) - 1
    BY <2>4, <2>5
  <2>7. ASSUME NEW x \in 0 .. NextStart(k, n) - MemberEnd(k, n) - 1
        PROVE  image[k][e + x] = IF Padded(k, n) THEN Fill(k, n, x) ELSE Zero
    BY <2>1, <2>4, <2>7 DEF ImageOf
  <2>8. CASE ~Padded(k, n)
    BY <2>5, <2>6, <2>7, <2>8
  <2>9. CASE Padded(k, n) /\ "EXECINSTR" \notin flags[k]
    BY <2>5, <2>6, <2>7, <2>9 DEF Fill
  <2>10. CASE Padded(k, n) /\ "EXECINSTR" \in flags[k]
    <3>1. PICK h \in Nat : h = (g - e) \div 2 /\ 2 * h <= g - e
      <4>1. PICK d \in Nat : d = g - e
        BY <2>5
      <4>2. d \div 2 \in Nat /\ 2 * (d \div 2) <= d
        OBVIOUS
      <4>3. QED
        BY <4>1, <4>2
    <3>2. ASSUME NEW x \in Nat, x < 2 * h PROVE image[k][e + x] = Trap(x)
      <4>1. x \in 0 .. NextStart(k, n) - MemberEnd(k, n) - 1
        <5>1. x \in 0 .. g - e - 1
          BY <3>1, <3>2
        <5>2. QED
          BY <2>4, <5>1
      <4>2. Fill(k, n, x) = Trap(x)
        BY <2>4, <2>10, <3>1, <3>2 DEF Fill
      <4>3. QED
        BY <2>7, <2>10, <4>1, <4>2
    <3>3. CASE j < 2 * h
      <4>1. image[k][i] = Trap(j)
        BY <2>5, <3>2, <3>3
      <4>2. CASE Trap(j) = Trap(0) /\ Trap(j + 1) = Trap(1) /\ j + 1 < 2 * h
        <5>1. image[k][e + (j + 1)] = Trap(1) /\ e + (j + 1) = i + 1
          <6>1. j + 1 \in Nat /\ e + (j + 1) = i + 1
            BY <2>4, <2>5
          <6>2. QED
            BY <3>2, <4>2, <6>1
        <5>2. QED
          BY <2>10, <4>1, <4>2, <5>1
      <4>3. CASE Trap(j) = Trap(1) /\ j # 0 /\ Trap(j - 1) = Trap(0)
        <5>1. image[k][e + (j - 1)] = Trap(0) /\ e + (j - 1) = i - 1
          <6>1. j - 1 \in Nat /\ j - 1 < 2 * h /\ e + (j - 1) = i - 1
            BY <2>4, <2>5, <3>3, <4>3
          <6>2. QED
            BY <3>2, <4>3, <6>1
        <5>2. QED
          BY <2>10, <4>1, <4>3, <5>1
      <4>4. QED
        BY <3>3, <4>2, <4>3, WholeTraps
    <3>4. CASE ~(j < 2 * h)
      <4>1. Fill(k, n, j) = Zero
        BY <2>4, <3>1, <3>4 DEF Fill
      <4>2. QED
        BY <2>5, <2>6, <2>7, <4>1
    <3>5. QED
      BY <3>3, <3>4
  <2>11. QED
    BY <2>8, <2>9, <2>10
<1>3. QED
  BY <1>1, <1>2 DEF PaddingHarmless

\* The room behind a member is never of negative length, and what fills it is
\* zero or whole trap instructions.
THEOREM PaddingCorrect ==
    Spec => []PaddingHarmless
BY Invariance, PaddingIsHarmless, PTL

\* An alignment divides a power of two that is not less.
LEMMA AlignmentDivides ==
    ASSUME NEW h \in Shapes, h.align > 0
    PROVE  \E p \in Nat : h.align = Power[p] /\ p <= h.align
<1>1. h.align \in Nat
  BY ShapesTyped
<1>2. PICK p \in 0 .. h.align : h.align = Power[p]
  BY <1>1, AlignmentsAssumption
<1>3. QED
  BY <1>1, <1>2

LEMMA AlignmentsAreKept == IInv => AlignedForEarlier
<1> SUFFICES ASSUME IInv, phase \in {"copy", "done"}, NEW k \in osecs,
                    \A n \in DOMAIN members[k] : HeaderOf(Member(k, n).isec).align < IntBits,
                    NEW n \in DOMAIN members[k], HeaderOf(Member(k, n).isec).align > 0
             PROVE  /\ shalign[k] % HeaderOf(Member(k, n).isec).align = 0
                    /\ (\E m \in 1 .. n - 1 :
                          HeaderOf(Member(k, n).isec).align <= Power[HeaderOf(Member(k, m).isec).align]) =>
                         Member(k, n).offset % HeaderOf(Member(k, n).isec).align = 0
  BY DEF AlignedForEarlier
<1>1. Laying /\ LaidOut(k) /\ Set(k, n)
  BY DEF Laying, LaidOut, Set
<1>2. /\ k \in Keys /\ DOMAIN members[k] = 1 .. Len(members[k]) /\ Len(members[k]) \in Nat
      /\ Member(k, n).offset \in Nat
  BY <1>1, CopyFacts
<1>3. PICK l \in Nat : l = Len(members[k]) /\ l \in DOMAIN members[k] /\ n \in 1 .. l
  BY <1>2
<1>4. ASSUME NEW m \in DOMAIN members[k]
      PROVE  HeaderOf(Member(k, m).isec) \in Shapes /\ HeaderOf(Member(k, m).isec).align \in Nat
  <2>1. Member(k, m).isec \in Relocatable
    BY <1>1, <1>2, MemberFacts DEF IInv, Laying
  <2>2. phase # "read"
    OBVIOUS
  <2>3. QED
    BY <2>1, <2>2, MemberTyped DEF IInv
<1>5. PICK a \in Nat \ {0}, p \in Nat : a = HeaderOf(Member(k, n).isec).align /\ a = Power[p] /\ p <= a
  <2>1. HeaderOf(Member(k, n).isec) \in Shapes /\ HeaderOf(Member(k, n).isec).align \in Nat
    BY <1>4
  <2>2. PICK p \in Nat : HeaderOf(Member(k, n).isec).align = Power[p] /\ p <= HeaderOf(Member(k, n).isec).align
    BY <2>1, AlignmentDivides
  <2>3. QED
    BY <2>1, <2>2
<1>6. ASSUME NEW t \in Nat, p <= t PROVE Power[t] \in Nat \ {0} /\ Power[t] % a = 0
  BY <1>5, <1>6, PowerTyped, PowerDivides
<1>7. shalign[k] % a = 0
  <2>1. PICK t \in Nat : TopAt(k, l + 1, t) /\ shalign[k] = Power[t]
    BY <1>1, <1>3 DEF IInv, AlignInv
  <2>2. n \in 1 .. (l + 1) - 1
    BY <1>3
  <2>3. a <= t
    BY <1>5, <2>1, <2>2 DEF TopAt
  <2>4. QED
    BY <1>5, <1>6, <2>1, <2>3
<1>8. ASSUME NEW m \in 1 .. n - 1, a <= Power[HeaderOf(Member(k, m).isec).align]
      PROVE  Member(k, n).offset % a = 0
  <2>1. m \in DOMAIN members[k]
    BY <1>2, <1>3
  <2>2. PICK b \in Nat : b = HeaderOf(Member(k, m).isec).align
    BY <1>4, <2>1
  <2>3. p <= b
    <3>1. ~(b < p)
      <4>1. b < p => Power[b] < Power[p] /\ Power[b] \in Nat /\ Power[p] \in Nat
        BY <1>5, PowerDivides, PowerTyped
      <4>2. QED
        BY <1>5, <1>8, <2>2, <4>1
    <3>2. QED
      BY <1>5, <3>1
  <2>4. PICK t \in Nat : TopAt(k, n, t) /\ Member(k, n).offset % Power[t] = 0
    BY <1>1 DEF IInv, AlignInv, Laying
  <2>5. b <= t
    BY <2>2, <2>4 DEF TopAt
  <2>6. Power[t] \in Nat \ {0} /\ Power[t] % a = 0
    BY <1>5, <1>6, <2>3, <2>5
  <2>7. QED
    BY <1>2, <1>5, <2>4, <2>6, DividesTransitive
<1>9. QED
  BY <1>5, <1>7, <1>8

\* As long as no shift is wider than an int: the output section is aligned for
\* all its members, and each member for what the members before it ask for.
THEOREM AlignmentsCorrect ==
    Spec => []AlignedForEarlier
BY Invariance, AlignmentsAreKept, PTL

-----------------------------------------------------------------------------
(***************************************************************************)
(* Assign_input_section_offset implements Placement.                       *)
(***************************************************************************)
\* The search finds a member with the section if there is one.
LEMMA FirstIndex ==
    ASSUME NEW I \in SUBSET Nat, NEW n, n = IF I # {} THEN Min(I) ELSE 0, n # 0
    PROVE  n \in I
<1>1. I # {} /\ n = Min(I)
  OBVIOUS
<1>2. \E i \in I : \A j \in I : i <= j
  BY <1>1, LeastNatural
<1>3. QED
  BY <1>1, <1>2 DEF Min

LEMMA IndexFacts ==
    ASSUME members \in [Keys -> Seq(Slot)], NEW k \in Keys, NEW id, MemberIndex(k, id) # 0
    PROVE  MemberIndex(k, id) \in DOMAIN members[k] /\ Member(k, MemberIndex(k, id)).isec = id
<1>1. PICK I : I = {i \in 1 .. Len(members[k]) : members[k][i].isec = id}
  OBVIOUS
<1>2. MemberIndex(k, id) = IF I # {} THEN Min(I) ELSE 0
  BY <1>1 DEF MemberIndex, SelectInSeq
<1>3. DOMAIN members[k] = 1 .. Len(members[k]) /\ I \in SUBSET Nat
  BY <1>1
<1>4. MemberIndex(k, id) \in I
  BY <1>2, <1>3, FirstIndex
<1>5. QED
  BY <1>1, <1>3, <1>4 DEF Member

LEMMA IndexStays ==
    ASSUME SameMembers, members \in [Keys -> Seq(Slot)], NEW k \in Keys, NEW id
    PROVE  MemberIndex(k, id)' = MemberIndex(k, id)
<1>1. DOMAIN members[k] = 1 .. Len(members[k]) /\ Len(members'[k]) = Len(members[k])
  BY DEF SameMembers
<1>2. PICK I : I = {i \in 1 .. Len(members[k]) : members[k][i].isec = id}
  OBVIOUS
<1>3. I = {i \in 1 .. Len(members'[k]) : members'[k][i].isec = id}
  BY <1>1, <1>2 DEF SameMembers
<1>4. MemberIndex(k, id) = IF I # {} THEN Min(I) ELSE 0
  BY <1>2 DEF MemberIndex, SelectInSeq
<1>5. MemberIndex(k, id)' = IF I # {} THEN Min(I) ELSE 0
  BY <1>3 DEF MemberIndex, SelectInSeq
<1>6. QED
  BY <1>4, <1>5

LEMMA NothingPlaced ==
    ASSUME members \in [Keys -> Seq(Slot)],
           \A k \in Keys : \A n \in DOMAIN members[k] : members[k][n].offset = Unplaced
    PROVE  Starts = [k \in Keys |-> [item \in Placeable |-> Unplaced]]
<1>1. ASSUME NEW k \in Keys, NEW item \in Placeable PROVE StartOf(k, item) = Unplaced
  <2>1. PICK id : id = <<item[1], item[2]>>
    OBVIOUS
  <2>2. MemberIndex(k, id) # 0 => Member(k, MemberIndex(k, id)).offset = Unplaced
    BY IndexFacts DEF Member
  <2>3. QED
    BY <2>1, <2>2 DEF StartOf
<1>2. QED
  BY <1>1 DEF Starts

LEMMA NothingPlacedNext ==
    ASSUME members' \in [Keys -> Seq(Slot)],
           \A k \in Keys : \A n \in DOMAIN members'[k] : members'[k][n].offset = Unplaced
    PROVE  Starts' = [k \in Keys |-> [item \in Placeable |-> Unplaced]]
<1>1. ASSUME NEW k \in Keys, NEW item \in Placeable PROVE StartOf(k, item)' = Unplaced
  <2>1. PICK id : id = <<item[1], item[2]>>
    OBVIOUS
  <2>2. PICK I : I = {i \in 1 .. Len(members'[k]) : members'[k][i].isec = id}
    OBVIOUS
  <2>3. PICK n : n = IF I # {} THEN Min(I) ELSE 0
    OBVIOUS
  <2>4. MemberIndex(k, id)' = n
    BY <2>2, <2>3 DEF MemberIndex, SelectInSeq
  <2>5. DOMAIN members'[k] = 1 .. Len(members'[k]) /\ I \in SUBSET Nat
    BY <2>2
  <2>6. n # 0 => n \in DOMAIN members'[k]
    BY <2>2, <2>3, <2>5, FirstIndex
  <2>7. n # 0 => members'[k][n].offset = Unplaced
    BY <2>6
  <2>8. QED
    BY <2>1, <2>4, <2>7 DEF StartOf, Member
<1>2. QED
  BY <1>1 DEF Starts

\* The members that are placed are those that have their offset.
LEMMA StartFacts ==
    ASSUME IInv, Laying, NEW k \in Keys, NEW item \in Placeable, StartOf(k, item) # Unplaced
    PROVE  \E n \in DOMAIN members[k] :
             /\ Member(k, n).isec = <<item[1], item[2]>>
             /\ HeaderOf(Member(k, n).isec).size = item[3]
             /\ StartOf(k, item) = Member(k, n).offset
             /\ StartOf(k, item) + item[3] = MemberEnd(k, n)
             /\ Set(k, n)
<1>1. PICK id : id = <<item[1], item[2]>>
  OBVIOUS
<1>2. PICK n : n = MemberIndex(k, id)
  OBVIOUS
<1>3. n # 0 /\ HeaderOf(id).size = item[3] /\ StartOf(k, item) = Member(k, n).offset
  BY <1>1, <1>2 DEF StartOf
<1>4. n \in DOMAIN members[k] /\ Member(k, n).isec = id
  BY <1>2, <1>3, IndexFacts DEF IInv, TypeOK, BindTypes
<1>5. Set(k, n)
  BY <1>3, <1>4 DEF IInv, LayoutInv
<1>6. StartOf(k, item) + item[3] = MemberEnd(k, n)
  BY <1>3, <1>4 DEF MemberEnd
<1>7. QED
  BY <1>1, <1>3, <1>4, <1>5, <1>6

\* The item that member n of output section k is.
ItemOf(k, n) == <<Member(k, n).isec[1], Member(k, n).isec[2], HeaderOf(Member(k, n).isec).size>>

LEMMA ItemFacts ==
    ASSUME IInv, Laying, NEW k \in Keys, NEW n \in DOMAIN members[k], NEW item, item = ItemOf(k, n)
    PROVE  /\ item \in Placeable
           /\ item[3] = HeaderOf(Member(k, n).isec).size
           /\ Member(k, n).isec = <<item[1], item[2]>>
           /\ StartOf(k, item) = Member(k, n).offset
<1>1. Member(k, n).isec \in Relocatable /\ phase # "read"
  BY MemberFacts DEF IInv, Laying
<1>2. PICK id, f, i : /\ id = Member(k, n).isec /\ id = <<f, i>> /\ f \in Files
                      /\ i \in 1 .. MaxSections /\ HeaderOf(id) \in Shapes
  <2>1. Member(k, n).isec \in Ids /\ HeaderOf(Member(k, n).isec) \in Shapes
    BY <1>1, MemberTyped DEF IInv
  <2>2. QED
    BY <2>1 DEF Ids
<1>3. item = <<f, i, HeaderOf(id).size>> /\ item[1] = f /\ item[2] = i /\ item[3] = HeaderOf(id).size
  BY <1>2 DEF ItemOf
<1>4. item \in Placeable
  BY <1>2, <1>3 DEF Placeable
<1>5. MemberIndex(k, id) = n
  BY <1>2, AddressFacts
<1>6. n # 0
  BY MemberFacts DEF IInv, Laying
<1>7. QED
  BY <1>2, <1>3, <1>4, <1>5, <1>6 DEF StartOf

\* A turn of the loop places the member it is at.
LEMMA PlaceStep ==
    ASSUME IInv, IInv', AssignOffset, NEW o, NEW m, o = out, m = member
    PROVE  \E item \in Placeable : o \in Keys /\ Layout!Place(o, item)
<1>1. PICK x \in Nat : /\ o \in osecs /\ o \in Keys /\ m \in DOMAIN members[o]
                       /\ members'[o][m].offset = x /\ SameMembers /\ OthersStay(o, m)
  BY AssignOffsetFacts
<1>2. /\ UNCHANGED <<readVars, at, bindVars, todo, shdrVars>> /\ out' = o /\ out = o /\ o # NoOutput
      /\ phase = "assign" /\ phase' = "assign" /\ member' = m + 1
  BY DEF AssignOffset
<1>3. Laying /\ Laying'
  BY <1>2 DEF Laying
<1>4. osecs' = osecs /\ todo' = todo /\ shsize' = shsize /\ files' = files
      /\ members \in [Keys -> Seq(Slot)]
  BY <1>2 DEF bindVars, shdrVars, readVars, IInv, TypeOK, BindTypes
<1>5. \A k : LaidOut(k)' <=> LaidOut(k)
  BY <1>2, <1>4 DEF LaidOut
<1>6. Ends' = Ends /\ Ends[o] = -1
  <2>1. ~LaidOut(o)
    BY <1>2 DEF LaidOut
  <2>2. QED
    BY <1>1, <1>4, <1>5, <2>1 DEF Ends
<1>7. PICK item \in Placeable : item = ItemOf(o, m) /\ Member(o, m).isec = <<item[1], item[2]>>
                        /\ item[3] = HeaderOf(Member(o, m).isec).size
                        /\ StartOf(o, item) = Member(o, m).offset
  BY <1>1, <1>3, ItemFacts
<1>8. StartOf(o, item) = -1
  <2>1. ~Set(o, m)
    <3>1. ~LaidOut(o) /\ ~(m < m)
      <4>1. m \in Nat
        BY <1>1, <1>3, MemberFacts DEF IInv, Laying
      <4>2. QED
        BY <1>2, <4>1 DEF LaidOut
    <3>2. QED
      BY <1>2, <3>1 DEF Set
  <2>2. QED
    BY <1>1, <1>7, <2>1 DEF IInv, LayoutInv, Unplaced
<1>9. \A k \in Keys : \A id : MemberIndex(k, id)' = MemberIndex(k, id)
  BY <1>1, <1>4, IndexStays
<1>10. MemberIndex(o, <<item[1], item[2]>>) = m
  BY <1>1, <1>3, <1>7, AddressFacts
<1>11. StartOf(o, item)' = x
  <2>1. m # 0
    BY <1>1, <1>3, MemberFacts DEF IInv, Laying
  <2>2. HeaderOf(<<item[1], item[2]>>)' = HeaderOf(<<item[1], item[2]>>)
    BY <1>4 DEF HeaderOf
  <2>3. HeaderOf(<<item[1], item[2]>>)'.size = item[3]
    BY <1>7, <2>2
  <2>4. MemberIndex(o, <<item[1], item[2]>>)' = m
    BY <1>1, <1>9, <1>10
  <2>5. QED
    BY <1>1, <2>1, <2>3, <2>4 DEF StartOf, Member
<1>12. ASSUME NEW k \in Keys, NEW other \in Placeable, k # o \/ other # item
       PROVE  StartOf(k, other)' = StartOf(k, other)
  <2>1. PICK id, n : id = <<other[1], other[2]>> /\ n = MemberIndex(k, id)
    OBVIOUS
  <2>2. MemberIndex(k, id)' = n /\ HeaderOf(id)' = HeaderOf(id)
    BY <1>4, <1>9, <2>1 DEF HeaderOf
  <2>3. CASE n = 0
    BY <2>1, <2>2, <2>3 DEF StartOf
  <2>4. CASE n # 0
    <3>1. n \in DOMAIN members[k] /\ Member(k, n).isec = id
      BY <1>4, <2>1, <2>4, IndexFacts
    <3>2. CASE k # o \/ n # m
      <4>1. members'[k][n] = members[k][n]
        BY <1>1, <3>1, <3>2 DEF OthersStay
      <4>2. QED
        BY <2>1, <2>2, <4>1 DEF StartOf, Member
    <3>3. CASE k = o /\ n = m
      <4>1. other # item /\ id = <<item[1], item[2]>>
        BY <1>7, <1>12, <3>1, <3>3
      <4>2. item[3] = HeaderOf(id).size
        BY <1>7, <3>1, <3>3
      <4>3. PICK f \in Files, i \in 1 .. MaxSections, s \in {h.size : h \in Shapes} : other = <<f, i, s>>
        BY DEF Placeable
      <4>4. PICK g \in Files, j \in 1 .. MaxSections, z \in {h.size : h \in Shapes} : item = <<g, j, z>>
        BY <1>7 DEF Placeable
      <4>5. f = g /\ i = j
        BY <2>1, <4>1, <4>3, <4>4
      <4>6. s # z
        BY <4>1, <4>3, <4>4, <4>5
      <4>7. other[3] # HeaderOf(id).size
        BY <4>2, <4>3, <4>4, <4>6
      <4>8. QED
        BY <2>1, <2>2, <4>7 DEF StartOf
    <3>4. QED
      BY <3>2, <3>3
  <2>5. QED
    BY <2>3, <2>4
<1>13. ASSUME NEW other \in Placeable, StartOf(o, other) # -1
       PROVE  StartOf(o, other) + other[3] <= x
  <2>1. PICK n \in DOMAIN members[o] : /\ StartOf(o, other) + other[3] = MemberEnd(o, n)
                                       /\ Set(o, n)
    BY <1>1, <1>3, <1>13, StartFacts DEF Unplaced
  <2>2. n < m
    BY <1>2, <2>1 DEF Set, LaidOut
  <2>3. n # m
    <3>1. n \in Nat /\ m \in Nat
      BY <1>1, <1>3, MemberFacts DEF IInv, Laying
    <3>2. QED
      BY <2>2, <3>1
  <2>4. members'[o][n] = members[o][n]
    BY <1>1, <2>3 DEF OthersStay
  <2>5. MemberEnd(o, n)' = MemberEnd(o, n)
    BY <1>2, <2>4, MemberStays
  <2>6. n \in DOMAIN members'[o] /\ m \in DOMAIN members'[o] /\ Set(o, m)'
    <3>1. n \in DOMAIN members'[o] /\ m \in DOMAIN members'[o]
      BY <1>1 DEF SameMembers
    <3>2. m < m + 1
      BY <1>1, <1>3, MemberFacts DEF IInv, Laying
    <3>3. QED
      BY <1>2, <3>1, <3>2 DEF Set
  <2>7. MemberEnd(o, n)' <= Member(o, m)'.offset
    BY <1>1, <2>2, <2>6 DEF IInv, LayoutInv
  <2>8. Member(o, m)'.offset = x
    BY <1>1 DEF Member
  <2>9. QED
    BY <2>1, <2>5, <2>7, <2>8
<1>14. Starts' = [Starts EXCEPT ![o][item] = Starts'[o][item]] /\ Starts'[o][item] = x
  <2>1. DOMAIN Starts = Keys /\ \A k \in Keys : DOMAIN Starts[k] = Placeable
                                   /\ \A i \in Placeable : Starts[k][i] = StartOf(k, i)
    BY DEF Starts
  <2>2. Starts' = [k \in Keys |-> [i \in Placeable |-> StartOf(k, i)']]
    BY DEF Starts
  <2>3. Starts'[o][item] = x
    BY <1>1, <1>11, <2>2
  <2>4. [Starts EXCEPT ![o][item] = x] = [k \in Keys |-> [i \in Placeable |-> StartOf(k, i)']]
    <3>1. ASSUME NEW k \in Keys
          PROVE  [Starts EXCEPT ![o][item] = x][k] = [i \in Placeable |-> StartOf(k, i)']
      <4>1. CASE k # o
        <5>1. [Starts EXCEPT ![o][item] = x][k] = [i \in Placeable |-> StartOf(k, i)]
          BY <2>1, <4>1 DEF Starts
        <5>2. QED
          BY <1>12, <4>1, <5>1
      <4>2. CASE k = o
        <5>1. [Starts EXCEPT ![o][item] = x][k]
                = [i \in Placeable |-> IF i = item THEN x ELSE StartOf(o, i)]
          BY <2>1, <4>2 DEF Starts
        <5>2. \A i \in Placeable : StartOf(o, i)' = IF i = item THEN x ELSE StartOf(o, i)
          BY <1>1, <1>11, <1>12
        <5>3. QED
          BY <4>2, <5>1, <5>2
      <4>3. QED
        BY <4>1, <4>2
    <3>2. QED
      BY <2>1, <3>1
  <2>5. QED
    BY <2>2, <2>3, <2>4
<1>15. Layout!Behind(o, x)
  BY <1>1, <1>13 DEF Layout!Behind, Layout!Placed, Layout!Unplaced, Starts
<1>16. item \notin Layout!Placed(o)
  BY <1>1, <1>8 DEF Layout!Placed, Layout!Unplaced, Starts
<1>17. Layout!Place(o, item)
  BY <1>6, <1>14, <1>15, <1>16 DEF Layout!Place, Layout!Open
<1>18. QED
  BY <1>1, <1>17

LEMMA StartsStay ==
    ASSUME members' = members, files' = files
    PROVE  Starts' = Starts
<1>1. ASSUME NEW k, NEW i PROVE StartOf(k, i)' = StartOf(k, i)
  <2>1. PICK id : id = <<i[1], i[2]>>
    OBVIOUS
  <2>2. MemberIndex(k, id)' = MemberIndex(k, id)
    BY DEF MemberIndex, SelectInSeq
  <2>3. PICK n : n = MemberIndex(k, id)
    OBVIOUS
  <2>4. HeaderOf(id)' = HeaderOf(id) /\ Member(k, n)' = Member(k, n)
    BY DEF HeaderOf, Member
  <2>5. QED
    BY <2>1, <2>2, <2>3, <2>4 DEF StartOf, Member
<1>2. QED
  BY <1>1 DEF Starts

\* What follows the loop closes the output section.
LEMMA CloseStep ==
    ASSUME IInv, AssignSize, NEW o, o = out
    PROVE  o \in Keys /\ Layout!Close(o)
<1>1. /\ UNCHANGED <<readVars, at, bindVars, members, todo, member, cursor, top>>
      /\ out = o /\ out' = NoOutput /\ o # NoOutput
      /\ phase = "assign" /\ phase' = "assign" /\ member \notin DOMAIN members[o]
      /\ shsize' = [shsize EXCEPT ![o] = cursor]
  BY DEF AssignSize
<1>2. Laying
  BY <1>1 DEF Laying
<1>3. /\ o \in osecs /\ o \in Keys /\ o \notin todo /\ osecs' = osecs /\ files' = files
      /\ member \in 1 .. Len(members[o]) + 1 /\ top \in Nat /\ cursor \in Nat
      /\ shsize \in [Keys -> Nat]
  BY <1>1, <1>2, SetFacts DEF bindVars, readVars, IInv, LoopInv, TypeOK, WorkTypes, ShdrTypes
<1>4. PICK L \in Nat : /\ L = Len(members[o]) /\ L # 0 /\ DOMAIN members[o] = 1 .. L
                       /\ member = L + 1
  <2>1. PICK L \in Nat : L = Len(members[o]) /\ L # 0 /\ DOMAIN members[o] = 1 .. L
    BY <1>2, <1>3, MemberFacts DEF IInv, Laying
  <2>2. member \in 1 .. L + 1 /\ member \notin 1 .. L
    BY <1>1, <1>3, <2>1
  <2>3. QED
    BY <2>1, <2>2
<1>5. cursor = MemberEnd(o, L)
  <2>1. PICK m \in 1 .. Len(members[o]) + 1, t \in Nat : m = member /\ t = top
    BY <1>3
  <2>2. Here(o, m, t)
    BY <1>1, <2>1 DEF Here
  <2>3. cursor = IF m = 1 THEN 0 ELSE MemberEnd(o, m - 1)
    BY <1>3, <2>2 DEF IInv, LayoutInv
  <2>4. m # 1 /\ m - 1 = L
    BY <1>4, <2>1
  <2>5. QED
    BY <2>3, <2>4
<1>6. \A n \in DOMAIN members[o] : Set(o, n)
  BY <1>1, <1>4 DEF Set
<1>7. PICK item \in Placeable : /\ item[3] = HeaderOf(Member(o, L).isec).size
                                /\ StartOf(o, item) = Member(o, L).offset
  BY <1>2, <1>3, <1>4, ItemFacts
<1>8. StartOf(o, item) # -1 /\ StartOf(o, item) + item[3] = cursor
  <2>1. L \in DOMAIN members[o]
    BY <1>4
  <2>2. Member(o, L).offset \in Nat
    BY <1>2, <1>3, <1>6, <2>1, SetFacts
  <2>3. QED
    BY <1>5, <1>7, <2>2 DEF MemberEnd
<1>9. ASSUME NEW other \in Placeable, StartOf(o, other) # -1
      PROVE  StartOf(o, other) + other[3] <= cursor
  <2>1. PICK n \in DOMAIN members[o] : StartOf(o, other) + other[3] = MemberEnd(o, n)
    BY <1>2, <1>3, <1>9, StartFacts DEF Unplaced
  <2>2. PICK e, c, p \in Nat : /\ e = MemberEnd(o, n) /\ c = MemberEnd(o, L)
                               /\ p = Member(o, L).offset /\ p <= c
    <3>1. L \in DOMAIN members[o] /\ Set(o, L) /\ Set(o, n)
      BY <1>4, <1>6
    <3>2. /\ MemberEnd(o, n) \in Nat
          /\ Member(o, L).offset \in Nat /\ MemberEnd(o, L) \in Nat
          /\ Member(o, L).offset <= MemberEnd(o, L)
      BY <1>2, <1>3, <3>1, SetFacts
    <3>3. QED
      BY <3>2
  <2>3. CASE n = L
    BY <1>5, <2>1, <2>2, <2>3
  <2>4. CASE n # L
    <3>1. n < L /\ L \in DOMAIN members[o]
      BY <1>4, <2>4
    <3>2. e <= p
      BY <1>3, <1>6, <2>2, <3>1 DEF IInv, LayoutInv
    <3>3. QED
      BY <1>5, <2>1, <2>2, <3>2
  <2>5. QED
    BY <2>3, <2>4
<1>10. Starts' = Starts
  BY <1>1, <1>3, StartsStay
<1>11. /\ \A k \in Keys : k # o => (LaidOut(k)' <=> LaidOut(k))
       /\ ~LaidOut(o) /\ LaidOut(o)'
  <2>1. todo' = todo /\ osecs' = osecs
    BY <1>1, <1>3
  <2>2. \A k \in osecs : k # NoOutput
    BY DEF IInv, BindInv
  <2>3. QED
    BY <1>1, <1>3, <2>1, <2>2 DEF LaidOut
<1>12. Ends[o] = -1 /\ Ends'[o] = cursor
  BY <1>1, <1>3, <1>11 DEF Ends
<1>13. Ends' = [Ends EXCEPT ![o] = Ends'[o]]
  <2>1. \A k \in Keys : k # o => Ends'[k] = Ends[k]
    BY <1>1, <1>3, <1>11 DEF Ends
  <2>2. Ends' = [k \in Keys |-> Ends'[k]] /\ DOMAIN Ends = Keys
    BY DEF Ends
  <2>3. [Ends EXCEPT ![o] = Ends'[o]] = [k \in Keys |-> Ends'[k]]
    <3>1. Ends = [k \in Keys |-> Ends[k]]
      BY DEF Ends
    <3>2. QED
      BY <1>3, <2>1, <2>2, <3>1
  <2>4. QED
    BY <2>2, <2>3
<1>14. /\ \A i \in Placeable : Starts[o][i] = StartOf(o, i)
       /\ item \in Layout!Placed(o)
  BY <1>3, <1>7, <1>8 DEF Layout!Placed, Layout!Unplaced, Starts
<1>15. Layout!Behind(o, cursor)
  BY <1>9, <1>14 DEF Layout!Behind, Layout!Placed, Layout!Unplaced
<1>16. Layout!Close(o)
  <2>1. Ends'[o] = 0 \/ \E i \in Layout!Placed(o) :
          Ends'[o] = Starts[o][i] + [j \in Placeable |-> j[3]][i]
    <3>1. Ends'[o] = Starts[o][item] + [j \in Placeable |-> j[3]][item]
      BY <1>7, <1>8, <1>12, <1>14
    <3>2. QED
      BY <1>14, <3>1
  <2>2. QED
    BY <1>3, <1>10, <1>12, <1>13, <1>15, <2>1 DEF Layout!Close, Layout!Open
<1>17. QED
  BY <1>3, <1>16

\* Before Assign_input_section_offset there is nothing.
LEMMA NothingLaidOut ==
    ASSUME IInv, ~Laying
    PROVE  /\ members \in [Keys -> Seq(Slot)]
           /\ \A k \in Keys : \A n \in DOMAIN members[k] : members[k][n].offset = Unplaced
           /\ \A k : ~LaidOut(k)
<1>1. \A k, n : ~Set(k, n) /\ ~LaidOut(k)
  BY DEF Set, LaidOut, Laying
<1>2. \A k \in Keys : \A n \in DOMAIN members[k] : Member(k, n).offset = Unplaced
  BY <1>1 DEF IInv, LayoutInv
<1>3. members \in [Keys -> Seq(Slot)]
  BY DEF IInv, TypeOK, BindTypes
<1>4. QED
  BY <1>1, <1>2, <1>3 DEF Member

LEMMA NothingLaidOutNext ==
    ASSUME IInv', ~Laying'
    PROVE  /\ members' \in [Keys -> Seq(Slot)]
           /\ \A k \in Keys : \A n \in DOMAIN members'[k] : members'[k][n].offset = Unplaced
           /\ \A k : ~LaidOut(k)'
<1>1. \A k, n : ~Set(k, n)' /\ ~LaidOut(k)'
  BY DEF Set, LaidOut, Laying
<1>2. \A k \in Keys : \A n \in DOMAIN members'[k] : Member(k, n)'.offset = Unplaced
  BY <1>1 DEF IInv, LayoutInv
<1>3. members' \in [Keys -> Seq(Slot)]
  BY DEF IInv, TypeOK, BindTypes
<1>4. QED
  BY <1>1, <1>2, <1>3 DEF Member

\* The other steps leave the layout alone.
LEMMA LayoutKept ==
    ASSUME IInv, IInv', Next, ~AssignOffset, ~AssignSize
    PROVE  UNCHANGED <<Starts, Ends>>
<1>1. CASE ~Laying'
  <2>1. ~Laying
    BY <1>1 DEF Laying, Next, BeginAssign, OpenOutputFile, BeginCopy, PadMember, CopyEnd, CopyDone,
       Terminated, Ended, vars, ReadFile, InitMergeableSection, CountSections, SkipSection,
       BindSection, InsertOutputSections, AddMember, AddDone
  <2>2. Starts = [k \in Keys |-> [item \in Placeable |-> Unplaced]]
    BY <2>1, NothingLaidOut, NothingPlaced
  <2>3. Starts' = [k \in Keys |-> [item \in Placeable |-> Unplaced]]
    BY <1>1, NothingLaidOutNext, NothingPlacedNext
  <2>4. \A k : ~LaidOut(k) /\ ~LaidOut(k)'
    BY <1>1, <2>1, NothingLaidOut, NothingLaidOutNext
  <2>5. Ends' = Ends
    BY <2>4 DEF Ends
  <2>6. QED
    BY <2>2, <2>3, <2>5
<1>2. ASSUME members' = members, UNCHANGED readVars, shsize' = shsize,
             \A k \in Keys : LaidOut(k)' <=> LaidOut(k)
      PROVE  UNCHANGED <<Starts, Ends>>
  <2>1. Starts' = Starts
    BY <1>2, StartsStay DEF readVars
  <2>2. Ends' = Ends
    BY <1>2 DEF Ends
  <2>3. QED
    BY <2>1, <2>2
<1>3. CASE AddDone
  <2>1. /\ UNCHANGED <<readVars, bindVars, members, out, shdrVars>>
        /\ phase = "add" /\ phase' = "assign" /\ todo' = osecs
    BY <1>3 DEF AddDone
  <2>2. osecs' = osecs /\ shsize' = shsize
    BY <2>1 DEF bindVars, shdrVars
  <2>3. \A k : ~LaidOut(k) /\ ~LaidOut(k)'
    BY <2>1, <2>2 DEF LaidOut
  <2>4. QED
    BY <1>2, <2>1, <2>2, <2>3
<1>4. CASE BeginAssign
  <2>1. /\ UNCHANGED <<readVars, bindVars, members, shdrVars>>
        /\ phase = "assign" /\ phase' = "assign" /\ out = NoOutput
        /\ out' \in todo /\ todo' = todo \ {out'}
    BY <1>4 DEF BeginAssign
  <2>2. osecs' = osecs /\ shsize' = shsize
    BY <2>1 DEF bindVars, shdrVars
  <2>3. \A k \in osecs : k # NoOutput
    BY DEF IInv, BindInv
  <2>4. \A k : LaidOut(k)' <=> LaidOut(k)
    BY <2>1, <2>2, <2>3 DEF LaidOut
  <2>5. QED
    BY <1>2, <2>1, <2>2, <2>4
<1>5. CASE OpenOutputFile
  <2>1. /\ UNCHANGED <<readVars, bindVars, members, shdrVars>>
        /\ phase = "assign" /\ phase' = "copy" /\ out = NoOutput /\ todo = {}
    BY <1>5 DEF OpenOutputFile
  <2>2. osecs' = osecs /\ shsize' = shsize
    BY <2>1 DEF bindVars, shdrVars
  <2>3. \A k \in osecs : k # NoOutput
    BY DEF IInv, BindInv
  <2>4. \A k : LaidOut(k)' <=> LaidOut(k)
    BY <2>1, <2>2, <2>3 DEF LaidOut
  <2>5. QED
    BY <1>2, <2>1, <2>2, <2>4
<1>6. CASE BeginCopy \/ PadMember \/ CopyEnd \/ CopyDone \/ Terminated
  <2>1. /\ UNCHANGED <<readVars, bindVars, members, shdrVars>>
        /\ phase \in {"copy", "done"} /\ phase' \in {"copy", "done"}
    BY <1>6 DEF BeginCopy, PadMember, CopyEnd, CopyDone, Terminated, Ended, vars
  <2>2. osecs' = osecs /\ shsize' = shsize
    BY <2>1 DEF bindVars, shdrVars
  <2>3. \A k : LaidOut(k)' <=> LaidOut(k)
    BY <2>1, <2>2 DEF LaidOut
  <2>4. QED
    BY <1>2, <2>1, <2>2, <2>3
<1>7. CASE \/ ReadFile \/ InitMergeableSection
           \/ CountSections \/ SkipSection \/ BindSection \/ InsertOutputSections \/ AddMember
  <2>1. ~Laying'
    <3>1. CASE ReadFile \/ InitMergeableSection
      <4>1. phase' \in {"read", "merge", "count"}
        BY <3>1 DEF ReadFile, InitMergeableSection, NextFile
      <4>2. QED
        BY <4>1 DEF Laying
    <3>2. CASE CountSections \/ SkipSection \/ BindSection \/ InsertOutputSections \/ AddMember
      <4>1. phase' \in {"bind", "add"}
        BY <3>2 DEF CountSections, SkipSection, BindSection, InsertOutputSections, AddMember
      <4>2. QED
        BY <4>1 DEF Laying
    <3>3. QED
      BY <1>7, <3>1, <3>2
  <2>2. QED
    BY <1>1, <2>1
<1>8. QED
  BY <1>3, <1>4, <1>5, <1>6, <1>7 DEF Next

LEMMA PlacementStep ==
    ASSUME IInv, IInv', [Next]_vars
    PROVE  Layout!Next \/ UNCHANGED <<Starts, Ends>>
<1>1. CASE AssignOffset
  <2>1. PICK o, m : o = out /\ m = member
    OBVIOUS
  <2>2. PICK item \in Placeable : o \in Keys /\ Layout!Place(o, item)
    BY <1>1, <2>1, PlaceStep
  <2>3. QED
    BY <2>2 DEF Layout!Next
<1>2. CASE AssignSize
  <2>1. PICK o : o = out
    OBVIOUS
  <2>2. o \in Keys /\ Layout!Close(o)
    BY <1>2, <2>1, CloseStep
  <2>3. QED
    BY <2>2 DEF Layout!Next
<1>3. CASE Next /\ ~AssignOffset /\ ~AssignSize
  BY <1>3, LayoutKept
<1>4. CASE UNCHANGED vars
  <2>1. /\ members' = members /\ files' = files /\ shsize' = shsize /\ phase' = phase
        /\ osecs' = osecs /\ todo' = todo /\ out' = out
    BY <1>4 DEF vars, readVars, bindVars, workVars, shdrVars
  <2>2. Starts' = Starts
    BY <2>1, StartsStay
  <2>3. Ends' = Ends
    BY <2>1 DEF Ends, LaidOut
  <2>4. QED
    BY <2>2, <2>3
<1>5. QED
  BY <1>1, <1>2, <1>3, <1>4

LEMMA PlacementInit == Init => Layout!Init
<1> SUFFICES ASSUME Init PROVE Layout!Init
  OBVIOUS
<1>1. IInv /\ ~Laying
  BY InitInvariant DEF Init, Laying
<1>2. Starts = [k \in Keys |-> [item \in Placeable |-> -1]]
  BY <1>1, NothingLaidOut, NothingPlaced DEF Unplaced
<1>3. Ends = [k \in Keys |-> -1]
  BY <1>1, NothingLaidOut DEF Ends
<1>4. QED
  BY <1>2, <1>3 DEF Layout!Init, Layout!Unplaced, Layout!Open

\* Output sections are laid out as Placement says: every member once, behind all
\* that are there, never moved, and a section ends where its last member ends.
THEOREM Implementation == Spec => ImplementsPlacement
<1>1. Init => Layout!Init
  BY PlacementInit
<1>2. IInv /\ IInv' /\ [Next]_vars => Layout!Next \/ UNCHANGED <<Starts, Ends>>
  BY PlacementStep
<1>3. QED
  BY <1>1, <1>2, Invariance, PTL DEF Spec, ImplementsPlacement, Layout!Spec
=============================================================================

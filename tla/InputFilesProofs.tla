-------------------------- MODULE InputFilesProofs --------------------------
(***************************************************************************)
(* What is linked is what the command line asks for, for every command     *)
(* line and whatever files there are: the invariants that InputFiles       *)
(* states hold.                                                            *)
(*                                                                         *)
(* IInv says, of each loop, how much it has done: Parse_args with the      *)
(* arguments before `at` (ParseInv), Find_libraries with the pairs of a    *)
(* directory and a name before the present one (FindInv), and the reading  *)
(* of files with the objects, and the members, before the one at hand      *)
(* (InputsInv).                                                            *)
(***************************************************************************)
EXTENDS InputFiles, LayoutLemmas

\* Parse_args looks at argument n: neither is it the name of an output file nor
\* has a flag taken it.
IsHead(n) == n <= Len(args) => ~NamesOutput[n] /\ ~ValueOfFlag(n)

\* What of a kind is given before argument n.
Seen(kind, n) ==
    {m \in 1 .. n - 1 : args[m].kind = kind /\ ~NamesOutput[m] /\ ~ValueOfFlag(m)}
Listed(S) == [i \in 1 .. Cardinality(S) |-> args[Nth(S, i)].val]

\* The options are those of the arguments before the n-th.
ParsedBefore(n) ==
    /\ Seen("info", n) = {}
    /\ options.directories = Listed(Seen("directory", n))
    /\ options.libraries = Listed(Seen("library", n))
    /\ options.objects = Listed(Seen("plain", n))
    /\ options.machine = IF Seen("machine", n) = {} THEN Unknown
                         ELSE LET val == args[Max(Seen("machine", n))].val
                              IN  IF val \in Machines THEN val ELSE Unknown
    /\ named = IF Seen("output", n) = {} THEN 0 ELSE Max(Seen("output", n)) + 1

ParseInv ==
    /\ \A n \in Nat : phase = "parse" /\ at = n =>
         IsHead(n) /\ ParsedBefore(n) /\ options.output = "a.out"
    /\ OptionsRead

\* Find_libraries has looked for name l in directory d.
Passed(d, l) == d < dir \/ (d = dir /\ l < lib)

\* The n-th library found has index l, and comes from directory d.
Taken(n, d, l) == n \in DOMAIN libraries /\ libraries[n] = <<d, l>>

FindInv ==
    /\ phase = "parse" => dir = 1 /\ lib = 1 /\ libraries = <<>>
    /\ \A d \in DOMAIN options.directories : \A l \in DOMAIN options.libraries :
         Passed(d, l) /\ PathOf(<<d, l>>) \in DOMAIN Archives => Found(l)
    /\ \A n, d, l : Taken(n, d, l) => Passed(d, l) /\ d \in FirstDirectory(l)
    /\ \A m, n, c, d, k, l : Taken(m, c, k) /\ Taken(n, d, l) /\ m < n =>
         k # l /\ (c < d \/ (c = d /\ k < l))
    /\ phase \in {"objects", "archives", "done"} =>
         \A l \in DOMAIN options.libraries : Found(l)

\* Where the entries of library n begin.
StartsOf(n) == Start(Archives[PathOf(libraries[n])])

\* The members that have been read, if everything before the present position has.
IsRead(p) == p[1] < archive \/ (p[1] = archive /\ pos # 0 /\ StartsOf(p[1])[p[2]] < pos)
MembersRead == {p \in Members : IsRead(p)}

FileOf(p) == FromArchive(PathOf(libraries[p[1]]), EntriesOf(p[1])[p[2]].name)

InputsInv ==
    /\ phase \in {"parse", "find"} => inputs = <<>>
    /\ phase \in {"parse", "find", "objects"} => archive = 1 /\ pos = 0
    /\ phase = "objects" =>
         /\ Len(inputs) = at - 1
         /\ \A n \in 1 .. at - 1 : inputs[n] = FromObject(options.objects[n])
    /\ phase \in {"archives", "done"} =>
         LET count == Len(options.objects) IN
         /\ Len(inputs) = count + Cardinality(MembersRead)
         /\ \A n \in 1 .. count : inputs[n] = FromObject(options.objects[n])
         /\ \A p \in MembersRead :
              inputs[count + Cardinality(MembersBefore(p)) + 1] = FileOf(p)
    /\ phase = "done" => archive > Len(libraries)
    /\ \A n \in DOMAIN libraries : n = archive /\ pos # 0 =>
         (names <=> \E m \in DOMAIN EntriesOf(n) :
                      StartsOf(n)[m] < pos /\ EntriesOf(n)[m].kind = "strtab")

IInv == TypeOK /\ ParseInv /\ FindInv /\ InputsInv /\ ErrorsAreReal

-----------------------------------------------------------------------------
(***************************************************************************)
(* The command line.                                                       *)
(***************************************************************************)
LEMMA SequenceDomain ==
    ASSUME NEW A, NEW s \in Seq(A)
    PROVE  /\ Len(s) \in Nat /\ DOMAIN s = 1 .. Len(s)
           /\ \A i \in DOMAIN s : s[i] \in A /\ i \in Nat \ {0} /\ i <= Len(s)
OBVIOUS

LEMMA AppendTyped ==
    ASSUME NEW A, NEW s \in Seq(A), NEW a \in A
    PROVE  Append(s, a) \in Seq(A) /\ Len(Append(s, a)) = Len(s) + 1
OBVIOUS

LEMMA EmptyTyped ==
    ASSUME NEW A
    PROVE  <<>> \in Seq(A) /\ Len(<<>>) = 0 /\ DOMAIN <<>> = {}
OBVIOUS

LEMMA ArgsTyped ==
    ASSUME args \in ArgLists
    PROVE  /\ Len(args) \in Nat /\ DOMAIN args = 1 .. Len(args)
           /\ \A n \in 1 .. Len(args) : args[n].kind \in ArgKinds /\ args[n].val \in STRING
<1>1. args \in Seq(Arg)
  BY ArgumentsAssumption
<1>2. /\ Len(args) \in Nat /\ DOMAIN args = 1 .. Len(args)
      /\ \A n \in 1 .. Len(args) : args[n] \in Arg
  BY <1>1
<1>3. QED
  BY <1>2 DEF Arg

\* The recursive function is one: an argument names the output if the one before
\* it is -o and is not itself a name.
LEMMA NamesOutputDefined ==
    ASSUME args \in ArgLists
    PROVE  \A n \in 1 .. Len(args) :
             NamesOutput[n] <=> n > 1 /\ args[n-1].kind = "output" /\ ~NamesOutput[n-1]
<1>1. PICK L \in Nat : L = Len(args)
  BY ArgsTyped
<1> DEFINE is(b) == IF b THEN 1 ELSE 0
           step == [p \in {0, 1} \X (2 .. L) |-> is(args[p[2]-1].kind = "output" /\ p[1] = 0)]
<1>2. /\ step \in [{0, 1} \X (2 .. L) -> {0, 1}]
      /\ \A a \in {0, 1} : \A i \in 2 .. L :
           step[<<a, i>>] = 1 <=> args[i-1].kind = "output" /\ a = 0
  OBVIOUS
<1> HIDE DEF step
<1>3. PICK h : Recursion(h, L, {0, 1}, 0, step)
  BY <1>2, IndexRecursion
<1>4. /\ h \in [1 .. L -> {0, 1}]
      /\ L > 0 => h[1] = 0
      /\ \A i \in 2 .. L : h[i] = step[<<h[i-1], i>>]
  BY <1>3 DEF Recursion
<1> DEFINE f == [i \in 1 .. L |-> h[i] = 1]
<1>5. f \in [1 .. L -> BOOLEAN] /\ \A i \in 1 .. L : f[i] <=> h[i] = 1
  OBVIOUS
<1> HIDE DEF f
<1>6. ASSUME NEW i \in 1 .. L
      PROVE  f[i] <=> i > 1 /\ args[i-1].kind = "output" /\ ~f[i-1]
  <2>1. CASE i = 1
    <3>1. ~(h[i] = 1) /\ ~(i > 1)
      BY <1>4, <2>1
    <3>2. QED
      BY <1>5, <3>1
  <2>2. CASE i # 1
    <3>1. i \in 2 .. L /\ i - 1 \in 1 .. L /\ i > 1
      BY <2>2
    <3>2. h[i] = step[<<h[i-1], i>>] /\ h[i-1] \in {0, 1}
      BY <1>4, <2>2, <3>1
    <3>3. h[i] = 1 <=> args[i-1].kind = "output" /\ ~(h[i-1] = 1)
      BY <1>2, <3>1, <3>2
    <3>4. (f[i] <=> h[i] = 1) /\ (f[i-1] <=> h[i-1] = 1)
      BY <1>5, <3>1
    <3>5. QED
      BY <3>1, <3>3, <3>4, Zenon
  <2>3. QED
    BY <2>1, <2>2
<1>7. f = [i \in 1 .. L |-> i > 1 /\ args[i-1].kind = "output" /\ ~f[i-1]]
  <2>1. \A i \in 1 .. L : f[i] = (i > 1 /\ args[i-1].kind = "output" /\ ~f[i-1])
    BY <1>5, <1>6
  <2>2. f = [i \in 1 .. L |-> f[i]]
    BY <1>5
  <2>3. QED
    BY <2>1, <2>2, Zenon
<1>8. \E g : g = [i \in 1 .. Len(args) |-> i > 1 /\ args[i-1].kind = "output" /\ ~g[i-1]]
  BY <1>1, <1>7
<1>9. NamesOutput = [i \in 1 .. Len(args) |->
                       i > 1 /\ args[i-1].kind = "output" /\ ~NamesOutput[i-1]]
  BY <1>8 DEF NamesOutput
<1>10. QED
  BY <1>9

\* An argument that follows in a run of plain ones behind a flag.
LEMMA ValueFollows ==
    ASSUME args \in ArgLists, NEW n \in 1 .. Len(args), n + 1 <= Len(args),
           args[n+1].kind = "plain"
    PROVE  ValueOfFlag(n + 1) <=> \/ args[n].kind = "other" /\ ~NamesOutput[n]
                                  \/ ValueOfFlag(n)
<1>1. n \in Int /\ Len(args) \in Nat /\ (n + 1) - 1 = n
  BY ArgsTyped
<1>2. ASSUME args[n].kind = "other", ~NamesOutput[n] PROVE ValueOfFlag(n + 1)
  <2>1. n \in 1 .. (n + 1) - 1 /\ \A l \in n + 1 .. (n + 1) - 1 : args[l].kind = "plain"
    BY <1>1
  <2>2. QED
    BY <1>2, <2>1 DEF ValueOfFlag
<1>3. ASSUME ValueOfFlag(n) PROVE ValueOfFlag(n + 1)
  <2>1. PICK m \in 1 .. n - 1 : /\ args[m].kind = "other" /\ ~NamesOutput[m]
                                /\ \A l \in m + 1 .. n - 1 : args[l].kind = "plain"
    BY <1>3 DEF ValueOfFlag
  <2>2. args[n].kind = "plain"
    BY <1>3 DEF ValueOfFlag
  <2>3. m \in 1 .. (n + 1) - 1 /\ \A l \in m + 1 .. (n + 1) - 1 : l = n \/ l \in m + 1 .. n - 1
    BY <1>1
  <2>4. QED
    BY <2>1, <2>2, <2>3 DEF ValueOfFlag
<1>4. ASSUME ValueOfFlag(n + 1), ~(args[n].kind = "other" /\ ~NamesOutput[n])
      PROVE  ValueOfFlag(n)
  <2>1. PICK m \in 1 .. (n + 1) - 1 :
          /\ args[m].kind = "other" /\ ~NamesOutput[m]
          /\ \A l \in m + 1 .. (n + 1) - 1 : args[l].kind = "plain"
    BY <1>4 DEF ValueOfFlag
  <2>2. m # n
    BY <1>4, <2>1
  <2>3. m \in 1 .. n - 1 /\ n \in m + 1 .. (n + 1) - 1
    BY <1>1, <2>2
  <2>4. \A l \in m + 1 .. n - 1 : l \in m + 1 .. (n + 1) - 1
    BY <1>1
  <2>5. QED
    BY <2>1, <2>3, <2>4 DEF ValueOfFlag
<1>5. QED
  BY <1>2, <1>3, <1>4

\* After an argument that takes none of those behind it comes the next one.
LEMMA HeadAfterOne ==
    ASSUME args \in ArgLists, NEW n \in 1 .. Len(args), IsHead(n),
           args[n].kind \notin {"output", "other"}
    PROVE  IsHead(n + 1)
<1>1. SUFFICES ASSUME n + 1 <= Len(args) PROVE ~NamesOutput[n+1] /\ ~ValueOfFlag(n + 1)
  BY DEF IsHead
<1>2. /\ n \in Nat /\ Len(args) \in Nat /\ n <= Len(args)
      /\ n + 1 \in 1 .. Len(args) /\ (n + 1) - 1 = n
  BY <1>1, ArgsTyped
<1>3. ~NamesOutput[n+1]
  BY <1>2, NamesOutputDefined
<1>4. ~ValueOfFlag(n)
  BY <1>2 DEF IsHead
<1>5. ~ValueOfFlag(n + 1)
  <2>1. CASE args[n+1].kind = "plain"
    BY <1>1, <1>4, <2>1, ValueFollows
  <2>2. CASE args[n+1].kind # "plain"
    BY <2>2 DEF ValueOfFlag
  <2>3. QED
    BY <2>1, <2>2
<1>6. QED
  BY <1>3, <1>5

\* The argument behind -o is the name, and the one behind that is the next.
LEMMA HeadAfterOutput ==
    ASSUME args \in ArgLists, NEW n \in 1 .. Len(args), IsHead(n),
           args[n].kind = "output", n < Len(args)
    PROVE  NamesOutput[n+1] /\ IsHead(n + 2)
<1>1. /\ n \in Nat /\ Len(args) \in Nat /\ n + 1 \in 1 .. Len(args) /\ (n + 1) - 1 = n
      /\ n <= Len(args) /\ n + 2 = (n + 1) + 1 /\ (n + 2) - 1 = n + 1
  BY ArgsTyped
<1>2. NamesOutput[n+1]
  <2>1. ~NamesOutput[n] /\ n + 1 > 1
    BY <1>1 DEF IsHead
  <2>2. QED
    BY <1>1, <2>1, NamesOutputDefined
<1>3. ASSUME n + 2 <= Len(args) PROVE ~NamesOutput[n+2] /\ ~ValueOfFlag(n + 2)
  <2>1. n + 2 \in 1 .. Len(args)
    BY <1>1, <1>3
  <2>2. ~NamesOutput[n+2]
    BY <1>1, <1>2, <2>1, NamesOutputDefined
  <2>3. ~ValueOfFlag(n + 1)
    <3>1. CASE args[n+1].kind = "plain"
      <4>1. ~ValueOfFlag(n)
        BY <1>1 DEF IsHead
      <4>2. QED
        BY <1>1, <3>1, <4>1, ValueFollows
    <3>2. CASE args[n+1].kind # "plain"
      BY <3>2 DEF ValueOfFlag
    <3>3. QED
      BY <3>1, <3>2
  <2>4. ~ValueOfFlag(n + 2)
    <3>1. CASE args[n+2].kind = "plain"
      <4>1. PICK k \in 1 .. Len(args) : k = n + 1
        BY <1>1
      <4>2. k + 1 <= Len(args) /\ args[k+1].kind = "plain" /\ k + 1 = n + 2
        BY <1>1, <1>3, <3>1, <4>1
      <4>3. ~ValueOfFlag(k + 1)
        BY <1>2, <2>3, <4>1, <4>2, ValueFollows
      <4>4. QED
        BY <4>2, <4>3
    <3>2. CASE args[n+2].kind # "plain"
      BY <3>2 DEF ValueOfFlag
    <3>3. QED
      BY <3>1, <3>2
  <2>5. QED
    BY <2>2, <2>4
<1>4. QED
  BY <1>2, <1>3 DEF IsHead

\* NextFlag is behind the plain arguments that follow.
LEMMA NextFlagFacts ==
    ASSUME args \in ArgLists, NEW n \in 1 .. Len(args), at = n
    PROVE  \E m \in n + 1 .. Len(args) + 1 :
             /\ NextFlag = m
             /\ m <= Len(args) => args[m].kind # "plain"
             /\ \A k \in n + 1 .. m - 1 : args[k].kind = "plain"
<1> DEFINE S == {k \in n + 1 .. Len(args) + 1 : k > Len(args) \/ args[k].kind # "plain"}
<1>1. n \in Nat /\ Len(args) \in Nat /\ n <= Len(args)
  BY ArgsTyped
<1>2. S \in SUBSET Nat /\ Len(args) + 1 \in S /\ NextFlag = Min(S)
  BY <1>1 DEF NextFlag
<1>3. \A k \in S : k \in n + 1 .. Len(args) + 1 /\ (k <= Len(args) => args[k].kind # "plain")
  BY <1>1
<1>4. \A k \in n + 1 .. Len(args) + 1 : k \notin S => k <= Len(args) /\ args[k].kind = "plain"
  BY <1>1
<1> HIDE DEF S
<1>5. \E m \in S : \A k \in S : m <= k
  BY <1>2, LeastNatural
<1>6. Min(S) \in S /\ \A k \in S : Min(S) <= k
  BY <1>5 DEF Min
<1>7. PICK m \in n + 1 .. Len(args) + 1 : m = Min(S)
  BY <1>3, <1>6
<1>8. ASSUME NEW k \in n + 1 .. m - 1 PROVE args[k].kind = "plain"
  <2>1. k \in n + 1 .. Len(args) + 1 /\ ~(m <= k)
    BY <1>1, <1>7
  <2>2. k \notin S
    BY <1>6, <1>7, <2>1
  <2>3. QED
    BY <1>4, <2>1, <2>2
<1>9. QED
  BY <1>2, <1>3, <1>6, <1>7, <1>8

\* Behind a flag that is not known, and the values it takes, comes the next one.
LEMMA HeadAfterFlag ==
    ASSUME args \in ArgLists, NEW n \in 1 .. Len(args), IsHead(n), args[n].kind = "other",
           NEW m \in n + 1 .. Len(args) + 1,
           m <= Len(args) => args[m].kind # "plain",
           \A k \in n + 1 .. m - 1 : args[k].kind = "plain"
    PROVE  IsHead(m) /\ \A k \in n + 1 .. m - 1 : ValueOfFlag(k)
<1>1. /\ n \in Nat /\ m \in Nat /\ Len(args) \in Nat
      /\ n <= Len(args) /\ n < m /\ m - 1 \in 1 .. Len(args)
  BY ArgsTyped
<1>2. ~NamesOutput[n]
  BY <1>1 DEF IsHead
<1>3. ASSUME NEW k \in n + 1 .. m - 1 PROVE ValueOfFlag(k)
  <2>1. n \in 1 .. k - 1 /\ \A l \in n + 1 .. k - 1 : l \in n + 1 .. m - 1
    BY <1>1
  <2>2. \A l \in n + 1 .. k - 1 : args[l].kind = "plain"
    BY <2>1
  <2>3. QED
    BY <1>2, <2>1, <2>2 DEF ValueOfFlag
<1>4. ASSUME m <= Len(args) PROVE ~NamesOutput[m] /\ ~ValueOfFlag(m)
  <2>1. args[m-1].kind # "output"
    <3>1. CASE m - 1 = n
      BY <3>1
    <3>2. CASE m - 1 # n
      <4>1. m - 1 \in n + 1 .. m - 1
        BY <1>1, <3>2
      <4>2. args[m-1].kind = "plain"
        BY <4>1
      <4>3. QED
        BY <4>2
    <3>3. QED
      BY <3>1, <3>2
  <2>2. m \in 1 .. Len(args)
    BY <1>1, <1>4
  <2>3. ~NamesOutput[m]
    BY <2>1, <2>2, NamesOutputDefined
  <2>4. ~ValueOfFlag(m)
    BY <1>4 DEF ValueOfFlag
  <2>5. QED
    BY <2>3, <2>4
<1>5. QED
  BY <1>3, <1>4 DEF IsHead

\* What is given before the next argument is what is given before this one, and
\* this one.
LEMMA SeenNext ==
    ASSUME args \in ArgLists, NEW n \in 1 .. Len(args), IsHead(n),
           NEW m \in n + 1 .. Len(args) + 1,
           \A k \in n + 1 .. m - 1 : NamesOutput[k] \/ ValueOfFlag(k), NEW kind
    PROVE  Seen(kind, m) = Seen(kind, n) \union (IF args[n].kind = kind THEN {n} ELSE {})
<1>1. n \in Nat /\ m \in Nat /\ Len(args) \in Nat /\ n <= Len(args) /\ n < m
  BY ArgsTyped
<1>2. ~NamesOutput[n] /\ ~ValueOfFlag(n)
  BY <1>1 DEF IsHead
<1>3. \A k \in 1 .. m - 1 : k \in 1 .. n - 1 \/ k = n \/ k \in n + 1 .. m - 1
  BY <1>1
<1>4. n \in 1 .. m - 1 /\ \A k \in 1 .. n - 1 : k \in 1 .. m - 1
  BY <1>1
<1>5. ASSUME NEW k
      PROVE  k \in Seen(kind, m) <=> k \in Seen(kind, n) \/ (args[n].kind = kind /\ k = n)
  BY <1>2, <1>3, <1>4 DEF Seen
<1>6. QED
  BY <1>5

LEMMA SeenSubset ==
    ASSUME args \in ArgLists, NEW n \in 1 .. Len(args) + 1, NEW kind
    PROVE  /\ Seen(kind, n) \in SUBSET (1 .. n - 1) /\ IsFiniteSet(Seen(kind, n))
           /\ Seen(kind, n) \in SUBSET (1 .. Len(args)) /\ Seen(kind, n) \in SUBSET Nat
<1>1. n \in Nat /\ Len(args) \in Nat
  BY ArgsTyped
<1>2. Seen(kind, n) \in SUBSET (1 .. n - 1)
  BY DEF Seen
<1>3. IsFiniteSet(1 .. n - 1)
  BY <1>1, FS_Interval
<1>4. IsFiniteSet(Seen(kind, n))
  BY <1>2, <1>3, FS_Subset
<1>5. 1 .. n - 1 \in SUBSET (1 .. Len(args)) /\ 1 .. n - 1 \in SUBSET Nat
  BY <1>1
<1>6. QED
  BY <1>2, <1>4, <1>5

\* One more element is appended to the values, and is the greatest.
LEMMA ListedAdded ==
    ASSUME args \in ArgLists, NEW n \in 1 .. Len(args), NEW S \in SUBSET (1 .. n - 1)
    PROVE  /\ Listed(S \union {n}) = Append(Listed(S), args[n].val)
           /\ Listed(S) \in Seq(STRING) /\ Len(Listed(S)) = Cardinality(S)
           /\ Max(S \union {n}) = n
<1>1. n \in Nat /\ Len(args) \in Nat /\ n <= Len(args)
  BY ArgsTyped
<1>2. IsFiniteSet(S) /\ S \in SUBSET Int /\ \A i \in S : i < n
  <2>1. IsFiniteSet(1 .. n - 1)
    BY <1>1, FS_Interval
  <2>2. IsFiniteSet(S)
    BY <2>1, FS_Subset
  <2>3. \A i \in 1 .. n - 1 : i \in Int /\ i < n
    BY <1>1
  <2>4. QED
    BY <2>2, <2>3
<1>3. PICK T, N : T = S \union {n} /\ N = Cardinality(S)
  OBVIOUS
<1>4. /\ N \in Nat /\ Cardinality(T) = N + 1
      /\ \A k \in 1 .. N : Nth(T, k) = Nth(S, k) /\ Nth(S, k) \in S
      /\ Nth(T, N + 1) = n
  <2>1. N \in Nat /\ \A k \in 1 .. N : Nth(S, k) \in S
    BY <1>2, <1>3, NthFacts
  <2>2. n \in Int
    BY <1>1
  <2>3. QED
    BY <1>2, <1>3, <2>1, <2>2, NthAdded
<1>5. Listed(S) \in [1 .. N -> STRING] /\ \A k \in 1 .. N : Listed(S)[k] = args[Nth(S, k)].val
  <2>1. \A i \in S : args[i].val \in STRING
    BY <1>1, ArgsTyped
  <2>2. QED
    BY <1>3, <1>4, <2>1 DEF Listed
<1>6. Listed(S) \in Seq(STRING) /\ Len(Listed(S)) = N /\ args[n].val \in STRING
  BY <1>4, <1>5, ArgsTyped
<1>7. Listed(T) = Append(Listed(S), args[n].val)
  <2> DEFINE A == Append(Listed(S), args[n].val)
  <2>1. A \in Seq(STRING) /\ Len(A) = N + 1 /\ A[N + 1] = args[n].val
        /\ \A k \in 1 .. N : A[k] = Listed(S)[k]
    BY <1>4, <1>6
  <2>2. A = [k \in 1 .. N + 1 |-> A[k]]
    BY <2>1
  <2>3. Listed(T) = [k \in 1 .. N + 1 |-> args[Nth(T, k)].val]
    BY <1>4 DEF Listed
  <2>4. ASSUME NEW k \in 1 .. N + 1 PROVE A[k] = args[Nth(T, k)].val
    <3>1. CASE k = N + 1
      BY <1>4, <2>1, <3>1
    <3>2. CASE k \in 1 .. N
      BY <1>4, <1>5, <2>1, <3>2
    <3>3. k = N + 1 \/ k \in 1 .. N
      <4>1. N \in Nat
        BY <1>4
      <4>2. QED
        BY <4>1
    <3>4. QED
      BY <3>1, <3>2, <3>3
  <2> HIDE DEF A
  <2>5. QED
    BY <2>2, <2>3, <2>4 DEF A
<1>8. Max(T) = n
  <2>1. n \in T /\ \A i \in T : i <= n
    BY <1>1, <1>2, <1>3
  <2>2. \A i \in T : i \in Nat
    BY <1>1, <1>3
  <2>3. \A i \in T : (\A j \in T : j <= i) => i = n
    <3>1. ASSUME NEW i \in T, \A j \in T : j <= i PROVE i = n
      BY <1>1, <2>1, <2>2, <3>1
    <3>2. QED
      BY <3>1
  <2>4. Max(T) = CHOOSE i \in T : \A j \in T : i >= j
    BY DEF Max
  <2>5. \A i \in T : \A j \in T : i >= j <=> j <= i
    BY <2>2
  <2>6. QED
    BY <2>1, <2>3, <2>4, <2>5
<1>9. QED
  BY <1>3, <1>6, <1>7, <1>8

-----------------------------------------------------------------------------
(***************************************************************************)
(* Parse_args.                                                             *)
(***************************************************************************)
LEMMA SameArgs ==
    ASSUME args' = args
    PROVE  /\ NamesOutput' = NamesOutput /\ Stop' = Stop
           /\ \A n : (ValueOfFlag(n)' <=> ValueOfFlag(n)) /\ (IsHead(n)' <=> IsHead(n))
           /\ \A kind : Given(kind)' = Given(kind) /\ Values(kind)' = Values(kind)
           /\ \A kind, n : Seen(kind, n)' = Seen(kind, n)
           /\ \A S : Listed(S)' = Listed(S)
<1>1. NamesOutput' = NamesOutput
  BY DEF NamesOutput
<1>2. ASSUME NEW n PROVE ValueOfFlag(n)' <=> ValueOfFlag(n)
  BY <1>1 DEF ValueOfFlag
<1>3. Stop' = Stop
  BY <1>1 DEF Stop
<1>4. ASSUME NEW n PROVE IsHead(n)' <=> IsHead(n)
  BY <1>1, <1>2 DEF IsHead
<1>5. ASSUME NEW kind PROVE Given(kind)' = Given(kind)
  BY <1>1, <1>2, <1>3 DEF Given
<1>6. ASSUME NEW kind PROVE Values(kind)' = Values(kind)
  BY <1>5 DEF Values
<1>7. ASSUME NEW kind, NEW n PROVE Seen(kind, n)' = Seen(kind, n)
  BY <1>1, <1>2 DEF Seen
<1>8. ASSUME NEW S PROVE Listed(S)' = Listed(S)
  BY DEF Listed
<1>9. QED
  BY <1>1, <1>2, <1>3, <1>4, <1>5, <1>6, <1>7, <1>8

\* An argument is read that is no request for information.
LEMMA ParseStep ==
    ASSUME TypeOK, ParseInv, phase = "parse", args' = args, phase' = phase,
           NEW n \in 1 .. Len(args), at = n, args[n].kind # "info",
           NEW m \in n + 1 .. Len(args) + 1, at' = m, IsHead(m),
           \A k \in n + 1 .. m - 1 : NamesOutput[k] \/ ValueOfFlag(k),
           options'.output = options.output,
           options'.directories = IF args[n].kind = "directory"
                                  THEN Append(options.directories, args[n].val)
                                  ELSE options.directories,
           options'.libraries = IF args[n].kind = "library"
                                THEN Append(options.libraries, args[n].val)
                                ELSE options.libraries,
           options'.objects = IF args[n].kind = "plain"
                              THEN Append(options.objects, args[n].val)
                              ELSE options.objects,
           options'.machine = IF args[n].kind = "machine"
                              THEN IF args[n].val \in Machines THEN args[n].val ELSE Unknown
                              ELSE options.machine,
           named' = IF args[n].kind = "output" THEN n + 1 ELSE named
    PROVE  ParseInv'
<1>1. args \in ArgLists /\ n \in Nat /\ IsHead(n) /\ ParsedBefore(n) /\ options.output = "a.out"
  BY ArgsTyped DEF TypeOK, OptionTypes, ParseInv
<1>2. \A kind : Seen(kind, m) = Seen(kind, n) \union (IF args[n].kind = kind THEN {n} ELSE {})
  BY <1>1, SeenNext
<1>3. \A kind : Seen(kind, n) \in SUBSET (1 .. n - 1)
  BY <1>1, SeenSubset
<1>4. \A kind : /\ Listed(Seen(kind, n) \union {n}) = Append(Listed(Seen(kind, n)), args[n].val)
                /\ Max(Seen(kind, n) \union {n}) = n
  BY <1>1, <1>3, ListedAdded
<1>5. ASSUME NEW kind
      PROVE  IF args[n].kind = kind
             THEN /\ Listed(Seen(kind, m)) = Append(Listed(Seen(kind, n)), args[n].val)
                  /\ Seen(kind, m) # {} /\ Max(Seen(kind, m)) = n
             ELSE Seen(kind, m) = Seen(kind, n)
  <2>1. CASE args[n].kind = kind
    BY <1>2, <1>4, <2>1
  <2>2. CASE args[n].kind # kind
    BY <1>2, <2>2
  <2>3. QED
    BY <2>1, <2>2
<1>6. /\ Seen("info", m) = {}
      /\ options'.directories = Listed(Seen("directory", m))
      /\ options'.libraries = Listed(Seen("library", m))
      /\ options'.objects = Listed(Seen("plain", m))
  BY <1>1, <1>5 DEF ParsedBefore
<1>7. options'.machine = IF Seen("machine", m) = {} THEN Unknown
                         ELSE LET val == args[Max(Seen("machine", m))].val
                              IN  IF val \in Machines THEN val ELSE Unknown
  BY <1>1, <1>5 DEF ParsedBefore
<1>8. named' = IF Seen("output", m) = {} THEN 0 ELSE Max(Seen("output", m)) + 1
  BY <1>1, <1>5 DEF ParsedBefore
<1>9. /\ IsHead(m)'
      /\ \A kind : Seen(kind, m)' = Seen(kind, m)
      /\ \A S : Listed(S)' = Listed(S)
  BY SameArgs
<1>10. ParsedBefore(m)'
  <2>1. /\ Seen("info", m)' = Seen("info", m)
        /\ Seen("machine", m)' = Seen("machine", m) /\ Seen("output", m)' = Seen("output", m)
    BY <1>9
  <2>2. /\ Listed(Seen("directory", m))' = Listed(Seen("directory", m))
        /\ Listed(Seen("library", m))' = Listed(Seen("library", m))
        /\ Listed(Seen("plain", m))' = Listed(Seen("plain", m))
    BY <1>9
  <2>3. (Seen("info", m) = {})' /\ (options.directories = Listed(Seen("directory", m)))'
        /\ (options.libraries = Listed(Seen("library", m)))'
        /\ (options.objects = Listed(Seen("plain", m)))'
    BY <1>6, <2>1, <2>2
  <2>4. (options.machine = IF Seen("machine", m) = {} THEN Unknown
                           ELSE LET val == args[Max(Seen("machine", m))].val
                                IN  IF val \in Machines THEN val ELSE Unknown)'
    BY <1>7, <2>1
  <2>5. (named = IF Seen("output", m) = {} THEN 0 ELSE Max(Seen("output", m)) + 1)'
    BY <1>8, <2>1
  <2>6. QED
    BY <2>3, <2>4, <2>5 DEF ParsedBefore
<1>11. OptionsRead'
  BY DEF OptionsRead
<1>12. QED
  BY <1>1, <1>9, <1>10, <1>11 DEF ParseInv

\* Parse_args comes to an end at argument n: the end, or -v or -h.
LEMMA StopsHere ==
    ASSUME args \in ArgLists, NEW n \in 1 .. Len(args) + 1, IsHead(n), Seen("info", n) = {},
           n <= Len(args) => args[n].kind = "info"
    PROVE  Stop = n /\ \A kind : Given(kind) = Seen(kind, n)
<1> DEFINE S == {k \in 1 .. Len(args) : args[k].kind = "info" /\ ~NamesOutput[k]}
                   \union {Len(args) + 1}
<1>1. n \in Nat /\ Len(args) \in Nat
  BY ArgsTyped
<1>2. n \in S
  <2>1. CASE n = Len(args) + 1
    BY <2>1
  <2>2. CASE n # Len(args) + 1
    <3>1. n <= Len(args) /\ n \in 1 .. Len(args)
      BY <1>1, <2>2
    <3>2. ~NamesOutput[n]
      BY <3>1 DEF IsHead
    <3>3. QED
      BY <3>1, <3>2
  <2>3. QED
    BY <2>1, <2>2
<1>3. ASSUME NEW k \in S PROVE n <= k /\ k \in Nat
  <2>1. CASE k = Len(args) + 1
    BY <1>1, <2>1
  <2>2. CASE k # Len(args) + 1
    <3>1. k \in 1 .. Len(args) /\ args[k].kind = "info" /\ ~NamesOutput[k]
      BY <2>2
    <3>2. ~ValueOfFlag(k)
      BY <3>1 DEF ValueOfFlag
    <3>3. k \notin 1 .. n - 1
      BY <3>1, <3>2 DEF Seen
    <3>4. QED
      BY <1>1, <3>1, <3>3
  <2>3. QED
    BY <2>1, <2>2
<1>4. Stop = n
  <2>1. Stop = Min(S)
    BY DEF Stop
  <2> HIDE DEF S
  <2>2. \A k \in S : (\A j \in S : k <= j) <=> k = n
    <3>1. ASSUME NEW k \in S, \A j \in S : k <= j PROVE k = n
      <4>1. k <= n /\ n <= k /\ k \in Nat
        BY <1>2, <1>3, <3>1
      <4>2. QED
        BY <1>1, <4>1
    <3>2. QED
      BY <1>3, <3>1
  <2>3. QED
    BY <1>2, <2>1, <2>2 DEF Min
<1>5. ASSUME NEW kind PROVE Given(kind) = Seen(kind, n)
  BY <1>4 DEF Given, Seen
<1>6. QED
  BY <1>4, <1>5

\* Then the options are those of the whole command line.
LEMMA ParseEnds ==
    ASSUME TypeOK, ParseInv, phase = "parse", args' = args, phase' = "find",
           NEW n \in 1 .. Len(args) + 1, at = n, n <= Len(args) => args[n].kind = "info",
           options' = [options EXCEPT !.output = IF n <= Len(args) \/ named = 0 THEN @
                                                 ELSE args[named].val]
    PROVE  ParseInv'
<1>1. /\ args \in ArgLists /\ IsHead(n) /\ ParsedBefore(n) /\ options.output = "a.out"
      /\ n \in Nat /\ Len(args) \in Nat
  BY ArgsTyped DEF TypeOK, OptionTypes, ParseInv
<1>2. Stop = n /\ \A kind : Given(kind) = Seen(kind, n)
  BY <1>1, StopsHere DEF ParsedBefore
<1>3. \A kind : Values(kind) = Listed(Seen(kind, n))
  BY <1>2 DEF Values, Listed
<1>4. /\ options'.directories = options.directories /\ options'.libraries = options.libraries
      /\ options'.objects = options.objects /\ options'.machine = options.machine
      /\ options'.output = IF n <= Len(args) \/ named = 0 THEN "a.out" ELSE args[named].val
  BY <1>1 DEF TypeOK, OptionTypes
<1>5. options'.output = IF Stop <= Len(args) \/ Given("output") = {} THEN "a.out"
                        ELSE args[Max(Given("output")) + 1].val
  <2>1. CASE Given("output") = {}
    BY <1>1, <1>2, <1>4, <2>1 DEF ParsedBefore
  <2>2. CASE Given("output") # {}
    <3>1. named = Max(Given("output")) + 1
      BY <1>1, <1>2, <2>2 DEF ParsedBefore
    <3>2. Max(Given("output")) \in Nat
      <4>1. Seen("output", n) \in SUBSET Nat /\ IsFiniteSet(Seen("output", n))
        BY <1>1, SeenSubset
      <4>2. QED
        BY <1>2, <2>2, <4>1, MaxOfFinite
    <3>3. named # 0
      BY <3>1, <3>2
    <3>4. QED
      BY <1>2, <1>4, <2>2, <3>1, <3>3
  <2>3. QED
    BY <2>1, <2>2
<1>6. /\ options'.directories = Values("directory") /\ options'.libraries = Values("library")
      /\ options'.objects = Values("plain")
      /\ options'.machine = IF Given("machine") = {} THEN Unknown
                            ELSE LET val == args[Max(Given("machine"))].val
                                 IN  IF val \in Machines THEN val ELSE Unknown
  BY <1>1, <1>2, <1>3, <1>4 DEF ParsedBefore
<1>7. /\ Stop' = Stop
      /\ Values("directory")' = Values("directory") /\ Values("library")' = Values("library")
      /\ Values("plain")' = Values("plain")
      /\ Given("machine")' = Given("machine") /\ Given("output")' = Given("output")
  BY SameArgs
<1>8. OptionsRead'
  BY <1>5, <1>6, <1>7 DEF OptionsRead
<1>9. QED
  BY <1>8 DEF ParseInv

\* Later the options stay.
LEMMA OptionsStay ==
    ASSUME ParseInv, phase # "parse", phase' # "parse", phase = phase' \/ phase # "no_output",
           args' = args, options' = options
    PROVE  ParseInv'
<1>1. /\ Stop' = Stop
      /\ Values("directory")' = Values("directory") /\ Values("library")' = Values("library")
      /\ Values("plain")' = Values("plain")
      /\ Given("machine")' = Given("machine") /\ Given("output")' = Given("output")
  BY SameArgs
<1>2. OptionsRead'
  BY <1>1 DEF ParseInv, OptionsRead
<1>3. QED
  BY <1>2 DEF ParseInv

\* Before the search begins, no library has been found.
LEMMA FindBegins ==
    ASSUME OptionTypes', dir' = 1, lib' = 1, libraries' = <<>>,
           phase' \in {"parse", "find", "no_output"}
    PROVE  FindInv'
<1>1. /\ \A d \in DOMAIN options'.directories : ~(d < 1)
      /\ \A l \in DOMAIN options'.libraries : ~(l < 1)
  BY SequenceDomain DEF OptionTypes
<1>2. \A d \in DOMAIN options'.directories : \A l \in DOMAIN options'.libraries : ~Passed(d, l)'
  BY <1>1 DEF Passed
<1>3. \A n, d, l : ~Taken(n, d, l)'
  BY DEF Taken
<1>4. QED
  BY <1>2, <1>3 DEF FindInv

\* What Parse_args leaves to the others.
LEMMA ParsingRest ==
    ASSUME IInv, phase = "parse", phase' \in {"parse", "find"}, OptionTypes',
           UNCHANGED <<findVars, readVars, inputs>>
    PROVE  FindInv' /\ InputsInv' /\ ErrorsAreReal' /\ LibraryTypes' /\ ReadTypes'
<1>1. /\ dir = 1 /\ lib = 1 /\ libraries = <<>> /\ archive = 1 /\ pos = 0 /\ inputs = <<>>
      /\ names \in BOOLEAN
  BY DEF IInv, FindInv, InputsInv, TypeOK, ReadTypes
<1>2. /\ dir' = 1 /\ lib' = 1 /\ libraries' = <<>> /\ archive' = 1 /\ pos' = 0 /\ inputs' = <<>>
      /\ names' \in BOOLEAN
  BY <1>1 DEF findVars, readVars
<1>3. FindInv'
  BY <1>2, FindBegins DEF OptionTypes
<1>4. InputsInv'
  BY <1>2 DEF InputsInv
<1>5. ErrorsAreReal'
  BY DEF ErrorsAreReal
<1>6. LibraryTypes' /\ ReadTypes'
  BY <1>2 DEF LibraryTypes, ReadTypes
<1>7. QED
  BY <1>3, <1>4, <1>5, <1>6

LEMMA ParsingTail ==
    ASSUME IInv, phase = "parse", phase' \in {"parse", "find"}, OptionTypes', ParseInv',
           at' \in Nat \ {0}, phase' = "parse" => at' <= Len(args') + 1,
           UNCHANGED <<findVars, readVars, inputs>>
    PROVE  IInv'
<1>1. FindInv' /\ InputsInv' /\ ErrorsAreReal' /\ LibraryTypes' /\ ReadTypes'
  BY ParsingRest
<1>2. dir' = 1 /\ lib' = 1
  BY DEF IInv, FindInv, findVars
<1>3. Len(options'.directories) \in Nat
  BY SequenceDomain DEF OptionTypes
<1>4. LoopTypes'
  BY <1>2, <1>3 DEF LoopTypes, Phases
<1>5. QED
  BY <1>1, <1>4 DEF IInv, TypeOK

\* The arguments that are one option each.
LEMMA TakeInvariant ==
    ASSUME IInv, ParseMachine \/ ParseDirectory \/ ParseLibrary \/ ParseObject
    PROVE  IInv'
<1>1. PICK n \in 1 .. Len(args) : phase = "parse" /\ at = n
  <2>1. phase = "parse" /\ at <= Len(args) /\ at \in Nat \ {0} /\ Len(args) \in Nat
    BY ArgsTyped DEF ParseMachine, ParseDirectory, ParseLibrary, ParseObject, Parsing, IInv, TypeOK,
       LoopTypes, OptionTypes
  <2>2. at \in 1 .. Len(args)
    BY <2>1
  <2>3. QED
    BY <2>1, <2>2
<1>2. /\ args' = args /\ phase' = phase /\ at' = n + 1 /\ named' = named
      /\ UNCHANGED <<findVars, readVars, inputs>>
  BY <1>1 DEF ParseMachine, ParseDirectory, ParseLibrary, ParseObject, Take
<1>3. PICK kind, val : kind = args[n].kind /\ val = args[n].val
  OBVIOUS
<1>4. /\ args \in ArgLists /\ IsHead(n) /\ n \in Nat /\ Len(args) \in Nat /\ val \in STRING
      /\ options \in [directories : Seq(STRING), libraries : Seq(STRING),
                    objects : Seq(STRING), output : STRING \union {"a.out"},
                    machine : Machines \union {Unknown}]
      /\ kind \in {"machine", "directory", "library", "plain"}
  BY <1>1, <1>3, ArgsTyped
     DEF IInv, ParseInv, TypeOK, OptionTypes, ParseMachine, ParseDirectory, ParseLibrary,
         ParseObject, Parsing
<1>5. /\ kind = "machine" => options' =
           [options EXCEPT !.machine = IF val \in Machines THEN val ELSE Unknown]
      /\ kind = "directory" => options' = [options EXCEPT !.directories = Append(@, val)]
      /\ kind = "library" => options' = [options EXCEPT !.libraries = Append(@, val)]
      /\ kind = "plain" => options' = [options EXCEPT !.objects = Append(@, val)]
  BY <1>1, <1>3 DEF ParseMachine, ParseDirectory, ParseLibrary, ParseObject, Parsing, Take
<1>6. /\ options' \in [directories : Seq(STRING), libraries : Seq(STRING),
                     objects : Seq(STRING), output : STRING \union {"a.out"},
                    machine : Machines \union {Unknown}]
      /\ options'.output = options.output
      /\ options'.directories = IF kind = "directory" THEN Append(options.directories, val)
                                ELSE options.directories
      /\ options'.libraries = IF kind = "library" THEN Append(options.libraries, val)
                              ELSE options.libraries
      /\ options'.objects = IF kind = "plain" THEN Append(options.objects, val)
                            ELSE options.objects
      /\ options'.machine = IF kind = "machine" THEN IF val \in Machines THEN val ELSE Unknown
                            ELSE options.machine
  <2>0. /\ Append(options.directories, val) \in Seq(STRING)
        /\ Append(options.libraries, val) \in Seq(STRING)
        /\ Append(options.objects, val) \in Seq(STRING)
    BY <1>4, AppendTyped
  <2>1. CASE kind = "machine"
    BY <1>4, <1>5, <2>1
  <2>2. CASE kind = "directory"
    <3>1. PICK ds \in Seq(STRING) : ds = Append(options.directories, val)
      BY <2>0
    <3>2. options' = [options EXCEPT !.directories = ds]
      BY <1>5, <2>2, <3>1
    <3>3. QED
      BY <1>4, <2>2, <3>1, <3>2
  <2>3. CASE kind = "library"
    <3>1. PICK ls \in Seq(STRING) : ls = Append(options.libraries, val)
      BY <2>0
    <3>2. options' = [options EXCEPT !.libraries = ls]
      BY <1>5, <2>3, <3>1
    <3>3. QED
      BY <1>4, <2>3, <3>1, <3>2
  <2>4. CASE kind = "plain"
    <3>1. PICK os \in Seq(STRING) : os = Append(options.objects, val)
      BY <2>0
    <3>2. options' = [options EXCEPT !.objects = os]
      BY <1>5, <2>4, <3>1
    <3>3. QED
      BY <1>4, <2>4, <3>1, <3>2
  <2>5. QED
    BY <1>4, <2>1, <2>2, <2>3, <2>4
<1>7. n + 1 \in n + 1 .. Len(args) + 1 /\ \A k \in n + 1 .. (n + 1) - 1 : FALSE
  BY <1>4
<1>8. IsHead(n + 1)
  BY <1>3, <1>4, HeadAfterOne
<1>9. ParseInv'
  BY <1>1, <1>2, <1>3, <1>4, <1>6, <1>7, <1>8, ParseStep DEF IInv
<1>10. OptionTypes'
  BY <1>2, <1>6 DEF IInv, TypeOK, OptionTypes
<1>11. QED
  BY <1>1, <1>2, <1>4, <1>7, <1>9, <1>10, ParsingTail

\* -o and the name behind it.
LEMMA ParseOutputInvariant ==
    ASSUME IInv, ParseOutput
    PROVE  IInv'
<1>1. PICK n \in 1 .. Len(args) : at = n
  <2>1. at <= Len(args) /\ at \in Nat \ {0} /\ Len(args) \in Nat
    BY ArgsTyped DEF ParseOutput, Parsing, IInv, TypeOK, LoopTypes, OptionTypes
  <2>2. at \in 1 .. Len(args)
    BY <2>1
  <2>3. QED
    BY <2>2
<1>2. /\ phase = "parse" /\ args[n].kind = "output" /\ n < Len(args)
      /\ args' = args /\ phase' = phase /\ at' = n + 2 /\ named' = n + 1 /\ options' = options
      /\ UNCHANGED <<findVars, readVars, inputs>>
  BY <1>1 DEF ParseOutput, Parsing
<1>3. args \in ArgLists /\ IsHead(n) /\ n \in Nat /\ Len(args) \in Nat
  BY <1>1, <1>2, ArgsTyped DEF IInv, ParseInv, TypeOK, OptionTypes
<1>4. NamesOutput[n+1] /\ IsHead(n + 2)
  BY <1>2, <1>3, HeadAfterOutput
<1>5. /\ n + 2 \in n + 1 .. Len(args) + 1 /\ \A k \in n + 1 .. (n + 2) - 1 : k = n + 1
      /\ n + 1 \in 0 .. Len(args)
  BY <1>2, <1>3
<1>6. ParseInv'
  <2>1. \A k \in n + 1 .. (n + 2) - 1 : NamesOutput[k] \/ ValueOfFlag(k)
    BY <1>4, <1>5
  <2>2. QED
    BY <1>1, <1>2, <1>4, <1>5, <2>1, ParseStep DEF IInv
<1>7. OptionTypes'
  BY <1>2, <1>5 DEF IInv, TypeOK, OptionTypes
<1>8. QED
  BY <1>2, <1>3, <1>5, <1>6, <1>7, ParsingTail

\* A flag that is not known, and its values.
LEMMA SkipFlagInvariant ==
    ASSUME IInv, SkipFlag
    PROVE  IInv'
<1>1. PICK n \in 1 .. Len(args) : at = n
  <2>1. at <= Len(args) /\ at \in Nat \ {0} /\ Len(args) \in Nat
    BY ArgsTyped DEF SkipFlag, Parsing, IInv, TypeOK, LoopTypes, OptionTypes
  <2>2. at \in 1 .. Len(args)
    BY <2>1
  <2>3. QED
    BY <2>2
<1>2. /\ phase = "parse" /\ args[n].kind = "other"
      /\ args' = args /\ phase' = phase /\ at' = NextFlag /\ named' = named /\ options' = options
      /\ UNCHANGED <<findVars, readVars, inputs>>
  BY <1>1 DEF SkipFlag, Parsing, parseVars
<1>3. args \in ArgLists /\ IsHead(n) /\ n \in Nat /\ Len(args) \in Nat
  BY <1>1, <1>2, ArgsTyped DEF IInv, ParseInv, TypeOK, OptionTypes
<1>4. PICK m \in n + 1 .. Len(args) + 1 :
        /\ NextFlag = m
        /\ m <= Len(args) => args[m].kind # "plain"
        /\ \A k \in n + 1 .. m - 1 : args[k].kind = "plain"
  BY <1>1, <1>3, NextFlagFacts
<1>5. IsHead(m) /\ \A k \in n + 1 .. m - 1 : ValueOfFlag(k)
  BY <1>2, <1>3, <1>4, HeadAfterFlag
<1>6. at' = m /\ m \in Nat \ {0} /\ m <= Len(args) + 1
  BY <1>2, <1>3, <1>4
<1>7. ParseInv'
  BY <1>1, <1>2, <1>5, <1>6, ParseStep DEF IInv
<1>8. OptionTypes'
  BY <1>2 DEF IInv, TypeOK, OptionTypes
<1>9. QED
  BY <1>2, <1>6, <1>7, <1>8, ParsingTail

\* Parse_args returns.
LEMMA ParseEndInvariant ==
    ASSUME IInv, ParseInfo \/ ParseDone
    PROVE  IInv'
<1>1. PICK n \in 1 .. Len(args) + 1 : at = n
  <2>1. at <= Len(args) + 1 /\ at \in Nat \ {0} /\ Len(args) \in Nat
    BY ArgsTyped DEF ParseInfo, ParseDone, Parsing, IInv, TypeOK, LoopTypes, OptionTypes
  <2>2. at \in 1 .. Len(args) + 1
    BY <2>1
  <2>3. QED
    BY <2>2
<1>2. Len(args) \in Nat /\ n \in Nat \ {0} /\ args \in ArgLists
  BY <1>1, ArgsTyped DEF IInv, TypeOK, OptionTypes
<1>3. PICK out : out = IF n <= Len(args) \/ named = 0 THEN options.output ELSE args[named].val
  OBVIOUS
<1>4. /\ options \in [directories : Seq(STRING), libraries : Seq(STRING),
                    objects : Seq(STRING), output : STRING \union {"a.out"},
                    machine : Machines \union {Unknown}]
      /\ named \in 0 .. Len(args)
  BY DEF IInv, TypeOK, OptionTypes
<1>5. /\ phase = "parse" /\ phase' = "find" /\ args' = args /\ named' = named /\ at' = at
      /\ n <= Len(args) => args[n].kind = "info"
      /\ options' = [options EXCEPT !.output = out]
      /\ UNCHANGED <<findVars, readVars, inputs>>
  <2>1. CASE ParseInfo
    <3>1. options = [options EXCEPT !.output = options.output]
      BY <1>4
    <3>2. QED
      BY <1>1, <1>3, <2>1, <3>1 DEF ParseInfo, Parsing, parseVars
  <2>2. CASE ParseDone
    <3>1. ~(n <= Len(args))
      BY <1>1, <1>2, <2>2 DEF ParseDone
    <3>2. options' = [options EXCEPT !.output = IF named = 0 THEN options.output
                                                ELSE args[named].val]
      BY <2>2 DEF ParseDone
    <3>3. QED
      BY <1>1, <1>3, <2>2, <3>1, <3>2 DEF ParseDone
  <2>3. QED
    BY <2>1, <2>2
<1>6. ParseInv'
  BY <1>1, <1>3, <1>5, ParseEnds DEF IInv
<1>7. out \in STRING \union {"a.out"}
  BY <1>2, <1>3, <1>4, ArgsTyped
<1>8. OptionTypes'
  BY <1>2, <1>4, <1>5, <1>7 DEF OptionTypes
<1>9. QED
  BY <1>1, <1>2, <1>5, <1>6, <1>8, ParsingTail

-----------------------------------------------------------------------------
(***************************************************************************)
(* Steps that end the program.                                             *)
(***************************************************************************)
LEMMA SameLibraries ==
    ASSUME UNCHANGED findVars, options' = options
    PROVE  /\ \A n, d, l : Taken(n, d, l)' <=> Taken(n, d, l)
           /\ \A d, l : Passed(d, l)' <=> Passed(d, l)
           /\ \A l : FirstDirectory(l)' = FirstDirectory(l) /\ (Found(l)' <=> Found(l))
           /\ \A f : PathOf(f)' = PathOf(f)
           /\ \A n : StartsOf(n)' = StartsOf(n) /\ EntriesOf(n)' = EntriesOf(n)
           /\ Members' = Members
<1>1. dir' = dir /\ lib' = lib /\ libraries' = libraries
  BY DEF findVars
<1>2. /\ \A n, d, l : Taken(n, d, l)' <=> Taken(n, d, l)
      /\ \A d, l : Passed(d, l)' <=> Passed(d, l)
      /\ \A l : Found(l)' <=> Found(l)
  BY <1>1 DEF Taken, Passed, Found
<1>3. \A f : PathOf(f)' = PathOf(f)
  BY DEF PathOf
<1>4. ASSUME NEW l PROVE FirstDirectory(l)' = FirstDirectory(l)
  BY <1>3 DEF FirstDirectory
<1>5. ASSUME NEW n PROVE StartsOf(n)' = StartsOf(n) /\ EntriesOf(n)' = EntriesOf(n)
  BY <1>1 DEF StartsOf, EntriesOf, PathOf
<1>6. Members' = Members
  BY <1>1, <1>5 DEF Members
<1>7. QED
  BY <1>2, <1>3, <1>4, <1>5, <1>6

LEMMA FindStays ==
    ASSUME FindInv, UNCHANGED findVars, options' = options, phase' # "parse",
           phase' \in {"objects", "archives", "done"} =>
             \A l \in DOMAIN options.libraries : Found(l)
    PROVE  FindInv'
<1>1. /\ \A n, d, l : Taken(n, d, l)' <=> Taken(n, d, l)
      /\ \A d, l : Passed(d, l)' <=> Passed(d, l)
      /\ \A l : FirstDirectory(l)' = FirstDirectory(l) /\ (Found(l)' <=> Found(l))
      /\ \A f : PathOf(f)' = PathOf(f)
  BY SameLibraries
<1>2. ASSUME NEW d \in DOMAIN options.directories, NEW l \in DOMAIN options.libraries,
             Passed(d, l)', PathOf(<<d, l>>)' \in DOMAIN Archives
      PROVE  Found(l)'
  BY <1>1, <1>2 DEF FindInv
<1>3. ASSUME NEW n, NEW d, NEW l, Taken(n, d, l)'
      PROVE  Passed(d, l)' /\ d \in FirstDirectory(l)'
  BY <1>1, <1>3 DEF FindInv
<1>4. ASSUME NEW m, NEW n, NEW c, NEW d, NEW k, NEW l, Taken(m, c, k)', Taken(n, d, l)', m < n
      PROVE  k # l /\ (c < d \/ (c = d /\ k < l))
  BY <1>1, <1>4 DEF FindInv
<1>5. QED
  BY <1>1, <1>2, <1>3, <1>4 DEF FindInv

\* The types of the loops are those of the state before.
LEMMA LibraryTypesStay ==
    ASSUME LibraryTypes, UNCHANGED findVars, options' = options
    PROVE  LibraryTypes'
<1>1. libraries' = libraries /\ \A f : PathOf(f)' = PathOf(f)
  BY SameLibraries DEF findVars
<1>2. \A n \in DOMAIN libraries : PathOf(libraries[n])' = PathOf(libraries[n])
  BY <1>1 DEF PathOf
<1>3. QED
  BY <1>1, <1>2 DEF LibraryTypes

LEMMA ReadTypesStay ==
    ASSUME ReadTypes, UNCHANGED findVars, options' = options, UNCHANGED readVars
    PROVE  inputs' \in Seq([path : Paths, name : STRING, alive : BOOLEAN]) => ReadTypes'
<1>1. /\ libraries' = libraries /\ archive' = archive /\ pos' = pos /\ names' = names
      /\ Current' = Current
  BY DEF findVars, readVars, Current, PathOf
<1>2. QED
  BY <1>1 DEF ReadTypes

\* A step that ends the program for a reason.
LEMMA FailInvariant ==
    ASSUME IInv, NEW reason \in Failures, Fail(reason),
           phase \in {"parse", "find", "objects", "archives"},
           phase = "parse" => reason = "no_output", ErrorsAreReal'
    PROVE  IInv'
<1>1. /\ phase' = reason /\ args' = args /\ named' = named /\ options' = options /\ at' = at
      /\ dir' = dir /\ lib' = lib /\ libraries' = libraries
      /\ archive' = archive /\ pos' = pos /\ names' = names /\ inputs' = inputs
      /\ UNCHANGED findVars /\ UNCHANGED readVars
  BY DEF Fail, parseVars, findVars, readVars
<1>2. phase' \notin {"parse", "find", "objects", "archives", "done"} /\ phase' \in Phases
  BY <1>1 DEF Failures, Phases
<1>3. TypeOK'
  <2>1. OptionTypes' /\ LoopTypes'
    BY <1>1, <1>2 DEF IInv, TypeOK, OptionTypes, LoopTypes
  <2>2. LibraryTypes' /\ ReadTypes'
    BY <1>1, LibraryTypesStay, ReadTypesStay DEF IInv, TypeOK, ReadTypes
  <2>3. QED
    BY <2>1, <2>2 DEF TypeOK
<1>4. ParseInv'
  <2>1. CASE phase = "parse"
    BY <1>1, <2>1 DEF ParseInv, OptionsRead
  <2>2. CASE phase # "parse"
    <3>1. phase # "no_output"
      OBVIOUS
    <3>2. QED
      BY <1>1, <1>2, <2>2, <3>1, OptionsStay DEF IInv
  <2>3. QED
    BY <2>1, <2>2
<1>5. FindInv'
  BY <1>1, <1>2, FindStays DEF IInv
<1>6. InputsInv'
  <2>1. \A n : StartsOf(n)' = StartsOf(n) /\ EntriesOf(n)' = EntriesOf(n)
    BY <1>1, SameLibraries
  <2>2. QED
    BY <1>1, <1>2, <2>1 DEF IInv, InputsInv
<1>7. QED
  BY <1>3, <1>4, <1>5, <1>6 DEF IInv

-----------------------------------------------------------------------------
(***************************************************************************)
(* The first state.                                                        *)
(***************************************************************************)
LEMMA InitInvariant == Init => IInv
<1> SUFFICES ASSUME Init PROVE IInv
  OBVIOUS
<1>1. /\ args \in ArgLists /\ phase = "parse" /\ at = 1 /\ named = 0
      /\ options = [directories |-> <<>>, libraries |-> <<>>, objects |-> <<>>,
                    output |-> "a.out", machine |-> Unknown]
      /\ dir = 1 /\ lib = 1 /\ libraries = <<>>
      /\ archive = 1 /\ pos = 0 /\ names = FALSE /\ inputs = <<>>
  BY DEF Init
<1>2. Len(args) \in Nat
  BY <1>1, ArgsTyped
<1>3. TypeOK
  <2>1. OptionTypes
    <3>1. <<>> \in Seq(STRING)
      BY EmptyTyped
    <3>2. options \in [directories : Seq(STRING), libraries : Seq(STRING), objects : Seq(STRING),
                       output : STRING \union {"a.out"}, machine : Machines \union {Unknown}]
      BY <1>1, <3>1, Zenon
    <3>3. QED
      BY <1>1, <1>2, <3>2 DEF OptionTypes
  <2>2. LoopTypes
    BY <1>1, <1>2 DEF LoopTypes, Phases
  <2>3. LibraryTypes
    BY <1>1, EmptyTyped DEF LibraryTypes
  <2>4. ReadTypes
    <3>1. inputs \in Seq([path : Paths, name : STRING, alive : BOOLEAN])
      BY <1>1, EmptyTyped
    <3>2. archive \in 1 .. Len(libraries) + 1 /\ pos = 0
      BY <1>1, EmptyTyped
    <3>3. names \in BOOLEAN
      BY <1>1, Zenon
    <3>4. QED
      BY <3>1, <3>2, <3>3 DEF ReadTypes
  <2>5. QED
    BY <2>1, <2>2, <2>3, <2>4 DEF TypeOK
<1>4. ParseInv
  <2>1. IsHead(1)
    <3>1. ASSUME 1 <= Len(args) PROVE ~NamesOutput[1]
      <4>1. 1 \in 1 .. Len(args)
        BY <1>2, <3>1
      <4>2. QED
        BY <1>1, <4>1, NamesOutputDefined
    <3>2. ~ValueOfFlag(1)
      BY DEF ValueOfFlag
    <3>3. QED
      BY <3>1, <3>2 DEF IsHead
  <2>2. \A kind : Seen(kind, 1) = {}
    BY DEF Seen
  <2>3. Listed({}) = <<>>
    <3>1. 1 .. Cardinality({}) = {}
      BY FS_EmptySet
    <3>2. QED
      BY <3>1 DEF Listed
  <2>4. ParsedBefore(1)
    BY <1>1, <2>2, <2>3 DEF ParsedBefore
  <2>5. QED
    BY <1>1, <2>1, <2>4 DEF ParseInv, OptionsRead
<1>5. FindInv
  <2>1. \A d, l : d \in DOMAIN options.directories => FALSE
    BY <1>1
  <2>2. \A n, d, l : ~Taken(n, d, l)
    BY <1>1 DEF Taken
  <2>3. QED
    BY <1>1, <2>1, <2>2 DEF FindInv
<1>6. InputsInv
  BY <1>1 DEF InputsInv
<1>7. ErrorsAreReal
  BY <1>1 DEF ErrorsAreReal
<1>8. QED
  BY <1>3, <1>4, <1>5, <1>6, <1>7 DEF IInv

-----------------------------------------------------------------------------
(***************************************************************************)
(* What the linker stops for.                                              *)
(***************************************************************************)
\* -o is the last argument.
LEMMA OutputMissing ==
    ASSUME IInv, ParseOutputMissing
    PROVE  IInv'
<1>1. /\ phase = "parse" /\ at = Len(args) /\ at <= Len(args) /\ args[at].kind = "output"
      /\ Fail("no_output") /\ phase' = "no_output" /\ args' = args
  BY DEF ParseOutputMissing, Parsing, Fail, parseVars
<1>2. PICK n \in Nat : at = n
  BY DEF IInv, TypeOK, LoopTypes
<1>3. ~NamesOutput[n] /\ n = Len(args)
  BY <1>1, <1>2 DEF IInv, ParseInv, IsHead
<1>4. NamesOutput' = NamesOutput
  BY <1>1, SameArgs
<1>5. args'[Len(args')].kind = "output" /\ ~(NamesOutput')[Len(args')]
  BY <1>1, <1>2, <1>3, <1>4
<1>6. ErrorsAreReal'
  BY <1>1, <1>5 DEF ErrorsAreReal
<1>7. QED
  BY <1>1, <1>6, FailInvariant DEF Failures

\* All the directories have been looked through.
LEMMA NotLooking ==
    ASSUME IInv, phase = "find", ~Looking
    PROVE  \A l \in DOMAIN options.libraries : \A d \in DOMAIN options.directories : Passed(d, l)
<1>1. /\ DOMAIN options.directories = 1 .. Len(options.directories)
      /\ DOMAIN options.libraries = 1 .. Len(options.libraries)
      /\ Len(options.directories) \in Nat /\ Len(options.libraries) \in Nat
      /\ dir \in 1 .. Len(options.directories) + 1
      /\ lib = 1 \/ lib \in 1 .. Len(options.libraries)
  BY SequenceDomain DEF IInv, TypeOK, OptionTypes, LoopTypes
<1>2. ~(dir <= Len(options.directories)) \/ ~(lib <= Len(options.libraries))
  BY DEF Looking
<1>3. PICK D \in Nat, L \in Nat : D = Len(options.directories) /\ L = Len(options.libraries)
  BY <1>1
<1>4. PICK i \in 1 .. D + 1 : i = dir
  BY <1>1, <1>3
<1>5. ASSUME NEW l \in 1 .. L, NEW d \in 1 .. D PROVE d < i
  <2>1. lib <= L
    <3>1. CASE lib = 1
      BY <3>1
    <3>2. CASE lib \in 1 .. L
      BY <3>2
    <3>3. QED
      BY <1>1, <1>3, <3>1, <3>2
  <2>2. ~(i <= D)
    BY <1>2, <1>3, <1>4, <2>1
  <2>3. QED
    BY <2>2
<1>6. QED
  BY <1>1, <1>3, <1>4, <1>5 DEF Passed

\* A library is nowhere to be found.
LEMMA LibraryMissingInvariant ==
    ASSUME IInv, LibraryMissing
    PROVE  IInv'
<1>1. phase = "find" /\ ~Looking /\ Fail("no_library")
  BY DEF LibraryMissing
<1>2. /\ phase' = "no_library" /\ options' = options /\ UNCHANGED findVars
  BY <1>1 DEF Fail, parseVars
<1>3. PICK l \in DOMAIN options.libraries : ~Found(l)
  BY DEF LibraryMissing
<1>4. \A d \in DOMAIN options.directories : PathOf(<<d, l>>) \notin DOMAIN Archives
  BY <1>1, <1>3, NotLooking DEF IInv, FindInv
<1>5. FirstDirectory(l) = {}
  BY <1>4 DEF FirstDirectory
<1>6. FirstDirectory(l)' = FirstDirectory(l)
  BY <1>2, SameLibraries
<1>7. ErrorsAreReal'
  BY <1>2, <1>3, <1>5, <1>6 DEF ErrorsAreReal
<1>8. QED
  BY <1>1, <1>7, FailInvariant DEF Failures

\* The directory at hand is the first that has a library not found yet.
LEMMA FirstIsHere ==
    ASSUME IInv, Looking, ~Found(lib), PathOf(<<dir, lib>>) \in DOMAIN Archives
    PROVE  /\ dir \in FirstDirectory(lib)
           /\ dir \in DOMAIN options.directories /\ lib \in DOMAIN options.libraries
<1>1. /\ DOMAIN options.directories = 1 .. Len(options.directories)
      /\ DOMAIN options.libraries = 1 .. Len(options.libraries)
      /\ Len(options.directories) \in Nat /\ Len(options.libraries) \in Nat
      /\ dir \in 1 .. Len(options.directories) + 1
      /\ lib = 1 \/ lib \in 1 .. Len(options.libraries)
      /\ dir <= Len(options.directories) /\ lib <= Len(options.libraries)
  BY SequenceDomain DEF IInv, TypeOK, OptionTypes, LoopTypes, Looking
<1>2. /\ dir \in DOMAIN options.directories /\ lib \in DOMAIN options.libraries
      /\ \A d \in 1 .. dir - 1 : d < dir /\ d \in DOMAIN options.directories
  BY <1>1
<1>3. \A d \in 1 .. dir - 1 : PathOf(<<d, lib>>) \notin DOMAIN Archives
  BY <1>2 DEF IInv, FindInv, Passed
<1>4. QED
  BY <1>2, <1>3 DEF FirstDirectory

\* A library is found that is no archive.
LEMMA LibraryIsNoArchiveInvariant ==
    ASSUME IInv, LibraryIsNoArchive
    PROVE  IInv'
<1>1. /\ Looking /\ phase = "find" /\ ~Found(lib) /\ PathOf(<<dir, lib>>) \in DOMAIN Archives
      /\ ~Archives[PathOf(<<dir, lib>>)].magic /\ Fail("no_archive")
  BY DEF LibraryIsNoArchive, Looking
<1>2. /\ phase' = "no_archive" /\ options' = options /\ UNCHANGED findVars
      /\ dir' = dir /\ lib' = lib
  BY <1>1 DEF Fail, parseVars, findVars
<1>3. PICK d, l : d = dir /\ l = lib
  OBVIOUS
<1>4. d \in FirstDirectory(l) /\ l \in DOMAIN options.libraries
  BY <1>1, <1>3, FirstIsHere
<1>5. FirstDirectory(l)' = FirstDirectory(l) /\ PathOf(<<d, l>>)' = PathOf(<<d, l>>)
  BY <1>2, SameLibraries DEF PathOf
<1>6. /\ l \in DOMAIN options'.libraries /\ d \in FirstDirectory(l)'
      /\ ~Archives[PathOf(<<d, l>>)'].magic
  BY <1>1, <1>2, <1>3, <1>4, <1>5
<1>7. ErrorsAreReal'
  BY <1>2, <1>6 DEF ErrorsAreReal
<1>8. QED
  BY <1>1, <1>7, FailInvariant DEF Failures

-----------------------------------------------------------------------------
(***************************************************************************)
(* Where the entries of an archive begin.                                  *)
(***************************************************************************)
LEMMA ArchiveTyped ==
    ASSUME NEW path \in DOMAIN Archives
    PROVE  LET entries == Archives[path].entries IN
           /\ entries \in Seq(Entry) /\ Len(entries) \in Nat /\ DOMAIN entries = 1 .. Len(entries)
           /\ \A k \in 1 .. Len(entries) : entries[k] \in Entry
           /\ Archives[path].magic \in BOOLEAN /\ Archives[path].padded \in BOOLEAN
<1>1. Archives[path] \in [magic : BOOLEAN, entries : Seq(Entry), padded : BOOLEAN]
  BY FilesAssumption
<1>2. Archives[path].magic \in BOOLEAN /\ Archives[path].padded \in BOOLEAN
  BY <1>1, Zenon
<1>3. Archives[path].entries \in Seq(Entry)
  BY <1>1
<1>4. QED
  BY <1>2, <1>3

LEMMA EvenFacts ==
    ASSUME NEW n \in Nat
    PROVE  Even(n) \in Nat /\ Even(n) = (IF n % 2 = 1 THEN n + 1 ELSE n)
BY DEF Even

\* The recursive function is one.
LEMMA StartDefined ==
    ASSUME NEW path \in DOMAIN Archives, NEW a, a = Archives[path],
           NEW L, L = Len(a.entries)
    PROVE  /\ L \in Nat /\ DOMAIN a.entries = 1 .. L
           /\ \A k \in 1 .. L : a.entries[k] \in Entry /\ a.entries[k].size \in Nat
           /\ \A k \in 1 .. L + 1 : Start(a)[k] \in Nat \ {0}
           /\ Start(a)[1] = MagicSize
           /\ \A k \in 1 .. L :
                Start(a)[k + 1] = Start(a)[k] + HeaderSize + Even(a.entries[k].size)
<1>1. L \in Nat /\ DOMAIN a.entries = 1 .. L /\ \A k \in 1 .. L : a.entries[k] \in Entry
  BY ArchiveTyped
<1>2. \A k \in 1 .. L : a.entries[k].size \in Nat
  BY <1>1 DEF Entry
<1>3. MagicSize \in Nat \ {0} /\ HeaderSize \in Nat \ {0}
  BY FilesAssumption
<1> DEFINE P == Nat \ {0}
           more(i) == HeaderSize + Even(a.entries[i-1].size)
           step == [p \in P \X (2 .. L + 1) |-> p[1] + more(p[2])]
<1>4. \A i \in 2 .. L + 1 : i - 1 \in 1 .. L /\ more(i) \in Nat \ {0}
  <2>1. ASSUME NEW i \in 2 .. L + 1 PROVE i - 1 \in 1 .. L /\ more(i) \in Nat \ {0}
    <3>1. i - 1 \in 1 .. L
      BY <1>1
    <3>2. Even(a.entries[i-1].size) \in Nat
      BY <1>2, <3>1, EvenFacts
    <3>3. QED
      BY <1>3, <3>1, <3>2
  <2>2. QED
    BY <2>1
<1>5. \A x \in P : \A i \in 2 .. L + 1 : x + more(i) \in P
  <2>1. ASSUME NEW x \in P, NEW i \in 2 .. L + 1 PROVE x + more(i) \in P
    <3>1. PICK m \in Nat \ {0} : m = more(i)
      BY <1>4
    <3>2. QED
      BY <3>1
  <2>2. QED
    BY <2>1
<1> HIDE DEF more
<1>6. /\ step \in [P \X (2 .. L + 1) -> P]
      /\ \A x \in P : \A i \in 2 .. L + 1 : step[<<x, i>>] = x + more(i)
  BY <1>5
<1> HIDE DEF step
<1>7. L + 1 \in Nat /\ L + 1 > 0 /\ MagicSize \in P
  BY <1>1, <1>3
<1>8. PICK f \in [1 .. L + 1 -> P] : /\ f[1] = MagicSize
                                    /\ \A i \in 2 .. L + 1 : f[i] = step[<<f[i-1], i>>]
  <2> HIDE DEF P
  <2>1. PICK N \in Nat : N = L + 1
    BY <1>7
  <2>2. step \in [P \X (2 .. N) -> P]
    BY <1>6, <2>1
  <2>3. PICK f : Recursion(f, N, P, MagicSize, step)
    BY <1>7, <2>2, IndexRecursion
  <2>4. QED
    BY <1>7, <2>1, <2>3 DEF Recursion
<1>9. \A i \in 2 .. L + 1 : f[i] = f[i-1] + more(i)
  <2>1. ASSUME NEW i \in 2 .. L + 1 PROVE f[i] = f[i-1] + more(i)
    <3>1. i - 1 \in 1 .. L + 1
      BY <1>1
    <3>2. QED
      BY <1>6, <1>8, <3>1
  <2>2. QED
    BY <2>1
<1>10. Start(a) = f
  <2> DEFINE is(g) == g = [n \in 1 .. Len(a.entries) + 1 |->
                             IF n = 1 THEN MagicSize
                             ELSE g[n - 1] + HeaderSize + Even(a.entries[n - 1].size)]
  <2>1. \A i \in 1 .. L + 1 : f[i] = IF i = 1 THEN MagicSize
                                     ELSE f[i - 1] + HeaderSize + Even(a.entries[i - 1].size)
    <3>1. ASSUME NEW i \in 1 .. L + 1, i # 1
          PROVE  f[i] = f[i - 1] + HeaderSize + Even(a.entries[i - 1].size)
      <4>1. i \in 2 .. L + 1 /\ i - 1 \in 1 .. L + 1 /\ i - 1 \in 1 .. L
        BY <1>1, <3>1
      <4>2. Even(a.entries[i-1].size) \in Nat /\ f[i-1] \in Nat
        BY <1>2, <1>8, <4>1, EvenFacts
      <4>3. QED
        BY <1>3, <1>9, <4>1, <4>2 DEF more
    <3>2. QED
      BY <1>8, <3>1
  <2>2. is(f)
    BY <1>8, <2>1
  <2>3. ASSUME NEW g, is(g) PROVE g = f
    <3>1. DOMAIN g = 1 .. L + 1 /\ g[1] = MagicSize
      BY <1>7, <2>3
    <3>2. \A i \in 2 .. L + 1 : g[i] = g[i - 1] + HeaderSize + Even(a.entries[i - 1].size)
      <4>1. ASSUME NEW i \in 2 .. L + 1
            PROVE  g[i] = g[i - 1] + HeaderSize + Even(a.entries[i - 1].size)
        <5>1. i \in 1 .. Len(a.entries) + 1 /\ i # 1
          BY <1>1
        <5>2. QED
          BY <2>3, <5>1
      <4>2. QED
        BY <4>1
    <3> DEFINE S == {n \in Nat : n + 1 <= L + 1 => g[n+1] = f[n+1]}
    <3>3. 0 \in S
      BY <1>8, <3>1
    <3>4. ASSUME NEW n \in S PROVE n + 1 \in S
      <4>1. SUFFICES ASSUME n + 2 <= L + 1 PROVE g[n+2] = f[n+2]
        OBVIOUS
      <4>2. /\ n + 2 \in 2 .. L + 1 /\ n + 2 \in 1 .. L + 1 /\ n + 2 # 1
            /\ (n + 2) - 1 = n + 1 /\ n + 1 <= L + 1
        BY <1>1, <4>1
      <4>3. g[n+1] = f[n+1]
        BY <4>2
      <4>4. g[n+2] = g[n+1] + HeaderSize + Even(a.entries[n+1].size)
        BY <3>2, <4>2
      <4>5. f[n+2] = f[n+1] + HeaderSize + Even(a.entries[n+1].size)
        BY <2>1, <4>2
      <4>6. QED
        BY <4>3, <4>4, <4>5
    <3>5. S = Nat
      <4> HIDE DEF S
      <4>1. S \in SUBSET Nat
        BY DEF S
      <4>2. QED
        BY <3>3, <3>4, <4>1, Induction
    <3>6. \A i \in 1 .. L + 1 : g[i] = f[i]
      <4>1. ASSUME NEW i \in 1 .. L + 1 PROVE g[i] = f[i]
        <5>1. i - 1 \in Nat /\ (i - 1) + 1 = i /\ i <= L + 1
          BY <1>1
        <5>2. \A n \in S : n + 1 <= L + 1 => g[n+1] = f[n+1]
          OBVIOUS
        <5> HIDE DEF S
        <5>3. QED
          BY <3>5, <5>1, <5>2
      <4>2. QED
        BY <4>1
    <3>7. g = [i \in 1 .. L + 1 |-> g[i]]
      BY <2>3
    <3>8. f = [i \in 1 .. L + 1 |-> f[i]]
      OBVIOUS
    <3>9. QED
      BY <3>6, <3>7, <3>8
  <2>4. Start(a) = CHOOSE g : is(g)
    BY DEF Start
  <2> HIDE DEF is
  <2>5. QED
    BY <2>2, <2>3, <2>4
<1>11. ASSUME NEW k \in 1 .. L
       PROVE  Start(a)[k + 1] = Start(a)[k] + HeaderSize + Even(a.entries[k].size)
  <2>1. k + 1 \in 2 .. L + 1 /\ (k + 1) - 1 = k /\ k \in 1 .. L + 1
    BY <1>1
  <2>2. f[k+1] = f[k] + more(k + 1)
    BY <1>9, <2>1
  <2>3. more(k + 1) = HeaderSize + Even(a.entries[k].size)
    BY <2>1 DEF more
  <2>4. Even(a.entries[k].size) \in Nat /\ f[k] \in Nat
    BY <1>2, <1>8, <2>1, EvenFacts
  <2>5. QED
    BY <1>3, <1>10, <2>2, <2>3, <2>4
<1>12. QED
  BY <1>1, <1>2, <1>7, <1>8, <1>10, <1>11

\* Every entry has a header at least, so each begins behind those before it.
LEMMA StartOrdered ==
    ASSUME NEW path \in DOMAIN Archives, NEW a, a = Archives[path],
           NEW L, L = Len(a.entries),
           NEW j \in 1 .. L + 1, NEW k \in 1 .. L + 1, j < k
    PROVE  Start(a)[j] + HeaderSize <= Start(a)[k]
<1>1. /\ L \in Nat
      /\ \A i \in 1 .. L + 1 : Start(a)[i] \in Nat \ {0}
      /\ \A i \in 1 .. L : /\ a.entries[i].size \in Nat
                           /\ Start(a)[i + 1] = Start(a)[i] + HeaderSize + Even(a.entries[i].size)
  BY StartDefined
<1>2. HeaderSize \in Nat
  BY FilesAssumption
<1>3. PICK f : f = Start(a)
  OBVIOUS
<1>4. ASSUME NEW i \in 1 .. L PROVE f[i] + HeaderSize <= f[i + 1]
  <2>1. PICK e \in Nat : e = Even(a.entries[i].size)
    BY <1>1, EvenFacts
  <2>2. f[i] \in Nat /\ f[i + 1] = f[i] + HeaderSize + e
    BY <1>1, <1>3, <2>1
  <2>3. QED
    BY <1>2, <2>2
<1> DEFINE S == {n \in Nat : j + n + 1 <= L + 1 => f[j] + HeaderSize <= f[j + n + 1]}
<1>5. 0 \in S
  BY <1>1, <1>4
<1>6. ASSUME NEW n \in S PROVE n + 1 \in S
  <2>1. n \in Nat /\ j \in Nat /\ n + 1 \in Nat
    BY <1>1
  <2>2. SUFFICES ASSUME j + (n + 1) + 1 <= L + 1
                 PROVE  f[j] + HeaderSize <= f[j + (n + 1) + 1]
    BY <2>1
  <2>3. j + n + 1 \in 1 .. L /\ j + n + 1 <= L + 1 /\ (j + n + 1) + 1 = j + (n + 1) + 1
        /\ j + n + 1 \in 1 .. L + 1 /\ (j + n + 1) + 1 \in 1 .. L + 1 /\ j \in 1 .. L + 1
    BY <1>1, <2>1, <2>2
  <2>4. f[j] + HeaderSize <= f[j + n + 1]
    BY <2>3
  <2>5. f[j + n + 1] + HeaderSize <= f[(j + n + 1) + 1]
    BY <1>4, <2>3
  <2>6. f[j] \in Nat /\ f[j + n + 1] \in Nat /\ f[(j + n + 1) + 1] \in Nat
    BY <1>1, <1>3, <2>3
  <2>7. QED
    BY <1>2, <2>3, <2>4, <2>5, <2>6
<1>7. S = Nat
  <2> HIDE DEF S
  <2>1. S \in SUBSET Nat
    BY DEF S
  <2>2. QED
    BY <1>5, <1>6, <2>1, Induction
<1>8. k - j - 1 \in Nat /\ j + (k - j - 1) + 1 = k /\ k <= L + 1
  BY <1>1
<1>9. \A n \in S : j + n + 1 <= L + 1 => f[j] + HeaderSize <= f[j + n + 1]
  OBVIOUS
<1> HIDE DEF S
<1>10. QED
  BY <1>3, <1>7, <1>8, <1>9

LEMMA EntryThere ==
    ASSUME NEW path \in DOMAIN Archives, NEW a, a = Archives[path],
           NEW k \in 1 .. Len(a.entries)
    PROVE  EntryAt(a, Start(a)[k]) = a.entries[k]
<1>1. PICK L \in Nat : L = Len(a.entries)
  BY StartDefined
<1>2. DOMAIN a.entries = 1 .. L /\ \A i \in 1 .. L + 1 : Start(a)[i] \in Nat
  BY <1>1, StartDefined
<1>3. ASSUME NEW i \in 1 .. L, Start(a)[i] = Start(a)[k] PROVE i = k
  <2>1. HeaderSize \in Nat \ {0} /\ i \in 1 .. L + 1 /\ k \in 1 .. L + 1
    BY <1>1, FilesAssumption
  <2>2. PICK f : f = Start(a)
    OBVIOUS
  <2>3. i < k => f[i] + HeaderSize <= f[k]
    BY <1>1, <2>1, <2>2, StartOrdered
  <2>4. k < i => f[k] + HeaderSize <= f[i]
    BY <1>1, <2>1, <2>2, StartOrdered
  <2>5. f[i] \in Nat /\ f[k] \in Nat /\ f[i] = f[k]
    BY <1>2, <1>3, <2>1, <2>2
  <2>6. QED
    BY <2>1, <2>3, <2>4, <2>5
<1>4. (CHOOSE n \in DOMAIN a.entries : Start(a)[n] = Start(a)[k]) = k
  BY <1>1, <1>2, <1>3
<1>5. QED
  BY <1>4 DEF EntryAt

\* The file holds the header of every entry, and of no more; only the padding of
\* the last entry may be missing.
LEMMA FileHolds ==
    ASSUME NEW path \in DOMAIN Archives, NEW a, a = Archives[path],
           NEW L, L = Len(a.entries)
    PROVE  /\ \A k \in 1 .. L + 1 : Start(a)[k] + HeaderSize <= FileSize(a) <=> k <= L
           /\ \A k \in 1 .. L : Start(a)[k + 1] > FileSize(a) =>
                k = L /\ a.entries[k].size % 2 = 1 /\ ~a.padded
           /\ FileSize(a) \in Nat
<1>1. /\ L \in Nat
      /\ \A i \in 1 .. L + 1 : Start(a)[i] \in Nat \ {0}
      /\ \A i \in 1 .. L : /\ a.entries[i].size \in Nat
                           /\ Start(a)[i + 1] = Start(a)[i] + HeaderSize + Even(a.entries[i].size)
  BY StartDefined
<1>2. HeaderSize \in Nat \ {0} /\ a.padded \in BOOLEAN
  BY FilesAssumption, ArchiveTyped
<1>3. PICK f : f = Start(a)
  OBVIOUS
<1>4. \A j, k \in 1 .. L + 1 : j < k => f[j] + HeaderSize <= f[k]
  BY <1>3, StartOrdered
<1>5. PICK F : F = FileSize(a)
  OBVIOUS
<1>6. /\ f[L + 1] \in Nat /\ F \in Nat /\ F <= f[L + 1]
      /\ L > 0 => f[L] \in Nat /\ f[L] + HeaderSize <= F
      /\ F # f[L + 1] => L > 0 /\ ~a.padded /\ a.entries[L].size % 2 = 1
  <2>1. CASE L = 0 \/ a.padded
    <3>1. F = f[L + 1] /\ f[L + 1] \in Nat
      BY <1>1, <1>3, <1>5, <2>1 DEF FileSize
    <3>2. ASSUME L > 0 PROVE f[L] \in Nat /\ f[L] + HeaderSize <= f[L + 1]
      <4>1. L \in 1 .. L + 1 /\ L + 1 \in 1 .. L + 1 /\ L < L + 1
        BY <1>1, <3>2
      <4>2. QED
        BY <1>1, <1>3, <1>4, <4>1
    <3>3. QED
      BY <3>1, <3>2
  <2>2. CASE ~(L = 0 \/ a.padded)
    <3>1. PICK s \in Nat : s = a.entries[L].size
      BY <1>1, <2>2
    <3>2. /\ F = f[L] + HeaderSize + s /\ L \in 1 .. L /\ L > 0 /\ L \in 1 .. L + 1
          /\ L + 1 \in 1 .. L + 1
      BY <1>1, <1>3, <1>5, <2>2, <3>1 DEF FileSize
    <3>3. PICK e \in Nat : e = Even(s) /\ e = (IF s % 2 = 1 THEN s + 1 ELSE s)
      BY EvenFacts
    <3>4. f[L + 1] = f[L] + HeaderSize + e /\ f[L] \in Nat
      BY <1>1, <1>3, <3>1, <3>2, <3>3
    <3>5. HeaderSize \in Nat
      BY <1>2
    <3>6. s <= e /\ (s # e => s % 2 = 1)
      BY <3>3
    <3>7. F \in Nat /\ F <= f[L + 1] /\ f[L] + HeaderSize <= F /\ f[L + 1] \in Nat
      <4>1. PICK x \in Nat, h \in Nat : x = f[L] /\ h = HeaderSize
        BY <3>4, <3>5
      <4>2. F = x + h + s /\ f[L + 1] = x + h + e
        BY <3>2, <3>4, <4>1
      <4>3. s <= e
        BY <3>6
      <4>4. x + h + s \in Nat /\ x + h + s <= x + h + e /\ x + h <= x + h + s /\ x + h + e \in Nat
        BY <4>3
      <4>5. QED
        BY <4>1, <4>2, <4>4
    <3>8. F # f[L + 1] => s # e
      BY <3>2, <3>4
    <3>9. F # f[L + 1] => L > 0 /\ ~a.padded /\ a.entries[L].size % 2 = 1
      BY <2>2, <3>1, <3>2, <3>6, <3>8
    <3>10. QED
      BY <3>4, <3>7, <3>9
  <2>3. QED
    BY <2>1, <2>2
<1>7. ASSUME NEW k \in 1 .. L + 1 PROVE f[k] + HeaderSize <= F <=> k <= L
  <2>1. k \in Nat /\ f[k] \in Nat
    BY <1>1, <1>3
  <2>2. CASE k = L + 1
    BY <1>1, <1>2, <1>6, <2>1, <2>2
  <2>3. CASE k = L
    BY <1>1, <1>6, <2>1, <2>3
  <2>4. CASE k < L
    <3>1. k + 1 \in 1 .. L + 1 /\ L \in 1 .. L + 1 /\ L > 0
      BY <1>1, <2>1, <2>4
    <3>2. f[k] + HeaderSize <= f[L] /\ f[L] \in Nat
      BY <1>4, <1>6, <2>4, <3>1
    <3>3. f[L] + HeaderSize <= F
      BY <1>6, <3>1
    <3>4. QED
      BY <1>2, <1>6, <2>1, <2>4, <3>2, <3>3
  <2>5. QED
    BY <1>1, <2>1, <2>2, <2>3, <2>4
<1>8. ASSUME NEW k \in 1 .. L, f[k + 1] > F
      PROVE  k = L /\ a.entries[k].size % 2 = 1 /\ ~a.padded
  <2>1. k \in Nat /\ k + 1 \in 1 .. L + 1 /\ f[k + 1] \in Nat
    BY <1>1, <1>3
  <2>2. ~(k + 1 <= L)
    <3>1. ~(f[k + 1] + HeaderSize <= F)
      BY <1>2, <1>6, <1>8, <2>1
    <3>2. QED
      BY <1>7, <2>1, <3>1
  <2>3. k = L
    BY <1>1, <2>1, <2>2
  <2>4. F # f[L + 1]
    BY <1>6, <1>8, <2>3
  <2>5. QED
    BY <1>6, <2>3, <2>4
<1>9. QED
  BY <1>3, <1>5, <1>6, <1>7, <1>8

-----------------------------------------------------------------------------
(***************************************************************************)
(* The position in an archive that is open.                                *)
(***************************************************************************)
\* Entry k of library n, whose file has this path, is next.
IsAt(n, path, k) ==
    /\ n = archive /\ n \in DOMAIN libraries
    /\ path = PathOf(libraries[n]) /\ path \in DOMAIN Archives
    /\ Current = Archives[path]
    /\ EntriesOf(n) = Archives[path].entries /\ StartsOf(n) = Start(Archives[path])
    /\ k \in 1 .. Len(Archives[path].entries) + 1
    /\ pos = Start(Archives[path])[k]
    /\ ReadingEntry <=> k <= Len(Archives[path].entries)
    /\ ReadingEntry => /\ k \in DOMAIN Archives[path].entries
                       /\ ThisEntry = Archives[path].entries[k]
                       /\ EntryEnd = Start(Archives[path])[k + 1]

LEMMA ReadingAt ==
    ASSUME IInv, Reading
    PROVE  \E n, path, k : IsAt(n, path, k)
<1>1. PICK n : n = archive
  OBVIOUS
<1>2. /\ libraries \in Seq((DOMAIN options.directories) \X DOMAIN options.libraries)
      /\ archive \in 1 .. Len(libraries) + 1 /\ archive <= Len(libraries) /\ pos # 0
  BY DEF IInv, TypeOK, LibraryTypes, ReadTypes, Reading
<1>3. n \in DOMAIN libraries
  <2>1. Len(libraries) \in Nat /\ DOMAIN libraries = 1 .. Len(libraries)
    BY <1>2
  <2>2. QED
    BY <1>1, <1>2, <2>1
<1>4. PICK path \in DOMAIN Archives : path = PathOf(libraries[n])
  BY <1>3 DEF IInv, TypeOK, LibraryTypes
<1>5. Current = Archives[path]
  BY <1>1, <1>4 DEF Current
<1>6. EntriesOf(n) = Archives[path].entries /\ StartsOf(n) = Start(Archives[path])
  BY <1>4 DEF EntriesOf, StartsOf
<1>7. PICK k \in 1 .. Len(Archives[path].entries) + 1 : pos = Start(Archives[path])[k]
  BY <1>2, <1>5 DEF IInv, TypeOK, ReadTypes
<1>8. PICK L \in Nat : L = Len(Archives[path].entries)
  BY StartDefined
<1>9. ReadingEntry <=> k <= L
  BY <1>5, <1>7, <1>8, FileHolds DEF ReadingEntry
<1>10. ASSUME k <= L
       PROVE  /\ k \in DOMAIN Archives[path].entries
              /\ ThisEntry = Archives[path].entries[k]
              /\ EntryEnd = Start(Archives[path])[k + 1]
  <2>1. k \in 1 .. L /\ k \in DOMAIN Archives[path].entries
    BY <1>8, <1>10, StartDefined
  <2>2. ThisEntry = Archives[path].entries[k]
    BY <1>5, <1>7, <1>8, <2>1, EntryThere DEF ThisEntry
  <2>3. Start(Archives[path])[k + 1] = Start(Archives[path])[k] + HeaderSize
                                         + Even(Archives[path].entries[k].size)
    BY <1>8, <2>1, StartDefined
  <2>4. QED
    BY <1>7, <2>1, <2>2, <2>3 DEF EntryEnd
<1>11. IsAt(n, path, k)
  BY <1>1, <1>3, <1>4, <1>5, <1>6, <1>7, <1>8, <1>9, <1>10 DEF IsAt
<1>12. QED
  BY <1>11

\* The data of the last entry end before its padding does.
LEMMA EntryTruncatedInvariant ==
    ASSUME IInv, EntryTruncated
    PROVE  IInv'
<1>1. /\ ReadingEntry /\ Reading /\ phase = "archives"
      /\ EntryEnd > FileSize(Current) /\ Fail("short_read")
  BY DEF EntryTruncated, ReadingEntry, Reading
<1>2. PICK n, path, k : IsAt(n, path, k)
  BY <1>1, ReadingAt
<1>3. PICK L \in Nat : L = Len(Archives[path].entries)
  BY <1>2, StartDefined DEF IsAt
<1>4. k \in 1 .. L /\ Start(Archives[path])[k + 1] > FileSize(Archives[path])
  BY <1>1, <1>2, <1>3 DEF IsAt
<1>5. k = L /\ Archives[path].entries[k].size % 2 = 1 /\ ~Archives[path].padded
  BY <1>2, <1>3, <1>4, FileHolds DEF IsAt
<1>6. Archives[path].entries # <<>>
  BY <1>3, <1>4, <1>5, EmptyTyped
<1>7. phase' = "short_read" /\ Current' = Archives[path]
  BY <1>1, <1>2 DEF IsAt, Fail, Current, PathOf, parseVars, findVars, readVars
<1>8. ErrorsAreReal'
  BY <1>3, <1>5, <1>6, <1>7 DEF ErrorsAreReal
<1>9. QED
  BY <1>1, <1>8, FailInvariant DEF Failures

\* No string table comes before the name.
LEMMA NameMissingInvariant ==
    ASSUME IInv, NameMissing
    PROVE  IInv'
<1>1. /\ ReadingEntry /\ Reading /\ phase = "archives" /\ ThisEntry.long /\ ~names
      /\ pos # 0 /\ Fail("null_pointer")
  BY DEF NameMissing, ReadingMember, ReadingEntry, Reading
<1>2. PICK n, path, k : IsAt(n, path, k)
  BY <1>1, ReadingAt
<1>3. PICK L \in Nat : L = Len(Archives[path].entries)
  BY <1>2, StartDefined DEF IsAt
<1>4. /\ k \in 1 .. L /\ DOMAIN Archives[path].entries = 1 .. L
      /\ \A i \in 1 .. L + 1 : Start(Archives[path])[i] \in Nat
  BY <1>1, <1>2, <1>3, StartDefined DEF IsAt
<1>5. ASSUME NEW m \in 1 .. k - 1 PROVE Archives[path].entries[m].kind # "strtab"
  <2>1. m \in 1 .. L /\ m \in 1 .. L + 1 /\ k \in 1 .. L + 1 /\ m < k
    BY <1>4
  <2>2. Start(Archives[path])[m] + HeaderSize <= Start(Archives[path])[k]
    BY <1>2, <1>3, <2>1, StartOrdered DEF IsAt
  <2>3. HeaderSize \in Nat \ {0}
    BY FilesAssumption
  <2>4. Start(Archives[path])[m] < Start(Archives[path])[k]
    BY <1>4, <2>1, <2>2, <2>3
  <2>5. StartsOf(n)[m] < pos /\ m \in DOMAIN EntriesOf(n) /\ n \in DOMAIN libraries /\ n = archive
    BY <1>2, <1>4, <2>1, <2>4 DEF IsAt
  <2>6. EntriesOf(n)[m].kind # "strtab"
    BY <1>1, <2>5 DEF IInv, InputsInv
  <2>7. QED
    BY <1>2, <2>6 DEF IsAt
<1>6. Archives[path].entries[k].long
  BY <1>1, <1>2 DEF IsAt
<1>7. phase' = "null_pointer" /\ Current' = Archives[path]
  BY <1>1, <1>2 DEF IsAt, Fail, Current, PathOf, parseVars, findVars, readVars
<1>8. ErrorsAreReal'
  BY <1>4, <1>5, <1>6, <1>7 DEF ErrorsAreReal
<1>9. QED
  BY <1>1, <1>8, FailInvariant DEF Failures

\* An object file that is given.
IsGiven(o) ==
    \/ \E n \in DOMAIN options.objects :
         options.objects[n] \in DOMAIN Objects /\ o = Objects[options.objects[n]]
    \/ \E n \in DOMAIN libraries : \E i \in DOMAIN EntriesOf(n) :
         EntriesOf(n)[i].kind = "member" /\ o = EntriesOf(n)[i].object

LEMMA RefuseInvariant ==
    ASSUME IInv, phase \in {"objects", "archives"}, NEW o, IsGiven(o), Refuse(o)
    PROVE  IInv'
<1>1. /\ options' = options /\ libraries' = libraries
      /\ \A f : PathOf(f)' = PathOf(f)
      /\ \/ ~o.rel /\ Fail("not_relocatable") /\ phase' = "not_relocatable"
         \/ o.machine # options.machine /\ Fail("wrong_machine") /\ phase' = "wrong_machine"
  BY DEF Refuse, Fail, parseVars, findVars, PathOf
<1>2. \A n \in DOMAIN libraries : PathOf(libraries[n])' = PathOf(libraries[n])
  BY <1>1 DEF PathOf
<1>3. ASSUME ~o.rel, phase' = "not_relocatable" PROVE ErrorsAreReal'
  BY <1>1, <1>2, <1>3 DEF ErrorsAreReal, Refused, IsGiven, EntriesOf
<1>4. ASSUME o.machine # options.machine, phase' = "wrong_machine" PROVE ErrorsAreReal'
  BY <1>1, <1>2, <1>4 DEF ErrorsAreReal, Refused, IsGiven, EntriesOf
<1>5. CASE Fail("not_relocatable") /\ ErrorsAreReal'
  BY <1>5, FailInvariant DEF Failures
<1>6. CASE Fail("wrong_machine") /\ ErrorsAreReal'
  BY <1>6, FailInvariant DEF Failures
<1>7. QED
  BY <1>1, <1>3, <1>4, <1>5, <1>6

\* An object file is not there, or is refused.
LEMMA ObjectErrorInvariant ==
    ASSUME IInv, ObjectMissing \/ RefuseObject
    PROVE  IInv'
<1>1. /\ phase = "objects" /\ at \in DOMAIN options.objects
      /\ ThisObject = options.objects[at]
  <2>1. phase = "objects" /\ at <= Len(options.objects) /\ at \in Nat \ {0}
        /\ options.objects \in Seq(STRING)
    BY DEF ObjectMissing, RefuseObject, ReadingObject, IInv, TypeOK, LoopTypes, OptionTypes
  <2>2. Len(options.objects) \in Nat /\ DOMAIN options.objects = 1 .. Len(options.objects)
    BY <2>1
  <2>3. QED
    BY <2>1, <2>2 DEF ThisObject
<1>2. CASE ObjectMissing
  <2>1. options.objects[at] \notin DOMAIN Objects /\ Fail("no_file")
    BY <1>1, <1>2 DEF ObjectMissing
  <2>2. options' = options /\ phase' = "no_file" /\ at' = at
    BY <2>1 DEF Fail, parseVars
  <2>3. ErrorsAreReal'
    BY <1>1, <2>1, <2>2 DEF ErrorsAreReal
  <2>4. QED
    BY <1>1, <2>1, <2>3, FailInvariant DEF Failures
<1>3. CASE RefuseObject
  <2>1. IsGiven(Objects[ThisObject]) /\ Refuse(Objects[ThisObject])
    BY <1>1, <1>3 DEF RefuseObject, IsGiven
  <2>2. PICK o : o = Objects[ThisObject]
    OBVIOUS
  <2>3. QED
    BY <1>1, <2>1, <2>2, RefuseInvariant
<1>4. QED
  BY <1>2, <1>3

\* A member is refused.
LEMMA RefuseMemberInvariant ==
    ASSUME IInv, RefuseMember
    PROVE  IInv'
<1>1. /\ ReadingEntry /\ Reading /\ phase = "archives" /\ ThisEntry.kind = "member"
      /\ Refuse(ThisEntry.object)
  BY DEF RefuseMember, ReadingMember, ReadingEntry, Reading
<1>2. PICK n, path, k : IsAt(n, path, k)
  BY <1>1, ReadingAt
<1>3. PICK o : o = ThisEntry.object
  OBVIOUS
<1>4. /\ n \in DOMAIN libraries /\ k \in DOMAIN EntriesOf(n)
      /\ EntriesOf(n)[k].kind = "member" /\ o = EntriesOf(n)[k].object
  BY <1>1, <1>2, <1>3 DEF IsAt
<1>5. IsGiven(o) /\ Refuse(o)
  BY <1>1, <1>3, <1>4 DEF IsGiven
<1>6. QED
  BY <1>1, <1>5, RefuseInvariant

-----------------------------------------------------------------------------
(***************************************************************************)
(* Find_libraries.                                                         *)
(***************************************************************************)
LEMMA FindTail ==
    ASSUME IInv, phase = "find", phase' = "find",
           UNCHANGED <<parseVars, at, readVars, inputs>>, FindInv', LibraryTypes',
           dir' \in 1 .. Len(options.directories) + 1,
           lib' = 1 \/ lib' \in 1 .. Len(options.libraries)
    PROVE  IInv'
<1>1. /\ args' = args /\ named' = named /\ options' = options /\ at' = at
      /\ archive' = archive /\ pos' = pos /\ names' = names /\ inputs' = inputs
      /\ archive = 1 /\ pos = 0 /\ inputs = <<>>
  BY DEF parseVars, readVars, IInv, InputsInv
<1>2. OptionTypes' /\ LoopTypes'
  BY <1>1 DEF IInv, TypeOK, OptionTypes, LoopTypes
<1>3. ReadTypes'
  <2>1. Len(libraries') \in Nat
    BY SequenceDomain DEF LibraryTypes
  <2>2. archive' \in 1 .. Len(libraries') + 1
    BY <1>1, <2>1
  <2>3. names' \in BOOLEAN /\ inputs' \in Seq([path : Paths, name : STRING, alive : BOOLEAN])
    BY <1>1 DEF IInv, TypeOK, ReadTypes
  <2>4. QED
    BY <1>1, <2>2, <2>3 DEF ReadTypes
<1>4. ParseInv'
  BY <1>1, OptionsStay DEF IInv
<1>5. InputsInv'
  BY <1>1 DEF InputsInv
<1>6. ErrorsAreReal'
  BY DEF ErrorsAreReal
<1>7. QED
  BY <1>2, <1>3, <1>4, <1>5, <1>6 DEF IInv, TypeOK

\* The pair at hand is the next to have been passed.
LEMMA NextPassed ==
    ASSUME IInv, Looking, NextLibrary
    PROVE  /\ dir' \in 1 .. Len(options.directories) + 1
           /\ lib' = 1 \/ lib' \in 1 .. Len(options.libraries)
           /\ \A d \in DOMAIN options.directories : \A l \in DOMAIN options.libraries :
                Passed(d, l)' <=> Passed(d, l) \/ (d = dir /\ l = lib)
<1>1. /\ DOMAIN options.directories = 1 .. Len(options.directories)
      /\ DOMAIN options.libraries = 1 .. Len(options.libraries)
      /\ Len(options.directories) \in Nat /\ Len(options.libraries) \in Nat
      /\ dir \in 1 .. Len(options.directories) + 1
      /\ lib = 1 \/ lib \in 1 .. Len(options.libraries)
      /\ dir <= Len(options.directories) /\ lib <= Len(options.libraries)
  BY SequenceDomain DEF IInv, TypeOK, OptionTypes, LoopTypes, Looking
<1>2. PICK D \in Nat, L \in Nat : D = Len(options.directories) /\ L = Len(options.libraries)
  BY <1>1
<1>3. PICK i \in Nat, j \in Nat : i = dir /\ j = lib
  BY <1>1, <1>2
<1>4. i \in 1 .. D /\ j \in 1 .. L
  BY <1>1, <1>2, <1>3
<1>5. \/ j < L /\ lib' = j + 1 /\ dir' = i
      \/ j = L /\ lib' = 1 /\ dir' = i + 1
  BY <1>2, <1>3, <1>4 DEF NextLibrary
<1>6. dir' \in 1 .. D + 1 /\ (lib' = 1 \/ lib' \in 1 .. L)
  BY <1>4, <1>5
<1>7. ASSUME NEW d \in 1 .. D, NEW l \in 1 .. L
      PROVE  Passed(d, l)' <=> Passed(d, l) \/ (d = i /\ l = j)
  <2>1. Passed(d, l) <=> d < i \/ (d = i /\ l < j)
    BY <1>3 DEF Passed
  <2>2. CASE j < L /\ lib' = j + 1 /\ dir' = i
    <3>1. Passed(d, l)' <=> d < i \/ (d = i /\ l < j + 1)
      BY <2>2 DEF Passed
    <3>2. QED
      BY <2>1, <3>1
  <2>3. CASE j = L /\ lib' = 1 /\ dir' = i + 1
    <3>1. Passed(d, l)' <=> d < i + 1 \/ (d = i + 1 /\ l < 1)
      BY <2>3 DEF Passed
    <3>2. QED
      BY <2>1, <2>3, <3>1
  <2>4. QED
    BY <1>5, <2>2, <2>3
<1>8. QED
  BY <1>1, <1>2, <1>3, <1>6, <1>7

\* The indices of what has been taken.
LEMMA TakenTyped ==
    ASSUME LibraryTypes
    PROVE  /\ \A n, d, l : Taken(n, d, l) => /\ d \in DOMAIN options.directories
                                             /\ l \in DOMAIN options.libraries
           /\ \A n \in DOMAIN libraries : Taken(n, libraries[n][1], libraries[n][2])
           /\ \A l : Found(l) <=> \E n, d : Taken(n, d, l)
           /\ Len(libraries) \in Nat /\ DOMAIN libraries = 1 .. Len(libraries)
<1>1. PICK D, L : D = DOMAIN options.directories /\ L = DOMAIN options.libraries
  OBVIOUS
<1>2. libraries \in Seq(D \X L)
  BY <1>1 DEF LibraryTypes
<1>3. /\ Len(libraries) \in Nat /\ DOMAIN libraries = 1 .. Len(libraries)
      /\ \A n \in DOMAIN libraries : libraries[n] \in D \X L
  BY <1>2
<1>4. \A n \in DOMAIN libraries : Taken(n, libraries[n][1], libraries[n][2])
  BY <1>3 DEF Taken
<1>5. ASSUME NEW n, NEW d, NEW l, Taken(n, d, l) PROVE d \in D /\ l \in L
  <2>1. <<d, l>> \in D \X L
    BY <1>3, <1>5 DEF Taken
  <2>2. QED
    BY <2>1
<1>6. ASSUME NEW l PROVE Found(l) <=> \E n, d : Taken(n, d, l)
  <2>1. ASSUME NEW n, NEW d, Taken(n, d, l) PROVE Found(l)
    <3>1. n \in DOMAIN libraries /\ libraries[n][2] = l
      BY <2>1 DEF Taken
    <3>2. QED
      BY <3>1 DEF Found
  <2>2. ASSUME Found(l) PROVE \E n, d : Taken(n, d, l)
    BY <1>4, <2>2 DEF Found
  <2>3. QED
    BY <2>1, <2>2
<1>7. QED
  BY <1>1, <1>3, <1>4, <1>5, <1>6

\* The library has been found, or is not in this directory.
LEMMA LookElsewhereInvariant ==
    ASSUME IInv, LookElsewhere
    PROVE  IInv'
<1>1. /\ Looking /\ NextLibrary /\ phase = "find" /\ phase' = "find"
      /\ Found(lib) \/ PathOf(<<dir, lib>>) \notin DOMAIN Archives
      /\ libraries' = libraries /\ options' = options
      /\ UNCHANGED <<parseVars, at, readVars, inputs>>
  BY DEF LookElsewhere, Looking, parseVars
<1>2. /\ \A n, d, l : Taken(n, d, l)' <=> Taken(n, d, l)
      /\ \A l : Found(l)' <=> Found(l)
      /\ \A f : PathOf(f)' = PathOf(f)
  BY <1>1 DEF Taken, Found, PathOf
<1>3. \A l : FirstDirectory(l)' = FirstDirectory(l)
  BY <1>1, <1>2 DEF FirstDirectory
<1>4. /\ dir' \in 1 .. Len(options.directories) + 1
      /\ lib' = 1 \/ lib' \in 1 .. Len(options.libraries)
      /\ \A d \in DOMAIN options.directories : \A l \in DOMAIN options.libraries :
           Passed(d, l)' <=> Passed(d, l) \/ (d = dir /\ l = lib)
  BY <1>1, NextPassed
<1>5. LibraryTypes'
  <2>1. \A n \in DOMAIN libraries : PathOf(libraries[n])' = PathOf(libraries[n])
    BY <1>1 DEF PathOf
  <2>2. QED
    BY <1>1, <2>1 DEF IInv, TypeOK, LibraryTypes
<1>6. FindInv'
  <2>1. ASSUME NEW d \in DOMAIN options.directories, NEW l \in DOMAIN options.libraries,
               Passed(d, l)', PathOf(<<d, l>>) \in DOMAIN Archives
        PROVE  Found(l)
    BY <1>1, <1>4, <2>1 DEF IInv, FindInv
  <2>2. ASSUME NEW n, NEW d, NEW l, Taken(n, d, l)
        PROVE  Passed(d, l)' /\ d \in FirstDirectory(l)
    <3>1. d \in DOMAIN options.directories /\ l \in DOMAIN options.libraries
      BY <2>2, TakenTyped DEF IInv, TypeOK
    <3>2. Passed(d, l) /\ d \in FirstDirectory(l)
      BY <2>2 DEF IInv, FindInv
    <3>3. QED
      BY <1>4, <3>1, <3>2
  <2>3. \A m, n, c, d, k, l : Taken(m, c, k) /\ Taken(n, d, l) /\ m < n =>
          k # l /\ (c < d \/ (c = d /\ k < l))
    BY DEF IInv, FindInv
  <2>4. QED
    BY <1>1, <1>2, <1>3, <2>1, <2>2, <2>3 DEF FindInv
<1>7. QED
  BY <1>1, <1>4, <1>5, <1>6, FindTail

\* The library is found, and its file is an archive.
LEMMA FindLibraryInvariant ==
    ASSUME IInv, FindLibrary
    PROVE  IInv'
<1>1. /\ Looking /\ NextLibrary /\ phase = "find" /\ phase' = "find"
      /\ ~Found(lib) /\ PathOf(<<dir, lib>>) \in DOMAIN Archives
      /\ libraries' = Append(libraries, <<dir, lib>>) /\ options' = options
      /\ UNCHANGED <<parseVars, at, readVars, inputs>>
  BY DEF FindLibrary, Looking, parseVars
<1>2. PICK i, j : i = dir /\ j = lib
  OBVIOUS
<1>3. /\ i \in FirstDirectory(j)
      /\ i \in DOMAIN options.directories /\ j \in DOMAIN options.libraries
  BY <1>1, <1>2, FirstIsHere
<1>4. PICK D, L : D = DOMAIN options.directories /\ L = DOMAIN options.libraries
  OBVIOUS
<1>5. PICK s \in Seq(D \X L) : s = libraries
  BY <1>4 DEF IInv, TypeOK, LibraryTypes
<1>6. PICK N \in Nat : N = Len(s) /\ DOMAIN s = 1 .. N
  BY <1>5
<1>7. /\ libraries' \in Seq(D \X L) /\ DOMAIN libraries' = 1 .. N + 1
      /\ \A n \in 1 .. N : libraries'[n] = s[n]
      /\ libraries'[N + 1] = <<i, j>>
  BY <1>1, <1>2, <1>3, <1>4, <1>5, <1>6
<1>8. \A f : PathOf(f)' = PathOf(f)
  BY <1>1 DEF PathOf
<1>9. \A l : FirstDirectory(l)' = FirstDirectory(l)
  BY <1>1, <1>8 DEF FirstDirectory
<1>10. ASSUME NEW n, NEW d, NEW l
       PROVE  Taken(n, d, l)' <=> Taken(n, d, l) \/ (n = N + 1 /\ d = i /\ l = j)
  <2>1. Taken(n, d, l) <=> n \in 1 .. N /\ s[n] = <<d, l>>
    BY <1>5, <1>6 DEF Taken
  <2>2. Taken(n, d, l)' <=> n \in 1 .. N + 1 /\ libraries'[n] = <<d, l>>
    BY <1>7 DEF Taken
  <2>3. n \in 1 .. N + 1 <=> n \in 1 .. N \/ n = N + 1
    BY <1>6
  <2>4. N + 1 \notin 1 .. N
    BY <1>6
  <2>5. QED
    BY <1>7, <2>1, <2>2, <2>3, <2>4
<1>11. LibraryTypes'
  <2>1. ASSUME NEW n \in DOMAIN libraries' PROVE PathOf(libraries[n])' \in DOMAIN Archives
    <3>1. PathOf(libraries[n])' = <<options.directories[libraries'[n][1]],
                                   options.libraries[libraries'[n][2]]>>
      BY <1>1 DEF PathOf
    <3>2. CASE n = N + 1
      BY <1>1, <1>2, <1>7, <3>1, <3>2 DEF PathOf
    <3>3. CASE n \in 1 .. N
      <4>1. libraries'[n] = libraries[n] /\ n \in DOMAIN libraries
        BY <1>5, <1>6, <1>7, <3>3
      <4>2. PathOf(libraries[n]) \in DOMAIN Archives
        BY <4>1 DEF IInv, TypeOK, LibraryTypes
      <4>3. QED
        BY <3>1, <4>1, <4>2 DEF PathOf
    <3>4. QED
      BY <1>6, <1>7, <2>1, <3>2, <3>3
  <2>2. QED
    BY <1>1, <1>4, <1>7, <2>1 DEF LibraryTypes
<1>12. /\ dir' \in 1 .. Len(options.directories) + 1
       /\ lib' = 1 \/ lib' \in 1 .. Len(options.libraries)
       /\ \A d \in D : \A l \in L : Passed(d, l)' <=> Passed(d, l) \/ (d = i /\ l = j)
  BY <1>1, <1>2, <1>4, NextPassed
<1>13. /\ \A l : Found(l) <=> \E n, d : Taken(n, d, l)
       /\ \A l : Found(l)' <=> \E n, d : Taken(n, d, l)'
       /\ \A n, d, l : Taken(n, d, l) => d \in D /\ l \in L
  <2>1. /\ \A l : Found(l) <=> \E n, d : Taken(n, d, l)
        /\ \A n, d, l : Taken(n, d, l) => d \in D /\ l \in L
    BY <1>4, TakenTyped DEF IInv, TypeOK
  <2>2. ASSUME NEW l PROVE Found(l)' <=> \E n, d : Taken(n, d, l)'
    <3>1. \A n \in DOMAIN libraries' : libraries'[n] = <<libraries'[n][1], libraries'[n][2]>>
      BY <1>7
    <3>2. QED
      BY <3>1 DEF Found, Taken
  <2>3. QED
    BY <2>1, <2>2
<1>14. FindInv'
  <2>1. ASSUME NEW d \in D, NEW l \in L, Passed(d, l)', PathOf(<<d, l>>) \in DOMAIN Archives
        PROVE  Found(l)'
    <3>1. CASE Passed(d, l)
      <4>1. Found(l)
        BY <1>4, <2>1, <3>1 DEF IInv, FindInv
      <4>2. PICK n, c : Taken(n, c, l)
        BY <1>13, <4>1
      <4>3. QED
        BY <1>10, <1>13, <4>2
    <3>2. CASE l = j
      BY <1>10, <1>13, <3>2
    <3>3. QED
      BY <1>12, <2>1, <3>1, <3>2
  <2>2. ASSUME NEW n, NEW d, NEW l, Taken(n, d, l)'
        PROVE  Passed(d, l)' /\ d \in FirstDirectory(l)
    <3>1. CASE Taken(n, d, l)
      <4>1. d \in D /\ l \in L /\ Passed(d, l) /\ d \in FirstDirectory(l)
        BY <1>13, <3>1 DEF IInv, FindInv
      <4>2. QED
        BY <1>12, <4>1
    <3>2. CASE d = i /\ l = j
      BY <1>3, <1>4, <1>12, <3>2
    <3>3. QED
      BY <1>10, <2>2, <3>1, <3>2
  <2>3. ASSUME NEW m, NEW n, NEW c, NEW d, NEW k, NEW l, Taken(m, c, k)', Taken(n, d, l)', m < n
        PROVE  k # l /\ (c < d \/ (c = d /\ k < l))
    <3>1. \A o, b, h : Taken(o, b, h) => o \in 1 .. N
      BY <1>5, <1>6 DEF Taken
    <3>2. CASE Taken(m, c, k) /\ Taken(n, d, l)
      BY <2>3, <3>2 DEF IInv, FindInv
    <3>3. CASE Taken(m, c, k) /\ n = N + 1 /\ d = i /\ l = j
      <4>1. k # j
        BY <1>1, <1>2, <1>13, <3>3
      <4>2. c < i \/ (c = i /\ k < j)
        BY <1>2, <3>3 DEF IInv, FindInv, Passed
      <4>3. QED
        BY <3>3, <4>1, <4>2
    <3>4. CASE m = N + 1
      <4>1. n \in 1 .. N \/ n = N + 1
        BY <1>10, <2>3, <3>1
      <4>2. QED
        BY <1>6, <2>3, <3>4, <4>1
    <3>5. QED
      BY <1>10, <2>3, <3>2, <3>3, <3>4
  <2>4. QED
    BY <1>1, <1>4, <1>8, <1>9, <2>1, <2>2, <2>3 DEF FindInv
<1>15. QED
  BY <1>1, <1>11, <1>12, <1>14, FindTail

\* Every library has been found.
LEMMA LibrariesFoundInvariant ==
    ASSUME IInv, LibrariesFound
    PROVE  IInv'
<1>1. /\ phase = "find" /\ phase' = "objects" /\ at' = 1
      /\ \A l \in DOMAIN options.libraries : Found(l)
      /\ args' = args /\ named' = named /\ options' = options
      /\ dir' = dir /\ lib' = lib /\ libraries' = libraries
      /\ archive' = archive /\ pos' = pos /\ names' = names /\ inputs' = inputs
      /\ UNCHANGED findVars /\ UNCHANGED readVars
  BY DEF LibrariesFound, parseVars, findVars, readVars
<1>2. archive = 1 /\ pos = 0 /\ inputs = <<>>
  BY <1>1 DEF IInv, InputsInv
<1>3. OptionTypes' /\ LoopTypes'
  <2>1. Len(options.objects) \in Nat
    BY SequenceDomain DEF IInv, TypeOK, OptionTypes
  <2>2. QED
    BY <1>1, <2>1 DEF IInv, TypeOK, OptionTypes, LoopTypes, Phases
<1>4. LibraryTypes' /\ ReadTypes'
  BY <1>1, LibraryTypesStay, ReadTypesStay DEF IInv, TypeOK, ReadTypes
<1>5. ParseInv'
  BY <1>1, OptionsStay DEF IInv
<1>6. FindInv'
  BY <1>1, FindStays DEF IInv
<1>7. InputsInv'
  <2>1. Len(inputs) = 0 /\ \A n \in 1 .. 1 - 1 : FALSE
    BY <1>2, EmptyTyped
  <2>2. QED
    BY <1>1, <1>2, <2>1 DEF InputsInv
<1>8. ErrorsAreReal'
  BY <1>1 DEF ErrorsAreReal
<1>9. QED
  BY <1>3, <1>4, <1>5, <1>6, <1>7, <1>8 DEF IInv, TypeOK

-----------------------------------------------------------------------------
(***************************************************************************)
(* Collect_rel_file_content, the object files.                             *)
(***************************************************************************)
LEMMA ReadTail ==
    ASSUME IInv, phase \in {"objects", "archives"}, phase' \in {"objects", "archives", "done"},
           UNCHANGED <<parseVars, findVars>>, at' \in Nat \ {0},
           phase' = "objects" => at' <= Len(options.objects) + 1,
           ReadTypes', InputsInv'
    PROVE  IInv'
<1>1. /\ args' = args /\ named' = named /\ options' = options
      /\ dir' = dir /\ lib' = lib /\ libraries' = libraries /\ UNCHANGED findVars
  BY DEF parseVars, findVars
<1>2. phase' \in Phases /\ phase' # "parse" /\ phase # "parse" /\ phase # "no_output"
  BY DEF Phases
<1>3. OptionTypes' /\ LoopTypes'
  BY <1>1, <1>2 DEF IInv, TypeOK, OptionTypes, LoopTypes
<1>4. LibraryTypes'
  BY <1>1, LibraryTypesStay DEF IInv, TypeOK
<1>5. ParseInv'
  BY <1>1, <1>2, OptionsStay DEF IInv
<1>6. FindInv'
  <2>1. \A l \in DOMAIN options.libraries : Found(l)
    BY DEF IInv, FindInv
  <2>2. QED
    BY <1>1, <1>2, <2>1, FindStays DEF IInv
<1>7. ErrorsAreReal'
  BY DEF ErrorsAreReal
<1>8. QED
  BY <1>3, <1>4, <1>5, <1>6, <1>7 DEF IInv, TypeOK

File == [path : Paths, name : STRING, alive : BOOLEAN]

LEMMA FileTyped ==
    /\ \A path \in STRING : path \in DOMAIN Objects => FromObject(path) \in File
    /\ \A path \in DOMAIN Archives : \A name \in STRING : FromArchive(path, name) \in File
<1>1. TRUE \in BOOLEAN /\ FALSE \in BOOLEAN
  BY Zenon
<1>2. ASSUME NEW path \in STRING, path \in DOMAIN Objects PROVE FromObject(path) \in File
  <2>1. <<path>> \in Paths
    BY <1>2, Zenon DEF Paths
  <2>2. QED
    BY <1>1, <2>1, Zenon DEF FromObject, File
<1>3. ASSUME NEW path \in DOMAIN Archives, NEW name \in STRING
      PROVE  FromArchive(path, name) \in File
  <2>1. path \in Paths
    BY Zenon DEF Paths
  <2>2. QED
    BY <1>1, <2>1, Zenon DEF FromArchive, File
<1>4. QED
  BY <1>2, <1>3

\* An object file is read.
LEMMA ReadObjectInvariant ==
    ASSUME IInv, ReadObject
    PROVE  IInv'
<1>1. /\ phase = "objects" /\ phase' = "objects" /\ ThisObject \in DOMAIN Objects
      /\ inputs' = Append(inputs, FromObject(ThisObject)) /\ at' = at + 1
      /\ UNCHANGED <<parseVars, findVars>> /\ UNCHANGED findVars /\ UNCHANGED readVars
      /\ options' = options /\ archive' = archive /\ pos' = pos
  BY DEF ReadObject, ReadingObject, parseVars, readVars
<1>2. PICK os \in Seq(STRING) : os = options.objects
  BY DEF IInv, TypeOK, OptionTypes
<1>3. PICK N \in Nat : N = Len(os) /\ DOMAIN os = 1 .. N
  BY <1>2
<1>4. PICK n \in 1 .. N : n = at
  <2>1. at \in Nat \ {0} /\ at <= N
    BY <1>2, <1>3 DEF ReadObject, ReadingObject, IInv, TypeOK, LoopTypes
  <2>2. at \in 1 .. N
    BY <2>1
  <2>3. QED
    BY <2>2
<1>5. PICK o \in STRING : o = os[n] /\ ThisObject = o
  <2>1. os[n] \in STRING
    BY <1>3
  <2>2. ThisObject = os[n]
    BY <1>2, <1>4 DEF ThisObject
  <2>3. QED
    BY <2>1, <2>2
<1>6. PICK s \in Seq(File) : s = inputs
  BY DEF IInv, TypeOK, ReadTypes, File
<1>7. PICK f \in File : f = FromObject(o)
  BY <1>1, <1>5, FileTyped
<1>8. Len(s) = n - 1 /\ \A m \in 1 .. n - 1 : s[m] = FromObject(os[m])
  BY <1>1, <1>2, <1>4, <1>6 DEF IInv, InputsInv
<1>9. inputs' = Append(s, f) /\ archive = 1 /\ pos = 0
  BY <1>1, <1>5, <1>6, <1>7 DEF IInv, InputsInv
<1>10. inputs' \in Seq(File) /\ Len(inputs') = n /\ inputs'[n] = f
       /\ \A m \in 1 .. n - 1 : inputs'[m] = s[m]
  BY <1>8, <1>9
<1>11. \A m \in 1 .. n : inputs'[m] = FromObject(os[m])
  <2>1. \A m \in 1 .. n : m = n \/ m \in 1 .. n - 1
    BY <1>3
  <2>2. QED
    BY <1>5, <1>7, <1>8, <1>10, <2>1
<1>12. ReadTypes'
  BY <1>1, <1>10, ReadTypesStay DEF IInv, TypeOK, File
<1>13. at' = n + 1 /\ at' - 1 = n /\ at' \in Nat \ {0} /\ at' <= N + 1
  BY <1>1, <1>3, <1>4
<1>14. InputsInv'
  BY <1>1, <1>2, <1>9, <1>10, <1>11, <1>13 DEF InputsInv
<1>15. QED
  BY <1>1, <1>2, <1>3, <1>12, <1>13, <1>14, ReadTail

-----------------------------------------------------------------------------
(***************************************************************************)
(* The members of the libraries.                                           *)
(***************************************************************************)
\* Entry i of library n is a member.
IsMember(n, i) ==
    n \in DOMAIN libraries /\ i \in DOMAIN EntriesOf(n) /\ EntriesOf(n)[i].kind = "member"

LEMMA MembersTyped ==
    ASSUME LibraryTypes
    PROVE  /\ \A n, i : IsMember(n, i) => n \in Nat \ {0} /\ i \in Nat \ {0} /\ <<n, i>> \in Members
           /\ \A p \in Members : IsMember(p[1], p[2]) /\ p = <<p[1], p[2]>>
           /\ IsFiniteSet(Members)
           /\ \A n \in DOMAIN libraries : PathOf(libraries[n]) \in DOMAIN Archives
<1>1. \A n \in DOMAIN libraries : PathOf(libraries[n]) \in DOMAIN Archives
  BY DEF LibraryTypes
<1>2. Len(libraries) \in Nat /\ DOMAIN libraries = 1 .. Len(libraries)
  BY TakenTyped
<1>3. ASSUME NEW n \in DOMAIN libraries
      PROVE  Len(EntriesOf(n)) \in Nat /\ DOMAIN EntriesOf(n) = 1 .. Len(EntriesOf(n))
  BY <1>1, ArchiveTyped DEF EntriesOf
<1> DEFINE Of(n) == {i \in DOMAIN EntriesOf(n) : EntriesOf(n)[i].kind = "member"}
<1>4. ASSUME NEW n, NEW i, IsMember(n, i)
      PROVE  n \in Nat \ {0} /\ i \in Nat \ {0} /\ <<n, i>> \in Members
  <2>1. n \in DOMAIN libraries /\ i \in Of(n)
    BY <1>4 DEF IsMember
  <2>2. n \in Nat \ {0} /\ i \in Nat \ {0}
    BY <1>2, <1>3, <2>1
  <2>3. <<n, i>> \in {n} \X Of(n)
    BY <2>1
  <2>4. QED
    BY <2>1, <2>2, <2>3 DEF Members
<1>5. ASSUME NEW p \in Members PROVE IsMember(p[1], p[2]) /\ p = <<p[1], p[2]>>
  <2>1. PICK n \in DOMAIN libraries : p \in {n} \X Of(n)
    BY DEF Members
  <2>2. p = <<p[1], p[2]>> /\ p[1] = n /\ p[2] \in Of(n)
    BY <2>1
  <2>3. QED
    BY <2>2 DEF IsMember
<1>6. IsFiniteSet(Members)
  <2> DEFINE All == {{n} \X Of(n) : n \in DOMAIN libraries}
  <2>1. IsFiniteSet(DOMAIN libraries)
    BY <1>2, FS_Interval
  <2>2. IsFiniteSet(All)
    <3>1. PICK f : f = [n \in DOMAIN libraries |-> {n} \X Of(n)]
      OBVIOUS
    <3>2. DOMAIN f = DOMAIN libraries /\ All = {f[n] : n \in DOMAIN libraries}
      BY <3>1
    <3> HIDE DEF All
    <3>3. QED
      BY <2>1, <3>2, ImageFinite
  <2>3. ASSUME NEW n \in DOMAIN libraries PROVE IsFiniteSet({n} \X Of(n))
    <3>1. IsFiniteSet(DOMAIN EntriesOf(n))
      BY <1>3, FS_Interval
    <3>2. IsFiniteSet(Of(n))
      BY <3>1, FS_Subset
    <3>3. IsFiniteSet({n})
      BY FS_Singleton
    <3>4. QED
      BY <3>2, <3>3, FS_Product
  <2>4. Members = UNION All
    BY DEF Members
  <2>5. \A x \in All : IsFiniteSet(x)
    BY <2>3
  <2> HIDE DEF All
  <2>6. QED
    BY <2>2, <2>4, <2>5, FS_UNION
<1>7. QED
  BY <1>1, <1>4, <1>5, <1>6

\* The archives are begun when the objects have been read.
LEMMA ObjectsReadInvariant ==
    ASSUME IInv, ObjectsRead
    PROVE  IInv'
<1>1. /\ phase = "objects" /\ phase' = "archives" /\ at > Len(options.objects)
      /\ inputs' = inputs /\ at' = at /\ options' = options
      /\ archive' = archive /\ pos' = pos /\ libraries' = libraries
      /\ UNCHANGED <<parseVars, findVars>> /\ UNCHANGED findVars /\ UNCHANGED readVars
  BY DEF ObjectsRead, parseVars, readVars, findVars
<1>2. PICK N \in Nat : N = Len(options.objects)
  BY SequenceDomain DEF IInv, TypeOK, OptionTypes
<1>3. at \in Nat \ {0} /\ at = N + 1 /\ at - 1 = N
  BY <1>1, <1>2 DEF IInv, TypeOK, LoopTypes
<1>4. Len(inputs) = N /\ \A n \in 1 .. N : inputs[n] = FromObject(options.objects[n])
  BY <1>1, <1>3 DEF IInv, InputsInv
<1>5. archive = 1 /\ pos = 0
  BY <1>1 DEF IInv, InputsInv
<1>6. MembersRead' = {}
  <2>1. Members' = Members
    BY <1>1, SameLibraries
  <2>2. \A p \in Members : ~(p[1] < 1)
    <3>1. \A p \in Members : p[1] \in Nat \ {0}
      BY MembersTyped DEF IInv, TypeOK
    <3>2. QED
      BY <3>1
  <2>3. \A p \in Members : ~IsRead(p)'
    BY <1>1, <1>5, <2>2 DEF IsRead
  <2>4. QED
    BY <2>1, <2>3 DEF MembersRead
<1>7. ReadTypes'
  BY <1>1, ReadTypesStay DEF IInv, TypeOK, ReadTypes
<1>8. InputsInv'
  <2>1. Cardinality({}) = 0
    BY FS_EmptySet
  <2>2. Len(inputs') = Len(options'.objects) + Cardinality(MembersRead')
    BY <1>1, <1>2, <1>4, <1>6, <2>1
  <2>3. QED
    BY <1>1, <1>2, <1>4, <1>5, <1>6, <2>2 DEF InputsInv
<1>9. QED
  BY <1>1, <1>3, <1>7, <1>8, ReadTail

-----------------------------------------------------------------------------
(***************************************************************************)
(* Collect_rel_file_content, the archives.                                 *)
(***************************************************************************)
LEMMA SameFiles ==
    ASSUME UNCHANGED <<parseVars, findVars>>
    PROVE  /\ options' = options /\ libraries' = libraries /\ UNCHANGED findVars
           /\ Members' = Members
           /\ \A p : MembersBefore(p)' = MembersBefore(p) /\ FileOf(p)' = FileOf(p)
           /\ \A n : StartsOf(n)' = StartsOf(n) /\ EntriesOf(n)' = EntriesOf(n)
<1>1. options' = options /\ libraries' = libraries /\ UNCHANGED findVars
  BY DEF parseVars, findVars
<1>2. /\ Members' = Members
      /\ \A n : StartsOf(n)' = StartsOf(n) /\ EntriesOf(n)' = EntriesOf(n)
  BY <1>1, SameLibraries
<1>3. \A p : MembersBefore(p)' = MembersBefore(p)
  BY <1>2 DEF MembersBefore
<1>4. ASSUME NEW p PROVE FileOf(p)' = FileOf(p)
  BY <1>1 DEF FileOf, PathOf, EntriesOf
<1>5. QED
  BY <1>1, <1>2, <1>3, <1>4

\* The string table has been read that comes before position q of library n.
TableBefore(n, q) ==
    \E m \in DOMAIN EntriesOf(n) : StartsOf(n)[m] < q /\ EntriesOf(n)[m].kind = "strtab"

\* A step that reads no member.
LEMMA NoMemberRead ==
    ASSUME IInv, phase = "archives", phase' \in {"archives", "done"},
           UNCHANGED <<parseVars, findVars>>, at' = at, inputs' = inputs,
           \A p \in Members : IsRead(p)' <=> IsRead(p),
           ReadTypes', phase' = "done" => archive' > Len(libraries),
           pos' # 0 => archive' \in DOMAIN libraries /\ (names' <=> TableBefore(archive, pos)')
    PROVE  IInv'
<1>1. /\ options' = options /\ libraries' = libraries
      /\ Members' = Members
      /\ \A p : MembersBefore(p)' = MembersBefore(p) /\ FileOf(p)' = FileOf(p)
      /\ \A n : StartsOf(n)' = StartsOf(n) /\ EntriesOf(n)' = EntriesOf(n)
  BY SameFiles
<1>2. MembersRead' = MembersRead
  BY <1>1 DEF MembersRead
<1>3. PICK count : count = Len(options.objects)
  OBVIOUS
<1>4. /\ Len(inputs') = count + Cardinality(MembersRead')
      /\ \A n \in 1 .. count : inputs'[n] = FromObject(options'.objects[n])
  BY <1>1, <1>2, <1>3 DEF IInv, InputsInv
<1>5. ASSUME NEW p \in MembersRead'
      PROVE  (inputs[count + Cardinality(MembersBefore(p)) + 1] = FileOf(p))'
  <2>1. inputs[count + Cardinality(MembersBefore(p)) + 1] = FileOf(p)
    BY <1>2, <1>3 DEF IInv, InputsInv
  <2>2. MembersBefore(p)' = MembersBefore(p) /\ FileOf(p)' = FileOf(p)
    BY <1>1
  <2>3. QED
    BY <2>1, <2>2
<1>6. ASSUME NEW n \in DOMAIN libraries', n = archive', pos' # 0
      PROVE  (names <=> TableBefore(n, pos))'
  BY <1>6 DEF TableBefore, StartsOf, EntriesOf
<1>7. InputsInv'
  BY <1>1, <1>3, <1>4, <1>5, <1>6 DEF InputsInv, TableBefore
<1>8. at' \in Nat \ {0}
  BY DEF IInv, TypeOK, LoopTypes
<1>9. QED
  BY <1>7, <1>8, ReadTail

LEMMA StartBelow ==
    ASSUME NEW path \in DOMAIN Archives, NEW a, a = Archives[path],
           NEW L, L = Len(a.entries),
           NEW j \in 1 .. L + 1, NEW k \in 1 .. L + 1
    PROVE  Start(a)[j] < Start(a)[k] <=> j < k
<1>1. L \in Nat /\ Start(a)[j] \in Nat /\ Start(a)[k] \in Nat
  BY StartDefined
<1>2. HeaderSize \in Nat \ {0}
  BY FilesAssumption
<1>3. j < k => Start(a)[j] + HeaderSize <= Start(a)[k]
  BY StartOrdered
<1>4. k < j => Start(a)[k] + HeaderSize <= Start(a)[j]
  BY StartOrdered
<1>5. PICK x \in Nat, y \in Nat : x = Start(a)[j] /\ y = Start(a)[k]
  BY <1>1
<1>6. QED
  BY <1>1, <1>2, <1>3, <1>4, <1>5

\* The members that have been read are those before the next entry.
LEMMA ReadBefore ==
    ASSUME IInv, pos # 0, NEW n, NEW path, NEW k, IsAt(n, path, k)
    PROVE  /\ \A p \in Members : IsRead(p) <=> p[1] < n \/ (p[1] = n /\ p[2] < k)
           /\ \A m \in DOMAIN EntriesOf(n) : StartsOf(n)[m] < pos <=> m < k
<1>1. PICK L \in Nat : L = Len(Archives[path].entries) /\ DOMAIN EntriesOf(n) = 1 .. L
  BY StartDefined DEF IsAt
<1>2. ASSUME NEW m \in DOMAIN EntriesOf(n) PROVE StartsOf(n)[m] < pos <=> m < k
  <2>1. m \in 1 .. L + 1 /\ k \in 1 .. L + 1
    BY <1>1 DEF IsAt
  <2>2. Start(Archives[path])[m] < Start(Archives[path])[k] <=> m < k
    BY <1>1, <2>1, StartBelow DEF IsAt
  <2>3. QED
    BY <2>2 DEF IsAt
<1>3. ASSUME NEW p \in Members PROVE IsRead(p) <=> p[1] < n \/ (p[1] = n /\ p[2] < k)
  <2>1. p[2] \in DOMAIN EntriesOf(p[1])
    BY MembersTyped DEF IInv, TypeOK, IsMember
  <2>2. p[1] = n => (StartsOf(n)[p[2]] < pos <=> p[2] < k)
    BY <1>2, <2>1
  <2>3. n = archive
    BY DEF IsAt
  <2>4. QED
    BY <2>2, <2>3 DEF IsRead
<1>4. QED
  BY <1>2, <1>3

\* Behind an entry, it and what came before have been read.
LEMMA EntryRead ==
    ASSUME IInv, phase = "archives", NEW n, NEW path, NEW k, IsAt(n, path, k), ReadingEntry,
           pos' = EntryEnd, UNCHANGED <<parseVars, findVars>>, archive' = archive
    PROVE  /\ \A p \in Members : IsRead(p)' <=> IsRead(p) \/ p = <<n, k>>
           /\ \A m \in DOMAIN EntriesOf(n) : StartsOf(n)[m] < pos' <=> StartsOf(n)[m] < pos \/ m = k
           /\ pos' # 0 /\ archive' = n /\ n \in DOMAIN libraries
           /\ names' \in BOOLEAN /\ inputs' \in Seq(File) => ReadTypes'
           /\ \A m \in DOMAIN EntriesOf(n) : m \in Nat
<1>1. PICK L \in Nat : /\ L = Len(Archives[path].entries) /\ DOMAIN EntriesOf(n) = 1 .. L
                       /\ \A i \in 1 .. L + 1 : Start(Archives[path])[i] \in Nat \ {0}
  BY StartDefined DEF IsAt
<1>2. k \in 1 .. L /\ k + 1 \in 1 .. L + 1 /\ pos # 0
  BY <1>1 DEF IsAt, ReadingEntry, Reading
<1>3. pos' = Start(Archives[path])[k + 1] /\ n = archive /\ n \in DOMAIN libraries
      /\ path \in DOMAIN Archives /\ StartsOf(n) = Start(Archives[path])
  BY DEF IsAt
<1>4. /\ options' = options /\ libraries' = libraries
      /\ \A m : StartsOf(m)' = StartsOf(m) /\ EntriesOf(m)' = EntriesOf(m)
  BY SameFiles
<1>5. pos' # 0
  BY <1>1, <1>2, <1>3
<1>6. ASSUME NEW m \in 1 .. L PROVE StartsOf(n)[m] < pos' <=> m < k + 1
  <2>1. m \in 1 .. L + 1
    BY <1>1
  <2>2. Start(Archives[path])[m] < Start(Archives[path])[k + 1] <=> m < k + 1
    BY <1>1, <1>2, <1>3, <2>1, StartBelow
  <2>3. QED
    BY <1>3, <2>2
<1>7. /\ \A p \in Members : IsRead(p) <=> p[1] < n \/ (p[1] = n /\ p[2] < k)
      /\ \A m \in DOMAIN EntriesOf(n) : StartsOf(n)[m] < pos <=> m < k
  BY <1>2, ReadBefore
<1>8. ASSUME NEW p \in Members PROVE IsRead(p)' <=> IsRead(p) \/ p = <<n, k>>
  <2>1. p[2] \in DOMAIN EntriesOf(p[1]) /\ p = <<p[1], p[2]>>
    BY MembersTyped DEF IInv, TypeOK, IsMember
  <2>2. IsRead(p)' <=> p[1] < n \/ (p[1] = n /\ StartsOf(n)[p[2]] < pos')
    BY <1>3, <1>4, <1>5 DEF IsRead
  <2>3. CASE p[1] = n
    <3>1. p[2] \in 1 .. L
      BY <1>1, <2>1, <2>3
    <3>2. IsRead(p)' <=> p[1] < n \/ p[2] < k + 1
      BY <1>6, <2>2, <2>3, <3>1
    <3>3. IsRead(p) <=> p[1] < n \/ p[2] < k
      BY <1>7, <2>3
    <3>4. p[2] < k + 1 <=> p[2] < k \/ p[2] = k
      BY <1>2, <3>1
    <3>5. p = <<n, k>> <=> p[2] = k
      BY <2>1, <2>3
    <3>6. QED
      BY <3>2, <3>3, <3>4, <3>5
  <2>4. CASE p[1] # n
    <3>1. p # <<n, k>>
      BY <2>4
    <3>2. QED
      BY <1>7, <2>2, <2>4, <3>1
  <2>5. QED
    BY <2>3, <2>4
<1>9. ASSUME NEW m \in DOMAIN EntriesOf(n)
      PROVE  StartsOf(n)[m] < pos' <=> StartsOf(n)[m] < pos \/ m = k
  <2>1. m \in 1 .. L /\ m \in Nat /\ k \in Nat
    BY <1>1, <1>2
  <2>2. m < k + 1 <=> m < k \/ m = k
    BY <2>1
  <2>3. QED
    BY <1>6, <1>7, <2>1, <2>2
<1>10. ASSUME names' \in BOOLEAN, inputs' \in Seq(File) PROVE ReadTypes'
  <2>1. Current' = Archives[path]
    BY <1>4 DEF IsAt, Current, PathOf
  <2>2. \E i \in 1 .. Len(Current'.entries) + 1 : pos' = Start(Current')[i]
    BY <1>1, <1>2, <1>3, <2>1
  <2>3. archive' \in 1 .. Len(libraries') + 1 /\ archive' <= Len(libraries')
    BY <1>2, <1>4 DEF IInv, TypeOK, ReadTypes
  <2>4. QED
    BY <1>10, <2>2, <2>3 DEF ReadTypes, File
<1>11. QED
  BY <1>1, <1>3, <1>5, <1>8, <1>9, <1>10

\* An archive is opened.
LEMMA OpenArchiveInvariant ==
    ASSUME IInv, OpenArchive
    PROVE  IInv'
<1>1. /\ phase = "archives" /\ phase' = "archives" /\ archive <= Len(libraries) /\ pos = 0
      /\ pos' = MagicSize /\ names' = FALSE /\ at' = at /\ inputs' = inputs /\ archive' = archive
      /\ UNCHANGED <<parseVars, findVars>>
  BY DEF OpenArchive
<1>2. PICK n \in DOMAIN libraries : n = archive
  <2>1. Len(libraries) \in Nat /\ DOMAIN libraries = 1 .. Len(libraries)
    BY TakenTyped DEF IInv, TypeOK
  <2>2. archive \in 1 .. Len(libraries)
    BY <1>1, <2>1 DEF IInv, TypeOK, ReadTypes
  <2>3. QED
    BY <2>1, <2>2
<1>3. PICK path \in DOMAIN Archives : path = PathOf(libraries[n])
  BY MembersTyped DEF IInv, TypeOK
<1>4. PICK L \in Nat : L = Len(Archives[path].entries)
  BY StartDefined
<1>5. /\ DOMAIN EntriesOf(n) = 1 .. L /\ StartsOf(n) = Start(Archives[path])
      /\ Start(Archives[path])[1] = MagicSize
  BY <1>3, <1>4, StartDefined DEF EntriesOf, StartsOf
<1>6. ASSUME NEW m \in DOMAIN EntriesOf(n) PROVE ~(StartsOf(n)[m] < pos')
  <2>1. m \in 1 .. L + 1 /\ 1 \in 1 .. L + 1 /\ ~(m < 1)
    BY <1>4, <1>5
  <2>2. ~(Start(Archives[path])[m] < Start(Archives[path])[1])
    BY <1>4, <2>1, StartBelow
  <2>3. QED
    BY <1>1, <1>5, <2>2
<1>7. /\ options' = options /\ libraries' = libraries
      /\ \A m : StartsOf(m)' = StartsOf(m) /\ EntriesOf(m)' = EntriesOf(m)
  BY <1>1, SameFiles
<1>8. ASSUME NEW p \in Members PROVE IsRead(p)' <=> IsRead(p)
  <2>1. p[2] \in DOMAIN EntriesOf(p[1])
    BY MembersTyped DEF IInv, TypeOK, IsMember
  <2>2. p[1] = n => ~(StartsOf(n)[p[2]] < pos')
    BY <1>6, <2>1
  <2>3. QED
    BY <1>1, <1>2, <1>7, <2>2 DEF IsRead
<1>9. ReadTypes'
  <2>1. Current' = Archives[path]
    BY <1>1, <1>2, <1>3, <1>7 DEF Current, PathOf
  <2>2. 1 \in 1 .. L + 1
    BY <1>4
  <2>3. \E i \in 1 .. Len(Current'.entries) + 1 : pos' = Start(Current')[i]
    BY <1>1, <1>4, <1>5, <2>1, <2>2
  <2>4. names' \in BOOLEAN
    BY <1>1, Zenon
  <2>5. QED
    BY <1>1, <1>7, <2>3, <2>4 DEF IInv, TypeOK, ReadTypes
<1>10. ~TableBefore(archive, pos)'
  BY <1>1, <1>2, <1>6, <1>7 DEF TableBefore
<1>11. archive' \in DOMAIN libraries /\ (names' <=> TableBefore(archive, pos)')
  BY <1>1, <1>2, <1>10
<1>12. QED
  BY <1>1, <1>8, <1>9, <1>11, NoMemberRead

\* A symbol table is skipped, or the string table is read.
LEMMA SkipInvariant ==
    ASSUME IInv, SkipSymtab \/ ReadStrtab
    PROVE  IInv'
<1>1. /\ ReadingEntry /\ Reading /\ phase = "archives" /\ phase' = "archives" /\ pos # 0
      /\ pos' = EntryEnd /\ at' = at /\ inputs' = inputs /\ archive' = archive
      /\ UNCHANGED <<parseVars, findVars>>
      /\ \/ ThisEntry.kind = "symtab" /\ names' = names
         \/ ThisEntry.kind = "strtab" /\ names' = TRUE
  BY DEF SkipSymtab, ReadStrtab, ReadingEntry, Reading, IsSymtab
<1>2. PICK n, path, k : IsAt(n, path, k)
  BY <1>1, ReadingAt
<1>3. /\ \A p \in Members : IsRead(p)' <=> IsRead(p) \/ p = <<n, k>>
      /\ \A m \in DOMAIN EntriesOf(n) : StartsOf(n)[m] < pos' <=> StartsOf(n)[m] < pos \/ m = k
      /\ pos' # 0 /\ archive' = n /\ n \in DOMAIN libraries
      /\ names' \in BOOLEAN /\ inputs' \in Seq(File) => ReadTypes'
  BY <1>1, <1>2, EntryRead
<1>4. k \in DOMAIN EntriesOf(n) /\ ThisEntry = EntriesOf(n)[k] /\ n = archive
  BY <1>1, <1>2 DEF IsAt
<1>5. <<n, k>> \notin Members
  <2>1. ASSUME <<n, k>> \in Members PROVE FALSE
    <3>1. PICK p : p = <<n, k>>
      OBVIOUS
    <3>2. p[1] = n /\ p[2] = k /\ p \in Members
      BY <2>1, <3>1
    <3>3. EntriesOf(n)[k].kind = "member"
      BY <3>2, MembersTyped DEF IInv, TypeOK, IsMember
    <3>4. QED
      BY <1>1, <1>4, <3>3
  <2>2. QED
    BY <2>1
<1>6. \A p \in Members : IsRead(p)' <=> IsRead(p)
  BY <1>3, <1>5
<1>7. ReadTypes'
  <2>1. names \in BOOLEAN /\ inputs \in Seq(File)
    BY DEF IInv, TypeOK, ReadTypes, File
  <2>2. names' \in BOOLEAN
    BY <1>1, <2>1, Zenon
  <2>3. QED
    BY <1>1, <1>3, <2>1, <2>2
<1>8. names' <=> TableBefore(archive, pos)'
  <2>1. names <=> TableBefore(n, pos)
    BY <1>1, <1>3, <1>4 DEF IInv, InputsInv, TableBefore
  <2>2. \A m : StartsOf(m)' = StartsOf(m) /\ EntriesOf(m)' = EntriesOf(m)
    BY <1>1, SameFiles
  <2>3. TableBefore(archive, pos)' <=> TableBefore(n, pos) \/ EntriesOf(n)[k].kind = "strtab"
    BY <1>3, <1>4, <2>2 DEF TableBefore
  <2>4. QED
    BY <1>1, <1>4, <2>1, <2>3
<1>9. QED
  BY <1>1, <1>3, <1>6, <1>7, <1>8, NoMemberRead

\* The end of an archive.
LEMMA CloseArchiveInvariant ==
    ASSUME IInv, CloseArchive
    PROVE  IInv'
<1>1. /\ Reading /\ ~ReadingEntry /\ phase = "archives" /\ phase' = "archives" /\ pos # 0
      /\ pos' = 0 /\ archive' = archive + 1 /\ at' = at /\ names' = names /\ inputs' = inputs
      /\ UNCHANGED <<parseVars, findVars>>
  <2>1. Reading /\ pos + HeaderSize > FileSize(Current)
    BY DEF CloseArchive
  <2>2. PICK n, path, k : IsAt(n, path, k)
    BY <2>1, ReadingAt
  <2>3. pos + HeaderSize \in Nat /\ FileSize(Current) \in Nat
    BY <2>2, FileHolds, StartDefined, FilesAssumption DEF IsAt
  <2>4. ~ReadingEntry
    BY <2>1, <2>3 DEF ReadingEntry
  <2>5. QED
    BY <2>1, <2>4 DEF CloseArchive, Reading
<1>2. PICK n, path, k : IsAt(n, path, k)
  BY <1>1, ReadingAt
<1>3. PICK L \in Nat : L = Len(Archives[path].entries) /\ DOMAIN EntriesOf(n) = 1 .. L
  BY <1>2, StartDefined DEF IsAt
<1>4. k = L + 1 /\ n = archive /\ n \in Nat /\ Len(libraries) \in Nat
      /\ DOMAIN libraries = 1 .. Len(libraries) /\ n \in DOMAIN libraries
  BY <1>1, <1>2, <1>3, TakenTyped DEF IsAt, IInv, TypeOK
<1>5. ASSUME NEW p \in Members PROVE IsRead(p)' <=> IsRead(p)
  <2>1. IsRead(p) <=> p[1] < n \/ (p[1] = n /\ p[2] < k)
    BY <1>1, <1>2, ReadBefore
  <2>2. p[2] \in DOMAIN EntriesOf(p[1]) /\ p[1] \in Nat
    BY MembersTyped DEF IInv, TypeOK, IsMember
  <2>3. p[1] = n => p[2] < k
    BY <1>3, <1>4, <2>2
  <2>4. IsRead(p)' <=> p[1] < n + 1
    BY <1>1, <1>4 DEF IsRead
  <2>5. QED
    BY <1>4, <2>1, <2>2, <2>3, <2>4
<1>6. ReadTypes'
  <2>1. libraries' = libraries
    BY <1>1, SameFiles
  <2>2. archive' \in 1 .. Len(libraries') + 1
    BY <1>1, <1>4, <2>1
  <2>3. QED
    BY <1>1, <2>2 DEF IInv, TypeOK, ReadTypes
<1>7. QED
  BY <1>1, <1>5, <1>6, NoMemberRead

LEMMA CollectDoneInvariant ==
    ASSUME IInv, CollectDone
    PROVE  IInv'
<1>1. /\ phase = "archives" /\ phase' = "done" /\ archive > Len(libraries)
      /\ pos' = pos /\ archive' = archive /\ at' = at /\ names' = names /\ inputs' = inputs
      /\ UNCHANGED <<parseVars, findVars>> /\ UNCHANGED readVars
  BY DEF CollectDone, readVars
<1>2. Len(libraries) \in Nat
  BY TakenTyped DEF IInv, TypeOK
<1>3. pos = 0
  BY <1>1, <1>2 DEF IInv, TypeOK, ReadTypes
<1>4. \A n : StartsOf(n)' = StartsOf(n)
  BY <1>1, SameFiles
<1>5. \A p \in Members : IsRead(p)' <=> IsRead(p)
  BY <1>1, <1>4 DEF IsRead
<1>6. ReadTypes'
  BY <1>1, SameFiles, ReadTypesStay DEF IInv, TypeOK, ReadTypes
<1>7. QED
  BY <1>1, <1>3, <1>5, <1>6, NoMemberRead

\* The members before one that has been read have been read, and are fewer.
LEMMA BeforeRead ==
    ASSUME IInv, pos # 0, NEW n, NEW path, NEW k, IsAt(n, path, k)
    PROVE  /\ IsFiniteSet(MembersRead) /\ Cardinality(MembersRead) \in Nat
           /\ \A p \in MembersRead :
                Cardinality(MembersBefore(p)) \in 0 .. Cardinality(MembersRead) - 1
           /\ ReadingEntry => MembersBefore(<<n, k>>) = MembersRead /\ <<n, k>> \notin MembersRead
<1>1. /\ \A p \in Members : p[1] \in Nat /\ p[2] \in Nat
      /\ IsFiniteSet(Members)
  BY MembersTyped DEF IInv, TypeOK, IsMember
<1>2. \A p \in Members : IsRead(p) <=> p[1] < n \/ (p[1] = n /\ p[2] < k)
  BY ReadBefore
<1>3. n \in Nat /\ k \in Nat
  <2>1. Len(Archives[path].entries) \in Nat /\ DOMAIN libraries = 1 .. Len(libraries)
    BY StartDefined, TakenTyped DEF IsAt, IInv, TypeOK
  <2>2. QED
    BY <2>1 DEF IsAt
<1>4. IsFiniteSet(MembersRead) /\ Cardinality(MembersRead) \in Nat
  <2>1. MembersRead \in SUBSET Members
    BY DEF MembersRead
  <2>2. IsFiniteSet(MembersRead)
    BY <1>1, <2>1, FS_Subset
  <2>3. QED
    BY <2>2, FS_CardinalityType
<1>5. ASSUME NEW p \in MembersRead
      PROVE  Cardinality(MembersBefore(p)) \in 0 .. Cardinality(MembersRead) - 1
  <2>1. p \in Members /\ IsRead(p)
    BY DEF MembersRead
  <2>2. ASSUME NEW q \in MembersBefore(p) PROVE q \in MembersRead /\ q # p
    <3>1. q \in Members /\ Earlier(q, p)
      BY DEF MembersBefore
    <3>2. /\ p[1] \in Nat /\ p[2] \in Nat /\ q[1] \in Nat /\ q[2] \in Nat
          /\ p[1] < n \/ (p[1] = n /\ p[2] < k)
          /\ q[1] < p[1] \/ (q[1] = p[1] /\ q[2] < p[2])
      BY <1>1, <1>2, <2>1, <3>1 DEF Earlier
    <3>3. q[1] < n \/ (q[1] = n /\ q[2] < k)
      BY <1>3, <3>2
    <3>4. q # p
      BY <3>2
    <3>5. QED
      BY <1>2, <3>1, <3>3, <3>4 DEF MembersRead
  <2>3. PICK R : R = MembersRead \ {p}
    OBVIOUS
  <2>4. IsFiniteSet(R) /\ Cardinality(R) = Cardinality(MembersRead) - 1
    BY <1>4, <2>3, FS_RemoveElement
  <2>5. MembersBefore(p) \in SUBSET R
    BY <2>2, <2>3
  <2>6. Cardinality(MembersBefore(p)) <= Cardinality(R) /\ IsFiniteSet(MembersBefore(p))
    BY <2>4, <2>5, FS_Subset
  <2>7. Cardinality(MembersBefore(p)) \in Nat
    BY <2>6, FS_CardinalityType
  <2>8. QED
    BY <1>4, <2>4, <2>6, <2>7
<1>6. PICK r : r = <<n, k>>
  OBVIOUS
<1>7. r[1] = n /\ r[2] = k
  BY <1>6
<1>8. MembersBefore(r) = MembersRead
  <2>1. \A q \in Members : Earlier(q, r) <=> IsRead(q)
    BY <1>2, <1>7 DEF Earlier
  <2>2. QED
    BY <2>1 DEF MembersBefore, MembersRead
<1>9. r \notin MembersRead
  <2>1. ~(n < n) /\ ~(k < k)
    BY <1>3
  <2>2. QED
    BY <1>2, <1>7, <2>1 DEF MembersRead
<1>10. QED
  BY <1>4, <1>5, <1>6, <1>8, <1>9

\* A member is read.
LEMMA ReadMemberInvariant ==
    ASSUME IInv, ReadMember
    PROVE  IInv'
<1>1. /\ ReadingEntry /\ Reading /\ phase = "archives" /\ phase' = "archives" /\ pos # 0
      /\ pos' = EntryEnd /\ at' = at /\ archive' = archive /\ names' = names
      /\ ThisEntry.kind = "member"
      /\ inputs' = Append(inputs, FromArchive(PathOf(libraries[archive]), ThisEntry.name))
      /\ UNCHANGED <<parseVars, findVars>>
  BY DEF ReadMember, ReadingMember, ReadingEntry, Reading
<1>2. PICK n, path, k : IsAt(n, path, k)
  BY <1>1, ReadingAt
<1>3. /\ \A p \in Members : IsRead(p)' <=> IsRead(p) \/ p = <<n, k>>
      /\ \A m \in DOMAIN EntriesOf(n) : StartsOf(n)[m] < pos' <=> StartsOf(n)[m] < pos \/ m = k
      /\ pos' # 0 /\ archive' = n /\ n \in DOMAIN libraries
      /\ names' \in BOOLEAN /\ inputs' \in Seq(File) => ReadTypes'
  BY <1>1, <1>2, EntryRead
<1>4. /\ k \in DOMAIN EntriesOf(n) /\ ThisEntry = EntriesOf(n)[k] /\ n = archive
      /\ EntriesOf(n)[k].kind = "member" /\ path = PathOf(libraries[n]) /\ path \in DOMAIN Archives
      /\ EntriesOf(n) = Archives[path].entries
  BY <1>1, <1>2 DEF IsAt
<1>5. PICK r : r = <<n, k>>
  OBVIOUS
<1>6. r \in Members /\ r[1] = n /\ r[2] = k
  BY <1>3, <1>4, <1>5, MembersTyped DEF IInv, TypeOK, IsMember
<1>7. /\ options' = options /\ libraries' = libraries /\ Members' = Members
      /\ \A p : MembersBefore(p)' = MembersBefore(p) /\ FileOf(p)' = FileOf(p)
      /\ \A m : StartsOf(m)' = StartsOf(m) /\ EntriesOf(m)' = EntriesOf(m)
  BY <1>1, SameFiles
<1>8. MembersRead' = MembersRead \union {r}
  BY <1>3, <1>5, <1>6, <1>7 DEF MembersRead
<1>9. PICK M \in Nat : M = Cardinality(MembersRead)
  BY <1>1, <1>2, BeforeRead
<1>10. /\ \A p \in MembersRead : Cardinality(MembersBefore(p)) \in 0 .. M - 1
       /\ MembersBefore(r) = MembersRead
       /\ Cardinality(MembersRead') = M + 1
  <2>1. /\ IsFiniteSet(MembersRead) /\ r \notin MembersRead /\ MembersBefore(r) = MembersRead
        /\ \A p \in MembersRead : Cardinality(MembersBefore(p)) \in 0 .. M - 1
    BY <1>1, <1>2, <1>5, <1>9, BeforeRead
  <2>2. QED
    BY <1>8, <1>9, <2>1, FS_AddElement
<1>11. PICK f \in File : f = FileOf(r) /\ f = FromArchive(PathOf(libraries[archive]), ThisEntry.name)
  <2>1. FileOf(r) = FromArchive(PathOf(libraries[archive]), ThisEntry.name)
    BY <1>4, <1>6 DEF FileOf
  <2>2. ThisEntry.name \in STRING
    <3>1. \A i \in DOMAIN Archives[path].entries : Archives[path].entries[i] \in Entry
      BY <1>4, ArchiveTyped
    <3>2. ThisEntry \in Entry
      BY <1>4, <3>1
    <3>3. QED
      BY <3>2 DEF Entry
  <2>3. FromArchive(path, ThisEntry.name) \in File
    BY <1>4, <2>2, FileTyped
  <2>4. QED
    BY <1>4, <2>1, <2>3
<1>12. PICK s \in Seq(File) : s = inputs
  BY DEF IInv, TypeOK, ReadTypes, File
<1>13. PICK count \in Nat : count = Len(options.objects)
  BY SequenceDomain DEF IInv, TypeOK, OptionTypes
<1>14. /\ Len(s) = count + M
       /\ \A m \in 1 .. count : s[m] = FromObject(options.objects[m])
       /\ \A p \in MembersRead : s[count + Cardinality(MembersBefore(p)) + 1] = FileOf(p)
  BY <1>1, <1>9, <1>12, <1>13 DEF IInv, InputsInv
<1>15. /\ inputs' \in Seq(File) /\ Len(inputs') = count + (M + 1)
       /\ inputs'[count + M + 1] = f
       /\ \A m \in 1 .. count + M : inputs'[m] = s[m]
  <2>1. inputs' = Append(s, f)
    BY <1>1, <1>11, <1>12
  <2>2. PICK N \in Nat : N = count + M /\ Len(s) = N
    BY <1>14
  <2>3. inputs' \in Seq(File) /\ Len(inputs') = N + 1 /\ inputs'[N + 1] = f
        /\ \A m \in 1 .. N : inputs'[m] = s[m]
    BY <2>1, <2>2
  <2>4. count + (M + 1) = N + 1
    BY <2>2
  <2>5. QED
    BY <2>2, <2>3, <2>4
<1>16. \A m \in 1 .. count : inputs'[m] = FromObject(options.objects[m])
  <2>1. \A m \in 1 .. count : m \in 1 .. count + M
    OBVIOUS
  <2>2. QED
    BY <1>14, <1>15, <2>1
<1>17. ASSUME NEW p \in MembersRead'
       PROVE  (inputs[count + Cardinality(MembersBefore(p)) + 1] = FileOf(p))'
  <2>1. MembersBefore(p)' = MembersBefore(p) /\ FileOf(p)' = FileOf(p)
    BY <1>7
  <2>2. CASE p = r
    BY <1>9, <1>10, <1>11, <1>15, <2>1, <2>2
  <2>3. CASE p \in MembersRead
    <3>1. PICK c \in 0 .. M - 1 : c = Cardinality(MembersBefore(p))
      BY <1>10, <2>3
    <3>2. count + c + 1 \in 1 .. count + M
      OBVIOUS
    <3>3. inputs'[count + c + 1] = FileOf(p)
      BY <1>14, <1>15, <2>3, <3>1, <3>2
    <3>4. QED
      BY <2>1, <3>1, <3>3
  <2>4. QED
    BY <1>8, <2>2, <2>3
<1>18. ASSUME NEW m \in DOMAIN libraries', m = archive', pos' # 0
       PROVE  (names <=> TableBefore(m, pos))'
  <2>1. names <=> TableBefore(n, pos)
    BY <1>1, <1>3, <1>4 DEF IInv, InputsInv, TableBefore
  <2>2. m = n /\ EntriesOf(n)[k].kind # "strtab"
    BY <1>3, <1>4, <1>18
  <2>3. TableBefore(n, pos)' <=> TableBefore(n, pos)
    BY <1>3, <1>7, <2>2 DEF TableBefore
  <2>4. QED
    BY <1>1, <2>1, <2>2, <2>3 DEF TableBefore, StartsOf, EntriesOf
<1>19. InputsInv'
  <2>1. Len(inputs') = count + Cardinality(MembersRead')
    BY <1>10, <1>15
  <2>2. QED
    BY <1>1, <1>7, <1>13, <1>16, <1>17, <1>18, <2>1 DEF InputsInv, TableBefore
<1>20. ReadTypes'
  BY <1>1, <1>3, <1>15 DEF IInv, TypeOK, ReadTypes
<1>21. at' \in Nat \ {0}
  BY <1>1 DEF IInv, TypeOK, LoopTypes
<1>22. QED
  BY <1>1, <1>19, <1>20, <1>21, ReadTail

LEMMA StutterInvariant ==
    ASSUME IInv, UNCHANGED vars
    PROVE  IInv'
<1>1. /\ args' = args /\ named' = named /\ options' = options /\ phase' = phase /\ at' = at
      /\ dir' = dir /\ lib' = lib /\ libraries' = libraries
      /\ archive' = archive /\ pos' = pos /\ names' = names /\ inputs' = inputs
      /\ UNCHANGED <<parseVars, findVars>> /\ UNCHANGED findVars /\ UNCHANGED readVars
  BY DEF vars, parseVars, findVars, readVars
<1>2. TypeOK'
  <2>1. OptionTypes' /\ LoopTypes'
    BY <1>1 DEF IInv, TypeOK, OptionTypes, LoopTypes
  <2>2. LibraryTypes' /\ ReadTypes'
    BY <1>1, LibraryTypesStay, ReadTypesStay DEF IInv, TypeOK, ReadTypes
  <2>3. QED
    BY <2>1, <2>2 DEF TypeOK
<1>3. /\ Members' = Members
      /\ \A p : MembersBefore(p)' = MembersBefore(p) /\ FileOf(p)' = FileOf(p)
      /\ \A n : StartsOf(n)' = StartsOf(n) /\ EntriesOf(n)' = EntriesOf(n)
      /\ \A n, d, l : Taken(n, d, l)' <=> Taken(n, d, l)
      /\ \A d, l : Passed(d, l)' <=> Passed(d, l)
      /\ \A l : FirstDirectory(l)' = FirstDirectory(l) /\ (Found(l)' <=> Found(l))
      /\ \A f : PathOf(f)' = PathOf(f)
  BY <1>1, SameFiles, SameLibraries
<1>4. ParseInv'
  <2>1. /\ \A n : IsHead(n)' <=> IsHead(n)
        /\ \A kind, n : Seen(kind, n)' = Seen(kind, n)
        /\ \A S : Listed(S)' = Listed(S)
    BY <1>1, SameArgs
  <2>2. ASSUME NEW n PROVE ParsedBefore(n)' <=> ParsedBefore(n)
    <3>1. /\ Seen("info", n)' = Seen("info", n) /\ Seen("machine", n)' = Seen("machine", n)
          /\ Seen("output", n)' = Seen("output", n)
      BY <2>1
    <3>2. /\ Listed(Seen("directory", n))' = Listed(Seen("directory", n))
          /\ Listed(Seen("library", n))' = Listed(Seen("library", n))
          /\ Listed(Seen("plain", n))' = Listed(Seen("plain", n))
      BY <1>1 DEF Listed, Seen, ValueOfFlag, NamesOutput
    <3>3. QED
      BY <1>1, <3>1, <3>2 DEF ParsedBefore
  <2>3. OptionsRead'
    <3>1. OptionsRead
      BY DEF IInv, ParseInv
    <3>2. /\ Stop' = Stop
          /\ Values("directory")' = Values("directory") /\ Values("library")' = Values("library")
          /\ Values("plain")' = Values("plain")
          /\ Given("machine")' = Given("machine") /\ Given("output")' = Given("output")
      BY <1>1, SameArgs
    <3>3. QED
      BY <1>1, <3>1, <3>2 DEF OptionsRead
  <2>4. QED
    BY <1>1, <2>1, <2>2, <2>3 DEF IInv, ParseInv
<1>5. FindInv'
  BY <1>1, <1>3 DEF IInv, FindInv
<1>6. InputsInv'
  <2>1. ASSUME NEW p \in Members PROVE IsRead(p)' <=> IsRead(p)
    BY <1>1, <1>3 DEF IsRead
  <2>2. MembersRead' = MembersRead
    BY <1>3, <2>1 DEF MembersRead
  <2>3. PICK count : count = Len(options.objects)
    OBVIOUS
  <2>4. ASSUME NEW p \in MembersRead, phase \in {"archives", "done"}
        PROVE  (inputs[count + Cardinality(MembersBefore(p)) + 1] = FileOf(p))'
    <3>1. inputs[count + Cardinality(MembersBefore(p)) + 1] = FileOf(p)
      BY <2>3, <2>4 DEF IInv, InputsInv
    <3>2. MembersBefore(p)' = MembersBefore(p) /\ FileOf(p)' = FileOf(p)
      BY <1>3
    <3>3. QED
      BY <1>1, <3>1, <3>2
  <2>5. QED
    BY <1>1, <1>3, <2>2, <2>3, <2>4 DEF IInv, InputsInv
<1>7. ErrorsAreReal'
  <2>1. NamesOutput' = NamesOutput
    BY <1>1, SameArgs
  <2>2. Current' = Current
    BY <1>1 DEF Current, PathOf
  <2>3. ASSUME NEW l, NEW d \in FirstDirectory(l)
        PROVE  FirstDirectory(l)' = FirstDirectory(l) /\ PathOf(<<d, l>>)' = PathOf(<<d, l>>)
    BY <1>3
  <2>4. \A l : FirstDirectory(l)' = FirstDirectory(l)
    BY <1>3
  <2>5. \A n : PathOf(libraries[n])' = PathOf(libraries[n])
    BY <1>1 DEF PathOf
  <2>6. CASE phase \in {"not_relocatable", "wrong_machine"}
    BY <1>1, <2>5, <2>6 DEF IInv, ErrorsAreReal, Refused
  <2>7. CASE phase \notin {"not_relocatable", "wrong_machine"}
    BY <1>1, <2>1, <2>2, <2>3, <2>4, <2>7 DEF IInv, ErrorsAreReal
  <2>8. QED
    BY <2>6, <2>7
<1>8. QED
  BY <1>2, <1>4, <1>5, <1>6, <1>7 DEF IInv

-----------------------------------------------------------------------------
(***************************************************************************)
(* The inductive invariant holds, and with it what InputFiles states.      *)
(***************************************************************************)
LEMMA NextInvariant == IInv /\ [Next]_vars => IInv'
<1> SUFFICES ASSUME IInv, [Next]_vars PROVE IInv'
  OBVIOUS
<1>1. CASE ParseOutput
  BY <1>1, ParseOutputInvariant
<1>2. CASE ParseOutputMissing
  BY <1>2, OutputMissing
<1>3. CASE ParseInfo \/ ParseDone
  BY <1>3, ParseEndInvariant
<1>4. CASE ParseMachine \/ ParseDirectory \/ ParseLibrary \/ ParseObject
  BY <1>4, TakeInvariant
<1>5. CASE SkipFlag
  BY <1>5, SkipFlagInvariant
<1>6. CASE LookElsewhere
  BY <1>6, LookElsewhereInvariant
<1>7. CASE LibraryIsNoArchive
  BY <1>7, LibraryIsNoArchiveInvariant
<1>8. CASE FindLibrary
  BY <1>8, FindLibraryInvariant
<1>9. CASE LibraryMissing
  BY <1>9, LibraryMissingInvariant
<1>10. CASE LibrariesFound
  BY <1>10, LibrariesFoundInvariant
<1>11. CASE ObjectMissing \/ RefuseObject
  BY <1>11, ObjectErrorInvariant
<1>12. CASE ReadObject
  BY <1>12, ReadObjectInvariant
<1>13. CASE ObjectsRead
  BY <1>13, ObjectsReadInvariant
<1>14. CASE OpenArchive
  BY <1>14, OpenArchiveInvariant
<1>15. CASE EntryTruncated
  BY <1>15, EntryTruncatedInvariant
<1>16. CASE SkipSymtab \/ ReadStrtab
  BY <1>16, SkipInvariant
<1>17. CASE NameMissing
  BY <1>17, NameMissingInvariant
<1>18. CASE RefuseMember
  BY <1>18, RefuseMemberInvariant
<1>19. CASE ReadMember
  BY <1>19, ReadMemberInvariant
<1>20. CASE CloseArchive
  BY <1>20, CloseArchiveInvariant
<1>21. CASE CollectDone
  BY <1>21, CollectDoneInvariant
<1>22. CASE Terminated \/ UNCHANGED vars
  <2>1. UNCHANGED vars
    BY <1>22 DEF Terminated
  <2>2. QED
    BY <2>1, StutterInvariant
<1>23. QED
  BY <1>1, <1>2, <1>3, <1>4, <1>5, <1>6, <1>7, <1>8, <1>9, <1>10, <1>11, <1>12, <1>13, <1>14,
     <1>15, <1>16, <1>17, <1>18, <1>19, <1>20, <1>21, <1>22 DEF Next

LEMMA Invariance == Spec => []IInv
<1>1. Init => IInv
  BY InitInvariant
<1>2. IInv /\ [Next]_vars => IInv'
  BY NextInvariant
<1>3. QED
  BY <1>1, <1>2, PTL DEF Spec

\* Every variable keeps its type, and a position in an archive is always one at
\* which an entry, or the end, is.
THEOREM TypeCorrect == Spec => []TypeOK
<1>1. IInv => TypeOK
  BY DEF IInv
<1>2. QED
  BY <1>1, Invariance, PTL

\* Parse_args, which reads the command line from left to right, returns what the
\* command line says as a whole, for any command line.
THEOREM OptionsCorrect == Spec => []OptionsRead
<1>1. IInv => OptionsRead
  BY DEF IInv, ParseInv
<1>2. QED
  BY <1>1, Invariance, PTL

LEMMA OrderFromInv == IInv => TakenInOrder
<1> SUFFICES ASSUME IInv PROVE TakenInOrder
  OBVIOUS
<1>1. /\ \A n, d, l : Taken(n, d, l) => /\ d \in DOMAIN options.directories
                                        /\ l \in DOMAIN options.libraries
      /\ \A n \in DOMAIN libraries : Taken(n, libraries[n][1], libraries[n][2])
      /\ Len(libraries) \in Nat /\ DOMAIN libraries = 1 .. Len(libraries)
  BY TakenTyped DEF IInv, TypeOK
<1>2. ASSUME NEW n \in DOMAIN libraries
      PROVE  /\ libraries[n][1] \in FirstDirectory(libraries[n][2])
             /\ \A m \in 1 .. n - 1 :
                  /\ libraries[m][2] # libraries[n][2]
                  /\ libraries[m][1] <= libraries[n][1]
                  /\ libraries[m][1] = libraries[n][1] => libraries[m][2] < libraries[n][2]
  <2>1. PICK d, l : d = libraries[n][1] /\ l = libraries[n][2] /\ Taken(n, d, l)
    BY <1>1
  <2>2. d \in FirstDirectory(l)
    BY <2>1 DEF IInv, FindInv
  <2>3. ASSUME NEW m \in 1 .. n - 1
        PROVE  /\ libraries[m][2] # l
               /\ libraries[m][1] <= d
               /\ libraries[m][1] = d => libraries[m][2] < l
    <3>1. m \in DOMAIN libraries /\ m < n
      BY <1>1
    <3>2. PICK c, k : c = libraries[m][1] /\ k = libraries[m][2] /\ Taken(m, c, k)
      BY <1>1, <3>1
    <3>3. k # l /\ (c < d \/ (c = d /\ k < l))
      BY <2>1, <3>1, <3>2 DEF IInv, FindInv
    <3>4. DOMAIN options.directories = 1 .. Len(options.directories)
      BY SequenceDomain DEF IInv, TypeOK, OptionTypes
    <3>5. c \in Int /\ d \in Int
      BY <1>1, <2>1, <3>2, <3>4
    <3>6. QED
      BY <3>2, <3>3, <3>5
  <2>4. QED
    BY <2>1, <2>2, <2>3
<1>3. phase \in {"objects", "archives", "done"} => \A l \in DOMAIN options.libraries : Found(l)
  BY DEF IInv, FindInv
<1>4. QED
  BY <1>2, <1>3 DEF TakenInOrder

\* A library comes from the first directory that has it, and m_rel_file holds in
\* the end every object file and every member, each once and in order.
THEOREM InputsCorrect == Spec => []InputsComplete
<1>1. ASSUME IInv PROVE InputsComplete
  <2>1. ASSUME phase = "done" PROVE MembersRead = Members
    <3>1. archive > Len(libraries)
      BY <1>1, <2>1 DEF IInv, InputsInv
    <3>2. Len(libraries) \in Nat /\ DOMAIN libraries = 1 .. Len(libraries) /\ archive \in Nat
      BY <1>1, TakenTyped DEF IInv, TypeOK, ReadTypes
    <3>3. \A p \in Members : p[1] \in DOMAIN libraries
      BY <1>1, MembersTyped DEF IInv, TypeOK, IsMember
    <3>4. \A p \in Members : IsRead(p)
      BY <3>1, <3>2, <3>3 DEF IsRead
    <3>5. QED
      BY <3>4 DEF MembersRead
  <2>2. TakenInOrder
    BY <1>1, OrderFromInv
  <2>3. QED
    BY <1>1, <2>1, <2>2 DEF IInv, InputsInv, InputsComplete, FileOf
<1>2. QED
  BY <1>1, Invariance, PTL

\* The linker refuses no command line and no file that is as it should be.
THEOREM ErrorsCorrect == Spec => []ErrorsAreReal
<1>1. IInv => ErrorsAreReal
  BY DEF IInv
<1>2. QED
  BY <1>1, Invariance, PTL
=============================================================================

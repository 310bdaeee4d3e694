------------------------ MODULE OutputHeadersProofs ------------------------
(***************************************************************************)
(* Who reads the output file finds in its headers what the passes made:    *)
(* HeadersRead of OutputLayout.  The program headers map every chunk to    *)
(* its bytes, and they are few: SegmentsMap and FewSegments.               *)
(*                                                                         *)
(* The headers are written in the end, from sizes and indices that         *)
(* Compute_section_headers set before the first round and from program     *)
(* headers that every round makes anew.  HeadersInv carries, from there to *)
(* the copy, that a size counts what it is the size of.                    *)
(***************************************************************************)
EXTENDS OutputLayoutProofs

\* The chunks that have a section header.
Numbered == InList \ Headers

\* The section indices are 1 .. Cardinality(Numbered), each once, and 0 for headers.
IndexInv ==
    phase \notin {"sort", "headers", "indices"} =>
        /\ shdrSize = ShdrEntry * (Cardinality(Numbered) + 1)
        /\ \A c \in Numbered : shndx[c] \in 1 .. Cardinality(Numbered)
        /\ \A c, d \in Numbered : shndx[c] = shndx[d] => c = d
        /\ \A c \in InList : c \in Headers => shndx[c] = 0

\* PHDR is dropped only if there is nothing to load, then and in all rounds.
PhdrInv ==
    /\ IsFiniteSet(segments)
    /\ phdrSize = PhdrEntry * Cardinality(segments)
    /\ Phdr \notin InList => Loaded = {} /\ segments = {}

\* Copy_chunks has written header c.
Copied(c) ==
    \/ phase = "copy" /\ \E i \in DOMAIN list : i < at /\ list[i] = c
    \/ phase = "done" /\ c \in InList

CopyInv ==
    /\ Copied(Ehdr) =>
         /\ eflags \in KeptFlags /\ Compatible(eflags)
         /\ ehdr.flags = GetEflags(eflags)
         /\ ehdr.phnum = Cardinality(segments) % (HalfMax + 1)
         /\ Phdr \in InList => ehdr.phoff = offset[Phdr]
         /\ ehdr.shoff = offset[Shdr]
         /\ ehdr.shnum = Half(Cardinality(Numbered) + 1)
    /\ Copied(Shdr) =>
         /\ Cardinality(Numbered) + 1 > HalfMax => table.null = Cardinality(Numbered) + 1
         /\ \A c \in Numbered : table.of[shndx[c]] = c
    /\ phase = "incompatible" => eflags \in KeptFlags /\ ~Compatible(eflags)

HeadersInv == IInv /\ IndexInv /\ PhdrInv /\ CopyInv

-----------------------------------------------------------------------------
(***************************************************************************)
(* Counting.                                                               *)
(***************************************************************************)
\* A sequence without repetitions is as long as its set of elements.
LEMMA ElementsCounted ==
    ASSUME NEW n \in Nat, NEW s, DOMAIN s = 1 .. n,
           \A i, j \in 1 .. n : i # j => s[i] # s[j],
           NEW S, S = {s[i] : i \in 1 .. n}
    PROVE  IsFiniteSet(S) /\ Cardinality(S) = n
<1>1. PICK f : f = [i \in 1 .. n |-> s[i]]
  OBVIOUS
<1>2. f \in [1 .. n -> S] /\ (\A y \in S : \E i \in 1 .. n : f[i] = y)
  BY <1>1
<1>3. \A i, j \in 1 .. n : f[i] = f[j] => i = j
  BY <1>1
<1>4. f \in Injection(1 .. n, S)
  BY <1>2, <1>3 DEF Injection, IsInjective
<1>5. f \in Bijection(1 .. n, S)
  BY <1>2, <1>4 DEF Bijection, Surjection
<1>6. ExistsBijection(1 .. n, S)
  BY <1>5 DEF ExistsBijection
<1>7. QED
  BY <1>6, FS_NatBijection, FS_CountingElements

LEMMA ExactQuotient ==
    ASSUME NEW e \in Nat \ {0}, NEW n \in Nat, NEW m, m = e * n
    PROVE  m \div e = n
<1>1. m = n * e /\ m \in Nat
  OBVIOUS
<1>2. n <= m \div e
  BY <1>1, QuotientAbove
<1>3. (n + 1) * e = n * e + e
  OBVIOUS
<1>4. m < (n + 1) * e
  BY <1>1, <1>3
<1>5. m \div e < n + 1
  BY <1>1, <1>4, QuotientBelow
<1>6. PICK q \in Int : q = m \div e
  BY <1>1, QuotientTyped
<1>7. QED
  BY <1>2, <1>5, <1>6

\* Select, of the list: the chunks of a set, each once.
LEMMA SelectedChunks ==
    ASSUME SectionTypes, LoopTypes, ListInv, NEW T \in SUBSET Ids,
           NEW s, s = Select(list, T)
    PROVE  /\ s \in Seq(Ids)
           /\ \A i, j \in DOMAIN s : i # j => s[i] # s[j]
           /\ \A i \in DOMAIN s : s[i] \in InList /\ s[i] \in T
           /\ \A c \in InList : c \in T => \E i \in DOMAIN s : s[i] = c
<1>1. PICK order \in Seq(Ids) : order = list
  BY DEF LoopTypes
<1>2. /\ s \in Seq(Ids \intersect T)
      /\ \E g \in [DOMAIN s -> DOMAIN list] :
           /\ \A n \in DOMAIN s : s[n] = list[g[n]]
           /\ \A m, n \in DOMAIN s : m < n => g[m] < g[n]
           /\ \A i \in DOMAIN list : list[i] \in T => \E n \in DOMAIN s : g[n] = i
  <2>1. s = Select(order, T)
    BY <1>1
  <2>2. QED
    BY <1>1, <2>1, SelectFacts
<1>3. PICK g \in [DOMAIN s -> DOMAIN list] :
           /\ \A n \in DOMAIN s : s[n] = list[g[n]]
           /\ \A m, n \in DOMAIN s : m < n => g[m] < g[n]
           /\ \A i \in DOMAIN list : list[i] \in T => \E n \in DOMAIN s : g[n] = i
  BY <1>2
<1>4. /\ \A i, j \in DOMAIN list : i # j => list[i] # list[j]
      /\ DOMAIN list = 1 .. Len(list) /\ Len(list) \in Nat
  BY ListFacts
<1>5. PICK k \in Nat : DOMAIN s = 1 .. k
  BY <1>2
<1>6. ASSUME NEW i \in DOMAIN s, NEW j \in DOMAIN s, i # j PROVE s[i] # s[j]
  <2>1. i < j \/ j < i
    BY <1>5, <1>6
  <2>2. g[i] < g[j] \/ g[j] < g[i]
    BY <1>3, <2>1
  <2>3. g[i] # g[j] /\ g[i] \in DOMAIN list /\ g[j] \in DOMAIN list
    BY <1>4, <2>2
  <2>4. QED
    BY <1>3, <1>4, <2>3
<1>7. \A i \in DOMAIN s : s[i] \in InList
  BY <1>3, ElementsListed
<1>8. ASSUME NEW c \in InList, c \in T PROVE \E i \in DOMAIN s : s[i] = c
  <2>1. PICK i \in DOMAIN list : list[i] = c
    BY <1>8, Positions
  <2>2. QED
    BY <1>3, <1>8, <2>1
<1>9. QED
  BY <1>2, <1>6, <1>7, <1>8

-----------------------------------------------------------------------------
(***************************************************************************)
(* The number of program headers.                                          *)
(***************************************************************************)
LEMMA SegmentsCounted ==
    ASSUME Addressed, phase # "addresses", UpdatePhdr
    PROVE  IsFiniteSet(segments') /\ phdrSize' = PhdrEntry * Cardinality(segments')
<1>1. PICK order \in Orders : segments' = Loads(order) \union TlsSegments
  BY DEF UpdatePhdr
<1>2. /\ order \in Seq(Ids)
      /\ \A i, j \in 1 .. Len(order) : i <= j => AddrOf(order[i]) <= AddrOf(order[j])
  BY OrdersTyped DEF Addressed
<1>3. IsFiniteSet(Loads(order))
  BY <1>2, LoadsTyped DEF Addressed
<1>4. IsFiniteSet(TlsSegments)
  BY TlsSegmentFacts
<1>5. QED
  BY <1>1, <1>3, <1>4, FS_Union DEF UpdatePhdr

LEMMA LoadsNone ==
    ASSUME NEW order, Len(order) = 0
    PROVE  Loads(order) = {}
<1>1. PICK f : f = CHOOSE g : g = [i \in 1 .. 0 |->
                  IF i > 1 /\ Joins(order[g[i-1]], order[i]) THEN g[i-1] ELSE i]
  OBVIOUS
<1> DEFINE ends == {j \in 1 .. 0 : j = 0 \/ f[j+1] # f[j]}
<1>2. Loads(order) = {Segment("load", PhdrFlags(order[j]), SubSeq(order, f[j], j)) : j \in ends}
  BY <1>1 DEF Loads
<1>3. ends = {}
  OBVIOUS
<1>4. QED
  BY <1>2, <1>3

LEMMA LoadsSome ==
    ASSUME NEW order, NEW n \in Nat \ {0}, n = Len(order)
    PROVE  Loads(order) # {}
<1>1. PICK f : f = CHOOSE g : g = [i \in 1 .. n |->
                  IF i > 1 /\ Joins(order[g[i-1]], order[i]) THEN g[i-1] ELSE i]
  OBVIOUS
<1> DEFINE ends == {j \in 1 .. n : j = n \/ f[j+1] # f[j]}
<1>2. Loads(order) = {Segment("load", PhdrFlags(order[j]), SubSeq(order, f[j], j)) : j \in ends}
  BY <1>1 DEF Loads
<1>3. n \in ends
  OBVIOUS
<1>4. QED
  BY <1>2, <1>3

\* There are program headers if and only if there is something to load.
LEMMA SegmentsOfLoaded ==
    ASSUME Addressed, phase # "addresses", UpdatePhdr
    PROVE  segments' = {} <=> Loaded = {}
<1>1. SectionTypes /\ LoopTypes /\ ListInv
  BY DEF Addressed
<1>2. PICK order \in Orders : segments' = Loads(order) \union TlsSegments
  BY DEF UpdatePhdr
<1>3. PICK chunks : chunks = Loadable
  OBVIOUS
<1>4. PICK T \in SUBSET Ids : T = {c \in Ids : Alloc(c)}
  OBVIOUS
<1>5. /\ chunks \in Seq(Ids)
      /\ \A i \in DOMAIN chunks : chunks[i] \in InList /\ chunks[i] \in T
      /\ \A c \in InList : c \in T => \E i \in DOMAIN chunks : chunks[i] = c
  <2>1. chunks = Select(list, T)
    BY <1>3, <1>4 DEF Loadable
  <2>2. QED
    BY <1>1, <2>1, SelectedChunks
<1>6. PICK n \in Nat : n = Len(chunks) /\ DOMAIN chunks = 1 .. n
  BY <1>5
<1>7. InList \in SUBSET Ids
  <2>1. \A i \in DOMAIN list : list[i] \in Ids
    BY <1>1, ListFacts
  <2>2. QED
    BY <1>1, <2>1, Positions
<1>8. Loaded = {} <=> n = 0
  <2>1. ASSUME n = 0 PROVE Loaded = {}
    <3>1. \A c \in InList : c \notin T
      BY <1>5, <1>6, <2>1
    <3>2. QED
      BY <1>4, <1>7, <3>1 DEF Loaded
  <2>2. ASSUME n # 0 PROVE Loaded # {}
    <3>1. 1 \in DOMAIN chunks
      BY <1>6, <2>2
    <3>2. chunks[1] \in InList /\ Alloc(chunks[1])
      BY <1>4, <1>5, <3>1
    <3>3. QED
      BY <3>2 DEF Loaded
  <2>3. QED
    BY <2>1, <2>2
<1>9. Len(order) = n
  <2>1. PICK p \in [1 .. n -> 1 .. n] : order = [i \in 1 .. n |-> chunks[p[i]]]
    BY <1>3, <1>6 DEF Orders
  <2>2. QED
    BY <2>1
<1>10. ASSUME n = 0 PROVE segments' = {}
  <2>1. Loads(order) = {}
    BY <1>9, <1>10, LoadsNone
  <2>2. ASSUME NEW s \in TlsSegments PROVE FALSE
    <3>1. PICK a \in DOMAIN list, b \in DOMAIN list :
             a <= b /\ \A i \in a .. b : Tls(list[i])
      BY TlsSegmentFacts
    <3>2. a \in a .. b /\ list[a] \in Ids
      BY <1>1, <3>1, ListFacts
    <3>3. Tls(list[a])
      BY <3>1, <3>2
    <3>4. Alloc(list[a]) /\ list[a] \in InList
      BY <1>1, <3>2, <3>3, ChunkTypes, ElementsListed
    <3>5. QED
      BY <1>8, <1>10, <3>4 DEF Loaded
  <2>3. QED
    BY <1>2, <2>1, <2>2
<1>11. ASSUME n # 0 PROVE segments' # {}
  <2>1. Loads(order) # {}
    BY <1>9, <1>11, LoadsSome
  <2>2. QED
    BY <1>2, <2>1
<1>12. QED
  BY <1>8, <1>10, <1>11

-----------------------------------------------------------------------------
(***************************************************************************)
(* The passes before the first round.                                      *)
(***************************************************************************)
\* What IndexInv and PhdrInv speak of depends on these variables only.
LEMMA Unmoved ==
    ASSUME section' = section, list' = list
    PROVE  InList' = InList /\ Loaded' = Loaded /\ Numbered' = Numbered
BY DEF InList, Loaded, Numbered, Alloc, FlagsOf, Headers, Ehdr, Phdr, Shdr

LEMMA NothingCopied ==
    ASSUME phase \notin {"copy", "done", "incompatible"}
    PROVE  CopyInv
BY DEF CopyInv, Copied

LEMMA NothingIndexed ==
    ASSUME phase \in {"sort", "headers", "indices"}
    PROVE  IndexInv
BY DEF IndexInv

LEMMA InitHeaders == Init => IndexInv /\ PhdrInv /\ CopyInv
<1> SUFFICES ASSUME Init PROVE IndexInv /\ PhdrInv /\ CopyInv
  OBVIOUS
<1>1. phase = "sort" /\ segments = {} /\ phdrSize = 0 /\ list = <<>>
  BY DEF Init
<1>2. IsFiniteSet({}) /\ Cardinality({}) = 0
  BY FS_EmptySet
<1>3. InList = {} /\ Loaded = {}
  BY <1>1 DEF InList, Loaded
<1>4. PhdrEntry * 0 = 0
  BY Constants
<1>5. QED
  BY <1>1, <1>2, <1>3, <1>4, NothingCopied, NothingIndexed DEF PhdrInv

LEMMA SortHeaders == HeadersInv /\ SortOutputSections => IndexInv' /\ PhdrInv' /\ CopyInv'
<1> SUFFICES ASSUME HeadersInv, SortOutputSections PROVE IndexInv' /\ PhdrInv' /\ CopyInv'
  OBVIOUS
<1>1. /\ SectionTypes /\ PhdrInv
      /\ phase' = "headers" /\ segments' = segments /\ phdrSize' = phdrSize
      /\ list' = Sorted(DOMAIN section \union Headers)
  BY DEF HeadersInv, IInv, TypeOK, SortOutputSections
<1>2. PICK S \in SUBSET Ids : S = DOMAIN section \union Headers /\ Phdr \in S
  <2>1. DOMAIN section \subseteq Ids
    BY <1>1, Constants DEF SectionTypes
  <2>2. Headers \subseteq Ids /\ Phdr \in Headers
    BY Constants
  <2>3. QED
    BY <2>1, <2>2
<1>3. Sorted(S) \in Seq(S) /\ \E i \in DOMAIN Sorted(S) : Sorted(S)[i] = Phdr
  BY <1>1, <1>2, SortedFacts
<1>4. Phdr \in InList'
  <2>1. PICK s \in Seq(S) : s = list' /\ \E i \in DOMAIN s : s[i] = Phdr
    BY <1>1, <1>2, <1>3
  <2>2. DOMAIN s = 1 .. Len(s)
    OBVIOUS
  <2>3. InList' = {s[i] : i \in 1 .. Len(s)}
    BY <2>1 DEF InList
  <2>4. QED
    BY <2>1, <2>2, <2>3
<1>5. Phdr' = Phdr
  BY DEF Phdr
<1>6. PhdrInv'
  BY <1>1, <1>4, <1>5 DEF PhdrInv
<1>7. IndexInv' /\ CopyInv'
  BY <1>1 DEF IndexInv, CopyInv, Copied
<1>8. QED
  BY <1>6, <1>7

LEMMA RemoveHeaders == HeadersInv /\ RemoveEmptyChunks => IndexInv' /\ PhdrInv' /\ CopyInv'
<1> SUFFICES ASSUME HeadersInv, RemoveEmptyChunks PROVE IndexInv' /\ PhdrInv' /\ CopyInv'
  OBVIOUS
<1> DEFINE kept(c) == \/ c \in DOMAIN section /\ section[c].osec
                      \/ (IF c = Phdr THEN phdrSize' ELSE SizeOf(c)) # 0
<1>1. /\ SectionTypes /\ LoopTypes /\ ListInv /\ Addressed /\ PhdrInv
      /\ phase = "headers" /\ phase' = "indices" /\ section' = section /\ UpdatePhdr
      /\ list' = Select(list, {c \in Ids : kept(c)})
  BY DEF HeadersInv, IInv, TypeOK, Addressed, RemoveEmptyChunks
<1>2. PICK K \in SUBSET Ids : K = {c \in Ids : kept(c)}
  OBVIOUS
<1>3. Phdr \in Ids /\ (phdrSize' # 0 => Phdr \in K)
  BY <1>2, Constants
<1> HIDE DEF kept
<1>4. PICK s \in Seq(Ids) :
         /\ s = list'
         /\ \A i \in DOMAIN s : s[i] \in InList
         /\ \A c \in InList : c \in K => \E i \in DOMAIN s : s[i] = c
  <2>1. PICK s : s = list' /\ s = Select(list, K)
    BY <1>1, <1>2
  <2>2. /\ s \in Seq(Ids)
        /\ \A i \in DOMAIN s : s[i] \in InList
        /\ \A c \in InList : c \in K => \E i \in DOMAIN s : s[i] = c
    <3>1. SectionTypes /\ LoopTypes /\ ListInv
      BY <1>1
    <3>2. s = Select(list, K)
      BY <2>1
    <3>3. QED
      BY <3>1, <3>2, SelectedChunks
  <2>3. QED
    BY <2>1, <2>2
<1>5. InList' = {s[i] : i \in DOMAIN s}
  <2>1. DOMAIN s = 1 .. Len(s)
    OBVIOUS
  <2>2. QED
    BY <1>4, <2>1 DEF InList
<1>6. Loaded' \subseteq Loaded
  BY <1>1, <1>4, <1>5 DEF Loaded, Alloc, FlagsOf
<1>7. /\ IsFiniteSet(segments') /\ phdrSize' = PhdrEntry * Cardinality(segments')
      /\ segments' = {} <=> Loaded = {}
  BY <1>1, SegmentsCounted, SegmentsOfLoaded
<1>8. ASSUME Phdr \notin InList' PROVE Loaded' = {} /\ segments' = {}
  <2>1. CASE Phdr \notin InList
    BY <1>1, <1>6, <1>7, <2>1 DEF PhdrInv
  <2>2. CASE Phdr \in InList
    <3>1. phdrSize' = 0
      BY <1>3, <1>4, <1>5, <1>8, <2>2
    <3>2. PICK n \in Nat, e \in Nat \ {0} : n = Cardinality(segments') /\ e = PhdrEntry
      BY <1>7, FS_CardinalityType, Constants
    <3>3. n = 0
      BY <1>7, <3>1, <3>2
    <3>4. segments' = {}
      BY <1>7, <3>2, <3>3, FS_EmptySet
    <3>5. QED
      BY <1>6, <1>7, <3>4
  <2>3. QED
    BY <2>1, <2>2
<1>9. PhdrInv'
  BY <1>7, <1>8 DEF PhdrInv, Phdr
<1>10. QED
  BY <1>1, <1>9 DEF IndexInv, CopyInv, Copied

\* The indices are given to the chunks that have a section header, one by one.
LEMMA Indexed ==
    ASSUME SectionTypes, LoopTypes, ListInv, phase = "indices", SetSectionIndices
    PROVE  /\ IndexInv'
           /\ InList' = InList \/ InList' = InList \union {SymtabShndx}
<1>1. PICK order \in Seq(Ids), k \in Nat :
         order = list /\ k = Len(order) /\ DOMAIN order = 1 .. k
  <2>1. PICK order \in Seq(Ids) : order = list
    BY DEF LoopTypes
  <2>2. Len(order) \in Nat /\ DOMAIN order = 1 .. Len(order)
    OBVIOUS
  <2>3. QED
    BY <2>1, <2>2
<1>2. PICK T \in SUBSET Ids : T = Ids \ Headers
  OBVIOUS
<1>3. PICK named \in Seq(Ids) :
         /\ named = Select(list, T)
         /\ \A i, j \in DOMAIN named : i # j => named[i] # named[j]
         /\ \A i \in DOMAIN named : named[i] \in InList /\ named[i] \in T
         /\ \A c \in InList : c \in T => \E i \in DOMAIN named : named[i] = c
  BY SelectedChunks
<1>4. PICK more \in {<<>>, <<SymtabShndx>>} :
         more = IF Len(named) + 1 >= Reserve THEN <<SymtabShndx>> ELSE <<>>
  OBVIOUS
<1>5. PICK all : all = named \o more
  OBVIOUS
<1>6. /\ list' = order \o more
      /\ shdrSize' = ShdrEntry * (Len(all) + 1)
      /\ shndx' = [c \in Ids |-> IF \E i \in 1 .. Len(all) : all[i] = c
                                 THEN CHOOSE i \in 1 .. Len(all) : all[i] = c
                                 ELSE 0]
      /\ phase' = "addresses"
  BY <1>1, <1>2, <1>3, <1>4, <1>5 DEF SetSectionIndices
<1>7. /\ SymtabShndx \in Ids /\ SymtabShndx \in T /\ SymtabShndx \notin InList
      /\ Headers \subseteq Ids /\ T \intersect Headers = {}
  BY <1>2, Constants DEF ListInv
<1>8. PICK n \in Nat : /\ n = Len(all) /\ DOMAIN all = 1 .. n
                       /\ \A i \in 1 .. n : all[i] \in Ids
                       /\ \A i, j \in 1 .. n : i # j => all[i] # all[j]
                       /\ {all[i] : i \in 1 .. n} = Numbered'
                       /\ InList' = InList \/ InList' = InList \union {SymtabShndx}
  <2>1. PICK m \in Nat : m = Len(named) /\ DOMAIN named = 1 .. m
    OBVIOUS
  <2>2. InList = {order[i] : i \in 1 .. k} /\ InList \subseteq Ids
    BY <1>1 DEF InList
  <2>3. {named[i] : i \in 1 .. m} = InList \ Headers
    <3>1. \A c : c \in InList \ Headers <=> c \in InList /\ c \in T
      BY <1>2, <2>2
    <3>2. \A i \in 1 .. m : named[i] \in InList /\ named[i] \in T
      BY <1>3, <2>1
    <3>3. \A c \in InList : c \in T => \E i \in 1 .. m : named[i] = c
      BY <1>3, <2>1
    <3>4. QED
      BY <3>1, <3>2, <3>3
  <2>4. CASE more = <<>>
    <3>1. all = named /\ list' = order
      BY <1>5, <1>6, <2>4
    <3>2. InList' = InList /\ Numbered' = InList \ Headers
      BY <1>1, <3>1 DEF InList, Numbered, Headers, Ehdr, Phdr, Shdr
    <3>3. /\ m = Len(all) /\ DOMAIN all = 1 .. m
          /\ \A i \in 1 .. m : all[i] \in Ids
          /\ \A i, j \in 1 .. m : i # j => all[i] # all[j]
          /\ {all[i] : i \in 1 .. m} = Numbered'
          /\ InList' = InList \/ InList' = InList \union {SymtabShndx}
      <4>1. m = Len(all) /\ DOMAIN all = 1 .. m
        BY <2>1, <3>1
      <4>2. \A i \in 1 .. m : all[i] \in Ids
        BY <1>3, <2>1, <3>1
      <4>3. \A i, j \in 1 .. m : i # j => all[i] # all[j]
        BY <1>3, <2>1, <3>1
      <4>4. {all[i] : i \in 1 .. m} = Numbered'
        BY <2>3, <3>1, <3>2
      <4>5. QED
        BY <3>2, <4>1, <4>2, <4>3, <4>4
    <3>4. QED
      BY <3>3, Zenon
  <2>5. CASE more = <<SymtabShndx>>
    <3>1. all = Append(named, SymtabShndx) /\ list' = Append(order, SymtabShndx)
      BY <1>5, <1>6, <2>5
    <3>2. InList' = InList \union {SymtabShndx}
      <4>1. PICK s : s = Append(order, SymtabShndx)
        OBVIOUS
      <4>2. /\ Len(s) = k + 1 /\ s[k + 1] = SymtabShndx
            /\ \A i \in 1 .. k : s[i] = order[i]
        BY <1>1, <1>7, <4>1
      <4>3. InList' = {s[i] : i \in 1 .. k + 1}
        BY <3>1, <4>1, <4>2 DEF InList
      <4>4. 1 .. k + 1 = (1 .. k) \union {k + 1}
        OBVIOUS
      <4>5. QED
        BY <2>2, <4>2, <4>3, <4>4
    <3>3. Numbered' = (InList \ Headers) \union {SymtabShndx}
      <4>1. Numbered' = InList' \ Headers
        BY DEF Numbered, Headers, Ehdr, Phdr, Shdr
      <4>2. QED
        BY <1>7, <3>2, <4>1
    <3>4. /\ Len(all) = m + 1 /\ DOMAIN all = 1 .. m + 1 /\ all[m + 1] = SymtabShndx
          /\ \A i \in 1 .. m : all[i] = named[i]
      BY <1>7, <2>1, <3>1
    <3>5. \A i \in 1 .. m + 1 : i \in 1 .. m \/ i = m + 1
      OBVIOUS
    <3>6. \A i \in 1 .. m : named[i] \in Ids /\ named[i] # SymtabShndx
      BY <1>3, <1>7, <2>1
    <3>7. \A i, j \in 1 .. m + 1 : i # j => all[i] # all[j]
      BY <1>3, <2>1, <3>4, <3>5, <3>6
    <3>8. {all[i] : i \in 1 .. m + 1} = Numbered'
      <4>1. 1 .. m + 1 = (1 .. m) \union {m + 1}
        OBVIOUS
      <4>2. QED
        BY <2>3, <3>3, <3>4, <4>1
    <3>9. \A i \in 1 .. m + 1 : all[i] \in Ids
      BY <1>7, <3>4, <3>5, <3>6
    <3>10. PICK n \in Nat : n = m + 1
      OBVIOUS
    <3>11. /\ n = Len(all) /\ DOMAIN all = 1 .. n
           /\ \A i \in 1 .. n : all[i] \in Ids
           /\ \A i, j \in 1 .. n : i # j => all[i] # all[j]
           /\ {all[i] : i \in 1 .. n} = Numbered'
           /\ InList' = InList \/ InList' = InList \union {SymtabShndx}
      BY <3>2, <3>4, <3>7, <3>8, <3>9, <3>10
    <3>12. QED
      BY <3>11, Zenon
  <2>6. QED
    BY <2>4, <2>5
<1>9. Cardinality(Numbered') = n
  BY <1>8, ElementsCounted
<1>10. shdrSize' = ShdrEntry * (Cardinality(Numbered') + 1)
  BY <1>6, <1>8, <1>9
<1>11. \A c \in Ids : shndx'[c] = IF \E i \in 1 .. n : all[i] = c
                                  THEN CHOOSE i \in 1 .. n : all[i] = c ELSE 0
  BY <1>6, <1>8
<1>12. \A c \in Numbered' : shndx'[c] \in 1 .. n /\ all[shndx'[c]] = c
  <2> TAKE c \in Numbered'
  <2>1. c \in Ids /\ \E i \in 1 .. n : all[i] = c
    BY <1>8
  <2>2. shndx'[c] = CHOOSE i \in 1 .. n : all[i] = c
    BY <1>11, <2>1
  <2>3. QED
    BY <2>1, <2>2
<1>13. \A c \in Headers : shndx'[c] = 0
  <2>1. Numbered' \intersect Headers = {}
    BY DEF Numbered, Headers, Ehdr, Phdr, Shdr
  <2>2. \A i \in 1 .. n : all[i] \in Numbered'
    BY <1>8
  <2>3. \A i \in 1 .. n : all[i] \notin Headers
    BY <2>1, <2>2
  <2> TAKE c \in Headers
  <2>4. c \in Ids /\ ~\E i \in 1 .. n : all[i] = c
    BY <1>7, <2>3
  <2>5. QED
    BY <1>11, <2>4
<1>14. Headers' = Headers
  BY DEF Headers, Ehdr, Phdr, Shdr
<1>15. IndexInv'
  BY <1>9, <1>10, <1>12, <1>13, <1>14 DEF IndexInv
<1>16. QED
  BY <1>8, <1>15

LEMMA IndicesHeaders == HeadersInv /\ SetSectionIndices => IndexInv' /\ PhdrInv' /\ CopyInv'
<1> SUFFICES ASSUME HeadersInv, SetSectionIndices PROVE IndexInv' /\ PhdrInv' /\ CopyInv'
  OBVIOUS
<1>1. /\ SectionTypes /\ LoopTypes /\ ListInv /\ Addressed /\ PhdrInv
      /\ phase = "indices" /\ phase' = "addresses" /\ section' = section /\ UpdatePhdr
  BY DEF HeadersInv, IInv, TypeOK, Addressed, SetSectionIndices
<1>2. IndexInv' /\ (InList' = InList \/ InList' = InList \union {SymtabShndx})
  BY <1>1, Indexed
<1>3. ~Alloc(SymtabShndx) /\ Phdr' = Phdr
  BY <1>1, Constants, ChunkTypes DEF Phdr
<1>4. Loaded' = Loaded
  BY <1>1, <1>2, <1>3 DEF Loaded, Alloc, FlagsOf
<1>5. /\ IsFiniteSet(segments') /\ phdrSize' = PhdrEntry * Cardinality(segments')
      /\ segments' = {} <=> Loaded = {}
  BY <1>1, SegmentsCounted, SegmentsOfLoaded
<1>6. PhdrInv'
  BY <1>1, <1>2, <1>3, <1>4, <1>5 DEF PhdrInv
<1>7. QED
  BY <1>1, <1>2, <1>6 DEF CopyInv, Copied

-----------------------------------------------------------------------------
(***************************************************************************)
(* The rounds.                                                             *)
(***************************************************************************)
\* The rounds change neither the list nor the indices.
LEMMA IndexStays ==
    ASSUME IndexInv, section' = section, list' = list, shndx' = shndx, shdrSize' = shdrSize,
           phase \notin {"sort", "headers", "indices"}
    PROVE  IndexInv'
<1>1. InList' = InList /\ Numbered' = Numbered
  BY Unmoved
<1>2. Headers' = Headers
  BY DEF Headers, Ehdr, Phdr, Shdr
<1>3. QED
  BY <1>1, <1>2 DEF IndexInv

LEMMA PhdrStays ==
    ASSUME PhdrInv, section' = section, list' = list, segments' = segments, phdrSize' = phdrSize
    PROVE  PhdrInv'
<1>1. InList' = InList /\ Loaded' = Loaded /\ Phdr' = Phdr
  BY Unmoved DEF Phdr
<1>2. QED
  BY <1>1 DEF PhdrInv

LEMMA PlaceHeaders ==
    ASSUME HeadersInv,
           SetVirtualAddress \/ SetUnloadedOffset \/ SetFirstOffset \/ SetNextOffset
    PROVE  IndexInv' /\ PhdrInv' /\ CopyInv'
<1>1. /\ section' = section /\ list' = list /\ shndx' = shndx /\ shdrSize' = shdrSize
      /\ segments' = segments /\ phdrSize' = phdrSize
      /\ phase \in {"addresses", "offsets"}
      /\ phase' \in {"addresses", "offsets", "program headers"}
  BY DEF SetVirtualAddress, SetUnloadedOffset, SetFirstOffset, SetNextOffset, SetFileOffset,
     NextChunk
<1>2. IndexInv /\ PhdrInv
  BY DEF HeadersInv
<1>3. CopyInv'
  BY <1>1 DEF CopyInv, Copied
<1>4. QED
  BY <1>1, <1>2, <1>3, IndexStays, PhdrStays

LEMMA RepeatHeaders == HeadersInv /\ Repeat => IndexInv' /\ PhdrInv' /\ CopyInv'
<1> SUFFICES ASSUME HeadersInv, Repeat PROVE IndexInv' /\ PhdrInv' /\ CopyInv'
  OBVIOUS
<1>1. /\ section' = section /\ list' = list /\ shndx' = shndx /\ shdrSize' = shdrSize
      /\ phase = "program headers" /\ phase' \in {"symbols", "addresses"} /\ UpdatePhdr
  BY DEF Repeat, Converged
<1>2. IndexInv /\ PhdrInv /\ Addressed
  BY DEF HeadersInv, IInv, TypeOK, Addressed
<1>3. /\ IsFiniteSet(segments') /\ phdrSize' = PhdrEntry * Cardinality(segments')
      /\ segments' = {} <=> Loaded = {}
  BY <1>1, <1>2, SegmentsCounted, SegmentsOfLoaded
<1>4. InList' = InList /\ Loaded' = Loaded /\ Phdr' = Phdr
  BY <1>1, Unmoved DEF Phdr
<1>5. PhdrInv'
  BY <1>2, <1>3, <1>4 DEF PhdrInv
<1>6. IndexInv'
  BY <1>1, <1>2, IndexStays
<1>7. CopyInv'
  BY <1>1 DEF CopyInv, Copied
<1>8. QED
  BY <1>5, <1>6, <1>7

LEMMA SymbolsHeaders ==
    HeadersInv /\ (FixUpCrashes \/ FixUpSyntheticSymbols) => IndexInv' /\ PhdrInv' /\ CopyInv'
<1> SUFFICES ASSUME HeadersInv, FixUpCrashes \/ FixUpSyntheticSymbols
             PROVE  IndexInv' /\ PhdrInv' /\ CopyInv'
  OBVIOUS
<1>1. /\ section' = section /\ list' = list /\ shndx' = shndx /\ shdrSize' = shdrSize
      /\ segments' = segments /\ phdrSize' = phdrSize /\ at' = at
      /\ phase = "symbols" /\ phase' \in {"null symbol", "copy"}
  BY DEF FixUpCrashes, FixUpSyntheticSymbols
<1>2. IndexInv /\ PhdrInv /\ ListInv /\ SectionTypes /\ LoopTypes
  BY DEF HeadersInv, IInv, TypeOK
<1>3. DOMAIN list = 1 .. Len(list) /\ Len(list) \in Nat
  BY <1>2, ListFacts
<1>4. at' = 1
  BY <1>1, <1>2 DEF ListInv
<1>5. \A i \in DOMAIN list' : ~(i < at')
  <2>1. PICK n \in Nat : DOMAIN list' = 1 .. n
    BY <1>1, <1>3
  <2>2. \A i \in 1 .. n : ~(i < 1)
    OBVIOUS
  <2>3. QED
    BY <1>4, <2>1, <2>2
<1>6. CopyInv'
  BY <1>1, <1>5 DEF CopyInv, Copied
<1>7. QED
  BY <1>1, <1>2, <1>6, IndexStays, PhdrStays

-----------------------------------------------------------------------------
(***************************************************************************)
(* Copy_chunks.                                                            *)
(***************************************************************************)
LEMMA CopiedNext ==
    ASSUME SectionTypes, LoopTypes, ListInv, phase = "copy", list' = list, NextChunk("done"),
           NEW c, Copied(c)'
    PROVE  Copied(c) \/ list[at] = c
<1>1. /\ Len(list) \in Nat /\ DOMAIN list = 1 .. Len(list) /\ at \in DOMAIN list
  BY Advanced
<1>2. CASE at = Len(list)
  <2>1. phase' = "done"
    BY <1>2 DEF NextChunk
  <2>2. c \in InList
    BY <2>1 DEF Copied, InList
  <2>3. PICK i \in DOMAIN list : list[i] = c
    BY <1>1, <2>2 DEF InList
  <2>4. i < at \/ i = at
    BY <1>1, <1>2
  <2>5. QED
    BY <2>3, <2>4 DEF Copied
<1>3. CASE at # Len(list)
  <2>1. phase' = "copy" /\ at' = at + 1
    BY <1>3 DEF NextChunk
  <2>2. PICK i \in DOMAIN list : i < at + 1 /\ list[i] = c
    BY <2>1 DEF Copied
  <2>3. i < at \/ i = at
    BY <1>1, <2>2
  <2>4. QED
    BY <2>2, <2>3 DEF Copied
<1>4. QED
  BY <1>2, <1>3

\* What the sizes say when the headers are copied.
LEMMA SizesCount ==
    ASSUME HeadersInv, phase \in {"copy", "done"}
    PROVE  /\ Cardinality(Numbered) \in Nat /\ Cardinality(segments) \in Nat
           /\ shdrSize \div ShdrEntry = Cardinality(Numbered) + 1
           /\ phdrSize \div PhdrEntry = Cardinality(segments)
<1>1. SectionTypes /\ LoopTypes /\ ListInv /\ IndexInv /\ PhdrInv
  BY DEF HeadersInv, IInv, TypeOK
<1>2. Cardinality(segments) \in Nat
  BY <1>1, FS_CardinalityType DEF PhdrInv
<1>3. Cardinality(Numbered) \in Nat
  <2>1. IsFiniteSet(InList)
    <3>1. DOMAIN list = 1 .. Len(list) /\ Len(list) \in Nat
          /\ \A i, j \in DOMAIN list : i # j => list[i] # list[j]
      BY <1>1, ListFacts
    <3>2. QED
      BY <3>1, ElementsCounted DEF InList
  <2>2. IsFiniteSet(Numbered)
    BY <2>1, FS_Subset DEF Numbered
  <2>3. QED
    BY <2>2, FS_CardinalityType
<1>4. /\ shdrSize = ShdrEntry * (Cardinality(Numbered) + 1)
      /\ phdrSize = PhdrEntry * Cardinality(segments)
  BY <1>1 DEF IndexInv, PhdrInv
<1>5. ShdrEntry \in Nat \ {0} /\ PhdrEntry \in Nat \ {0} /\ Cardinality(Numbered) + 1 \in Nat
  BY <1>3, Constants
<1>6. QED
  BY <1>2, <1>3, <1>4, <1>5, ExactQuotient

LEMMA CopyEhdrHeaders == HeadersInv /\ CopyEhdr => CopyInv'
<1> SUFFICES ASSUME HeadersInv, CopyEhdr PROVE CopyInv'
  OBVIOUS
<1>1. /\ SectionTypes /\ LoopTypes /\ ListInv /\ OffsetInv /\ CopyInv
  BY DEF HeadersInv, IInv, TypeOK
<1>2. /\ section' = section /\ list' = list /\ shndx' = shndx /\ segments' = segments
      /\ offset' = offset /\ table' = table
      /\ phase = "copy" /\ list[at] = Ehdr /\ NextChunk("done")
      /\ eflags' \in KeptFlags /\ Compatible(eflags')
  BY DEF CopyEhdr, Copying, layoutVars
<1>3. /\ ehdr'.flags = GetEflags(eflags')
      /\ ehdr'.phoff = (IF offset[Phdr] = Unplaced THEN 0 ELSE offset[Phdr])
      /\ ehdr'.phnum = (phdrSize \div PhdrEntry) % (HalfMax + 1)
      /\ ehdr'.shoff = offset[Shdr]
      /\ ehdr'.shnum = Half(shdrSize \div ShdrEntry)
  BY DEF CopyEhdr
<1>4. /\ shdrSize \div ShdrEntry = Cardinality(Numbered) + 1
      /\ phdrSize \div PhdrEntry = Cardinality(segments)
  BY <1>2, SizesCount
<1>5. ASSUME Phdr \in InList PROVE offset[Phdr] # Unplaced
  <2>1. PICK i \in DOMAIN list : list[i] = Phdr
    BY <1>1, <1>5, Positions
  <2>2. Written(i)
    BY <1>2 DEF Written
  <2>3. QED
    BY <1>1, <2>1, <2>2 DEF OffsetInv
<1>6. InList' = InList /\ Numbered' = Numbered
  BY <1>2, Unmoved
<1>7. /\ ehdr'.phnum = Cardinality(segments') % (HalfMax + 1)
      /\ Phdr \in InList' => ehdr'.phoff = offset'[Phdr]
      /\ ehdr'.shoff = offset'[Shdr]
      /\ ehdr'.shnum = Half(Cardinality(Numbered') + 1)
  BY <1>2, <1>3, <1>4, <1>5, <1>6
<1>8. phase' \in {"copy", "done"}
  BY <1>2 DEF NextChunk
<1>9. Copied(Shdr)' => Copied(Shdr)
  <2>1. PICK c : c = Shdr /\ c # list[at]
    BY <1>2, Constants
  <2>2. Copied(c)' => Copied(c)
    BY <1>1, <1>2, <2>1, CopiedNext
  <2>3. Copied(Shdr)' <=> Copied(c)'
    BY <2>1 DEF Copied, Shdr
  <2>4. QED
    BY <2>1, <2>2, <2>3
<1>10. Copied(Shdr)' =>
         /\ Cardinality(Numbered') + 1 > HalfMax => table'.null = Cardinality(Numbered') + 1
         /\ \A c \in Numbered' : table'.of[shndx'[c]] = c
  BY <1>1, <1>2, <1>6, <1>9 DEF CopyInv
<1>11. QED
  BY <1>2, <1>3, <1>7, <1>8, <1>10 DEF CopyInv, Half, GetEflags, Compatible, Phdr, Shdr

LEMMA CopyShdrHeaders == HeadersInv /\ CopyShdr => CopyInv'
<1> SUFFICES ASSUME HeadersInv, CopyShdr PROVE CopyInv'
  OBVIOUS
<1>1. /\ SectionTypes /\ LoopTypes /\ ListInv /\ IndexInv /\ CopyInv
  BY DEF HeadersInv, IInv, TypeOK
<1>2. /\ section' = section /\ list' = list /\ shndx' = shndx /\ segments' = segments
      /\ offset' = offset /\ eflags' = eflags /\ ehdr' = ehdr
      /\ phase = "copy" /\ list[at] = Shdr /\ NextChunk("done")
  BY DEF CopyShdr, Copying, layoutVars
<1>3. PICK n \in Nat : n = Cardinality(Numbered) /\ shdrSize \div ShdrEntry = n + 1
  BY <1>2, SizesCount
<1> DEFINE having(i) == {j \in DOMAIN list : shndx[list[j]] = i}
<1>4. PICK header : header = [i \in 1 .. (shdrSize \div ShdrEntry) - 1 |->
                      IF having(i) = {} THEN 0
                      ELSE list[CHOOSE j \in having(i) : \A l \in having(i) : l <= j]]
  OBVIOUS
<1>5. table' = [null |-> IF shdrSize \div ShdrEntry > HalfMax THEN shdrSize \div ShdrEntry ELSE 0,
                of |-> header]
  BY <1>4 DEF CopyShdr
<1>6. table'.of = header /\ (n + 1 > HalfMax => table'.null = n + 1)
  BY <1>3, <1>5
<1>7. (shdrSize \div ShdrEntry) - 1 = n
  BY <1>3
<1>8. ASSUME NEW c \in Numbered PROVE header[shndx[c]] = c
  <2>1. PICK i \in 1 .. n : i = shndx[c]
    BY <1>1, <1>2, <1>3 DEF IndexInv
  <2>2. PICK j \in DOMAIN list : list[j] = c
    BY <1>1, Positions DEF Numbered
  <2>3. \A k \in DOMAIN list : shndx[list[k]] = i => list[k] = c
    <3> TAKE k \in DOMAIN list
    <3> HAVE shndx[list[k]] = i
    <3>1. list[k] \in InList
      BY <1>1, ElementsListed
    <3>2. list[k] \notin Headers
      BY <1>1, <1>2, <2>1, <3>1 DEF IndexInv
    <3>3. QED
      BY <1>1, <1>2, <2>1, <3>1, <3>2 DEF IndexInv, Numbered
  <2>4. /\ DOMAIN list = 1 .. Len(list) /\ Len(list) \in Nat
        /\ \A k, l \in DOMAIN list : k # l => list[k] # list[l]
    BY <1>1, ListFacts
  <2>5. having(i) = {j}
    BY <2>1, <2>2, <2>3, <2>4
  <2>6. (CHOOSE k \in {j} : \A l \in {j} : l <= k) = j
    BY <2>4
  <2> HIDE DEF having
  <2>7. header[i] = list[j]
    <3>1. header[i] = IF having(i) = {} THEN 0
                      ELSE list[CHOOSE k \in having(i) : \A l \in having(i) : l <= k]
      BY <1>4, <1>7
    <3>2. having(i) # {}
      BY <2>5
    <3>3. QED
      BY <2>5, <2>6, <3>1, <3>2
  <2>8. QED
    BY <2>1, <2>2, <2>7
<1>9. InList' = InList /\ Numbered' = Numbered
  BY <1>2, Unmoved
<1>10. phase' \in {"copy", "done"}
  BY <1>2 DEF NextChunk
<1>11. Copied(Ehdr)' => Copied(Ehdr)
  <2>1. PICK c : c = Ehdr /\ c # list[at]
    BY <1>2, Constants
  <2>2. Copied(c)' => Copied(c)
    BY <1>1, <1>2, <2>1, CopiedNext
  <2>3. Copied(Ehdr)' <=> Copied(c)'
    BY <2>1 DEF Copied, Ehdr
  <2>4. QED
    BY <2>1, <2>2, <2>3
<1>12. /\ Cardinality(Numbered') + 1 > HalfMax => table'.null = Cardinality(Numbered') + 1
       /\ \A c \in Numbered' : table'.of[shndx'[c]] = c
  BY <1>2, <1>3, <1>6, <1>8, <1>9
<1>13. QED
  BY <1>1, <1>2, <1>9, <1>10, <1>11, <1>12
     DEF CopyInv, Half, GetEflags, Compatible, Phdr, Shdr

LEMMA CopyHeaders ==
    ASSUME HeadersInv, IncompatibleFiles \/ CopyEhdr \/ CopyShdr \/ CopyOther
    PROVE  IndexInv' /\ PhdrInv' /\ CopyInv'
<1>1. /\ section' = section /\ list' = list /\ shndx' = shndx /\ shdrSize' = shdrSize
      /\ segments' = segments /\ phdrSize' = phdrSize /\ offset' = offset /\ phase = "copy"
  BY DEF IncompatibleFiles, CopyEhdr, CopyShdr, CopyOther, Copying, layoutVars
<1>2. SectionTypes /\ LoopTypes /\ ListInv /\ IndexInv /\ PhdrInv /\ CopyInv
  BY DEF HeadersInv, IInv, TypeOK
<1>3. IndexInv' /\ PhdrInv'
  BY <1>1, <1>2, IndexStays, PhdrStays
<1>4. CASE IncompatibleFiles
  <2>1. phase' = "incompatible" /\ eflags' \in KeptFlags /\ ~Compatible(eflags')
    BY <1>4 DEF IncompatibleFiles
  <2>2. CopyInv'
    BY <2>1 DEF CopyInv, Copied, Compatible
  <2>3. QED
    BY <1>3, <2>2
<1>5. CASE CopyOther
  <2>1. /\ eflags' = eflags /\ ehdr' = ehdr /\ table' = table /\ NextChunk("done")
        /\ list[at] \notin {Ehdr, Shdr}
    BY <1>5 DEF CopyOther, fileVars
  <2>2. phase' \in {"copy", "done"}
    BY <1>1, <2>1 DEF NextChunk
  <2>3. \A c \in {Ehdr, Shdr} : Copied(c)' => Copied(c)
    BY <1>1, <1>2, <2>1, CopiedNext
  <2>4. (Copied(Ehdr)' => Copied(Ehdr)) /\ (Copied(Shdr)' => Copied(Shdr))
    <3>1. PICK c, d : c = Ehdr /\ d = Shdr
      OBVIOUS
    <3>2. (Copied(Ehdr)' <=> Copied(c)') /\ (Copied(Shdr)' <=> Copied(d)')
      BY <3>1 DEF Copied, Ehdr, Shdr
    <3>3. (Copied(c)' => Copied(c)) /\ (Copied(d)' => Copied(d))
      BY <2>3, <3>1
    <3>4. QED
      BY <3>1, <3>2, <3>3
  <2>5. InList' = InList /\ Numbered' = Numbered
    BY <1>1, Unmoved
  <2>6. CopyInv'
    BY <1>1, <1>2, <2>1, <2>2, <2>4, <2>5
       DEF CopyInv, Half, GetEflags, Compatible, Phdr, Shdr
  <2>7. QED
    BY <1>3, <2>6
<1>6. QED
  BY <1>3, <1>4, <1>5, CopyEhdrHeaders, CopyShdrHeaders

-----------------------------------------------------------------------------
LEMMA HeadersStep == HeadersInv /\ [Next]_vars => HeadersInv'
<1> SUFFICES ASSUME HeadersInv, [Next]_vars PROVE HeadersInv'
  OBVIOUS
<1>1. IInv'
  BY InvariantStep DEF HeadersInv
<1>2. CASE UNCHANGED vars
  <2>1. IndexInv' /\ PhdrInv' /\ CopyInv'
    BY <1>2 DEF HeadersInv, IndexInv, PhdrInv, CopyInv, Copied, Numbered, InList, Loaded, Alloc,
       FlagsOf, Headers, Ehdr, Phdr, Shdr, Compatible, GetEflags, Half, vars, layoutVars, fileVars
  <2>2. QED
    BY <1>1, <2>1 DEF HeadersInv
<1>3. CASE ~UNCHANGED vars
  <2>1. IndexInv' /\ PhdrInv' /\ CopyInv'
    BY <1>3, SortHeaders, RemoveHeaders, IndicesHeaders, PlaceHeaders, RepeatHeaders,
       SymbolsHeaders, CopyHeaders DEF Next, Terminated
  <2>2. QED
    BY <1>1, <2>1 DEF HeadersInv
<1>4. QED
  BY <1>2, <1>3

\* Every pass keeps what the headers will say.
THEOREM HeadersInvariance == Spec => []HeadersInv
<1>1. Init => HeadersInv
  BY InvariantInit, InitHeaders DEF HeadersInv
<1>2. QED
  BY <1>1, HeadersStep, PTL DEF Spec

\* The flags that are written are those of all files, or two files do not agree.
LEMMA FlagsAgree ==
    ASSUME NEW kept \in KeptFlags
    PROVE  /\ Compatible(kept) => \A i \in DOMAIN kept :
                /\ kept[i].rvc => GetEflags(kept).rvc
                /\ kept[i].float = GetEflags(kept).float /\ kept[i].rve = GetEflags(kept).rve
           /\ ~Compatible(kept) => \E i, j \in DOMAIN kept :
                kept[i].float # kept[j].float \/ kept[i].rve # kept[j].rve
<1>1. kept \in Seq(EFlags) /\ kept # <<>>
  BY LayoutAssumption
<1>2. 1 \in DOMAIN kept /\ kept[1] \in EFlags
  BY <1>1
<1>3. PICK b \in BOOLEAN : b = \E i \in DOMAIN kept : kept[i].rvc
  OBVIOUS
<1>4. /\ GetEflags(kept).rvc = b
      /\ GetEflags(kept).float = kept[1].float /\ GetEflags(kept).rve = kept[1].rve
  BY <1>2, <1>3 DEF GetEflags, EFlags
<1>5. QED
  BY <1>2, <1>3, <1>4 DEF Compatible

\* The reader of the output file finds what was made, as long as e_phnum, which has
\* 16 bits and no escape, can hold the number of program headers.
LEMMA HeadersFromInv == HeadersInv /\ Cardinality(segments) <= HalfMax => HeadersRead
<1> SUFFICES ASSUME HeadersInv, Cardinality(segments) <= HalfMax PROVE HeadersRead
  OBVIOUS
<1>1. SectionTypes /\ LoopTypes /\ SizeTypes /\ ListInv /\ IndexInv /\ PhdrInv /\ CopyInv /\ Filed
  BY DEF HeadersInv, IInv, TypeOK, Filed
<1>2. ASSUME phase \in {"addresses", "copy"}, NEW c \in InList \ Headers
      PROVE  /\ shndx[c] \in 1 .. (shdrSize \div ShdrEntry) - 1
             /\ \A d \in InList \ {c} : shndx[d] # shndx[c]
  <2>1. PICK n \in Nat : n = Cardinality(Numbered) /\ shdrSize = ShdrEntry * (n + 1)
    <3>1. shdrSize = ShdrEntry * (Cardinality(Numbered) + 1)
      BY <1>1, <1>2 DEF IndexInv
    <3>2. IsFiniteSet(Numbered)
      <4>1. DOMAIN list = 1 .. Len(list) /\ Len(list) \in Nat
            /\ \A i, j \in DOMAIN list : i # j => list[i] # list[j]
        BY <1>1, ListFacts
      <4>2. IsFiniteSet(InList)
        BY <4>1, ElementsCounted DEF InList
      <4>3. QED
        BY <4>2, FS_Subset DEF Numbered
    <3>3. QED
      BY <3>1, <3>2, FS_CardinalityType
  <2>2. shdrSize \div ShdrEntry = n + 1
    <3>1. ShdrEntry \in Nat \ {0} /\ n + 1 \in Nat
      BY Constants
    <3>2. QED
      BY <2>1, <3>1, ExactQuotient
  <2>3. shndx[c] \in 1 .. n
    BY <1>1, <1>2, <2>1 DEF IndexInv, Numbered
  <2>4. ASSUME NEW d \in InList \ {c} PROVE shndx[d] # shndx[c]
    <3>1. CASE d \in Headers
      <4>1. shndx[d] = 0
        BY <1>1, <1>2, <3>1 DEF IndexInv
      <4>2. QED
        BY <2>3, <4>1
    <3>2. CASE d \notin Headers
      BY <1>1, <1>2, <3>2 DEF IndexInv, Numbered
    <3>3. QED
      BY <3>1, <3>2
  <2>5. QED
    BY <2>2, <2>3, <2>4
<1>3. ASSUME phase = "incompatible"
      PROVE  \E i, j \in DOMAIN eflags :
               eflags[i].float # eflags[j].float \/ eflags[i].rve # eflags[j].rve
  BY <1>1, <1>3, FlagsAgree DEF CopyInv
<1>4. ASSUME phase = "done", NEW shnum, shnum = IF ehdr.shnum # 0 THEN ehdr.shnum ELSE table.null
      PROVE  /\ shnum = 1 + Cardinality(InList \ Headers)
             /\ ehdr.shoff + ShdrEntry * shnum <= FileSize
             /\ \A c \in InList \ Headers : table.of[shndx[c]] = c
             /\ ehdr.phnum = Cardinality(segments)
             /\ ehdr.phnum # 0 => ehdr.phoff = offset[Phdr]
             /\ \A i \in DOMAIN eflags :
                  /\ eflags[i].rvc => ehdr.flags.rvc
                  /\ eflags[i].float = ehdr.flags.float /\ eflags[i].rve = ehdr.flags.rve
  <2>1. Ehdr \in InList /\ Shdr \in InList
    BY <1>1, <1>4 DEF ListInv
  <2>2. Copied(Ehdr) /\ Copied(Shdr)
    BY <1>4, <2>1 DEF Copied
  <2>3. PICK n \in Nat, m \in Nat, h \in Nat :
           /\ n = Cardinality(Numbered) /\ m = Cardinality(segments) /\ h = HalfMax
           /\ shdrSize = ShdrEntry * (n + 1)
    BY <1>1, <1>4, SizesCount, Constants DEF IndexInv
  <2>4. shnum = n + 1
    <3>1. ehdr.shnum = IF n + 1 <= h THEN n + 1 ELSE 0
      BY <1>1, <2>2, <2>3 DEF CopyInv, Half
    <3>2. n + 1 > h => table.null = n + 1
      BY <1>1, <2>2, <2>3 DEF CopyInv
    <3>3. QED
      BY <1>4, <2>3, <3>1, <3>2
  <2>5. ehdr.shoff + ShdrEntry * shnum <= FileSize
    <3>1. offset[Shdr] + SizeOf(Shdr) <= FileSize
      BY <1>1, <1>4, <2>1, FileLaidOut DEF FileDisjoint
    <3>2. SizeOf(Shdr) = shdrSize
      <4>1. Shdr \notin DOMAIN section /\ Shdr # Ehdr /\ Shdr # Phdr
        BY <1>1, Constants DEF SectionTypes
      <4>2. QED
        BY <4>1 DEF SizeOf
    <3>3. ehdr.shoff = offset[Shdr]
      BY <1>1, <2>2 DEF CopyInv
    <3>4. QED
      BY <2>3, <2>4, <3>1, <3>2, <3>3
  <2>6. ehdr.phnum = m
    <3>1. ehdr.phnum = m % (h + 1)
      BY <1>1, <2>2, <2>3 DEF CopyInv
    <3>2. m \in 0 .. h
      BY <2>3
    <3>3. m % (h + 1) = m
      <4>1. PICK k \in Nat \ {0} : k = h + 1
        OBVIOUS
      <4>2. m \in 0 .. k - 1
        BY <3>2, <4>1
      <4>3. (0 * k + m) % k = m
        BY <4>2, RemainderUnique
      <4>4. QED
        BY <4>1, <4>3
    <3>4. QED
      BY <3>1, <3>3
  <2>7. ASSUME ehdr.phnum # 0 PROVE ehdr.phoff = offset[Phdr]
    <3>1. segments # {}
      BY <2>3, <2>6, <2>7, FS_EmptySet
    <3>2. Phdr \in InList
      BY <1>1, <3>1 DEF PhdrInv
    <3>3. QED
      BY <1>1, <2>2, <3>2 DEF CopyInv
  <2>8. \A i \in DOMAIN eflags :
           /\ eflags[i].rvc => ehdr.flags.rvc
           /\ eflags[i].float = ehdr.flags.float /\ eflags[i].rve = ehdr.flags.rve
    BY <1>1, <2>2, FlagsAgree DEF CopyInv
  <2>9. \A c \in InList \ Headers : table.of[shndx[c]] = c
    BY <1>1, <2>2 DEF CopyInv, Numbered
  <2>10. QED
    BY <2>3, <2>4, <2>5, <2>6, <2>7, <2>8, <2>9 DEF Numbered
<1>5. QED
  BY <1>2, <1>3, <1>4 DEF HeadersRead

\* The headers of the output file say what is in it: table, indices, program headers
\* and flags, whatever the sections and however often the rounds were repeated.
THEOREM HeadersCorrect == Spec => [](Cardinality(segments) <= HalfMax => HeadersRead)
<1>1. HeadersInv => (Cardinality(segments) <= HalfMax => HeadersRead)
  BY HeadersFromInv
<1>2. QED
  BY <1>1, HeadersInvariance, PTL

-----------------------------------------------------------------------------
(***************************************************************************)
(* PT_LOAD: which chunks go into one.                                      *)
(***************************************************************************)
\* f is the function `start` of Loads; EndsOf, its `ends`.
IsStart(f, order) ==
    f = [i \in 1 .. Len(order) |->
           IF i > 1 /\ Joins(order[f[i-1]], order[i]) THEN f[i-1] ELSE i]
EndsOf(order, f) == {j \in 1 .. Len(order) : j = Len(order) \/ f[j+1] # f[j]}
LoadOf(order, f, j) == Segment("load", PhdrFlags(order[j]), SubSeq(order, f[j], j))

LEMMA LoadsOfStart ==
    ASSUME NEW order, Len(order) \in Nat
    PROVE  \E f : IsStart(f, order) /\ Loads(order) = {LoadOf(order, f, j) : j \in EndsOf(order, f)}
<1>0. PICK n \in Nat : n = Len(order)
  OBVIOUS
<1>1. PICK f : f = CHOOSE g : g = [i \in 1 .. n |->
                  IF i > 1 /\ Joins(order[g[i-1]], order[i]) THEN g[i-1] ELSE i]
  OBVIOUS
<1>2. f = [i \in 1 .. n |-> IF i > 1 /\ Joins(order[f[i-1]], order[i]) THEN f[i-1] ELSE i]
  <2>1. \E g : g = [i \in 1 .. n |->
                  IF i > 1 /\ Joins(order[g[i-1]], order[i]) THEN g[i-1] ELSE i]
    BY StartExists, Zenon
  <2>2. QED
    BY <1>1, <2>1, Zenon
<1> DEFINE ends == {j \in 1 .. n : j = n \/ f[j+1] # f[j]}
<1>3. Loads(order) = {Segment("load", PhdrFlags(order[j]), SubSeq(order, f[j], j)) : j \in ends}
  BY <1>0, <1>1 DEF Loads
<1>4. ends = EndsOf(order, f)
  BY <1>0 DEF EndsOf
<1>5. IsStart(f, order)
  BY <1>0, <1>2, Zenon DEF IsStart
<1> HIDE DEF ends
<1>6. Loads(order) = {LoadOf(order, f, j) : j \in EndsOf(order, f)}
  BY <1>3, <1>4 DEF LoadOf
<1>7. QED
  BY <1>5, <1>6

\* From the start of a PT_LOAD to any of its chunks, all have joined.
LEMMA Stretch ==
    ASSUME NEW order, NEW n \in Nat, n = Len(order), NEW f, IsStart(f, order)
    PROVE  \A i \in 1 .. n :
             /\ f[i] \in 1 .. i
             /\ \A k \in f[i] .. i : f[k] = f[i] /\ (k = f[i] \/ Joins(order[f[i]], order[k]))
<1> DEFINE Good(i) == /\ f[i] \in 1 .. i
                      /\ \A k \in f[i] .. i :
                           f[k] = f[i] /\ (k = f[i] \/ Joins(order[f[i]], order[k]))
           Done == {m \in Nat : m \in 1 .. n => Good(m)}
<1>1. 0 \in Done
  OBVIOUS
<1>2. ASSUME NEW m \in Done PROVE m + 1 \in Done
  <2>1. m \in Nat /\ (m \in 1 .. n => Good(m))
    OBVIOUS
  <2>2. ASSUME m + 1 \in 1 .. n PROVE Good(m + 1)
    <3>1. /\ f[m + 1] = (IF m + 1 > 1 /\ Joins(order[f[m]], order[m + 1]) THEN f[m] ELSE m + 1)
          /\ m + 1 > 1 => m \in 1 .. n
      <4>1. (m + 1) - 1 = m /\ (m + 1 > 1 => m \in 1 .. n)
        BY <2>1, <2>2
      <4>2. f[m + 1] = (IF m + 1 > 1 /\ Joins(order[f[(m+1)-1]], order[m + 1])
                        THEN f[(m+1)-1] ELSE m + 1)
        BY <2>2 DEF IsStart
      <4>3. QED
        BY <4>1, <4>2
    <3>2. CASE f[m + 1] = m + 1
      <4>1. \A k \in f[m + 1] .. m + 1 : k = m + 1
        BY <2>1, <3>2
      <4>2. QED
        BY <2>1, <3>2, <4>1
    <3>3. CASE f[m + 1] # m + 1
      <4>1. m + 1 > 1 /\ Joins(order[f[m]], order[m + 1]) /\ f[m + 1] = f[m] /\ m \in 1 .. n
        BY <3>1, <3>3
      <4>2. Good(m)
        BY <2>1, <4>1
      <4>3. PICK a \in 1 .. m : a = f[m]
        BY <4>2
      <4>4. \A k \in a .. m : f[k] = a /\ (k = a \/ Joins(order[a], order[k]))
        BY <4>2, <4>3
      <4>5. f[m + 1] = a /\ Joins(order[a], order[m + 1])
        BY <4>1, <4>3
      <4>6. \A k \in a .. m + 1 : k \in a .. m \/ k = m + 1
        BY <2>1
      <4>7. \A k \in a .. m + 1 : f[k] = a /\ (k = a \/ Joins(order[a], order[k]))
        BY <4>4, <4>5, <4>6
      <4>8. a \in 1 .. m + 1
        BY <2>1
      <4>9. QED
        BY <4>5, <4>7, <4>8
    <3>4. QED
      BY <3>2, <3>3
  <2>3. QED
    BY <2>1, <2>2
<1>3. Done = Nat
  <2>1. Done \in SUBSET Nat
    OBVIOUS
  <2> HIDE DEF Done
  <2>2. QED
    BY <1>1, <1>2, <2>1, Induction
<1>4. QED
  BY <1>3

\* Every chunk is in one PT_LOAD, by its position, and in no other.
LEMMA StretchEnds ==
    ASSUME NEW order, NEW n \in Nat, n = Len(order), NEW f, IsStart(f, order)
    PROVE  /\ \A k \in 1 .. n : \E j \in EndsOf(order, f) : f[j] <= k /\ k <= j
           /\ \A i, j \in EndsOf(order, f) : i < j => i < f[j]
<1>1. \A i \in 1 .. n : f[i] \in 1 .. i /\ \A k \in f[i] .. i : f[k] = f[i]
  BY Stretch
<1>2. EndsOf(order, f) = {j \in 1 .. n : j = n \/ f[j+1] # f[j]}
  BY DEF EndsOf
<1>3. ASSUME NEW k \in 1 .. n PROVE \E j \in EndsOf(order, f) : f[j] <= k /\ k <= j
  <2> DEFINE Same == {j \in 1 .. n : f[j] = f[k]}
  <2>1. PICK j \in Same : \A i \in Same : i <= j
    <3>1. k \in Same /\ Same \in SUBSET Nat /\ \A i \in Same : i <= n
      OBVIOUS
    <3> HIDE DEF Same
    <3>2. QED
      BY <3>1, GreatestNatural
  <2>2. k <= j /\ j \in 1 .. n /\ f[j] = f[k]
    BY <2>1
  <2>3. j # n => f[j + 1] # f[j]
    <3>1. ASSUME j # n, f[j + 1] = f[j] PROVE FALSE
      <4>1. j + 1 \in Same
        BY <2>2, <3>1
      <4>2. QED
        BY <2>1, <2>2, <4>1
    <3>2. QED
      BY <3>1
  <2>4. f[k] \in 1 .. k
    BY <1>1
  <2>5. QED
    BY <1>2, <2>2, <2>3, <2>4
<1>4. ASSUME NEW i \in EndsOf(order, f), NEW j \in EndsOf(order, f), i < j, ~(i < f[j])
      PROVE  FALSE
  <2>1. i \in 1 .. n /\ j \in 1 .. n /\ i # n /\ f[i + 1] # f[i]
    BY <1>2, <1>4
  <2>2. f[j] \in 1 .. j /\ i \in f[j] .. j /\ i + 1 \in f[j] .. j
    BY <1>1, <1>4, <2>1
  <2>3. QED
    BY <1>1, <2>1, <2>2
<1>5. QED
  BY <1>3, <1>4

\* Where a PT_LOAD of the chunks from position a to b begins and ends.
LEMMA SegmentPlace ==
    ASSUME NEW order \in Seq(Ids), NEW a \in 1 .. Len(order), NEW b \in 1 .. Len(order), a <= b,
           NEW type, NEW flags, NEW s, s = Segment(type, flags, SubSeq(order, a, b))
    PROVE  /\ s.type = type /\ s.flags = flags
           /\ s.vaddr = AddrOf(order[a]) /\ s.offset = offset[order[a]]
           /\ s.memsz = AddrOf(order[b]) + SizeOf(order[b]) - AddrOf(order[a])
<1> DEFINE chunks == SubSeq(order, a, b)
<1>1. /\ Len(chunks) = b - a + 1
      /\ \A i \in 1 .. b - a + 1 : chunks[i] = order[i + a - 1]
  <2>1. PICK A : A = Ids
    OBVIOUS
  <2>2. order \in Seq(A)
    BY <2>1
  <2> HIDE <2>1
  <2>3. QED
    BY <2>2, SubSeqFacts
<1> HIDE DEF chunks
<1>2. chunks[1] = order[a] /\ chunks[Len(chunks)] = order[b]
  <2>1. 1 \in 1 .. b - a + 1 /\ b - a + 1 \in 1 .. b - a + 1
    OBVIOUS
  <2>2. 1 + a - 1 = a /\ (b - a + 1) + a - 1 = b
    OBVIOUS
  <2>3. QED
    BY <1>1, <2>1, <2>2
<1>3. \E n : s = [type |-> type, flags |-> flags, vaddr |-> AddrOf(order[a]),
                  offset |-> offset[order[a]],
                  memsz |-> AddrOf(order[b]) + SizeOf(order[b]) - AddrOf(order[a]), align |-> n]
  BY <1>2 DEF Segment, chunks
<1>4. QED
  BY <1>3

-----------------------------------------------------------------------------
(***************************************************************************)
(* The order of the loaded chunks, if std::sort is stable.                 *)
(***************************************************************************)
\* What is known when the program headers are made in a round.
Settled == Addressed /\ OffsetInv /\ phase = "program headers"

\* The loaded chunks are those at positions g[1], .., g[n] of the list.
LoadedBy(n, g) ==
    /\ g \in [1 .. n -> DOMAIN list]
    /\ \A i \in 1 .. n : Loadable[i] = list[g[i]] /\ LoadedAt(g[i])
    /\ \A i, j \in 1 .. n : i < j => g[i] < g[j]
    /\ \A k \in DOMAIN list : LoadedAt(k) => \E i \in 1 .. n : g[i] = k

LEMMA LoadableCounted ==
    ASSUME SectionTypes, LoopTypes, ListInv
    PROVE  /\ IsFiniteSet(Loaded) /\ Len(Loadable) = Cardinality(Loaded)
           /\ Loadable \in Seq(Ids)
           /\ \E g : LoadedBy(Cardinality(Loaded), g)
<1>1. PICK T \in SUBSET Ids : T = {c \in Ids : Alloc(c)}
  OBVIOUS
<1>2. PICK s : s = Loadable
  OBVIOUS
<1>3. /\ s \in Seq(Ids)
      /\ \A i, j \in DOMAIN s : i # j => s[i] # s[j]
      /\ \A i \in DOMAIN s : s[i] \in InList /\ s[i] \in T
      /\ \A c \in InList : c \in T => \E i \in DOMAIN s : s[i] = c
  <2>1. s = Select(list, T)
    BY <1>1, <1>2 DEF Loadable
  <2>2. QED
    BY <2>1, SelectedChunks
<1>4. PICK n \in Nat : n = Len(s) /\ DOMAIN s = 1 .. n
  BY <1>3
<1>5. InList \in SUBSET Ids /\ \A i \in DOMAIN list : list[i] \in Ids
  <2>1. \A i \in DOMAIN list : list[i] \in Ids
    BY ListFacts
  <2>2. QED
    BY <2>1, Positions
<1>6. Loaded = {s[i] : i \in 1 .. n}
  <2>1. \A i \in 1 .. n : s[i] \in Loaded
    BY <1>1, <1>3, <1>4 DEF Loaded
  <2>2. \A c \in Loaded : \E i \in 1 .. n : s[i] = c
    <3> TAKE c \in Loaded
    <3>1. c \in InList /\ c \in T
      BY <1>1, <1>5 DEF Loaded
    <3>2. QED
      BY <1>3, <1>4, <3>1
  <2>3. QED
    BY <2>1, <2>2
<1>7. IsFiniteSet(Loaded) /\ Cardinality(Loaded) = n
  BY <1>3, <1>4, <1>6, ElementsCounted
<1>8. PICK order \in Seq(Ids) : order = list
  BY DEF LoopTypes
<1>9. /\ s \in Seq(Ids \intersect T)
      /\ \E g \in [DOMAIN s -> DOMAIN order] :
           /\ \A i \in DOMAIN s : s[i] = order[g[i]]
           /\ \A i, j \in DOMAIN s : i < j => g[i] < g[j]
           /\ \A k \in DOMAIN order : order[k] \in T => \E i \in DOMAIN s : g[i] = k
  <2>1. s = Select(order, T)
    BY <1>1, <1>2, <1>8 DEF Loadable
  <2>2. QED
    BY <1>8, <2>1, SelectFacts
<1>10. PICK g \in [DOMAIN s -> DOMAIN order] :
         /\ \A i \in DOMAIN s : s[i] = order[g[i]]
         /\ \A i, j \in DOMAIN s : i < j => g[i] < g[j]
         /\ \A k \in DOMAIN order : order[k] \in T => \E i \in DOMAIN s : g[i] = k
  BY <1>9
<1>11. /\ g \in [1 .. n -> DOMAIN list]
       /\ \A i \in 1 .. n : s[i] = list[g[i]] /\ LoadedAt(g[i])
       /\ \A i, j \in 1 .. n : i < j => g[i] < g[j]
       /\ \A k \in DOMAIN list : LoadedAt(k) => \E i \in 1 .. n : g[i] = k
  <2>1. \A i \in 1 .. n : s[i] = list[g[i]] /\ LoadedAt(g[i])
    BY <1>1, <1>3, <1>4, <1>8, <1>10 DEF LoadedAt
  <2>2. ASSUME NEW k \in DOMAIN list, LoadedAt(k) PROVE \E i \in 1 .. n : g[i] = k
    <3>1. list[k] \in T
      BY <1>1, <1>5, <2>2 DEF LoadedAt
    <3>2. QED
      BY <1>4, <1>8, <1>10, <3>1
  <2>3. QED
    BY <1>4, <1>8, <1>10, <2>1, <2>2
<1>12. LoadedBy(n, g)
  BY <1>2, <1>11 DEF LoadedBy
<1>13. QED
  BY <1>2, <1>3, <1>4, <1>7, <1>12

LEMMA IncreasingIdentity ==
    ASSUME NEW n \in Nat, NEW p \in [1 .. n -> 1 .. n],
           \A i, j \in 1 .. n : i < j => p[i] < p[j]
    PROVE  \A i \in 1 .. n : p[i] = i
<1> DEFINE Up == {k \in Nat : k \in 1 .. n => k <= p[k]}
           Down == {k \in Nat : k < n => p[n - k] <= n - k}
<1>1. \A i \in 1 .. n : p[i] \in 1 .. n
  OBVIOUS
<1>2. 0 \in Up
  OBVIOUS
<1>3. ASSUME NEW k \in Up PROVE k + 1 \in Up
  <2>1. ASSUME k + 1 \in 1 .. n PROVE k + 1 <= p[k + 1]
    <3>1. CASE k = 0
      BY <1>1, <2>1, <3>1
    <3>2. CASE k # 0
      <4>1. k \in 1 .. n /\ k <= p[k]
        BY <2>1, <3>2
      <4>2. p[k] < p[k + 1]
        BY <2>1, <4>1
      <4>3. p[k] \in Nat /\ p[k + 1] \in Nat
        BY <1>1, <2>1, <4>1
      <4>4. QED
        BY <4>1, <4>2, <4>3
    <3>3. QED
      BY <3>1, <3>2
  <2>2. QED
    BY <2>1
<1>4. Up = Nat
  <2>1. Up \in SUBSET Nat
    OBVIOUS
  <2> HIDE DEF Up
  <2>2. QED
    BY <1>2, <1>3, <2>1, Induction
<1>5. 0 \in Down
  BY <1>1
<1>6. ASSUME NEW k \in Down PROVE k + 1 \in Down
  <2>1. ASSUME k + 1 < n PROVE p[n - (k + 1)] <= n - (k + 1)
    <3>1. k < n /\ n - (k + 1) \in 1 .. n /\ n - k \in 1 .. n /\ n - (k + 1) < n - k
      BY <2>1
    <3>2. p[n - (k + 1)] < p[n - k] /\ p[n - k] <= n - k
      BY <3>1
    <3>3. p[n - (k + 1)] \in Nat /\ p[n - k] \in Nat
      BY <1>1, <3>1
    <3>4. QED
      BY <3>2, <3>3
  <2>2. QED
    BY <2>1
<1>7. Down = Nat
  <2>1. Down \in SUBSET Nat
    OBVIOUS
  <2> HIDE DEF Down
  <2>2. QED
    BY <1>5, <1>6, <2>1, Induction
<1>8. ASSUME NEW i \in 1 .. n PROVE p[i] = i
  <2>1. i <= p[i]
    BY <1>4
  <2>2. n - i \in Nat /\ n - i < n /\ n - (n - i) = i
    OBVIOUS
  <2>3. p[n - (n - i)] <= n - (n - i)
    BY <1>7, <2>2
  <2>4. QED
    BY <1>1, <2>1, <2>2, <2>3
<1>9. QED
  BY <1>8

\* So few chunks are loaded that std::sort keeps the order of equal addresses.
FewLoaded == Cardinality(Loaded) <= Stable

\* std::sort by address changes nothing: the list has that order already.
LEMMA StableOrder ==
    ASSUME Addressed, phase # "addresses", FewLoaded, NEW order \in Orders
    PROVE  order = Loadable
<1>1. SectionTypes /\ LoopTypes /\ ListInv /\ PlaceTypes
  BY DEF Addressed
<1>2. PICK s \in Seq(Ids) : s = Loadable
  BY <1>1, LoadableCounted
<1>3. PICK n \in Nat : n = Cardinality(Loaded) /\ n = Len(s) /\ DOMAIN s = 1 .. n
  BY <1>1, <1>2, LoadableCounted
<1>4. PICK g : LoadedBy(n, g)
  BY <1>1, <1>3, LoadableCounted
<1>5. /\ g \in [1 .. n -> DOMAIN list]
      /\ \A i \in 1 .. n : s[i] = list[g[i]] /\ LoadedAt(g[i])
      /\ \A i, j \in 1 .. n : i < j => g[i] < g[j]
  BY <1>2, <1>4 DEF LoadedBy
<1>6. n <= Stable /\ Stable \in Nat
  BY <1>3, Constants DEF FewLoaded
<1>7. PICK p \in [1 .. n -> 1 .. n] :
        /\ order = [i \in 1 .. n |-> s[p[i]]]
        /\ \A i, j \in 1 .. n : p[i] = p[j] => i = j
        /\ \A i, j \in 1 .. n : i < j =>
             \/ AddrOf(s[p[i]]) < AddrOf(s[p[j]])
             \/ AddrOf(s[p[i]]) = AddrOf(s[p[j]]) /\ (p[i] < p[j] \/ n > Stable)
  BY <1>2, <1>3 DEF Orders
<1>8. \A i \in 1 .. n : AddrOf(s[i]) \in Nat
  BY <1>1, <1>3 DEF AddrOf, PlaceTypes
<1>9. ASSUME NEW i \in 1 .. n, NEW j \in 1 .. n, i <= j
      PROVE  AddrOf(s[i]) <= AddrOf(s[j])
  <2>1. CASE i = j
    BY <1>8, <2>1
  <2>2. CASE i < j
    <3>1. g[i] \in DOMAIN list /\ g[j] \in DOMAIN list /\ g[i] < g[j]
          /\ LoadedAt(g[i]) /\ LoadedAt(g[j]) /\ s[i] = list[g[i]] /\ s[j] = list[g[j]]
      BY <1>5, <2>2
    <3>2. g[i] <= g[j]
      <4>1. DOMAIN list \subseteq Nat
        BY <1>1, ListFacts
      <4>2. PICK u \in Nat, v \in Nat : u = g[i] /\ v = g[j]
        BY <3>1, <4>1
      <4>3. u < v
        BY <3>1, <4>2
      <4>4. u <= v
        BY <4>3
      <4>5. QED
        BY <4>2, <4>4
    <3>3. AddrOf(list[g[i]]) <= AddrOf(list[g[j]])
      BY <3>1, <3>2, AddrOfOrdered
    <3>4. QED
      BY <3>1, <3>3
  <2>3. QED
    BY <1>9, <2>1, <2>2
<1>10. ASSUME NEW i \in 1 .. n, NEW j \in 1 .. n, i < j PROVE p[i] < p[j]
  <2>1. PICK u \in 1 .. n, v \in 1 .. n : u = p[i] /\ v = p[j] /\ u # v
    <3>1. p[i] \in 1 .. n /\ p[j] \in 1 .. n /\ p[i] # p[j]
      BY <1>7, <1>10
    <3>2. QED
      BY <3>1
  <2>2. \/ AddrOf(s[u]) < AddrOf(s[v])
        \/ AddrOf(s[u]) = AddrOf(s[v]) /\ (u < v \/ n > Stable)
    BY <1>7, <1>10, <2>1
  <2>3. ASSUME v < u PROVE FALSE
    <3>1. v <= u
      BY <2>3
    <3>2. AddrOf(s[v]) <= AddrOf(s[u])
      BY <1>9, <3>1
    <3>3. PICK x \in Nat, y \in Nat : x = AddrOf(s[u]) /\ y = AddrOf(s[v])
      BY <1>8
    <3>4. ~(n > Stable)
      BY <1>6
    <3>5. QED
      BY <2>2, <2>3, <3>2, <3>3, <3>4
  <2>4. QED
    BY <2>1, <2>3
<1>11. \A i \in 1 .. n : p[i] = i
  BY <1>10, IncreasingIdentity
<1>12. order = [i \in 1 .. n |-> s[i]]
  BY <1>7, <1>11
<1>13. QED
  BY <1>2, <1>3, <1>12

-----------------------------------------------------------------------------
(***************************************************************************)
(* Each chunk with bytes is mapped by one PT_LOAD.                         *)
(***************************************************************************)
Covering(c, S) ==
    {s \in S : /\ s.type = "load"
               /\ s.vaddr <= addr[c] /\ addr[c] + SizeOf(c) <= s.vaddr + s.memsz}
Maps(s, c) == s.flags = PhdrFlags(c) /\ offset[c] - s.offset = addr[c] - s.vaddr
MappedBy(c, S) == Cardinality(Covering(c, S)) = 1 /\ \A s \in Covering(c, S) : Maps(s, c)

\* In memory, the chunks follow each other in their order.
LEMMA LoadedChain ==
    ASSUME Settled, NEW s, s = Loadable
    PROVE  /\ s \in Seq(Ids)
           /\ \A i \in DOMAIN s : /\ addr[s[i]] \in Nat /\ SizeOf(s[i]) \in Nat
                                  /\ AddrOf(s[i]) = addr[s[i]] /\ offset[s[i]] \in Nat
           /\ \A i, j \in DOMAIN s : i < j => addr[s[i]] + SizeOf(s[i]) <= addr[s[j]]
<1>1. SectionTypes /\ LoopTypes /\ ListInv /\ PlaceTypes /\ Addressed /\ AddressInv /\ OffsetInv
      /\ phase = "program headers"
  BY DEF Settled, Addressed
<1>2. PICK n \in Nat : n = Cardinality(Loaded) /\ s \in Seq(Ids) /\ DOMAIN s = 1 .. n
  <2>1. s \in Seq(Ids) /\ Len(s) = Cardinality(Loaded)
    BY <1>1, LoadableCounted
  <2>2. QED
    BY <2>1
<1>3. PICK g : LoadedBy(n, g)
  BY <1>1, <1>2, LoadableCounted
<1>4. /\ g \in [1 .. n -> DOMAIN list]
      /\ \A i \in 1 .. n : s[i] = list[g[i]] /\ LoadedAt(g[i])
      /\ \A i, j \in 1 .. n : i < j => g[i] < g[j]
  BY <1>3 DEF LoadedBy
<1>5. \A k \in DOMAIN list : LoadedAt(k) => addr[list[k]] # Unplaced /\ offset[list[k]] # Unplaced
  BY <1>1 DEF AddressInv, OffsetInv, Written
<1>6. ASSUME NEW i \in 1 .. n
      PROVE  /\ addr[s[i]] \in Nat /\ SizeOf(s[i]) \in Nat
             /\ AddrOf(s[i]) = addr[s[i]] /\ offset[s[i]] \in Nat
             /\ EndAt(g[i]) = addr[s[i]] + SizeOf(s[i]) /\ addr[list[g[i]]] # Unplaced
  <2>1. g[i] \in DOMAIN list /\ s[i] = list[g[i]] /\ LoadedAt(g[i])
    BY <1>4
  <2>2. addr[list[g[i]]] # Unplaced /\ offset[list[g[i]]] # Unplaced
    BY <1>5, <2>1
  <2>3. /\ addr[list[g[i]]] \in Nat /\ SizeOf(list[g[i]]) \in Nat
        /\ EndAt(g[i]) = addr[list[g[i]]] + SizeOf(list[g[i]])
    BY <1>1, <2>1, <2>2, EndTyped
  <2>4. offset[list[g[i]]] \in Nat
    <3>1. list[g[i]] \in Ids
      BY <1>1, <2>1, ListFacts
    <3>2. QED
      BY <1>1, <2>2, <3>1 DEF PlaceTypes
  <2>5. AddrOf(list[g[i]]) = addr[list[g[i]]]
    BY <2>2 DEF AddrOf
  <2>6. QED
    BY <2>1, <2>2, <2>3, <2>4, <2>5
<1>7. ASSUME NEW i \in 1 .. n, NEW j \in 1 .. n, i < j
      PROVE  addr[s[i]] + SizeOf(s[i]) <= addr[s[j]]
  <2>1. /\ g[i] \in DOMAIN list /\ g[j] \in DOMAIN list /\ g[i] < g[j]
        /\ LoadedAt(g[i]) /\ LoadedAt(g[j]) /\ s[j] = list[g[j]]
    BY <1>4, <1>7
  <2>2. /\ EndAt(g[i]) = addr[s[i]] + SizeOf(s[i]) /\ addr[list[g[j]]] # Unplaced
        /\ EndAt(g[i]) \in Nat /\ addr[s[j]] \in Nat
    <3>1. /\ EndAt(g[i]) = addr[s[i]] + SizeOf(s[i]) /\ addr[s[i]] \in Nat /\ SizeOf(s[i]) \in Nat
      BY <1>6
    <3>2. addr[list[g[j]]] # Unplaced /\ addr[s[j]] \in Nat
      BY <1>6
    <3>3. QED
      BY <3>1, <3>2
  <2>3. EndAt(g[i]) <= PosAt(g[j]) /\ PosAt(g[j]) <= addr[list[g[j]]]
    BY <1>1, <2>1, <2>2, Chain
  <2>4. PosAt(g[j]) \in Nat
    BY <1>1, <2>1, <2>2, AddressFacts
  <2>5. QED
    BY <2>1, <2>2, <2>3, <2>4
<1>8. QED
  BY <1>2, <1>6, <1>7

\* The PT_LOAD of a chunk maps it, and the others are before or behind it.
LEMMA LoadMapped ==
    ASSUME Settled, NEW f, IsStart(f, Loadable),
           NEW k \in DOMAIN Loadable, SizeOf(Loadable[k]) # 0
    PROVE  MappedBy(Loadable[k], {LoadOf(Loadable, f, j) : j \in EndsOf(Loadable, f)})
<1>1. PICK s \in Seq(Ids) : s = Loadable
  BY LoadedChain
<1>2. /\ \A i \in DOMAIN s : /\ addr[s[i]] \in Nat /\ SizeOf(s[i]) \in Nat
                             /\ AddrOf(s[i]) = addr[s[i]] /\ offset[s[i]] \in Nat
      /\ \A i, j \in DOMAIN s : i < j => addr[s[i]] + SizeOf(s[i]) <= addr[s[j]]
  BY <1>1, LoadedChain
<1>3. PICK n \in Nat : n = Len(s) /\ DOMAIN s = 1 .. n
  OBVIOUS
<1>4. PICK ends \in SUBSET (1 .. n) : ends = EndsOf(s, f)
  BY <1>3 DEF EndsOf
<1>5. /\ \A i \in 1 .. n : f[i] \in 1 .. i /\ \A m \in f[i] .. i :
           f[m] = f[i] /\ (m = f[i] \/ Joins(s[f[i]], s[m]))
      /\ \E j \in ends : f[j] <= k /\ k <= j
      /\ \A i, j \in ends : i < j => i < f[j]
  <2>1. IsStart(f, s) /\ k \in 1 .. n
    BY <1>1, <1>3
  <2>2. QED
    BY <1>3, <1>4, <2>1, Stretch, StretchEnds
<1>6. PICK c \in Ids : c = s[k] /\ c = Loadable[k]
  BY <1>1
<1>7. ASSUME NEW j \in ends
      PROVE  /\ LoadOf(s, f, j).type = "load" /\ LoadOf(s, f, j).flags = PhdrFlags(s[j])
             /\ LoadOf(s, f, j).vaddr = addr[s[f[j]]] /\ LoadOf(s, f, j).offset = offset[s[f[j]]]
             /\ LoadOf(s, f, j).vaddr + LoadOf(s, f, j).memsz = addr[s[j]] + SizeOf(s[j])
  <2>1. j \in 1 .. Len(s) /\ f[j] \in 1 .. Len(s) /\ f[j] <= j
    BY <1>3, <1>5
  <2>2. PICK a \in 1 .. Len(s) : a = f[j]
    BY <2>1
  <2>3. LoadOf(s, f, j) = Segment("load", PhdrFlags(s[j]), SubSeq(s, a, j))
    BY <2>2 DEF LoadOf
  <2>4. PICK x : x = LoadOf(s, f, j)
    OBVIOUS
  <2>5. /\ x.type = "load" /\ x.flags = PhdrFlags(s[j])
        /\ x.vaddr = AddrOf(s[a]) /\ x.offset = offset[s[a]]
        /\ x.memsz = AddrOf(s[j]) + SizeOf(s[j]) - AddrOf(s[a])
    BY <2>1, <2>2, <2>3, <2>4, SegmentPlace
  <2>6. /\ AddrOf(s[a]) = addr[s[a]] /\ AddrOf(s[j]) = addr[s[j]]
        /\ addr[s[a]] \in Nat /\ addr[s[j]] \in Nat /\ SizeOf(s[j]) \in Nat
    BY <1>2, <1>3
  <2>7. x.vaddr + x.memsz = addr[s[j]] + SizeOf(s[j])
    BY <2>5, <2>6
  <2>8. QED
    BY <2>2, <2>4, <2>5, <2>6, <2>7
<1>8. addr[c] \in Nat /\ SizeOf(c) \in Nat /\ SizeOf(c) > 0 /\ k \in 1 .. n
  BY <1>1, <1>2, <1>3, <1>6
<1>9. PICK j \in ends : f[j] <= k /\ k <= j
  BY <1>5
<1>10. ASSUME NEW i \in ends
       PROVE  /\ i = j => LoadOf(s, f, i).vaddr <= addr[c]
                          /\ addr[c] + SizeOf(c) <= LoadOf(s, f, i).vaddr + LoadOf(s, f, i).memsz
              /\ i # j => \/ addr[c] < LoadOf(s, f, i).vaddr
                          \/ LoadOf(s, f, i).vaddr + LoadOf(s, f, i).memsz < addr[c] + SizeOf(c)
  <2>1. PICK a \in 1 .. i : a = f[i]
    BY <1>5
  <2>2. a \in 1 .. n /\ i \in 1 .. n /\ k \in 1 .. n /\ j \in 1 .. n
    <3>1. i \in 1 .. n /\ j \in 1 .. n
      OBVIOUS
    <3>2. QED
      BY <1>8, <3>1
  <2>3. /\ LoadOf(s, f, i).vaddr = addr[s[a]]
        /\ LoadOf(s, f, i).vaddr + LoadOf(s, f, i).memsz = addr[s[i]] + SizeOf(s[i])
    BY <1>7, <2>1
  <2>4. /\ addr[s[a]] \in Nat /\ addr[s[i]] \in Nat /\ SizeOf(s[i]) \in Nat /\ SizeOf(s[a]) \in Nat
        /\ a < k => addr[s[a]] + SizeOf(s[a]) <= addr[c]
        /\ k < a => addr[c] + SizeOf(c) <= addr[s[a]]
        /\ i < k => addr[s[i]] + SizeOf(s[i]) <= addr[c]
        /\ k < i => addr[c] + SizeOf(c) <= addr[s[i]]
    BY <1>2, <1>3, <1>6, <2>2
  <2>5. ASSUME i = j
        PROVE  addr[s[a]] <= addr[c] /\ addr[c] + SizeOf(c) <= addr[s[i]] + SizeOf(s[i])
    <3>1. (a = k \/ a < k) /\ (k = i \/ k < i)
      BY <1>9, <2>1, <2>2, <2>5
    <3>2. PICK x \in Nat, y \in Nat, z \in Nat, w \in Nat :
             x = addr[s[a]] /\ y = SizeOf(s[a]) /\ z = addr[s[i]] /\ w = SizeOf(s[i])
      BY <2>4
    <3>3. PICK u \in Nat, v \in Nat : u = addr[c] /\ v = SizeOf(c)
      BY <1>8
    <3>4. (a = k => x = u) /\ (k = i => z = u /\ w = v)
      BY <1>6, <3>2, <3>3
    <3>5. (a < k => x + y <= u) /\ (k < i => u + v <= z)
      BY <2>4, <3>2, <3>3
    <3>6. x <= u /\ u + v <= z + w
      BY <3>1, <3>4, <3>5
    <3>7. QED
      BY <3>2, <3>3, <3>6
  <2>6. ASSUME i # j
        PROVE  addr[c] < addr[s[a]] \/ addr[s[i]] + SizeOf(s[i]) < addr[c] + SizeOf(c)
    <3>1. k < a \/ i < k
      <4>1. PICK b \in 1 .. n : b = f[j] /\ b <= k
        BY <1>5, <1>9, <2>2
      <4>2. i < j \/ j < i
        BY <2>2, <2>6
      <4>3. i < b \/ j < a
        BY <1>5, <2>1, <4>1, <4>2
      <4>4. QED
        BY <1>9, <2>2, <4>1, <4>3
    <3>2. PICK x \in Nat, z \in Nat, w \in Nat, u \in Nat, v \in Nat :
             /\ x = addr[s[a]] /\ z = addr[s[i]] /\ w = SizeOf(s[i])
             /\ u = addr[c] /\ v = SizeOf(c)
      BY <1>8, <2>4
    <3>3. u + v <= x \/ z + w <= u
      BY <2>4, <3>1, <3>2
    <3>4. v > 0
      BY <1>8, <3>2
    <3>5. u < x \/ z + w < u + v
      BY <3>3, <3>4
    <3>6. QED
      BY <3>2, <3>5
  <2>7. QED
    BY <2>3, <2>5, <2>6
<1>11. PICK S : S = {LoadOf(s, f, i) : i \in ends}
  OBVIOUS
<1>12. Covering(c, S) = {LoadOf(s, f, j)}
  <2>1. LoadOf(s, f, j) \in Covering(c, S)
    BY <1>7, <1>10, <1>11 DEF Covering
  <2>2. ASSUME NEW x \in Covering(c, S) PROVE x = LoadOf(s, f, j)
    <3>1. PICK i \in ends : x = LoadOf(s, f, i)
      BY <1>11, <2>2 DEF Covering
    <3>2. x.vaddr <= addr[c] /\ addr[c] + SizeOf(c) <= x.vaddr + x.memsz
      BY <2>2 DEF Covering
    <3>3. PICK v \in Nat, e \in Nat : v = x.vaddr /\ e = x.vaddr + x.memsz
      <4>1. PICK a \in 1 .. n : a = f[i] /\ i \in 1 .. n
        BY <1>5
      <4>2. addr[s[a]] \in Nat /\ addr[s[i]] \in Nat /\ SizeOf(s[i]) \in Nat
        BY <1>2, <1>3, <4>1
      <4>3. addr[s[i]] + SizeOf(s[i]) \in Nat
        BY <4>2
      <4>4. QED
        BY <1>7, <3>1, <4>1, <4>2, <4>3
    <3>4. ~(addr[c] < v) /\ ~(e < addr[c] + SizeOf(c))
      <4>1. PICK u \in Nat, z \in Nat : u = addr[c] /\ z = SizeOf(c)
        BY <1>8
      <4>2. v <= u /\ u + z <= e
        BY <3>2, <3>3, <4>1
      <4>3. ~(u < v) /\ ~(e < u + z)
        BY <4>2
      <4>4. QED
        BY <4>1, <4>3
    <3>5. i = j
      BY <1>10, <3>1, <3>3, <3>4
    <3>6. QED
      BY <3>1, <3>5
  <2>3. QED
    BY <2>1, <2>2
<1>13. Maps(LoadOf(s, f, j), c)
  <2>1. PICK a \in 1 .. n : a = f[j] /\ a <= j /\ k \in a .. j /\ j \in a .. j
    BY <1>5, <1>8, <1>9
  <2>2. (k = a \/ Joins(s[a], c)) /\ (j = a \/ Joins(s[a], s[j]))
    BY <1>5, <1>6, <2>1
  <2>3. PhdrFlags(s[j]) = PhdrFlags(s[a]) /\ PhdrFlags(c) = PhdrFlags(s[a])
    BY <1>6, <2>2 DEF Joins
  <2>4. /\ addr[s[a]] \in Nat /\ offset[s[a]] \in Nat /\ offset[c] \in Nat
        /\ AddrOf(s[a]) = addr[s[a]] /\ AddrOf(c) = addr[c]
    <3>1. a \in DOMAIN s /\ k \in DOMAIN s
      BY <1>3, <1>8
    <3>2. QED
      BY <1>2, <1>6, <3>1
  <2>5. offset[c] - offset[s[a]] = addr[c] - addr[s[a]]
    <3>1. c = s[a] \/ offset[c] - offset[s[a]] = AddrOf(c) - AddrOf(s[a])
      BY <1>6, <2>2 DEF Joins
    <3>2. QED
      BY <1>8, <2>4, <3>1
  <2>6. QED
    BY <1>7, <2>1, <2>3, <2>5 DEF Maps
<1>14. MappedBy(c, S)
  <2>1. Cardinality(Covering(c, S)) = 1
    BY <1>12, FS_Singleton
  <2>2. QED
    BY <1>12, <1>13, <2>1 DEF MappedBy
<1>15. QED
  BY <1>1, <1>4, <1>6, <1>11, <1>14

Late == {"symbols", "copy", "done", "null symbol", "incompatible"}

\* The program headers of the last round map every chunk.
MapInv ==
    phase \in Late /\ FewLoaded => \A c \in Loaded : SizeOf(c) # 0 => MappedBy(c, segments)

LEMMA RepeatMaps ==
    ASSUME IInv, Repeat, FewLoaded, NEW c \in Loaded, SizeOf(c) # 0
    PROVE  MappedBy(c, segments')
<1>1. /\ Settled /\ Addressed /\ SectionTypes /\ SizeTypes /\ PlaceTypes /\ LoopTypes /\ ListInv
      /\ phase = "program headers" /\ UpdatePhdr
  BY DEF IInv, TypeOK, Settled, Addressed, Repeat
<1>2. PICK order \in Orders : segments' = Loads(order) \union TlsSegments
  BY <1>1 DEF UpdatePhdr
<1>3. order = Loadable /\ order \in Seq(Ids)
  <2>1. phase # "addresses"
    BY <1>1
  <2>2. QED
    BY <1>1, <1>2, <2>1, StableOrder, LoadableCounted
<1>4. PICK f : /\ IsStart(f, order)
               /\ Loads(order) = {LoadOf(order, f, j) : j \in EndsOf(order, f)}
  <2>1. Len(order) \in Nat
    BY <1>3
  <2>2. QED
    BY <2>1, LoadsOfStart
<1>5. PICK k \in DOMAIN order : order[k] = c
  <2>1. PICK n \in Nat : n = Cardinality(Loaded) /\ DOMAIN order = 1 .. n
    <3>1. Len(order) = Cardinality(Loaded)
      BY <1>1, <1>3, LoadableCounted
    <3>2. PICK n \in Nat : n = Len(order) /\ DOMAIN order = 1 .. n
      BY <1>3
    <3>3. QED
      BY <3>1, <3>2
  <2>2. PICK g : LoadedBy(n, g)
    BY <1>1, <2>1, LoadableCounted
  <2>3. PICK i \in DOMAIN list : list[i] = c /\ LoadedAt(i)
    <3>1. c \in InList /\ Alloc(c)
      BY DEF Loaded
    <3>2. QED
      BY <1>1, <3>1, Positions DEF LoadedAt
  <2>4. PICK k \in 1 .. n : g[k] = i /\ Loadable[k] = list[g[k]]
    BY <2>2, <2>3 DEF LoadedBy
  <2>5. QED
    BY <1>3, <2>1, <2>3, <2>4
<1>6. MappedBy(c, Loads(order))
  <2>1. IsStart(f, Loadable) /\ k \in DOMAIN Loadable /\ SizeOf(Loadable[k]) # 0
    BY <1>3, <1>4, <1>5
  <2>2. MappedBy(Loadable[k], {LoadOf(Loadable, f, j) : j \in EndsOf(Loadable, f)})
    BY <1>1, <2>1, LoadMapped
  <2>3. PICK S : S = {LoadOf(Loadable, f, j) : j \in EndsOf(Loadable, f)}
    OBVIOUS
  <2>4. S = Loads(order)
    BY <1>3, <1>4, <2>3
  <2>5. MappedBy(c, S)
    BY <1>3, <1>5, <2>2, <2>3
  <2>6. QED
    BY <2>4, <2>5
<1>7. \A s \in TlsSegments : s.type # "load"
  <2>1. phase # "addresses"
    BY <1>1
  <2>2. \A s \in TlsSegments : s.type = "tls"
    BY <1>1, <2>1, TlsSegmentFacts
  <2>3. QED
    BY <2>2
<1>8. Covering(c, segments') = Covering(c, Loads(order))
  BY <1>2, <1>7 DEF Covering
<1>9. QED
  BY <1>6, <1>8 DEF MappedBy

\* The program headers that are written come from the last round.
LEMMA IntoLate ==
    ASSUME [Next]_vars, phase' \in Late
    PROVE  /\ section' = section /\ list' = list /\ addr' = addr /\ offset' = offset
           /\ (phase \in Late /\ segments' = segments) \/ Repeat
<1>1. CASE SortOutputSections \/ RemoveEmptyChunks \/ SetSectionIndices
  BY <1>1 DEF Late, SortOutputSections, RemoveEmptyChunks, SetSectionIndices
<1>2. CASE SetVirtualAddress
  BY <1>2 DEF Late, SetVirtualAddress, NextChunk
<1>3. CASE SetUnloadedOffset \/ SetFirstOffset \/ SetNextOffset
  <2>1. phase = "offsets" /\ phase' \in {"offsets", "program headers"}
    <3>1. phase = "offsets" /\ NextChunk("program headers")
      BY <1>3 DEF SetUnloadedOffset, SetFirstOffset, SetNextOffset, SetFileOffset
    <3>2. QED
      BY <3>1 DEF NextChunk
  <2>2. QED
    BY <2>1 DEF Late
<1>4. CASE Repeat
  BY <1>4 DEF Repeat
<1>5. CASE FixUpCrashes \/ FixUpSyntheticSymbols
  BY <1>5 DEF Late, FixUpCrashes, FixUpSyntheticSymbols, layoutVars
<1>6. CASE IncompatibleFiles \/ CopyEhdr \/ CopyShdr \/ CopyOther
  BY <1>6 DEF Late, IncompatibleFiles, CopyEhdr, CopyShdr, CopyOther, Copying, layoutVars
<1>7. CASE UNCHANGED vars
  BY <1>7 DEF vars, layoutVars
<1>8. QED
  BY <1>1, <1>2, <1>3, <1>4, <1>5, <1>6, <1>7 DEF Next, Terminated

LEMMA MapStep == IInv /\ MapInv /\ [Next]_vars => MapInv'
<1> SUFFICES ASSUME IInv, MapInv, [Next]_vars, phase' \in Late, FewLoaded',
                    NEW c \in Loaded', SizeOf(c)' # 0
             PROVE  MappedBy(c, segments)'
  BY DEF MapInv, Late
<1>1. /\ section' = section /\ list' = list /\ addr' = addr /\ offset' = offset
      /\ (phase \in Late /\ segments' = segments) \/ Repeat
  BY IntoLate
<1>2. Loaded' = Loaded
  BY <1>1, Unmoved
<1>3. FewLoaded /\ c \in Loaded
  BY <1>2 DEF FewLoaded
<1>4. SectionTypes /\ LoopTypes /\ ListInv
  BY DEF IInv, TypeOK
<1>5. c \in DOMAIN section /\ c # Ehdr /\ c # Phdr /\ c # Shdr
  <2>1. c \in InList /\ Alloc(c)
    BY <1>3 DEF Loaded
  <2>2. c \in Ids
    BY <1>4, <2>1, ListFacts, Positions
  <2>3. c \in DOMAIN section /\ c \notin Headers
    BY <1>4, <2>1, <2>2, ChunkTypes
  <2>4. QED
    BY <2>3, Constants
<1>6. SizeOf(c) # 0 /\ SizeOf(c)' = SizeOf(c)
  <2>1. SizeOf(c) = section[c].size
    BY <1>5 DEF SizeOf
  <2>2. SizeOf(c)' = section'[c].size
    BY <1>1, <1>5 DEF SizeOf, Ehdr, Phdr, Shdr
  <2>3. QED
    BY <1>1, <2>1, <2>2
<1>7. MappedBy(c, segments')
  <2>1. CASE Repeat
    BY <1>3, <1>6, <2>1, RepeatMaps
  <2>2. CASE phase \in Late /\ segments' = segments
    BY <1>3, <1>6, <2>2 DEF MapInv
  <2>3. QED
    BY <1>1, <2>1, <2>2
<1>8. Covering(c, segments)' = Covering(c, segments')
  BY <1>1, <1>6 DEF Covering
<1>9. \A s : Maps(s, c)' <=> Maps(s, c)
  BY <1>1 DEF Maps, PhdrFlags, FlagsOf
<1>10. QED
  BY <1>7, <1>8, <1>9 DEF MappedBy

LEMMA MapInit == Init => MapInv
BY DEF Init, MapInv, Late

\* The program headers that are written map all the bytes of a loaded chunk, once,
\* from where they are in the file and with its rights: as long as std::sort keeps
\* the order of chunks that have the same address.
THEOREM SegmentsCorrect == Spec => [](FewLoaded => SegmentsMap)
<1>1. Init => IInv /\ MapInv
  BY InvariantInit, MapInit
<1>2. (IInv /\ MapInv) /\ [Next]_vars => (IInv /\ MapInv)'
  BY InvariantStep, MapStep
<1>3. IInv /\ MapInv => (FewLoaded => SegmentsMap)
  <2> SUFFICES ASSUME MapInv, FewLoaded, phase = "done", NEW c \in Loaded, SizeOf(c) # 0
               PROVE  /\ Cardinality(Covering(c, segments)) = 1
                      /\ \A s \in Covering(c, segments) :
                           /\ s.flags = PhdrFlags(c)
                           /\ offset[c] - s.offset = addr[c] - s.vaddr
    BY DEF SegmentsMap, Covering
  <2>1. MappedBy(c, segments)
    BY DEF MapInv, Late
  <2>2. QED
    BY <2>1 DEF MappedBy, Maps
<1>4. QED
  BY <1>1, <1>2, <1>3, PTL DEF Spec

-----------------------------------------------------------------------------
(***************************************************************************)
(* How far the file is behind memory, and where that changes.              *)
(***************************************************************************)
Shift(i) == addr[list[i]] - offset[list[i]]

SameRights(i) == LoadedAt(i) /\ LoadedAt(i-1) /\ PhdrFlags(list[i-1]) = PhdrFlags(list[i])

\* Chunk i is aligned above a page, and the chunk before it is not shifted by a
\* multiple of that: where the chunk must go in the file is not where it would
\* be if the distance were the same as in memory.
Breaks(i) ==
    /\ AlignOf(list[i]) > Page
    /\ Shift(i) % AlignOf(list[i]) = 0 /\ Shift(i-1) % AlignOf(list[i]) # 0

\* Among chunks of the same rights, the shift changes only so.
ShiftInv ==
    /\ \A i \in DOMAIN list : Written(i) /\ SameRights(i) => Shift(i) = Shift(i-1) \/ Breaks(i)
    /\ phase = "offsets" /\ LoadedAt(at-1) => run # 0

LEMMA MultipleOf ==
    ASSUME NEW x \in Int, NEW a \in Nat \ {0}, x % a = 0
    PROVE  \E p \in Int : x = p * a
<1>1. x = (x \div a) * a + (x % a) /\ x \div a \in Int
  BY DivisionFacts
<1>2. PICK p \in Int : p = x \div a
  BY <1>1
<1>3. x = p * a
  BY <1>1, <1>2
<1>4. QED
  BY <1>3

\* Two multiples of a number are at least that number apart.
LEMMA MultiplesApart ==
    ASSUME NEW x \in Int, NEW y \in Int, NEW a \in Nat \ {0}, x % a = 0, y % a = 0, x < y
    PROVE  x + a <= y
<1>1. PICK p \in Int : x = p * a
  BY MultipleOf
<1>2. PICK q \in Int : y = q * a
  BY MultipleOf
<1>3. p < q
  <2>1. ASSUME q <= p PROVE FALSE
    <3>1. q * a <= p * a
      BY <2>1, ProductMonotonic
    <3>2. QED
      BY <1>1, <1>2, <3>1
  <2>2. QED
    BY <2>1
<1>4. PICK r \in Int : r = p + 1 /\ r <= q
  BY <1>3
<1>5. r * a <= q * a /\ r * a = p * a + a
  BY <1>4, ProductMonotonic
<1>6. QED
  BY <1>1, <1>2, <1>5

\* align_to shifts with its value, by multiples of the alignment.
LEMMA AlignShifted ==
    ASSUME NEW v \in Nat, NEW w \in Nat, NEW a \in Nat \ {0}, (v - w) % a = 0
    PROVE  AlignTo(w, a) - AlignTo(v, a) = w - v
<1>1. PICK m : m = AlignTo(v, a)
  OBVIOUS
<1>2. PICK n : n = AlignTo(w, a)
  OBVIOUS
<1>3. m \in Nat /\ v <= m /\ m < v + a /\ m % a = 0
  BY <1>1, AlignedUp DEF AlignTo
<1>4. n \in Nat /\ w <= n /\ n < w + a /\ n % a = 0
  BY <1>2, AlignedUp DEF AlignTo
<1>5. PICK d \in Int : d = v - w /\ d % a = 0
  OBVIOUS
<1>6. PICK k \in Int : k = m - d
  BY <1>3
<1>7. k % a = 0
  <2>1. m \in Int
    BY <1>3
  <2>2. (m - d) % a = 0
    BY <1>3, <1>5, <2>1, DifferenceDivides
  <2>3. QED
    BY <1>6, <2>2
<1>8. w <= k /\ k < w + a
  BY <1>3, <1>5, <1>6
<1>9. n = k
  <2>1. n \in Int /\ n % a = 0
    BY <1>4
  <2>2. k < n => k + a <= n
    BY <1>7, <2>1, MultiplesApart
  <2>3. n < k => n + a <= k
    BY <1>7, <2>1, MultiplesApart
  <2>4. QED
    BY <1>4, <1>8, <2>2, <2>3
<1>10. n - m = w - v
  BY <1>3, <1>5, <1>6, <1>9
<1>11. QED
  BY <1>1, <1>2, <1>10

\* The first thread-local chunk has other rights than the one before it.
LEMMA SameRightsAlignment ==
    ASSUME SectionTypes, LoopTypes, ListInv, NEW i \in DOMAIN list, SameRights(i)
    PROVE  Alignment(list[i]) = AlignOf(list[i])
<1>1. SUFFICES ASSUME IsFirstTls(list[i]) PROVE FALSE
  BY DEF Alignment
<1>2. /\ DOMAIN list = 1 .. Len(list) /\ Len(list) \in Nat /\ i \in Nat
      /\ \A k \in DOMAIN list : list[k] \in Ids
      /\ \A k, j \in DOMAIN list : k # j => list[k] # list[j]
  BY ListFacts
<1>3. i - 1 \in DOMAIN list /\ Alloc(list[i-1]) /\ Alloc(list[i]) /\ list[i-1] \in Ids
  BY <1>2 DEF SameRights, LoadedAt
<1>4. i \in TlsPositions /\ \A j \in TlsPositions : i <= j
  BY <1>1, <1>2 DEF IsFirstTls, TlsPositions
<1>5. Tls(list[i]) /\ ~Tls(list[i-1])
  BY <1>2, <1>3, <1>4 DEF TlsPositions
<1>6. "write" \in FlagsOf(list[i-1])
  <2>1. "write" \in PhdrFlags(list[i])
    BY <1>2, <1>5, ChunkTypes DEF PhdrFlags
  <2>2. QED
    BY <2>1 DEF SameRights, PhdrFlags
<1>7. RankOf(list[i-1]) >= 1344
  <2>1. list[i-1] \notin Headers
    BY <1>3, ChunkTypes
  <2>2. QED
    BY <1>3, <1>5, <1>6, <2>1, Constants DEF RankOf
<1>8. Before(list[i-1], list[i])
  BY <1>2, <1>3, ListFacts
<1>9. RankOf(list[i-1]) <= RankOf(list[i]) /\ RankOf(list[i]) = 1280 /\ RankOf(list[i-1]) \in Nat
  BY <1>2, <1>3, <1>5, <1>8, Ranks, BeforeOrders
<1>10. QED
  BY <1>7, <1>9

\* Set_file_offsets keeps ShiftInv if the offset n does.
LEMMA ShiftGiven ==
    ASSUME Addressed, Filed, ShiftInv, phase = "offsets", NEW n \in Nat, NEW first,
           SetFileOffset(n, first),
           LoadedAt(at) => first # 0,
           SameRights(at) =>
             \/ addr[list[at]] - n = Shift(at - 1)
             \/ /\ AlignOf(list[at]) > Page
                /\ (addr[list[at]] - n) % AlignOf(list[at]) = 0
                /\ Shift(at - 1) % AlignOf(list[at]) # 0
    PROVE  ShiftInv'
<1>1. /\ DOMAIN list = 1 .. Len(list) /\ Len(list) \in Nat
      /\ \A i \in DOMAIN list : list[i] \in Ids
      /\ \A i, j \in DOMAIN list : i # j => list[i] # list[j]
  BY ListFacts DEF Filed
<1>2. at \in DOMAIN list /\ at \in Nat
  BY FileEndFacts
<1>3. section' = section /\ list' = list /\ addr' = addr /\ run' = first
      /\ offset' = [offset EXCEPT ![list[at]] = n]
  BY DEF SetFileOffset
<1>4. /\ phase' = IF at = Len(list) THEN "program headers" ELSE "offsets"
      /\ at' = IF at = Len(list) THEN 1 ELSE at + 1
  BY DEF SetFileOffset, NextChunk
<1>5. offset'[list[at]] = n /\ \A i \in DOMAIN list : i # at => offset'[list[i]] = offset[list[i]]
  BY <1>1, <1>2, <1>3 DEF Filed, PlaceTypes
<1>6. /\ \A i : LoadedAt(i)' <=> LoadedAt(i)
      /\ \A i : SameRights(i)' <=> SameRights(i)
      /\ \A i : AlignOf(list[i])' = AlignOf(list[i])
  BY <1>3 DEF LoadedAt, SameRights, Alloc, PhdrFlags, FlagsOf, AlignOf
<1>7. \A i \in DOMAIN list : i # at => Shift(i)' = Shift(i)
  BY <1>3, <1>5 DEF Shift
<1>8. \A i \in DOMAIN list : i = at => Shift(i)' = addr[list[i]] - n
  BY <1>3, <1>5 DEF Shift
<1>9. ASSUME NEW i \in DOMAIN list, Written(i)' PROVE i <= at
  <2>0. PICK m \in Nat : m = Len(list) /\ i \in 1 .. m
    BY <1>1
  <2>1. CASE at = Len(list)
    BY <2>0, <2>1
  <2>2. CASE at # Len(list)
    <3>1. phase' = "offsets" /\ at' = at + 1
      BY <1>4, <2>2
    <3>2. i < at'
      BY <1>9, <3>1 DEF Written
    <3>3. QED
      BY <1>2, <2>0, <3>1, <3>2
  <2>3. QED
    BY <2>1, <2>2
<1>10. ASSUME NEW i \in DOMAIN list, Written(i)', SameRights(i)
       PROVE  Shift(i)' = Shift(i-1)' \/ Breaks(i)'
  <2>1. i \in Nat /\ i - 1 \in DOMAIN list /\ i - 1 # at
    <3>1. i \in Nat /\ i <= at /\ i - 1 \in DOMAIN list
      BY <1>1, <1>9, <1>10 DEF SameRights, LoadedAt
    <3>2. QED
      BY <1>2, <3>1
  <2>2. Shift(i-1)' = Shift(i-1)
    BY <1>7, <2>1
  <2>3. CASE i = at
    <3>1. \/ Shift(i)' = Shift(i-1)
          \/ /\ AlignOf(list[i]) > Page
             /\ Shift(i)' % AlignOf(list[i]) = 0 /\ Shift(i-1) % AlignOf(list[i]) # 0
      <4>1. Shift(i)' = addr[list[i]] - n
        BY <1>8, <2>3
      <4>2. SameRights(at)
        BY <1>10, <2>3
      <4>3. QED
        BY <2>3, <4>1, <4>2
    <3>2. QED
      BY <1>6, <2>2, <3>1 DEF Breaks
  <2>4. CASE i # at
    <3>1. Written(i)
      <4>1. i < at
        BY <1>2, <1>9, <1>10, <2>1, <2>4
      <4>2. QED
        BY <4>1 DEF Written
    <3>2. Shift(i) = Shift(i-1) \/ Breaks(i)
      BY <1>10, <3>1 DEF ShiftInv
    <3>3. Shift(i)' = Shift(i)
      BY <1>7, <2>4
    <3>4. QED
      BY <1>6, <2>2, <3>2, <3>3 DEF Breaks
  <2>5. QED
    BY <2>3, <2>4
<1>11. ASSUME phase' = "offsets", LoadedAt(at-1)' PROVE run' # 0
  <2>1. at' - 1 = at
    BY <1>2, <1>4, <1>11
  <2>2. LoadedAt(at)
    BY <1>3, <1>11, <2>1 DEF LoadedAt, Alloc, FlagsOf
  <2>3. QED
    BY <1>3, <2>2
<1>12. \A i \in DOMAIN list' : Written(i)' /\ SameRights(i)' => Shift(i)' = Shift(i-1)' \/ Breaks(i)'
  BY <1>3, <1>6, <1>10
<1>13. QED
  BY <1>11, <1>12 DEF ShiftInv

LEMMA UnloadedShift ==
    ASSUME Addressed, Filed, ShiftInv, SetUnloadedOffset
    PROVE  ShiftInv'
<1>1. phase = "offsets" /\ ~LoadedAt(at) /\ ~SameRights(at)
  BY DEF SetUnloadedOffset, LoadedAt, SameRights
<1>2. PICK v \in Nat : v = FileEnd
  BY <1>1, FileEndFacts
<1>3. PICK a \in Nat \ {0} : a = AlignOf(list[at])
  BY <1>1, FileEndFacts, ChunkTypes DEF Filed
<1>4. PICK n \in Nat : n = AlignTo(FileEnd, AlignOf(list[at]))
  <2>1. PICK n : n = AlignTo(v, a)
    OBVIOUS
  <2>2. n \in Nat
    BY <2>1, AlignedUp DEF AlignTo
  <2>3. QED
    BY <1>2, <1>3, <2>1, <2>2
<1>5. SetFileOffset(n, 0)
  BY <1>4 DEF SetUnloadedOffset
<1>6. QED
  BY <1>1, <1>5, ShiftGiven

\* A chunk with the rights of the one before begins a run only behind a gap, which
\* takes an alignment of more than a page: on disk there is no such gap, but the
\* alignment is kept.
LEMMA FirstShift ==
    ASSUME Addressed, Filed, ShiftInv, SetFirstOffset
    PROVE  ShiftInv'
<1>1. phase = "offsets" /\ Alloc(list[at]) /\ ~Adjoins
  BY DEF SetFirstOffset
<1>2. /\ at \in DOMAIN list /\ at \in Nat /\ list[at] \in Ids
      /\ at > 1 => FileEnd = FileEndAt(at - 1) /\ Written(at - 1) /\ at - 1 \in DOMAIN list
      /\ FileEnd \in Nat
  BY <1>1, FileEndFacts
<1>3. LoadedAt(at) /\ addr[list[at]] # Unplaced /\ addr[list[at]] \in Nat
  BY <1>1, <1>2, LoadedHere
<1>4. PICK a \in Nat \ {0} : a = AlignOf(list[at])
  BY <1>2, ChunkTypes DEF Filed
<1>5. PICK v \in Nat : v = FileEnd
  BY <1>2
<1>6. PICK w \in Nat : w = addr[list[at]]
  BY <1>3
<1>7. PICK p \in Nat \ {0} : p = Page
  BY Constants
<1>8. PICK n : n = IF a > p THEN AlignTo(v, a) ELSE AlignWithSkew(v, p, w)
  OBVIOUS
<1>9. n \in Nat
  <2>1. CASE a > p
    BY <1>8, <2>1, AlignedUp DEF AlignTo
  <2>2. CASE ~(a > p)
    <3>1. PICK x \in Nat : /\ x = (v \div p) * p + (w % p)
                           /\ v < x + p
                           /\ x % p = w % p /\ (x + p) % p = w % p
      BY SkewFacts, Zenon
    <3>2. n = IF v <= x THEN x ELSE x + p
      BY <1>8, <2>2, <3>1 DEF AlignWithSkew
    <3>3. QED
      BY <3>2
  <2>3. QED
    BY <2>1, <2>2
<1>10. SetFileOffset(n, at) /\ at # 0
  <2>1. SetFileOffset(n, at)
    BY <1>4, <1>5, <1>6, <1>7, <1>8 DEF SetFirstOffset
  <2>2. at # 0
    BY <1>2, ListFacts DEF Filed
  <2>3. QED
    BY <2>1, <2>2
<1>11. ASSUME SameRights(at)
       PROVE  \/ w - n = Shift(at - 1)
              \/ a > p /\ (w - n) % a = 0 /\ Shift(at - 1) % a # 0
  <2>1. at > 1 /\ at - 1 \in DOMAIN list /\ LoadedAt(at - 1)
    <3>1. at - 1 \in DOMAIN list /\ LoadedAt(at - 1)
      BY <1>11 DEF SameRights, LoadedAt
    <3>2. DOMAIN list = 1 .. Len(list) /\ Len(list) \in Nat
      BY ListFacts DEF Filed
    <3>3. QED
      BY <1>2, <3>1, <3>2
  <2>2. addr[list[at-1]] # Unplaced /\ PosAt(at) = EndAt(at - 1)
    BY <1>2, <1>3, <2>1, AddressFacts DEF PosAt
  <2>3. PICK q \in Nat, z \in Nat : q = addr[list[at-1]] /\ z = SizeOf(list[at-1]) /\ EndAt(at-1) = q + z
    BY <2>1, <2>2, EndTyped
  <2>4. PICK t \in Nat : t = offset[list[at-1]] /\ v = t + z
    BY <1>2, <1>5, <2>1, <2>3, FileFacts
  <2>5. run # 0
    BY <1>1, <2>1 DEF ShiftInv
  <2>6. w - q - z \notin 0 .. p - 1
    BY <1>1, <1>6, <1>7, <2>3, <2>5 DEF Adjoins
  <2>7. StartAt(at) = q + z
    BY <1>11, <2>2, <2>3 DEF StartAt, SameRights
  <2>8. w = AlignTo(q + z, a)
    <3>1. addr[list[at]] = AlignTo(StartAt(at), Alignment(list[at]))
      BY <1>2, <1>3 DEF Addressed, AddressInv, ComputedAt
    <3>2. Alignment(list[at]) = AlignOf(list[at])
      BY <1>2, <1>11, SameRightsAlignment DEF Addressed
    <3>3. QED
      BY <1>4, <1>6, <2>7, <3>1, <3>2
  <2>9. PICK u \in Nat : u = q + z
    OBVIOUS
  <2>10. u <= w /\ w < u + a /\ w % a = 0
    <3>1. w = ((u + a - 1) \div a) * a
      BY <2>8, <2>9 DEF AlignTo
    <3>2. QED
      BY <3>1, AlignedUp
  <2>11. a > p
    <3>1. w - u \notin 0 .. p - 1
      BY <2>6, <2>9
    <3>2. QED
      BY <2>10, <3>1
  <2>12. n = AlignTo(v, a)
    BY <1>8, <2>11
  <2>13. n % a = 0
    <3>1. n = ((v + a - 1) \div a) * a
      BY <2>12 DEF AlignTo
    <3>2. QED
      BY <3>1, AlignedUp
  <2>14. (w - n) % a = 0
    <3>1. w \in Int /\ n \in Int
      BY <1>9
    <3>2. QED
      BY <2>10, <2>13, <3>1, DifferenceDivides
  <2>15. Shift(at - 1) = u - v
    BY <2>3, <2>4, <2>9 DEF Shift
  <2>16. CASE (v - u) % a = 0
    <3>1. AlignTo(u, a) - AlignTo(v, a) = u - v
      BY <2>16, AlignShifted
    <3>2. QED
      BY <2>8, <2>9, <2>12, <2>15, <3>1
  <2>17. CASE (v - u) % a # 0
    <3>1. (u - v) % a # 0
      <4>1. ASSUME (u - v) % a = 0 PROVE FALSE
        <5>1. PICK d \in Int : d = u - v
          OBVIOUS
        <5>2. PICK o \in Int : o = 0 /\ o % a = 0
          <6>1. (0 * a) % a = 0
            BY MultipleDivides
          <6>2. QED
            BY <6>1
        <5>3. (o - d) % a = 0
          BY <4>1, <5>1, <5>2, DifferenceDivides
        <5>4. o - d = v - u
          BY <5>1, <5>2
        <5>5. QED
          BY <2>17, <5>3, <5>4
      <4>2. QED
        BY <4>1
    <3>2. QED
      BY <2>11, <2>14, <2>15, <3>1
  <2>18. QED
    BY <2>16, <2>17
<1>12. QED
  BY <1>1, <1>4, <1>6, <1>7, <1>9, <1>10, <1>11, ShiftGiven

LEMMA NextShift ==
    ASSUME Addressed, Filed, ShiftInv, SetNextOffset
    PROVE  ShiftInv'
<1>1. /\ phase = "offsets" /\ run # 0 /\ Alloc(list[at])
      /\ SetFileOffset(offset[list[run]] + addr[list[at]] - addr[list[run]], run)
  BY DEF SetNextOffset, Adjoins
<1>2. at \in DOMAIN list /\ at \in Nat
  BY <1>1, FileEndFacts
<1>3. LoadedAt(at) /\ addr[list[at]] \in Nat
  BY <1>1, <1>2, LoadedHere
<1>4. /\ run < at
      /\ \A i \in run .. at - 1 :
           /\ LoadedAt(i)
           /\ offset[list[i]] - offset[list[run]] = addr[list[i]] - addr[list[run]]
  BY <1>1 DEF Filed, OffsetInv
<1>5. run \in Nat /\ run \in run .. at - 1 /\ at - 1 \in run .. at - 1
  BY <1>1, <1>2, <1>4 DEF Filed, LoopTypes
<1>6. /\ run \in DOMAIN list /\ LoadedAt(run) /\ Written(run)
      /\ at - 1 \in DOMAIN list /\ LoadedAt(at - 1) /\ Written(at - 1)
  BY <1>1, <1>2, <1>4, <1>5 DEF LoadedAt, Written
<1>7. PICK p \in Nat, q \in Nat : p = addr[list[run]] /\ q = offset[list[run]]
  <2>1. addr[list[run]] # Unplaced
    BY <1>1, <1>6 DEF Addressed, AddressInv
  <2>2. QED
    BY <1>6, <2>1, EndTyped, FileFacts
<1>8. PICK r \in Nat, t \in Nat : r = addr[list[at-1]] /\ t = offset[list[at-1]]
  <2>1. addr[list[at-1]] # Unplaced
    BY <1>1, <1>6 DEF Addressed, AddressInv
  <2>2. QED
    BY <1>6, <2>1, EndTyped, FileFacts
<1>9. PICK w \in Nat : w = addr[list[at]]
  BY <1>3
<1>10. t - q = r - p
  BY <1>4, <1>5, <1>7, <1>8
<1>11. PICK n : n = q + w - p
  OBVIOUS
<1>12. n \in Nat /\ w - n = r - t
  <2>1. PICK s \in Nat : s = SizeOf(list[at-1])
    BY <1>6, FileFacts
  <2>2. w - r - s \in Nat
    <3>1. addr[list[at]] - addr[list[at-1]] - SizeOf(list[at-1]) \in 0 .. Page - 1 /\ Page \in Nat
      BY Constants DEF SetNextOffset, Adjoins
    <3>2. w - r - s \in 0 .. Page - 1 /\ Page \in Nat
      BY <1>8, <1>9, <2>1, <3>1
    <3>3. QED
      BY <3>2
  <2>3. n = t + (w - r)
    BY <1>10, <1>11
  <2>4. QED
    BY <2>2, <2>3
<1>13. SetFileOffset(n, run)
  BY <1>1, <1>7, <1>9, <1>11
<1>14. Shift(at - 1) = r - t
  BY <1>8 DEF Shift
<1>15. addr[list[at]] - n = Shift(at - 1)
  BY <1>9, <1>12, <1>14
<1>16. QED
  BY <1>1, <1>12, <1>13, <1>15, ShiftGiven

LEMMA ShiftInit == Init => ShiftInv
BY DEF Init, ShiftInv, Written

LEMMA ShiftStep == IInv /\ ShiftInv /\ [Next]_vars => ShiftInv'
<1> SUFFICES ASSUME IInv, ShiftInv, [Next]_vars PROVE ShiftInv'
  OBVIOUS
<1>1. Addressed /\ Filed /\ LoopTypes
  BY DEF IInv, TypeOK, Addressed, Filed
<1>2. ASSUME phase' \in {"headers", "indices", "addresses"} PROVE ShiftInv'
  BY <1>2 DEF ShiftInv, Written
<1>3. ASSUME section' = section, list' = list, addr' = addr, offset' = offset,
             phase' # "offsets",
             phase \in {"program headers", "symbols", "copy", "done", "null symbol", "incompatible"}
      PROVE  ShiftInv'
  <2>1. /\ \A i : SameRights(i)' <=> SameRights(i)
        /\ \A i : Shift(i)' = Shift(i)
        /\ \A i : AlignOf(list[i])' = AlignOf(list[i])
    BY <1>3 DEF SameRights, LoadedAt, Alloc, PhdrFlags, FlagsOf, Shift, AlignOf
  <2>2. \A i : Breaks(i)' <=> Breaks(i)
    BY <2>1 DEF Breaks
  <2>3. \A i \in DOMAIN list : Written(i)
    BY <1>3 DEF Written
  <2>4. \A i \in DOMAIN list : SameRights(i) => Shift(i) = Shift(i-1) \/ Breaks(i)
    BY <2>3 DEF ShiftInv
  <2>5. QED
    BY <1>3, <2>1, <2>2, <2>4 DEF ShiftInv
<1>4. CASE SortOutputSections \/ RemoveEmptyChunks \/ SetSectionIndices
  BY <1>2, <1>4 DEF SortOutputSections, RemoveEmptyChunks, SetSectionIndices
<1>5. CASE SetVirtualAddress
  <2>1. phase = "addresses" /\ list' = list /\ section' = section /\ NextChunk("offsets")
    BY <1>5 DEF SetVirtualAddress
  <2>2. phase' = "addresses" \/ (phase' = "offsets" /\ at' = 1)
    BY <2>1 DEF NextChunk
  <2>3. ASSUME phase' = "offsets", at' = 1 PROVE ShiftInv'
    <3>1. DOMAIN list = 1 .. Len(list) /\ Len(list) \in Nat
      BY <1>1, ListFacts DEF Filed
    <3>2. \A i \in DOMAIN list' : ~Written(i)'
      BY <2>1, <2>3, <3>1 DEF Written
    <3>3. ~LoadedAt(at-1)'
      <4>1. at' - 1 \notin DOMAIN list'
        BY <2>1, <2>3, <3>1
      <4>2. QED
        BY <4>1 DEF LoadedAt
    <3>4. QED
      BY <3>2, <3>3 DEF ShiftInv
  <2>4. QED
    BY <1>2, <2>2, <2>3
<1>6. CASE SetUnloadedOffset \/ SetFirstOffset \/ SetNextOffset
  BY <1>1, <1>6, UnloadedShift, FirstShift, NextShift
<1>7. CASE Repeat
  <2>1. /\ phase = "program headers" /\ section' = section /\ list' = list
        /\ addr' = addr /\ offset' = offset /\ phase' \in {"symbols", "addresses"}
    BY <1>7 DEF Repeat
  <2>2. QED
    BY <1>2, <1>3, <2>1
<1>8. CASE FixUpCrashes \/ FixUpSyntheticSymbols
  BY <1>3, <1>8 DEF FixUpCrashes, FixUpSyntheticSymbols, layoutVars
<1>9. CASE IncompatibleFiles \/ CopyEhdr \/ CopyShdr \/ CopyOther
  <2>1. /\ phase = "copy" /\ section' = section /\ list' = list
        /\ addr' = addr /\ offset' = offset /\ phase' \in {"copy", "done", "incompatible"}
    BY <1>9 DEF IncompatibleFiles, CopyEhdr, CopyShdr, CopyOther, Copying, layoutVars, NextChunk
  <2>2. QED
    BY <1>3, <2>1
<1>10. CASE UNCHANGED vars
  <2>1. /\ section' = section /\ list' = list /\ addr' = addr /\ offset' = offset
        /\ phase' = phase /\ at' = at /\ run' = run
    BY <1>10 DEF vars, layoutVars
  <2>2. /\ \A i : SameRights(i)' <=> SameRights(i)
        /\ \A i : Shift(i)' = Shift(i)
        /\ \A i : AlignOf(list[i])' = AlignOf(list[i])
        /\ \A i : Written(i)' <=> Written(i)
        /\ LoadedAt(at-1)' <=> LoadedAt(at-1)
    BY <2>1 DEF SameRights, LoadedAt, Alloc, PhdrFlags, FlagsOf, Shift, AlignOf, Written
  <2>3. \A i : Breaks(i)' <=> Breaks(i)
    BY <2>2 DEF Breaks
  <2>4. QED
    BY <2>1, <2>2, <2>3 DEF ShiftInv
<1>11. QED
  BY <1>4, <1>5, <1>6, <1>7, <1>8, <1>9, <1>10 DEF Next, Terminated

\* The rank of a loaded chunk tells its rights.
LEMMA RightsRank ==
    ASSUME SectionTypes, NEW c \in Ids, Alloc(c)
    PROVE  \E m \in 8 .. 11 :
             /\ RankOf(c) = 128 * m \/ RankOf(c) = 128 * m + 64
             /\ "write" \in FlagsOf(c) <=> m >= 10
             /\ "exec" \in FlagsOf(c) <=> m \in {9, 11}
<1>1. c # Ehdr /\ c # Phdr /\ c # Shdr
  <2>1. c \notin Headers
    BY ChunkTypes
  <2>2. QED
    BY <2>1, Constants
<1>2. PICK w \in {0, 1}, x \in {0, 1}, t \in {0, 1} :
         /\ RankOf(c) = 1024 + 256 * w + 128 * x + 64 * t
         /\ "write" \in FlagsOf(c) <=> w = 1
         /\ "exec" \in FlagsOf(c) <=> x = 1
  <2>1. PICK w : w = IF "write" \in FlagsOf(c) THEN 1 ELSE 0
    OBVIOUS
  <2>2. PICK x : x = IF "exec" \in FlagsOf(c) THEN 1 ELSE 0
    OBVIOUS
  <2>3. PICK t : t = IF Tls(c) THEN 0 ELSE 1
    OBVIOUS
  <2>4. w \in {0, 1} /\ x \in {0, 1} /\ t \in {0, 1}
    BY <2>1, <2>2, <2>3
  <2>5. RankOf(c) = 1024 + 256 * w + 128 * x + 64 * t
    BY <1>1, <2>1, <2>2, <2>3 DEF RankOf
  <2>6. QED
    BY <2>1, <2>2, <2>4, <2>5
<1>3. PICK m \in 8 .. 11 : m = 8 + 2 * w + x
  OBVIOUS
<1>4. QED
  BY <1>2, <1>3

\* Loaded chunks of the same rights follow each other in the list.
LEMMA RightsContiguous ==
    ASSUME SectionTypes, LoopTypes, ListInv,
           NEW i \in DOMAIN list, NEW j \in DOMAIN list, NEW k \in DOMAIN list, i < j, j < k,
           LoadedAt(i), LoadedAt(j), LoadedAt(k), PhdrFlags(list[i]) = PhdrFlags(list[k])
    PROVE  PhdrFlags(list[j]) = PhdrFlags(list[i])
<1>1. list[i] \in Ids /\ list[j] \in Ids /\ list[k] \in Ids
  BY ListFacts
<1>2. PICK a \in 8 .. 11 : /\ RankOf(list[i]) = 128 * a \/ RankOf(list[i]) = 128 * a + 64
                           /\ "write" \in FlagsOf(list[i]) <=> a >= 10
                           /\ "exec" \in FlagsOf(list[i]) <=> a \in {9, 11}
  BY <1>1, RightsRank DEF LoadedAt
<1>3. PICK b \in 8 .. 11 : /\ RankOf(list[j]) = 128 * b \/ RankOf(list[j]) = 128 * b + 64
                           /\ "write" \in FlagsOf(list[j]) <=> b >= 10
                           /\ "exec" \in FlagsOf(list[j]) <=> b \in {9, 11}
  BY <1>1, RightsRank DEF LoadedAt
<1>4. PICK d \in 8 .. 11 : /\ RankOf(list[k]) = 128 * d \/ RankOf(list[k]) = 128 * d + 64
                           /\ "write" \in FlagsOf(list[k]) <=> d >= 10
                           /\ "exec" \in FlagsOf(list[k]) <=> d \in {9, 11}
  BY <1>1, RightsRank DEF LoadedAt
<1>5. a = d
  <2>1. "write" \in FlagsOf(list[i]) <=> "write" \in FlagsOf(list[k])
    BY DEF PhdrFlags
  <2>2. "exec" \in FlagsOf(list[i]) <=> "exec" \in FlagsOf(list[k])
    BY DEF PhdrFlags
  <2>3. QED
    BY <1>2, <1>4, <2>1, <2>2
<1>6. RankOf(list[i]) <= RankOf(list[j]) /\ RankOf(list[j]) <= RankOf(list[k])
  <2>1. list[j] # SymtabShndx /\ list[k] # SymtabShndx
    <3>1. SymtabShndx \notin Names
      BY Constants
    <3>2. QED
      BY <1>1, <3>1, ChunkTypes DEF LoadedAt
  <2>2. Before(list[i], list[j]) /\ Before(list[j], list[k])
    BY <2>1 DEF ListInv
  <2>3. QED
    BY <1>2, <1>3, <1>4, <2>2 DEF Before
<1>7. b = a
  <2>1. PICK x \in Nat, y \in Nat, z \in Nat :
           x = RankOf(list[i]) /\ y = RankOf(list[j]) /\ z = RankOf(list[k])
    BY <1>2, <1>3, <1>4
  <2>2. QED
    BY <1>2, <1>3, <1>4, <1>5, <1>6, <2>1
<1>8. QED
  BY <1>2, <1>3, <1>7 DEF PhdrFlags

-----------------------------------------------------------------------------
(***************************************************************************)
(* How many PT_LOAD of the same rights there are.                          *)
(***************************************************************************)
ShiftOf(c) == addr[c] - offset[c]
GreatAlignments == {AlignOf(c) : c \in {d \in Loaded : AlignOf(d) > Page}}

\* Breaks, by the position in the loaded chunks.
BreaksIn(s, i) ==
    /\ AlignOf(s[i]) > Page
    /\ ShiftOf(s[i]) % AlignOf(s[i]) = 0 /\ ShiftOf(s[i-1]) % AlignOf(s[i]) # 0

\* What the passes have made of the loaded chunks s.
Shifted(s) ==
    /\ s \in Seq(Ids)
    /\ \A i \in DOMAIN s : /\ addr[s[i]] \in Nat /\ offset[s[i]] \in Nat
                           /\ AddrOf(s[i]) = addr[s[i]] /\ AlignOf(s[i]) \in Nat \ {0}
                           /\ AlignOf(s[i]) > Page => AlignOf(s[i]) \in GreatAlignments
    /\ \A i, j \in DOMAIN s : AlignOf(s[i]) <= AlignOf(s[j]) => AlignOf(s[j]) % AlignOf(s[i]) = 0
    /\ \A i, j, k \in DOMAIN s :
         i < j /\ j < k /\ PhdrFlags(s[i]) = PhdrFlags(s[k]) => PhdrFlags(s[j]) = PhdrFlags(s[i])
    /\ \A i \in DOMAIN s : i > 1 /\ PhdrFlags(s[i-1]) = PhdrFlags(s[i]) =>
         ShiftOf(s[i]) = ShiftOf(s[i-1]) \/ BreaksIn(s, i)

\* One loaded chunk after the other, in the list as well.
LEMMA LoadedNext ==
    ASSUME SectionTypes, LoopTypes, ListInv, NEW n \in Nat, NEW g, LoadedBy(n, g),
           NEW i \in 2 .. n
    PROVE  g[i-1] = g[i] - 1
<1>1. /\ DOMAIN list = 1 .. Len(list) /\ Len(list) \in Nat
  BY ListFacts
<1>2. /\ \A m \in 1 .. n : g[m] \in DOMAIN list /\ LoadedAt(g[m])
      /\ \A m, k \in 1 .. n : m < k => g[m] < g[k]
      /\ \A k \in DOMAIN list : LoadedAt(k) => \E m \in 1 .. n : g[m] = k
  BY DEF LoadedBy
<1>3. PICK a \in DOMAIN list, b \in DOMAIN list : a = g[i-1] /\ b = g[i] /\ a < b
  <2>1. i - 1 \in 1 .. n /\ i \in 1 .. n /\ i - 1 < i
    OBVIOUS
  <2>2. QED
    BY <1>2, <2>1
<1>4. a \in Nat /\ b \in Nat
  BY <1>1
<1>5. ASSUME a + 1 < b PROVE FALSE
  <2>1. PICK k \in DOMAIN list : k = a + 1 /\ a < k /\ k < b
    BY <1>1, <1>4, <1>5
  <2>2. LoadedAt(a) /\ LoadedAt(b)
    BY <1>2, <1>3
  <2>3. LoadedAt(k)
    <3>1. a <= k /\ k <= b
      BY <1>4, <2>1
    <3>2. QED
      BY <2>2, <3>1, Contiguous
  <2>4. PICK m \in 1 .. n : g[m] = k
    BY <1>2, <2>3
  <2>5. CASE m <= i - 1
    <3>1. m = i - 1 \/ m < i - 1
      BY <2>5
    <3>2. k = a \/ k < a
      BY <1>2, <1>3, <2>4, <3>1
    <3>3. QED
      BY <1>4, <2>1, <3>2
  <2>6. CASE i <= m
    <3>1. m = i \/ i < m
      BY <2>6
    <3>2. k = b \/ b < k
      BY <1>2, <1>3, <2>4, <3>1
    <3>3. QED
      BY <1>4, <2>1, <3>2
  <2>7. QED
    BY <2>5, <2>6
<1>6. QED
  BY <1>3, <1>4, <1>5

LEMMA LoadableShifted ==
    ASSUME Settled, ShiftInv
    PROVE  Shifted(Loadable) /\ IsFiniteSet(GreatAlignments)
<1>1. SectionTypes /\ LoopTypes /\ ListInv /\ PlaceTypes /\ Addressed /\ phase = "program headers"
  BY DEF Settled, Addressed
<1>2. PICK s \in Seq(Ids) : s = Loadable
  BY LoadedChain
<1>3. PICK n \in Nat : n = Cardinality(Loaded) /\ DOMAIN s = 1 .. n
  <2>1. Len(s) = Cardinality(Loaded)
    BY <1>1, <1>2, LoadableCounted
  <2>2. QED
    BY <2>1
<1>4. PICK g : LoadedBy(n, g)
  BY <1>1, <1>3, LoadableCounted
<1>5. /\ \A i \in 1 .. n : g[i] \in DOMAIN list /\ s[i] = list[g[i]] /\ LoadedAt(g[i])
      /\ \A i, j \in 1 .. n : i < j => g[i] < g[j]
  BY <1>2, <1>4 DEF LoadedBy
<1>6. ASSUME NEW i \in 1 .. n
      PROVE  s[i] \in Ids /\ Alloc(s[i]) /\ s[i] \in Loaded
  <2>1. PICK m \in DOMAIN list : m = g[i] /\ s[i] = list[m] /\ LoadedAt(m)
    BY <1>5
  <2>2. list[m] \in Ids
    BY <1>1, ListFacts
  <2>3. list[m] \in InList
    BY <1>1, <2>1, ListFacts DEF InList
  <2>4. QED
    BY <2>1, <2>2, <2>3 DEF Loaded, LoadedAt
<1>7. ASSUME NEW i \in 1 .. n
      PROVE  /\ addr[s[i]] \in Nat /\ offset[s[i]] \in Nat
             /\ AddrOf(s[i]) = addr[s[i]] /\ AlignOf(s[i]) \in Nat \ {0}
             /\ AlignOf(s[i]) > Page => AlignOf(s[i]) \in GreatAlignments
  <2>1. addr[s[i]] \in Nat /\ offset[s[i]] \in Nat /\ AddrOf(s[i]) = addr[s[i]]
    BY <1>2, <1>3, LoadedChain
  <2>2. AlignOf(s[i]) \in Nat \ {0}
    BY <1>1, <1>6, ChunkTypes
  <2>3. QED
    BY <1>6, <2>1, <2>2 DEF GreatAlignments
<1>8. \A i, j \in 1 .. n : AlignOf(s[i]) <= AlignOf(s[j]) => AlignOf(s[j]) % AlignOf(s[i]) = 0
  BY <1>1, <1>6, AlignmentsDivide
<1>9. ASSUME NEW i \in 1 .. n, NEW j \in 1 .. n, NEW k \in 1 .. n, i < j, j < k,
             PhdrFlags(s[i]) = PhdrFlags(s[k])
      PROVE  PhdrFlags(s[j]) = PhdrFlags(s[i])
  <2>1. PICK x \in DOMAIN list, y \in DOMAIN list, z \in DOMAIN list :
           x = g[i] /\ y = g[j] /\ z = g[k]
    BY <1>5
  <2>2. /\ x < y /\ y < z /\ LoadedAt(x) /\ LoadedAt(y) /\ LoadedAt(z)
        /\ s[i] = list[x] /\ s[j] = list[y] /\ s[k] = list[z]
    BY <1>5, <1>9, <2>1
  <2>3. PhdrFlags(list[x]) = PhdrFlags(list[z])
    BY <1>9, <2>2
  <2>4. PhdrFlags(list[y]) = PhdrFlags(list[x])
    BY <1>1, <2>2, <2>3, RightsContiguous
  <2>5. QED
    BY <2>2, <2>4
<1>10. ASSUME NEW i \in 1 .. n, i > 1, PhdrFlags(s[i-1]) = PhdrFlags(s[i])
       PROVE  ShiftOf(s[i]) = ShiftOf(s[i-1]) \/ BreaksIn(s, i)
  <2>1. i \in 2 .. n /\ i - 1 \in 1 .. n
    BY <1>10
  <2>2. PICK k \in DOMAIN list : k = g[i] /\ g[i-1] = k - 1
    <3>1. g[i-1] = g[i] - 1
      BY <1>1, <1>4, <2>1, LoadedNext
    <3>2. QED
      BY <1>5, <3>1
  <2>3. s[i] = list[k] /\ s[i-1] = list[k-1] /\ LoadedAt(k) /\ LoadedAt(k-1)
    BY <1>5, <2>1, <2>2
  <2>4. SameRights(k) /\ Written(k)
    BY <1>1, <1>10, <2>3 DEF SameRights, Written
  <2>5. Shift(k) = Shift(k-1) \/ Breaks(k)
    BY <2>4 DEF ShiftInv
  <2>6. Shift(k) = ShiftOf(s[i]) /\ Shift(k-1) = ShiftOf(s[i-1])
    BY <2>3 DEF Shift, ShiftOf
  <2>7. Breaks(k) => BreaksIn(s, i)
    BY <2>3, <2>6 DEF Breaks, BreaksIn
  <2>8. QED
    BY <2>5, <2>6, <2>7
<1>11. Shifted(s)
  BY <1>3, <1>7, <1>8, <1>9, <1>10 DEF Shifted
<1>12. IsFiniteSet(GreatAlignments)
  <2>1. PICK S : S = {d \in Loaded : AlignOf(d) > Page}
    OBVIOUS
  <2>2. IsFiniteSet(S)
    BY <1>1, <2>1, LoadableCounted, FS_Subset
  <2>3. PICK f : f = [c \in S |-> AlignOf(c)]
    OBVIOUS
  <2>4. GreatAlignments = {f[c] : c \in S} /\ DOMAIN f = S
    BY <2>1, <2>3 DEF GreatAlignments
  <2>5. QED
    BY <2>2, <2>4, ImageFinite
<1>13. QED
  BY <1>2, <1>11, <1>12

\* Behind a break, all chunks of the same rights are shifted by a multiple of its
\* alignment: a later break is aligned for more.
LEMMA Growth ==
    ASSUME NEW s, Shifted(s), NEW i \in DOMAIN s, NEW k \in DOMAIN s, i <= k,
           BreaksIn(s, i), PhdrFlags(s[k]) = PhdrFlags(s[i])
    PROVE  ShiftOf(s[k]) % AlignOf(s[i]) = 0
<1> DEFINE Reached(m) == i + m \in DOMAIN s /\ PhdrFlags(s[i+m]) = PhdrFlags(s[i])
           Done == {m \in Nat : Reached(m) => ShiftOf(s[i+m]) % AlignOf(s[i]) = 0}
<1>1. PICK n \in Nat : DOMAIN s = 1 .. n
  BY DEF Shifted
<1>2. 0 \in Done
  <2>1. i + 0 = i
    BY <1>1
  <2>2. QED
    BY <2>1 DEF BreaksIn
<1>3. ASSUME NEW m \in Done PROVE m + 1 \in Done
  <2>1. m \in Nat /\ (Reached(m) => ShiftOf(s[i+m]) % AlignOf(s[i]) = 0)
    OBVIOUS
  <2>2. SUFFICES ASSUME Reached(m + 1) PROVE ShiftOf(s[i+(m+1)]) % AlignOf(s[i]) = 0
    BY <2>1
  <2>3. PICK p \in 1 .. n, q \in 1 .. n : p = i + m /\ q = i + (m + 1) /\ p = q - 1 /\ q > 1 /\ i <= p
    BY <1>1, <2>1, <2>2
  <2>4. PhdrFlags(s[q]) = PhdrFlags(s[i])
    BY <2>2, <2>3
  <2>5. PhdrFlags(s[p]) = PhdrFlags(s[i])
    <3>1. i = p \/ (i < p /\ p < q)
      BY <1>1, <2>3
    <3>2. QED
      BY <1>1, <2>4, <3>1 DEF Shifted
  <2>6. ShiftOf(s[p]) % AlignOf(s[i]) = 0
    BY <1>1, <2>1, <2>3, <2>5
  <2>7. ShiftOf(s[q]) = ShiftOf(s[p]) \/ BreaksIn(s, q)
    BY <1>1, <2>3, <2>4, <2>5 DEF Shifted
  <2>8. CASE BreaksIn(s, q)
    <3>1. PICK a \in Nat \ {0}, b \in Nat \ {0} : a = AlignOf(s[i]) /\ b = AlignOf(s[q])
      BY <1>1 DEF Shifted
    <3>2. PICK x \in Int, y \in Int : x = ShiftOf(s[p]) /\ y = ShiftOf(s[q])
      <4>1. /\ addr[s[p]] \in Nat /\ offset[s[p]] \in Nat
            /\ addr[s[q]] \in Nat /\ offset[s[q]] \in Nat
        BY <1>1 DEF Shifted
      <4>2. QED
        BY <4>1 DEF ShiftOf
    <3>3. x % a = 0 /\ y % b = 0 /\ x % b # 0
      BY <2>3, <2>6, <2>8, <3>1, <3>2 DEF BreaksIn
    <3>4. (a <= b => b % a = 0) /\ (b <= a => a % b = 0)
      BY <1>1, <3>1 DEF Shifted
    <3>5. ~(b <= a)
      BY <3>3, <3>4, DividesTransitive
    <3>6. b % a = 0
      BY <3>4, <3>5
    <3>7. y % a = 0
      BY <3>3, <3>6, DividesTransitive
    <3>8. QED
      BY <2>3, <3>1, <3>2, <3>7
  <2>9. QED
    BY <2>3, <2>6, <2>7, <2>8
<1>4. Done = Nat
  <2>1. Done \in SUBSET Nat
    OBVIOUS
  <2> HIDE DEF Done
  <2>2. QED
    BY <1>2, <1>3, <2>1, Induction
<1>5. PICK m \in Nat : i + m = k
  <2>1. PICK x \in Nat, y \in Nat : x = i /\ y = k /\ x <= y
    BY <1>1
  <2>2. y - x \in Nat /\ x + (y - x) = y
    BY <2>1
  <2>3. QED
    BY <2>1, <2>2
<1>6. m \in Done
  BY <1>4
<1>7. QED
  BY <1>5, <1>6

\* A PT_LOAD that begins behind a chunk of its rights begins with a break.
LEMMA StartBreaks ==
    ASSUME NEW s, Shifted(s), NEW f, IsStart(f, s), NEW i \in DOMAIN s, f[i] = i, i > 1,
           PhdrFlags(s[i-1]) = PhdrFlags(s[i])
    PROVE  BreaksIn(s, i)
<1>1. PICK n \in Nat : n = Len(s) /\ DOMAIN s = 1 .. n
  BY DEF Shifted
<1>2. PICK j \in 1 .. n : j = i - 1 /\ i \in 1 .. n
  BY <1>1
<1>3. f[i] = IF i > 1 /\ Joins(s[f[i-1]], s[i]) THEN f[i-1] ELSE i
  BY <1>1 DEF IsStart
<1>4. PICK a \in 1 .. n : a = f[j] /\ a <= j /\ (j = a \/ Joins(s[a], s[j]))
  <2>1. f[j] \in 1 .. j /\ \A k \in f[j] .. j : k = f[j] \/ Joins(s[f[j]], s[k])
    BY <1>1, <1>2, Stretch
  <2>2. PICK a \in 1 .. j : a = f[j]
    BY <2>1
  <2>3. j \in a .. j
    BY <1>2, <2>2
  <2>4. QED
    BY <1>2, <2>1, <2>2, <2>3
<1>5. ~Joins(s[a], s[i])
  <2>1. a # i
    BY <1>2, <1>4
  <2>2. QED
    BY <1>2, <1>3, <1>4, <2>1
<1>6. /\ addr[s[a]] \in Nat /\ addr[s[i]] \in Nat /\ addr[s[j]] \in Nat
      /\ offset[s[a]] \in Nat /\ offset[s[i]] \in Nat /\ offset[s[j]] \in Nat
      /\ AddrOf(s[a]) = addr[s[a]] /\ AddrOf(s[i]) = addr[s[i]] /\ AddrOf(s[j]) = addr[s[j]]
  BY <1>1, <1>2 DEF Shifted
<1>7. PhdrFlags(s[j]) = PhdrFlags(s[a]) /\ ShiftOf(s[j]) = ShiftOf(s[a])
  <2>1. CASE j = a
    BY <2>1
  <2>2. CASE Joins(s[a], s[j])
    <3>1. /\ PhdrFlags(s[j]) = PhdrFlags(s[a])
          /\ offset[s[j]] - offset[s[a]] = addr[s[j]] - addr[s[a]]
      BY <1>6, <2>2 DEF Joins
    <3>2. QED
      BY <1>6, <3>1 DEF ShiftOf
  <2>3. QED
    BY <1>4, <2>1, <2>2
<1>8. PhdrFlags(s[i]) = PhdrFlags(s[a])
  BY <1>2, <1>7
<1>9. offset[s[i]] - offset[s[a]] # addr[s[i]] - addr[s[a]]
  BY <1>5, <1>6, <1>8 DEF Joins
<1>10. ShiftOf(s[i]) # ShiftOf(s[a])
  BY <1>6, <1>9 DEF ShiftOf
<1>11. ShiftOf(s[i]) # ShiftOf(s[i-1])
  BY <1>2, <1>7, <1>10
<1>12. QED
  BY <1>11 DEF Shifted

Few(S, fs) == Cardinality({x \in S : x.flags = fs}) <= 1 + Cardinality(GreatAlignments)

\* Of the PT_LOAD of one kind of rights, each but the first begins with a break, and
\* no two of them with the same alignment.
LEMMA FewLoads ==
    ASSUME NEW s, Shifted(s), NEW f, IsStart(f, s), IsFiniteSet(GreatAlignments),
           NEW S, S = {LoadOf(s, f, j) : j \in EndsOf(s, f)}, NEW fs
    PROVE  Few(S, fs)
<1>1. PICK n \in Nat : n = Len(s) /\ DOMAIN s = 1 .. n
  BY DEF Shifted
<1>2. PICK E \in SUBSET (1 .. n) : E = {j \in EndsOf(s, f) : PhdrFlags(s[j]) = fs}
  BY <1>1 DEF EndsOf
<1>3. ASSUME NEW j \in E
      PROVE  /\ f[j] \in 1 .. j /\ f[f[j]] = f[j]
             /\ \A k \in f[j] .. j : PhdrFlags(s[k]) = fs
  <2>1. f[j] \in 1 .. j /\ \A k \in f[j] .. j : f[k] = f[j] /\ (k = f[j] \/ Joins(s[f[j]], s[k]))
    BY <1>1, <1>2, Stretch
  <2>2. PICK a \in 1 .. j : a = f[j]
    BY <2>1
  <2>3. \A k \in a .. j : PhdrFlags(s[k]) = PhdrFlags(s[a])
    BY <2>1, <2>2 DEF Joins
  <2>4. j \in a .. j /\ a \in a .. j /\ PhdrFlags(s[j]) = fs
    BY <1>2, <2>2
  <2>5. QED
    BY <2>1, <2>2, <2>3, <2>4
<1>4. \A i, j \in E : i < j => i < f[j]
  BY <1>1, <1>2, StretchEnds
<1>5. PICK h : h = [j \in E |-> IF f[j] > 1 /\ PhdrFlags(s[f[j]-1]) = fs
                                THEN AlignOf(s[f[j]]) ELSE 0]
  OBVIOUS
\* A start behind a chunk of its rights breaks.
<1>6. ASSUME NEW j \in E, f[j] > 1, PhdrFlags(s[f[j]-1]) = fs
      PROVE  BreaksIn(s, f[j]) /\ h[j] = AlignOf(s[f[j]]) /\ h[j] \in GreatAlignments /\ h[j] # 0
  <2>1. PICK a \in 1 .. n : a = f[j] /\ f[a] = a /\ a > 1 /\ PhdrFlags(s[a]) = fs
    <3>1. f[j] \in 1 .. j /\ f[f[j]] = f[j] /\ \A k \in f[j] .. j : PhdrFlags(s[k]) = fs
      BY <1>3
    <3>2. PICK a \in 1 .. j : a = f[j]
      BY <3>1
    <3>3. a \in a .. j /\ a \in 1 .. n
      BY <1>2
    <3>4. QED
      BY <1>6, <3>1, <3>2, <3>3
  <2>2. BreaksIn(s, a)
    BY <1>1, <1>6, <2>1, StartBreaks
  <2>3. AlignOf(s[a]) \in GreatAlignments /\ AlignOf(s[a]) # 0
    BY <1>1, <2>2 DEF BreaksIn, Shifted
  <2>4. QED
    BY <1>5, <1>6, <2>1, <2>2, <2>3
\* All but the first are such.
<1>7. ASSUME NEW i \in E, NEW j \in E, i < j
      PROVE  f[j] > 1 /\ PhdrFlags(s[f[j]-1]) = fs
  <2>1. PICK a \in 1 .. n : a = f[j] /\ a <= j /\ i < a
    <3>1. f[j] \in 1 .. j /\ j \in 1 .. n
      BY <1>2, <1>3
    <3>2. QED
      BY <1>4, <1>7, <3>1
  <2>2. PICK b \in 1 .. n : b = a - 1 /\ i \in 1 .. n /\ j \in 1 .. n /\ i <= b /\ b < j /\ a > 1
    BY <1>2, <2>1
  <2>3. PhdrFlags(s[i]) = fs /\ PhdrFlags(s[j]) = fs
    BY <1>2
  <2>4. PhdrFlags(s[b]) = fs
    <3>1. i = b \/ i < b
      BY <2>2
    <3>2. i < b => PhdrFlags(s[b]) = PhdrFlags(s[i])
      BY <1>1, <2>2, <2>3 DEF Shifted
    <3>3. QED
      BY <2>3, <3>1, <3>2
  <2>5. QED
    BY <2>1, <2>2, <2>4
<1>8. ASSUME NEW i \in E, NEW j \in E, i < j PROVE h[i] # h[j]
  <2>1. f[j] > 1 /\ PhdrFlags(s[f[j]-1]) = fs
    BY <1>7, <1>8
  <2>2. BreaksIn(s, f[j]) /\ h[j] = AlignOf(s[f[j]]) /\ h[j] # 0
    BY <1>6, <2>1
  <2>3. CASE ~(f[i] > 1 /\ PhdrFlags(s[f[i]-1]) = fs)
    <3>1. h[i] = 0
      BY <1>5, <2>3
    <3>2. QED
      BY <2>2, <3>1
  <2>4. CASE f[i] > 1 /\ PhdrFlags(s[f[i]-1]) = fs
    <3>1. BreaksIn(s, f[i]) /\ h[i] = AlignOf(s[f[i]])
      BY <1>6, <2>4
    <3>2. PICK a \in 1 .. n, b \in 1 .. n, k \in 1 .. n :
             a = f[i] /\ b = f[j] /\ k = b - 1 /\ a <= k /\ PhdrFlags(s[a]) = fs
      <4>1. f[i] \in 1 .. i /\ f[j] \in 1 .. j /\ i < f[j] /\ i \in 1 .. n /\ j \in 1 .. n
        BY <1>2, <1>3, <1>4, <1>8
      <4>2. PICK a \in 1 .. i, b \in 1 .. j : a = f[i] /\ b = f[j] /\ i < b
        BY <4>1
      <4>3. a \in 1 .. n /\ b \in 1 .. n /\ b - 1 \in 1 .. n /\ a <= b - 1 /\ a \in a .. i
        BY <4>1, <4>2
      <4>4. PhdrFlags(s[a]) = fs
        BY <1>3, <4>2, <4>3
      <4>5. QED
        BY <4>2, <4>3, <4>4
    <3>3. PhdrFlags(s[k]) = PhdrFlags(s[a])
      BY <2>1, <3>2
    <3>4. ShiftOf(s[k]) % AlignOf(s[a]) = 0
      BY <1>1, <3>1, <3>2, <3>3, Growth
    <3>5. ShiftOf(s[k]) % AlignOf(s[b]) # 0
      BY <2>2, <3>2 DEF BreaksIn
    <3>6. QED
      BY <2>2, <3>1, <3>2, <3>4, <3>5
  <2>5. QED
    BY <2>3, <2>4
<1>9. PICK T : T = GreatAlignments \union {0}
  OBVIOUS
<1>10. h \in Injection(E, T)
  <2>1. h \in [E -> T]
    <3>1. \A j \in E : h[j] \in T
      BY <1>5, <1>6, <1>9
    <3>2. QED
      BY <1>5, <3>1
  <2>2. ASSUME NEW i \in E, NEW j \in E, h[i] = h[j] PROVE i = j
    <3>1. i \in 1 .. n /\ j \in 1 .. n
      BY <1>2
    <3>2. ~(i < j) /\ ~(j < i)
      BY <1>8, <2>2
    <3>3. QED
      BY <3>1, <3>2
  <2>3. QED
    BY <2>1, <2>2 DEF Injection, IsInjective
<1>11. /\ IsFiniteSet(T) /\ Cardinality(T) <= 1 + Cardinality(GreatAlignments)
       /\ Cardinality(T) \in Nat /\ Cardinality(GreatAlignments) \in Nat
  <2>1. /\ IsFiniteSet(T)
        /\ Cardinality(T) = IF 0 \in GreatAlignments THEN Cardinality(GreatAlignments)
                            ELSE Cardinality(GreatAlignments) + 1
    BY <1>9, FS_AddElement
  <2>2. Cardinality(T) \in Nat /\ Cardinality(GreatAlignments) \in Nat
    BY <2>1, FS_CardinalityType
  <2>3. QED
    BY <2>1, <2>2
<1>12. IsFiniteSet(E) /\ Cardinality(E) <= Cardinality(T)
  BY <1>10, <1>11, FS_Injection
<1>13. PICK U : U = {x \in S : x.flags = fs}
  OBVIOUS
<1>14. IsFiniteSet(U) /\ Cardinality(U) <= Cardinality(E)
  <2>1. PICK l : l = [j \in E |-> LoadOf(s, f, j)]
    OBVIOUS
  <2>2. \A j : LoadOf(s, f, j).flags = PhdrFlags(s[j])
    BY DEF LoadOf, Segment
  <2>3. \A j \in E : l[j] \in U
    BY <1>2, <1>13, <2>1, <2>2
  <2>4. \A x \in U : \E j \in E : l[j] = x
    BY <1>2, <1>13, <2>1, <2>2
  <2>5. l \in Surjection(E, U)
    BY <2>1, <2>3, <2>4 DEF Surjection
  <2>6. QED
    BY <1>12, <2>5, FS_Surjection
<1>15. Cardinality(U) \in Nat /\ Cardinality(E) \in Nat
  BY <1>12, <1>14, FS_CardinalityType
<1>16. QED
  BY <1>11, <1>12, <1>13, <1>14, <1>15 DEF Few

\* The last round made few program headers.
FewInv ==
    phase \in Late /\ FewLoaded => \A fs :
        Cardinality({s \in segments : s.type = "load" /\ s.flags = fs})
            <= 1 + Cardinality(GreatAlignments)

LEMMA RepeatFew ==
    ASSUME IInv, ShiftInv, Repeat, FewLoaded, NEW fs
    PROVE  Cardinality({s \in segments' : s.type = "load" /\ s.flags = fs})
             <= 1 + Cardinality(GreatAlignments)
<1>1. /\ Settled /\ Addressed /\ SectionTypes /\ SizeTypes /\ PlaceTypes /\ LoopTypes /\ ListInv
      /\ phase = "program headers" /\ phase # "addresses" /\ UpdatePhdr
  BY DEF IInv, TypeOK, Settled, Addressed, Repeat
<1>2. PICK order \in Orders : segments' = Loads(order) \union TlsSegments
  BY <1>1 DEF UpdatePhdr
<1>3. order = Loadable
  BY <1>1, <1>2, StableOrder
<1>4. Shifted(order) /\ IsFiniteSet(GreatAlignments)
  BY <1>1, <1>3, LoadableShifted
<1>5. PICK f : /\ IsStart(f, order)
               /\ Loads(order) = {LoadOf(order, f, j) : j \in EndsOf(order, f)}
  <2>1. Len(order) \in Nat
    BY <1>4 DEF Shifted
  <2>2. QED
    BY <2>1, LoadsOfStart
<1>6. PICK S : S = {LoadOf(order, f, j) : j \in EndsOf(order, f)}
  OBVIOUS
<1>7. Few(S, fs)
  <2>1. Shifted(order) /\ IsStart(f, order) /\ IsFiniteSet(GreatAlignments)
    BY <1>4, <1>5
  <2>2. QED
    BY <1>6, <2>1, FewLoads, Zenon
<1>8. \A s \in TlsSegments : s.type = "tls"
  BY <1>1, TlsSegmentFacts
<1>9. \A s \in S : s.type = "load"
  <2>1. \A j : LoadOf(order, f, j).type = "load"
    BY DEF LoadOf, Segment
  <2>2. QED
    BY <1>6, <2>1
<1>10. {s \in segments' : s.type = "load" /\ s.flags = fs} = {x \in S : x.flags = fs}
  BY <1>2, <1>5, <1>6, <1>8, <1>9
<1>11. QED
  BY <1>7, <1>10 DEF Few

LEMMA FewStep == IInv /\ ShiftInv /\ FewInv /\ [Next]_vars => FewInv'
<1> SUFFICES ASSUME IInv, ShiftInv, FewInv, [Next]_vars, phase' \in Late, FewLoaded', NEW fs
             PROVE  Cardinality({s \in segments' : s.type = "load" /\ s.flags = fs})
                      <= 1 + Cardinality(GreatAlignments')
  BY DEF FewInv, Late
<1>1. /\ section' = section /\ list' = list
      /\ (phase \in Late /\ segments' = segments) \/ Repeat
  BY IntoLate
<1>2. Loaded' = Loaded /\ GreatAlignments' = GreatAlignments
  <2>1. Loaded' = Loaded
    BY <1>1, Unmoved
  <2>2. \A c : AlignOf(c)' = AlignOf(c)
    BY <1>1 DEF AlignOf
  <2>3. QED
    BY <2>1, <2>2 DEF GreatAlignments
<1>3. FewLoaded
  BY <1>2 DEF FewLoaded
<1>4. CASE Repeat
  BY <1>2, <1>3, <1>4, RepeatFew
<1>5. CASE phase \in Late /\ segments' = segments
  BY <1>2, <1>3, <1>5 DEF FewInv
<1>6. QED
  BY <1>1, <1>4, <1>5

LEMMA FewInit == Init => FewInv
BY DEF Init, FewInv, Late

\* Of one kind of rights there is one PT_LOAD, and one more at most for each alignment
\* that is greater than a page: as long as std::sort keeps the order of chunks that
\* have the same address.
THEOREM FewSegmentsCorrect == Spec => [](FewLoaded => FewSegments)
<1>1. Init => IInv /\ ShiftInv /\ FewInv
  BY InvariantInit, ShiftInit, FewInit
<1>2. (IInv /\ ShiftInv /\ FewInv) /\ [Next]_vars => (IInv /\ ShiftInv /\ FewInv)'
  BY InvariantStep, ShiftStep, FewStep
<1>3. IInv /\ ShiftInv /\ FewInv => (FewLoaded => FewSegments)
  BY DEF FewInv, FewSegments, Late, GreatAlignments
<1>4. QED
  BY <1>1, <1>2, <1>3, PTL DEF Spec
=============================================================================
